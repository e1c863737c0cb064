# Verification of supabase-auth-kit

TLA+ models of the kit, from the SQL that decides to the HTTP status a caller sees, the TLC runs that check them and
the TLAPS proofs about them.
Paths are relative to the repository. In this file

| short | file |
|---|---|
| F | `src/apps/installer/supabase/schemas/001_auth_kit_functions.sql` |
| T | `src/apps/installer/supabase/schemas/000_auth_kit_tables.sql` |
| B | `src/apps/installer/supabase/migrations/20260907060000_auth_kit_bootstrap.sql` |
| IR | `src/apps/installer/README.md` |
| C/ | `src/packages/core/src/` |
| EX/, FA/ | `src/packages/express/src/`, `src/packages/fastify/src/` |
| S | `src/apps/installer/bin/install-migrations.ts` |

The SQL of `schemas/` is the reference; `migrations/` is generated from it except for the bootstrap rows.

## 1. The system

The kit puts multi-tenant authorization beside Supabase Auth. Its state and all its decisions are in one Postgres
schema, `authz`; the TypeScript packages verify a credential, ask the schema, and turn the answer into an HTTP outcome.

### Components

| Component | State | Operations | Talks to |
|---|---|---|---|
| Resolution (F:238-441, 1247-1268) | none of its own; reads all tables and `now()` | `tenant_chain`, `effective_roles`, `effective_scope_defs`, `bindings_in_force`, `effective_bindings`, `effective_scopes`, `has_scope`, `principal_is_active` | called by every write function, read function, policy, and by the core package |
| Write functions (F:161-220, 754-1784) | `tenants`, `roles`, `scopes`, `role_scopes`, `principals`, `api_keys`, `role_bindings` | grant, invite, revoke; create/update role; attach/detach scope; create scope; create/update tenant, create workspace; issue/revoke key; `provision_admin` | guards ask Resolution; every write appends to the audit log in its own transaction |
| Identity lifecycle (F:33-150, 892-973; T:5-30) | `users.auth_user_id`, `users.claimed_at`; `auth.users` of Supabase | trigger `on_auth_user_confirmed`, `invite_user`, `provision_admin`, `reclaim_identity`; account deletion through ON DELETE SET NULL | Supabase Auth fires the trigger inside its own transaction |
| Audit log (F:512-750; C/audit.ts) | `audit_logs` | `log_audit`, `log_audit_event`, `list_audit_logs`, `prune_audit_logs` | written by the write functions and by the guards' denials |
| API key verification (F:1669-1735) | `api_keys.last_used_at` | `verify_api_key` | called once per request by the core |
| Read functions (F:1786-2231) | none | keyset-paged lists of bindings, roles, scopes, tenants, users, keys | core's ActorApi |
| Row level security policies | none | predicates over `has_scope` | Postgres, for roles with table privileges |
| Request pipeline (C/guard.ts, context.ts, identity.ts, tenant.ts, authorize.ts) | per request: principal, memo of scopes by tenant | resolve principal, five-branch guard, denial row | SQL through a transport; Express and Fastify bindings |
| Transports, errors | none | pg and PostgREST calls | database |
| Express, Fastify bindings | per request: the attached context; the `next` latch of `wrapAsync` | middleware and hooks | request pipeline |
| Installer (S) | files of the project's migrations directory | copy what is missing under new versions | file system |

### What is hard, and what makes each part correct

* **Resolution.** One upward walk must collapse a definition by levels: a tenant that does not inherit lets only
  *crossing* roles through from above, the cut applies when the walk leaves the tenant that carries the flag, and
  it is latched. Definitions shadow one another by name, after that filter, while bindings never do. Correct: the
  walk visits all ancestors, `crossed` is exact, the nearest visible definition of a name wins, and what holds at a
  tenant follows from its own rows and its parent.
* **Write functions.** The danger is in sequences of calls that are each legal: define, attach, grant, restructure,
  cut; and in two calls at once, since a guard is a statement of its own and reads what is committed when it starts.
  Correct: nobody acquires what no actor of the sequence could hand on; nobody below takes anything from
  above; the operator is never shut out; withdrawing calls never grant; a revocation stands until it is
  deliberately undone, on record; and a race gives nobody what no order of the calls would.
* **Identity lifecycle.** Statements of concurrent READ COMMITTED transactions meet on two unique indexes and a
  foreign key. Correct: one account stands behind at most one identity, an identity that lost its account is not
  handed to whoever registers the address next, an invited identity is claimed, and transactions end.
* **Audit log.** Rows are written by the transaction they describe but read by time, while `created_at` is the
  start of the transaction; pruners on several replicas overlap. Correct: every hole is recorded with its exact
  size, nothing left means nothing left, loops end, a listing repeats nothing and misses nothing that stayed.
* **Request pipeline.** Order of the guard's branches, a memo that must not outlive the request, a denial row
  written before the refusal and never replacing it, failures that must not look like refusals. Correct: a handler
  runs only for somebody entitled at a moment since the request arrived, and a refusal is true of such a moment.
* **Bindings and installer.** A latch against a second `next`; versions that sort after everything installed, over
  crashes, upgrades and a project that dates its own migrations ahead.

`PROJECT.json` lists the hazards line by line, with the property that watches each.

## 2. Modules

```
 Resolution  tables and the read side, stated by what it computes
   |-- ChainWalk -.-- MCChainWalk     the recursive query, row by row, against Resolution
  |             '-- ChainWalkProofs    theorems: the query computes the sets, for every tree
   '-- Authz -----.-- MCAuthz -- AuthzClaims     the write functions; instances; a claim the code does not keep
        ^         '-- AuthzProofs              theorems about the state, and about who holds what
        '-- WriteRace -.-- MCWriteRace          two write functions at once, over instances of Authz
                       '-- WriteRaceProofs       theorems about the tables and about what a race can give
 IdentityLifecycle  what the kit promises about an address's identity
   '-- Identity -- MCIdentity -- IdentityProofs   statements of concurrent transactions, which implement it; theorems
 Outcomes  transports and errors
   '-- Routes  credentials, tenants, guards
         |-- Access   what the kit promises about a request
         '-- Request -.-- MCRequest    the pipeline, await by await, which implements it
                      '-- RequestProofs -- RequestAccess     theorems about a request; the refinement of Access
 AuditLog -.-- MCAuditLog              writers, retention jobs and a paging reader
            '-- AuditLogProofs            theorems about rows, retention and listings
 Installer -.-- MCInstaller            the install command
            '-- InstallerProofs           theorems about its runs
```

### Resolution

A table is a function from the ids of its rows to the rows; DOMAIN is the set of rows there are. `Put` is insert or
update of one row. A `principals` row exists exactly with its `users` or `api_keys` row and shares an id with it.
`Above(t)` and `Uncut(t)` are the tenants `tenant_chain` visits, and those it visits with `crossed = false`, as
smallest sets closed upward: that is what makes them usable in proofs. `EffectiveRoles`, `EffectiveScopeDefs`,
`BindingsInForce`, `EffectiveBindings`, `EffectiveScopes`, `HasScope` and `PrincipalIsActive` carry the names of the
SQL functions. `None` is SQL null. Names of roles and scopes, which are unique where the code's indexes make them
so, are model values or strings; display names, descriptions and other payload columns are left out.

### ChainWalk, MCChainWalk

`tenant_chain` as the recursive query it is: `Begin` is the non-recursive term, one `Pass` joins the last row found
with its parent (`NextRow`, `HasNext` with the depth cap `MaxLevel`, 64 in the code). `RolesByDepth` and
`ScopesByDepth` are `effective_roles` and `effective_scope_defs` over the rows found, with `distinct on (name) ...
order by depth`. `ChildTenants` is the rule of `list_child_tenants`, which answers for a whole page on one check.
MCChainWalk starts from every tree of up to four tenants (one id more does not exist), every set of cuts and every
placement of two roles of one name and a grant, or of two scopes of one name and their attachments.

### Authz, MCAuthz, AuthzClaims

One action per SQL function that changes a table, with the function's name. Its guards are the function's checks
and the unique indexes that make the write fail, its primed variables the rows written, and `wrote` the audit rows
that `log_audit` adds before the transaction commits. A call that raises rolls back, so it is no step. `Init` is
the bootstrap migration. `actor` ranges over all principals: the functions take the actor as an argument from a
trusted server and check only what it holds. Account events (`ClaimAuthUser`, `DeleteAccount`, `SwitchOff`), the
operator's `ReclaimIdentity` and `ProvisionAdmin`, and `Tick` write no audit row and leave `wrote` empty, which is
how properties set them aside. Each action is atomic here; WriteRace takes the statements apart.

MCAuthz starts from the bootstrap and a few calls of the operator (`Prepared`), so that the few calls a run explores
reach interesting cases, or from the bootstrap alone with `BootCalls` calls to make. AuthzClaims holds a statement
the repository makes that its code does not keep.

### WriteRace, MCWriteRace

`grant_role`, `revoke_binding`, `add_role_scope`, `remove_role_scope`, `update_role` (its `crosses_boundary`) and
`update_tenant` (its `inherit`), statement by statement in two sessions: `Begin` is the call's first select, which
remembers the column the checks and the write go by (`Column`); each `Check` is one guard over what is committed then;
`Write` waits for another transaction's row (`Waits`) and takes it; `Commit` makes it visible. `now()` is `began`. The
database is a record, and `At(st, t)` is Authz over the tables of `st` in a transaction that began at `t`, so every
guard is the operator the atomic model uses, and `IsDatabase` is the type invariant that every call of Authz keeps.
The calls name rows that exist (`IsCall`), since those tables lose none.

`InTurn` is a call as one step, and `Turns` what two calls would have made of the database one after the other. Its guards are
in two parts: what the actor holds (`Entitled`) is asked of the database the call finds, and whether the name means the
definition that was passed (`Visible`) may be asked of an earlier one (`Looked`). The statements are separate, and a
definition may be hidden between them (section 5).

The calls that only create (roles, scopes, tenants, workspaces, keys, identities) write no row another call reads its
flags from, and are left to Authz, as are names and the key locks of foreign keys.

### IdentityLifecycle, Identity, MCIdentity

IdentityLifecycle is the abstract promise: provision, claim once, retire, reclaim on purpose. Identity runs the
trigger `claim_auth_user`, `invite_user`, `provision_admin` and `reclaim_identity` statement by statement in
sessions. A transaction's uncommitted row is in `txn[s].row`; other sessions' statements do not see it but wait for
its row or unique key (`Contended`, `ContendedLink`), and go by what is there when it ends, which is how READ
COMMITTED treats UPDATE, INSERT and ON CONFLICT DO NOTHING. A raised exception returns the session to `Idle` with
nothing changed. `Identity!users` is the identity table at the level of detail the lifecycle needs; in Authz the
same columns are `linked` and `claimed`. MCIdentity chooses one of three settings at the start: one transaction at a
time with reclaims, two sessions without, two sessions with. What holds differs: a reclaim beside a deletion may hand
on what has just been retired, and a claim beside an invitation may miss it.

### Outcomes, Routes

The pure part of the pipeline. Outcomes: a transport's answer becomes a settled promise (`FromQuery`, `FromSupabase`,
`Transport`), a database failure a typed error (`TypedError`), an error a status (`StatusOf`). An error is its class,
or the driver's code before it is typed. Routes: credentials from headers, a token's verification, the tenant hook,
and the guards as the bindings' factories make them. The authorization schema is external to it: a *world* is what it
would answer at one moment, the scopes by principal and tenant and the principal behind each key and account.

### Access, Request, MCRequest

Access is the promise: a handler runs only for somebody whom the credential named and who met every guard at some
moment since the request arrived (`views`); 401 is for no credential, 403 for one that named nobody or did not
suffice, 400 for no tenant, 500 only for a failure or for wiring that is missing. Request serves requests await by
await: `stage` is what a request waits for, `at` which middleware it is in. `Ask` and `Query` are the memo: the promise is
kept when the query is sent, and settles, or fails, once. `Deny` and `RecordDenial` write the row before the error goes
on; `LogAudit` never rejects, and its failure may lose the row or only the answer. `Write` is `call` of the write API:
the SQL guard refuses exactly who lacks the scope at that moment. The handler awaits all tasks at once, so a first
failure answers the request while the others go on. `Catch` is `wrapAsync`; `LateRejection` is middleware whose promise
rejects after it has called `next()`. The refinement maps `stage` and `at` to Access's phases.

A binding is a field of the route. Where Express and Fastify do the same thing through different mechanisms (a second
guard, an error handler) there is one action. A rejection is taken to be an error: a handler that rejects with
`undefined` would make Express go on, which the latch does not prevent and the model leaves out.

### AuditLog, MCAuditLog

Writers insert rows in transactions that end later (`Insert`, `EndWrite`); `at` is the start of the transaction, so a
row may appear below rows already seen. A job is the loop documented for `pruneAuditLogs`: a batch tries the lock of its
filter, selects the oldest unlocked rows and deletes them (`Batch`, `Commit`; a batch that has deleted something needs one of
the ids there are for its record, as an insert does), and the loop goes by the answer (`Stop`). A
failed or unanswered batch ends the loop, and `Rerun` starts it again. A reader pages through `list_audit_logs` by `page()`:
`Clamp` is the core's, `SqlLimit` the function's, and the cursor is the last row. A prune record's `created_at` is the
start of its own transaction; its id is one of the free ids.

### Installer, MCInstaller

`Run` reads both directories and plans, `BeginCopy` creates a target and `EndCopy` completes it, and `Crash` stops the
command between or within copies. Versions are scaled to two digits, a year and a second with six seconds to the year,
so that carrying (`ParseVersion` of a field past its range) happens, and the cut of a date past the last year. Names sort
by `Rank`, how many come before, which is what `sort()` computes and what the proofs can count. Files whose version is not fourteen digits, which
the command ignores, and the carrying of months and days are left out.

### Fault operators

Some definitions are preceded by variants whose comment starts with *Fault*. They are used by no specification.
Each is the definition with one plausible mistake (a dropped guard, a flag read the wrong way, `do nothing` for `do
update`), and each property is paired in `PROJECT.json` with the mistake it exposes.

## 3. Runs

| Run | What it asks | Bounds, and why they are enough |
|---|---|---|
| `chain_walk` | Does the recursive walk compute the closed sets (`WalkIsClosure`), does depth order pick the nearest definition (`NearestWins`), is one pass the compositional rule (`Compositional`), is the child list's shortcut exact (`ShortcutIsExact`)? | All trees of at most 4 tenants up to renaming, all cuts, two definitions of one name, one grant. A counterexample about shadowing or a cut needs two definitions, the tenant asked about, and a cut between: four levels. |
| `authz_everyone` | All properties of the write functions over any two calls by anybody, time and operator tools included, and over any four calls from the bootstrap. | Master, A, sub-tenant B cut or not, one tenant to create; a crossing role below the master; a member whose binding may be revoked. Each property speaks of one step, and the initial states already contain what several calls build. From nothing, four calls are the shortest path to an administrator of a workspace and a revoked grant: provision, confirm, create, revoke. |
| `authz_tenant_level` | Can those below the operator, with three calls of their own, escalate or take from above? | As above with a second role to create, B cut, no operator, and no expiry, since time stands still. Three calls allow create, attach, grant. |
| `identity` | The three settings of MCIdentity. | Two addresses; three accounts in turn, enough to delete one and register its address twice; two otherwise, since every conflict in the code is between two transactions. |
| `write_race` | Two calls at once: what can a race give, and what can it lose? | Six databases (the member's binding absent, live, expiring, revoked; a role crossing, of the master's name, or hiding the master's once a cut is undone; B cut or not) and 25 calls by the operator, two administrators and the member, in every pair; one tick. Conflicts are between two transactions over one row or one row and one guard. The theorems of section 4 are about every database and every pair. |
| `request` | Does the pipeline implement `Access`; do refusals reach the log, and only refusals; one view and one answer per request? | One request of 14 inputs (every guard, both bindings, both kinds of tenant hook, keys, tokens in every way unacceptable, missing middleware) beside one public request of the same principal; one change of what the database answers, one failing call with a wiring code or none. One of each suffices for a stale or failed answer to reach the wrong place. Denials are on: off, no row is written. |
| `audit_log` | Holes recorded, zero final, loops end, listings complete. | Three casts: two global jobs, a global and a tenant's, a global and a reader; rows of one moment, of a tenant and of none; one row written meanwhile, one fault, four ids. Pages hold at most two rows, so a page boundary falls inside a tie. |
| `installer` | Nothing twice, always behind, complete runs, everything there. | Three migrations, then five; two crashes; two migrations of the project's own, one dated ahead of the clock with a field that carries. |
| `claim_provision`, `claim_race`, `claim_crossing`, `claim_revoked_at` | Section 5. | |

`CHECK_DEADLOCK` is FALSE where exploration ends by design: when the calls are used up, when the walk has found its last
row, when all requests are answered, calls ended, loops done. In the Identity runs a state without successor would be
a deadlock of sessions, and it is checked. `write_race` takes its two sessions for alike (`Alike`), which no action or
property tells apart.

All bounds: `MaxCalls`, `BootCalls` (calls explored), `MaxTime`, `MaxClock` (clock ticks), `MaxFaults`, `MaxChanges`, `MaxWrites`,
`MaxOwn`, `MaxCrashes`, `DefaultLimit` and `MaxLimit` (1 and 2 for the code's 100 and 1000), the id sets of each cfg, and
`MaxLevel` (the code's own 64).

### Properties of the write functions

* `NothingFromOtherBranches` - bindings and attachments bring to a tenant only what is defined at or above it.
* `GrantTakesEffect` - a grant that returned is in force, a previously revoked one included.
* `GainsAccountedFor` - for every principal that newly holds a scope at a tenant, who could hand it on, and how.
* `LossesComeFromAbove` - a loss comes from authority at or above the binding that conferred the scope, or from a
  cut that the loser can undo from the parent.
* `OperatorReach` - what is held through a crossing master role at the master is lost only to master authority.
* `NarrowingNarrows` - revocation, detachment and cuts give nobody anything anywhere.
* `RevocationStands` - the first revocation time survives retries; only a recorded new grant clears it.
* `RacesGiveNothing` - after two calls at once nobody holds what they did not hold before and neither order gives, wherever
  each call looked its name up.
* `OnlyWithdrawalsRace` - a result no order gives has a withdrawing call in it: what races lose is withdrawals. It
  says nothing of a pair with a withdrawing call, and could not: a revocation can be overtaken by the grant of the one it
  revokes, and two administrators can revoke each other.

`GainsAccountedFor` has one disjunct per legitimate way. Two are wider than "the actor holds it there": authority
over a definition of the name (`owns it`, F:797-820), and holding it at the tenant of the role or binding it
comes through. The second is needed because roles are live: a scope attached to a role at its tenant is held at once
wherever the role is bound, which the code intends.

### Properties of the other parts

* Identity: `LinksAreSound`, `ImplementsLifecycle`, `WaitingIsClaimedInTurn`, `TransactionsEnd`.
* Request: `ImplementsAccess` (the refinement), `OneViewPerTenant` (the memo gives one answer, of one moment, at the cost of
  one query), `DenialsReachLog`, `RowsAreRefusals` (a row tells of a refusal that happened, under the right tenant or none),
  `OneAnswer`, `EveryRequestAnswered`.
* AuditLog: `HolesAreRecorded`, `ZeroIsFinal` (modulo rows another filter's prune holds), `PagesDescend`, `PagesComplete`, `LoopsEnd`.
  `PagesComplete` is about rows that were there when the listing began: a row that commits later with an earlier
  `created_at` can be missed, by a page as by a window read before.
* Installer: `InstalledOnce`, `AlwaysLater`, `RunsAreComplete`, `EverythingInstalled`.

### Fairness and liveness

* Identity: WF on `Statement(s)` for each session, that is, the server goes on executing a transaction it has begun.
  Starting a transaction is never fair. `TransactionsEnd` needs the conflict rules to let a waiter proceed.
* Request: WF on `Step(r)`: the event loop runs what is ready, and every call of the database settles, if only by failing.
  Arrivals, changes and late rejections are never fair.
* AuditLog: WF on each job's batch and on the reader's next page. Ticks, writers and reruns are not fair; jobs are bounded
  by the rows there are, of which a batch that deletes something leaves fewer that it may delete.
* Installer: WF on running the command and on its copies; crashes are bounded by `MaxCrashes`.

## 4. Proofs

For every choice of the constants, hence for every number of tenants, roles, scopes, principals, jobs, rows and calls.
`AuthzProofs` proves every property of the write functions that Authz states:

| Theorem | Statement | Argument |
|---|---|---|
| `TypeCorrect` | `Spec => []TypeOK` | `TypeOK` is inductive by itself: one lemma per group of actions. Its content is referential: references exist, one root, audit rows name an existing actor and tenant. `ReferencesKept` carries over everything an action leaves alone. |
| `NothingForeign` | `Spec => []NothingFromOtherBranches` | Inductive together with `TypeOK`. `AboveChild`: a new leaf takes no ancestor from anybody, since an upward closed set stays closed when cut down to the old tenants. `AboveSame`: the ancestors depend on parents alone, which no call changes. `VisibleIsAbove` gives the new rows. |
| `Narrowing` | `Spec => NarrowingNarrows` | `NothingGained`: nobody gains where the bindings in force and the attachments shrink. For a cut, every set closed over inheriting tenants before is closed after, so `Uncut` shrinks (`CutNarrows`). |
| `RevocationKept` | `Spec => RevocationStands` | Per action; `GrantStands` ties the only clearing write to its audit row; `create_workspace` cannot meet an old binding because its tenant is new and references exist. |
| `GrantsTakeEffect` | `Spec => []GrantTakesEffect` | From `TypeCorrect`. `GrantConfers`: a live binding at a tenant is in the tenant's own part of the walk. `OthersTell`: no other call writes a row of `grant_role`. |
| `NoEscalation` | `Spec => GainsAccountedFor` | From `TypeCorrect`. `NotBefore`: the binding that confers what is new was not in force, did not confer it, or did not reach the tenant before; per action that is one of the disjuncts (`GainedBy...`). `ChainOrder`, `ChildChain` and `FlagChain` say how reach changes when a leaf is added or a flag flips. |
| `LossesFromAbove` | `Spec => LossesComeFromAbove` | From `TypeCorrect` and `NothingForeign`, which puts the role's tenant above the binding's. `GoesOn`: a binding left alone goes on conferring; `LostTo...` say per action who could disturb it (`Withdrawn`). For a cut, `FlagChain` finds the binding at the cut tenant's parent. |
| `OperatorNeverLockedOut` | `Spec => OperatorReach` | The same lemma `LostTo`, with binding and role at the master: a cut is no way, because the role crosses. |
| `OneTree` | `Spec => []Rooted` | Every tenant is below the master, none above its own parent, finitely many in all: a new leaf hangs below an existing tenant and nothing hangs below it (`RootedChild`), and no call changes a parent (`AboveSame`). |

`ChainWalkProofs` connects the sets those theorems speak of with the recursive query that computes them in the code. Its
inductive invariant is `WalkOK`: the tenants are finitely many, without a cycle, none deeper than the cap (`TreeOK`), each
row is of the parent of the one before and an unset flag is true (`RowsJoined`), and a later row is of an ancestor, with
the flag latched (`RowsRise`). Without `RowsRise` a walk could repeat a tenant, or clear a flag that it has set.
That the tree is one, which `TreeOK` takes as given, is what `OneTree` proves of the write functions; the cap is not.

| Theorem | Statement | Argument |
|---|---|---|
| `WalkTyped` | `Spec => []TypeOK` | Parts of `WalkOK`: two rows of one tenant would put it above its own parent (`RowsDiffer`). |
| `WalkComputesChain` | `Spec => []WalkIsClosure` | The rows found are ancestors (`RowsAreAbove`); at the end they are a set closed upward, and `Above` is the smallest (`AboveLeast`). No induction over the tree is needed: it is the walk's own. The cap does not end the walk early, because its rows are different ancestors (an injection), of which there are not more than the cap lets through. |
| `DepthPicksNearest` | `Spec => []NearestWins` | `order by depth` is the order of `Above`, since depths rise along the walk. |
| `PassIsCompositional` | `Spec => []Compositional` | `Above(t)` is `t` and `Above` of its parent, and so for `Uncut`, filtered by the flag. |
| `ShortcutLists` | `Spec => []ShortcutIsExact` | The compositional rule at a child that inherits: what is held at the parent is held there. |

`WriteRaceProofs` is about any database that calls of Authz may leave, any two sessions and any two calls of the six kinds.
It rests on an order: `Below(st, t, dt, u)` says that `dt` at time `u` misses nothing of what `st` has at `t` - attachments,
bindings in force, crossing flags, inheritance. Whoever holds something below holds it above (`HoldsBelow`), and every
call, seen at one moment, either only adds to its database (`GivingRaises`) or only takes from it (`TakingLowers`). A call that was let
through by two databases, and is not entitled in the one they make together, was entitled before: the other call
took something, or attached a scope to the very role it grants (`WasEntitled`).

The inductive invariant is `RaceOK`. `TypeOK` and the columns that no call changes (`SameFrame`) are not enough: nothing in
them says why a write is there. `Committed` says that what is committed is the writes of the calls that have ended, in
their order, each let through by databases committed before it; `SessionOK` says the same of the guards a call has passed so
far, that what its first select read was so then, and that a refused call would in turn do nothing; `Apart`, that
two calls never hold one row, without which one write would be computed from a row the other had changed.

| Theorem | Statement | Argument |
|---|---|---|
| `RaceTyped` | `Spec => []TypeOK` | Part of `RaceOK`; no run repeats it. A write is what Authz makes of one row (`WrittenIs`), and references only need rows that stay (`WrittenTyped`). |
| `NothingFromRaces` | `Spec => []RacesGiveNothing` | `Outcome`: when both have ended, the database is one that an order of the calls makes, or is below one, or below what there was. Where the writes are of two rows they commute (`Commute`), so the order in which both would have passed is the one to compare with; on one row the second write covers the first or puts back what was there (`PutsBack`). `BothWrote` takes the cases apart. |
| `OnlyWithdrawalsAreLost` | `Spec => []OnlyWithdrawalsRace` | The same `Outcome`: it is an order's database unless one of the calls takes something away. |

`IdentityProofs` is about any number of sessions, addresses and accounts. Its invariant `IdentityOK` adds to
`TypeOK` and `LinksAreSound` what every statement knows when it runs: what it has in hand by the point it has reached (`InReach`), that
a row it has written is still new to the table or still waits there, for an account nobody else has and that exists
(`Founded`), and that the rows of two sessions differ in address and account (`RowsApart`), which the waits at the two unique
indexes establish and without which two commits could link one account twice.

| Theorem | Statement | Argument |
|---|---|---|
| `IdentityTyped`, `LinksSound` | `Spec => []TypeOK`, `Spec => []LinksAreSound` | Parts of `IdentityOK`, which every statement, commit, rollback and deletion keeps. |
| `ServedInTurn`, `SerialServes` | `Spec /\ []InTurn => []WaitingIsClaimed`; `MCSpec => []WaitingIsClaimedInTurn` | `InTurnOK`: whoever confirmed is served, or the one transaction there is has the service in hand. Interleaved it is false, which `claim_race` shows. |
| `LifecycleWithoutReclaims`, `LifecycleInTurn`, `SettingsImplementLifecycle` | the statements implement `IdentityLifecycle`; `MCSpec => ImplementsLifecycle` | A commit is the abstract step its row was prepared for, because what it was founded on still stands; every other statement is a stutter. |

`RequestProofs` is about any routes, any number of requests and any changes of the database. `RequestOK` says of
each request what it has by its stage (`Sound`): a tenant is asked about once and what the memo holds was so at a moment in
`views` (`Remembers`), a task that was refused lacked the scope at one (`Tasked`), a refusal on its way to the log is the row
it will be (`Refused`); that a refusal which has gone on has its row or its report (`Delivered`); and of each row the
refusal it tells of (`Recorded`). None of the four properties holds by its own strength: whether a row is true depends on
what the request had seen steps before.

| Theorem | Statement | Argument |
|---|---|---|
| `RequestTyped` | `Spec => []TypeOK` | Part of `RequestOK`. |
| `OneViewEach` | `Spec => []OneViewPerTenant` | A second question finds the memo's promise, kept when the query was sent, not when it is answered. |
| `DenialsAreRecorded`, `RowsTellOfRefusals` | `Spec => []DenialsReachLog`, `Spec => []RowsAreRefusals` | The row is made at `Deny`, with the scopes that refused in `views`, and written by `RecordDenial`; the error goes on only from the stage behind it. |
| `AnsweredOnce` | `Spec => OneAnswer` | The stage after an answer has no step that answers; late calls of a handler find their request answered. |
| `PipelineImplementsAccess` (RequestAccess) | `Spec => ImplementsAccess` | `AccessOK` is what `Access` asks about and Request does not keep: the context is the credential's at a moment in `views` (`Known`), every guard passed was met at one (`Passed`), who is told of a failure had one (`Blamed`), the error carried is true of one (`Explained`). One lemma per action says which step of `Access` it is (`Follow...`). |

`AuditLogProofs` has two inductive invariants. `IInv` is about rows and retention: types, the rows a batch
has locked are still there, of its filter and disjoint from every other batch (`LocksHeld`), an empty batch found nothing
but what others held, the log is finite, and `ZeroIsFinal`. Without `LocksHeld` a batch could find its
rows gone when it deletes, and report zero while others remain. `PagesOK` is about the reader: what it has still to
read of what was there is below its cursor, and the cursor is its last row.

| Theorem | Statement | Argument |
|---|---|---|
| `LogTyped` | `Spec => []TypeOK` | Part of `IInv`. |
| `ZeroMeansDone` | `Spec => []ZeroIsFinal` | A batch deletes exactly what it locked (`DeletedRecorded`), so zero means an empty batch; the least share of a finite set is empty only if the set is (`OldestNonempty`), and the lock excludes batches of the same filter. |
| `DestroyedIsRecorded` | `Spec => HolesAreRecorded` | Only `Commit` takes rows; the record's id is fresh, so what is gone is what was deleted. |
| `NoRowTwice`, `NoRowMissed` | `Spec => []PagesDescend`, `Spec => []PagesComplete` | `NewestIs`: a page is the newest rows below the cursor, in order, and a page that is not full is all there are. A page is made by rank, how many rows come before; that every rank is taken is the pigeonhole principle (`RankTaken`), as two rows never share one (`RankIs`), however many share a moment. |

`InstallerProofs` is about any releases and any versions of the project's own. `RunOK`: what a run has still to copy is
exactly what is not there, in order; what it has copied is whole; and the version it will use next is behind every
version there is. A run killed anywhere leaves nothing of this to keep, because the next plans again from the files.

| Theorem | Statement | Argument |
|---|---|---|
| `InstallerTyped`, `NothingTwice` | `Spec => []TypeOK`, `Spec => []InstalledOnce` | A name that is ahead is not installed (`RunOK`); filling a copy changes no name (`NamesKept`). |
| `CompleteRuns` | `Spec => RunsAreComplete` | At the last copy nothing is ahead, so nothing is missing; copies behind are whole. |
| `CopiesBehind` | `Spec /\ []InCalendar => AlwaysLater` | The second after a version has a later version though a field carries (`NextIsLater`), and later times have later versions (`FormatAscends`), up to the last year. `InCalendar` says that runs stay there: past it the claim is false (section 5). |

Assumptions: `BootstrapIds`, `DistinctIds`, `ClockBounds` of Authz. They say that the migration's rows are among the
ids, that users and keys have different ids and null is none of the values, and that times are natural numbers.
`RaceBounds` of WriteRace says as much, `TwoSessions` that calls are taken in pairs, and `CallsTyped` that a call names
rows of the database it finds. `MaxLevelIsNat` and `NullIsNoTenant` of ChainWalk; its trees are no deeper than the cap, 64 in the code, which nothing
enforces (section 5): `TreeOK` is in `Init`, not assumed of the constants. `NullIsNoValue`, `NullIsNoRow` and
`ReclaimsIsBoolean` of Identity. `NullIsNoId` of Routes and `RequestBounds`, `InputsAreMade`, `FailuresFail`, `NullIsNoWord`,
`NullIsNoRecord`, `NullIsNoStatus` of Request: null is none of the values, inputs have the fields the code reads, and the
wiring codes a failing call may have are not the code of a refusal. `AuditBounds`, `NullIsNoRecord`, `CastsAreTyped` and
`ListingsAreTyped` of AuditLog say as much of options, cursors and the first rows. `InstallerBounds` and `DatesSuffice` of
Installer: packages are finite, and times are in the range of a Date. The runs of each module evaluate its assumptions.

Model-checked only: the liveness properties (`TransactionsEnd`, `EveryRequestAnswered`, `LoopsEnd`, `EverythingInstalled`),
since
fairness and ENABLED are out of the provers' reach. Every safety property of a passing run has a theorem.

## 5. Where the code and its documentation disagree

Each has a run that shows it.

1. **`provision_admin` after a revocation** (`claim_provision`). `on conflict do nothing` leaves the binding revoked
   and returns normally.
2. **Confirmation racing an invitation** (`claim_race`). Neither transaction sees the other; the account ends without
   identity and the identity waits although its account is confirmed, against IR:64. `reclaim_identity` repairs it.
3. **A flag passed unchanged** (`claim_crossing`). `update_role` judges whether `crosses_boundary` changes by what its first
   select read (F:1081) and writes it without looking again (F:1094). An administrator who passes the value it has read
   turns crossing on again when the operator turned it off meanwhile, against F:1076. The run starts where the role crosses
   (`CrossingDatabases`), so that is the direction TLC shows; the other has the same cause. `update_tenant` does the same with
   `inherit`, for a caller who needs no authority at all (F:1445, 1461). `RacesGiveNothing` still holds: what comes back is what
   was there before.
4. **Revocations at once** (`claim_revoked_at`). Both read `revoked_at` null, the second waits and overwrites it, against
   F:1488. `revoke_api_key` has the same shape (F:1767).

Seen while modelling, without a run of their own:

* F:276 calls the depth cap "a guard, not a limit", and IR:79 that a crossing role at the master is why the operator can
  never be locked out; nothing keeps `create_tenant` from building below depth 64, where the walk stops (F:280).
* F:1163 says the ownership clause cannot be turned on the built-ins. An operator may define an `authz.` name *at a tenant* (the check
  is for authority at the master, not for the master as owner); that tenant's administrator then owns the definition.
* IR:123 says nobody can cut a tenant off from the oversight above it and keep their own access. With a sub-tenant of
  one's own the parent whose authority is asked is one's own tenant. The overseer can undo it, which
  `LossesComeFromAbove` states.
* C/audit.ts:121 comments the end of the loop with "nothing left": a tenant's prune skips rows a global prune holds, and can
  get zero with its lock while they are there. `ZeroIsFinal` states what is left.
* S:26 cuts versions to fourteen digits; after a project's migration dated in the last second of 9999 the copies get a
  sign, two more digits, and a version that sorts first.
* A file the installer was killed in counts as installed when it runs again (S:82-97).
* `grant_role` accepts an `expires_at` in the past and thereby ends a live grant with only `authz.bindings.grant`, where
  F:1482 reasons about revocation having a scope of its own. A principal who re-grants its own binding while it is being
  revoked keeps it.
* A role of a tenant may cross cuts below it once an operator made it crossing.
* After an email change in Supabase Auth the identity keeps the old address (F:67-71), and an invitation of the new
  address provisions a second identity that the linked account cannot claim; T:14-16 still says an identity whose
  account is deleted "reverts to unclaimed".
* `grant_role` asks which definition a role's name means in one statement and what the actor holds in the next (F:788-820), and
  `add_role_scope` likewise (F:1147-1172). When a cut above the tenant is undone in between, a role of the workspace may have hidden
  the master's of the same name by then, while what the master's confers is held only from then on: the grant goes through,
  and no order of the two calls lets it. It hands on nothing the actor does not hold. The two properties of WriteRace therefore
  compare with orders in which a name may have been looked up at either moment; MCWriteRace's `Hiding` is such a database.
* `reclaim_identity` checks that the identity is unlinked and updates it two statements later, by id only (F:124-142).
* `update_tenant` with nothing to change asks for no authority and still writes its audit row, for any caller (F:1442-1475).

## 6. Not modelled

* **API key verification.** Request asks `verify_api_key` and uses its answer; the comparison of hashes and the throttle of
  `last_used_at`, which no decision reads, are left out.
* **The other lists.** They page by the same `page()` over other filters and other, immutable or renamed, sort keys.
* **Policies.** The installed posture gives no role but the owner privileges on the tables.
* **Values.** SQL text, conversion of dates and rows, messages, and the columns that only describe.
* **Construction.** The TypeErrors of `createAuthKit` for missing options, before anything is served.
* **Two installs at once.** The command takes no lock and plans from one reading of the directory (S:97-147). The model runs one
  command at a time, and the project's own migrations and upgrades of the package come between runs, not during one.
* **Generated migrations, tests, release tooling.** No protocol state.

## 7. State of the work, and what could follow

Modelled and checked: the write functions, the identity lifecycle, the audit log, the request pipeline with its transports and
bindings, the installer, and of resolution, key verification and reading what section 6 does not except. Proved: the theorems
of section 4, which state all the safety properties the passing runs check, and both refinements.

1. **WriteRace** with the creating calls, for the foreign keys' locks, and with more than two calls at once.
