----------------------------- MODULE WriteRace -----------------------------
(***************************************************************************)
(* Calls of the write functions that run at once.  A function is one       *)
(* transaction, but each of its statements reads what is committed when it *)
(* starts (READ COMMITTED), so a guard may have read what no longer holds  *)
(* when the write is made; now() is the start of the transaction.          *)
(*                                                                         *)
(* A database is a record of Authz's tables.  Authz, where a call is one   *)
(* step, says what the calls would do in turn.                             *)
(*                                                                         *)
(* A call is [op, actor, on, arg]: on is a binding, a pair of role and     *)
(* scope, a role, or a tenant; arg the expiry of a grant, crosses_boundary *)
(* of update_role, inherit of update_tenant, None otherwise.               *)
(***************************************************************************)
EXTENDS Naturals, FiniteSets, Sequences

CONSTANTS
    TenantIds, RoleIds, ScopeIds, UserIds, KeyIds, ScopeNames, None,   \* as in Authz
    Master, Admin, TenantAdmin, RoleNames, Expiries, MaxTime,
    Sessions,
    Calls,       \* the calls a session may make
    Databases    \* what they may find

ASSUME RaceBounds ==
    /\ MaxTime \in Nat /\ Expiries \subseteq Nat \cup {None}
    /\ None \notin BOOLEAN \cup Nat \cup TenantIds

\* The calls are taken in pairs.
ASSUME TwoSessions == \E s, q \in Sessions : s # q /\ Sessions = {s, q}

VARIABLES
    db,      \* what is committed
    now,
    txn,     \* session -> its transaction
    first    \* history: what was committed when nothing had been called

vars == <<db, now, txn, first>>

\* Authz over the tables of st, in a transaction that began at time t.
At(st, t) ==
    INSTANCE Authz WITH
        tenants <- st.tenants, roles <- st.roles, scopes <- st.scopes,
        roleScopes <- st.roleScopes, users <- st.users, keys <- st.keys,
        bindings <- st.bindings, now <- t, wrote <- << >>

IsTables(st) ==
    st = [tenants |-> st.tenants, roles |-> st.roles, scopes |-> st.scopes,
          roleScopes |-> st.roleScopes, users |-> st.users, keys |-> st.keys,
          bindings |-> st.bindings]

\* The tables, as calls of Authz leave them.
IsDatabase(st) == IsTables(st) /\ At(st, MaxTime)!TypeOK

\* The call names rows of st, but a binding need not exist.
IsCall(c, st) ==
    /\ c.actor \in DOMAIN st.users \cup DOMAIN st.keys
    /\ \/ /\ c.op \in {"grant_role", "revoke_binding"}
          /\ c.on \in (DOMAIN st.users \cup DOMAIN st.keys) \X (DOMAIN st.roles) \X (DOMAIN st.tenants)
          /\ c.arg \in Expiries \cup {None}
       \/ /\ c.op \in {"add_role_scope", "remove_role_scope"}
          /\ c.on \in (DOMAIN st.roles) \X (DOMAIN st.scopes)
       \/ c.op = "update_role" /\ c.on \in DOMAIN st.roles /\ c.arg \in BOOLEAN
       \/ c.op = "update_tenant" /\ c.on \in DOMAIN st.tenants \ {Master} /\ c.arg \in BOOLEAN

ASSUME CallsTyped == \A c \in Calls, st \in Databases : IsCall(c, st)

\* stage: "idle", "guard" before the guard number at, "write", "written",
\* "done", "raised".  read: the column its first statement read.  effect:
\* whether its write has touched the row.
Idle == [stage |-> "idle", call |-> None, began |-> 0, at |-> 0, read |-> None, effect |-> FALSE]

-----------------------------------------------------------------------------
(* The calls, in turn. *)

Holds(c, st, t, tenant, name) == At(st, t)!HasScope(c.actor, tenant, name)

\* Roles and tenants are never deleted; a binding has an id once it exists.
Exists(c, st) == c.op = "revoke_binding" => c.on \in DOMAIN st.bindings

\* The column that the first statement reads, for the checks and the write.
Column(c, st) ==
    CASE c.op = "revoke_binding" -> st.bindings[c.on].revoked
      [] c.op = "update_role" -> st.roles[c.on].crosses
      [] c.op = "update_tenant" -> st.tenants[c.on].inherit
      [] OTHER -> None

\* The definition the call names is the nearest of its name.
Visible(c, st, t) ==
    CASE c.op = "grant_role" -> c.on[2] \in At(st, t)!EffectiveRoles(c.on[3])
      [] c.op = "add_role_scope" -> c.on[2] \in At(st, t)!EffectiveScopeDefs(st.roles[c.on[1]].tenant)
      [] OTHER -> TRUE

\* The other guards of the Authz action.
Entitled(c, st, t) ==
    CASE c.op = "grant_role" ->
            /\ Holds(c, st, t, c.on[3], "authz.bindings.grant")
            /\ At(st, t)!Missing(c.actor, c.on[2], c.on[3]) = {}
      [] c.op = "revoke_binding" -> Holds(c, st, t, c.on[3], "authz.bindings.revoke")
      [] c.op = "add_role_scope" ->
            /\ Holds(c, st, t, st.roles[c.on[1]].tenant, "authz.roles.write")
            /\ At(st, t)!MayDelegate(c.actor, c.on[2], st.roles[c.on[1]].tenant)
      [] c.op = "remove_role_scope" -> Holds(c, st, t, st.roles[c.on[1]].tenant, "authz.roles.write")
      [] c.op = "update_role" ->
            /\ Holds(c, st, t, st.roles[c.on].tenant, "authz.roles.write")
            /\ c.arg # st.roles[c.on].crosses => Holds(c, st, t, Master, "authz.roles.write")
      [] c.op = "update_tenant" ->
            c.arg # st.tenants[c.on].inherit =>
                Holds(c, st, t, st.tenants[c.on].parent, "authz.tenants.write")

\* Whether the write touches its row.
Effective(c, st, read) ==
    CASE c.op = "revoke_binding" -> read = None
      [] c.op = "add_role_scope" -> c.on \notin st.roleScopes
      [] c.op = "remove_role_scope" -> c.on \in st.roleScopes
      [] OTHER -> TRUE

\* The row as the write leaves it.
Written(c, st, t) ==
    CASE c.op = "grant_role" ->
            [st EXCEPT !.bindings = At(st, t)!Put(st.bindings, c.on, At(st, t)!Grant(c.actor, c.arg))]
      [] c.op = "revoke_binding" -> [st EXCEPT !.bindings[c.on].revoked = t]
      [] c.op = "add_role_scope" -> [st EXCEPT !.roleScopes = @ \cup {c.on}]
      [] c.op = "remove_role_scope" -> [st EXCEPT !.roleScopes = @ \ {c.on}]
      [] c.op = "update_role" -> [st EXCEPT !.roles[c.on].crosses = c.arg]
      [] c.op = "update_tenant" -> [st EXCEPT !.tenants[c.on].inherit = c.arg]

\* The call as one step of Authz, but that a name is looked up in seen.
InTurn(c, st, t, seen) ==
    IF Exists(c, st) /\ Visible(c, seen, t) /\ Entitled(c, st, t) /\ Effective(c, st, Column(c, st))
    THEN Written(c, st, t) ELSE st

-----------------------------------------------------------------------------
(* The calls, statement by statement. *)

\* Guards after the first statement, each a statement of its own.

\* Fault: what the role confers is not looked at.
GrantGuardsUncovered(c, st, t) ==
    <<Holds(c, st, t, c.on[3], "authz.bindings.grant"), c.on[2] \in At(st, t)!EffectiveRoles(c.on[3])>>

GrantGuards(c, st, t) ==
    <<Holds(c, st, t, c.on[3], "authz.bindings.grant"),
      c.on[2] \in At(st, t)!EffectiveRoles(c.on[3]),
      At(st, t)!Missing(c.actor, c.on[2], c.on[3]) = {}>>

RevokeGuards(c, st, t) == <<Holds(c, st, t, c.on[3], "authz.bindings.revoke")>>

AttachGuards(c, st, t) ==
    LET tenant == st.roles[c.on[1]].tenant
    IN  <<Holds(c, st, t, tenant, "authz.roles.write"),
          c.on[2] \in At(st, t)!EffectiveScopeDefs(tenant),
          At(st, t)!MayDelegate(c.actor, c.on[2], tenant)>>

DetachGuards(c, st, t) == <<Holds(c, st, t, st.roles[c.on[1]].tenant, "authz.roles.write")>>

\* Whether a flag changes is judged by what the first statement read.
RoleGuards(c, read, st, t) ==
    <<Holds(c, st, t, st.roles[c.on].tenant, "authz.roles.write"),
      c.arg # read => Holds(c, st, t, Master, "authz.roles.write")>>

TenantGuards(c, read, st, t) ==
    <<c.arg # read => Holds(c, st, t, st.tenants[c.on].parent, "authz.tenants.write")>>

Guards(c, read, st, t) ==
    CASE c.op = "grant_role" -> GrantGuards(c, st, t)
      [] c.op = "revoke_binding" -> RevokeGuards(c, st, t)
      [] c.op = "add_role_scope" -> AttachGuards(c, st, t)
      [] c.op = "remove_role_scope" -> DetachGuards(c, st, t)
      [] c.op = "update_role" -> RoleGuards(c, read, st, t)
      [] c.op = "update_tenant" -> TenantGuards(c, read, st, t)

Go(s, x) == txn' = [txn EXCEPT ![s] = x] /\ UNCHANGED <<now, first>>

Begin(s) ==
    /\ txn[s].stage = "idle"
    /\ \E c \in Calls :
          LET x == [Idle EXCEPT !.call = c, !.began = now]
          IN  Go(s, IF Exists(c, db) THEN [x EXCEPT !.stage = "guard", !.at = 1, !.read = Column(c, db)]
                    ELSE [x EXCEPT !.stage = "raised"])
    /\ UNCHANGED db

\* Fault: expiry is compared with the clock.
ReadsAtClock(s) == now

\* now()
ReadsAt(s) == txn[s].began

Check(s) ==
    LET x == txn[s]
        guards == Guards(x.call, x.read, db, ReadsAt(s))
    IN  /\ x.stage = "guard"
        /\ Go(s, CASE ~guards[x.at] -> [x EXCEPT !.stage = "raised"]
                   [] guards[x.at] /\ x.at = Len(guards) -> [x EXCEPT !.stage = "write"]
                   [] OTHER -> [x EXCEPT !.at = @ + 1])
        /\ UNCHANGED db

Row(c) ==
    CASE c.op \in {"grant_role", "revoke_binding"} -> <<"role_bindings", c.on>>
      [] c.op \in {"add_role_scope", "remove_role_scope"} -> <<"role_scopes", c.on>>
      [] c.op = "update_role" -> <<"roles", c.on>>
      [] c.op = "update_tenant" -> <<"tenants", c.on>>

Locked(row) == \E k \in Sessions : txn[k].stage = "written" /\ txn[k].effect /\ Row(txn[k].call) = row

\* Another transaction's row is waited for, unless the statement is not made
\* or does not see it: a delete of what is not committed.
Waits(s) ==
    LET c == txn[s].call
    IN  /\ Locked(Row(c))
        /\ c.op = "revoke_binding" => txn[s].read = None
        /\ c.op = "remove_role_scope" => c.on \in db.roleScopes

Write(s) ==
    LET x == txn[s]
    IN  /\ x.stage = "write" /\ ~Waits(s)
        /\ Go(s, [x EXCEPT !.stage = "written", !.effect = Effective(x.call, db, x.read)])
        /\ UNCHANGED db

\* The row is locked until here, so it is written as of here.
Commit(s) ==
    LET x == txn[s]
    IN  /\ x.stage = "written"
        /\ db' = IF x.effect THEN Written(x.call, db, x.began) ELSE db
        /\ Go(s, [x EXCEPT !.stage = "done"])

Tick == now < MaxTime /\ now' = now + 1 /\ UNCHANGED <<db, txn, first>>

Init ==
    /\ db \in Databases /\ IsDatabase(db) /\ first = db
    /\ now = 0 /\ txn = [s \in Sessions |-> Idle]

Next == Tick \/ \E s \in Sessions : Begin(s) \/ Check(s) \/ Write(s) \/ Commit(s)

Spec == Init /\ [][Next]_vars

-----------------------------------------------------------------------------
(* Properties. *)

IsTransaction(x) ==
    /\ x = [stage |-> x.stage, call |-> x.call, began |-> x.began, at |-> x.at,
            read |-> x.read, effect |-> x.effect]
    /\ x.stage \in {"idle", "guard", "write", "written", "done", "raised"}
    /\ x.stage # "idle" => IsCall(x.call, first)
    /\ x.began \in 0..now /\ x.at \in 0..3 /\ x.effect \in BOOLEAN

\* The tables are at every moment such as Authz makes them, references and
\* all, and a session is at one of the guards there are.
TypeOK ==
    /\ first \in Databases /\ IsDatabase(first) /\ IsDatabase(db) /\ now \in 0..MaxTime
    /\ DOMAIN txn = Sessions /\ \A s \in Sessions : IsTransaction(txn[s])

Ended == \A s \in Sessions : txn[s].stage \in {"done", "raised"}

After(s, st, seen) == InTurn(txn[s].call, st, txn[s].began, seen)

\* Where a name may have been looked up: in what there was, or in what one of
\* the calls alone has made of it.
Looked == {first} \cup {After(s, first, first) : s \in Sessions}

\* What the two calls would have made of the database one after the other.
Turns ==
    {After(x[2], After(x[1], first, seen[1]), seen[2]) :
        x \in {y \in Sessions \X Sessions : y[1] # y[2]}, seen \in Looked \X Looked}

Everything(st, t) ==
    {h \in (UserIds \cup KeyIds) \X TenantIds \X ScopeNames : At(st, t)!HasScope(h[1], h[2], h[3])}

\* A race may fail to take away what somebody held; it never gives anybody
\* what they did not hold when one of the calls began, nor one order of the
\* calls would have given, wherever each looked its name up
\* (functions.sql:783-820 against 848-856).
RacesGiveNothing ==
    Ended =>
        LET before == UNION {Everything(first, txn[s].began) : s \in Sessions}
        IN  \E st \in Turns : Everything(db, now) \subseteq before \cup Everything(st, now)

\* The call may take something away: a grant with an expiry replaces one that
\* had none.
Withdraws(c) ==
    \/ c.op \in {"revoke_binding", "remove_role_scope"}
    \/ c.op = "grant_role" /\ c.arg # None
    \/ c.op \in {"update_role", "update_tenant"} /\ c.arg = FALSE

\* Two calls end as they would have one after the other, wherever each looked
\* its name up, unless one of them withdraws something: what can be lost in a
\* race is a withdrawal.
OnlyWithdrawalsRace ==
    Ended /\ db \notin Turns => \E s \in Sessions : Withdraws(txn[s].call)

\* update_role: "master authority is required to change crossing in either
\* direction" (functions.sql:1076-1077), at least when the call began or when
\* it changed the role.
CrossingTakesMaster ==
    [][\A s \in Sessions, r \in RoleIds :
          txn[s].stage = "written" /\ txn'[s].stage = "done" /\ db'.roles[r].crosses # db.roles[r].crosses =>
              \E st \in {first, db} : Holds(txn[s].call, st, txn[s].began, Master, "authz.roles.write")]_vars

\* revoke_binding: "the original revoked_at is preserved so a retry cannot
\* quietly rewrite when access ended" (functions.sql:1488-1489).
FirstRevocationKept ==
    [][\A b \in DOMAIN db.bindings :
          db.bindings[b].revoked # None =>
              db'.bindings[b].revoked \in {None, db.bindings[b].revoked}]_vars
=============================================================================
