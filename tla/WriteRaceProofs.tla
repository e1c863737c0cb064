-------------------------- MODULE WriteRaceProofs --------------------------
(***************************************************************************)
(* Two calls at once: what they may read, and what comes of it.            *)
(***************************************************************************)
EXTENDS WriteRace, TLAPS

-----------------------------------------------------------------------------
(* Who holds more. *)

\* The columns no call here changes.
SameFrame(st, dt) ==
    /\ DOMAIN st.tenants = DOMAIN dt.tenants
    /\ \A x \in DOMAIN st.tenants : st.tenants[x].parent = dt.tenants[x].parent
    /\ DOMAIN st.roles = DOMAIN dt.roles
    /\ \A r \in DOMAIN st.roles : st.roles[r].tenant = dt.roles[r].tenant
    /\ st.scopes = dt.scopes /\ st.users = dt.users /\ st.keys = dt.keys

\* Nothing of st at time t is missing from dt at time u.
Below(st, t, dt, u) ==
    /\ SameFrame(st, dt)
    /\ \A x \in DOMAIN st.tenants : st.tenants[x].inherit => dt.tenants[x].inherit
    /\ \A r \in DOMAIN st.roles : st.roles[r].crosses => dt.roles[r].crosses
    /\ st.roleScopes \subseteq dt.roleScopes
    /\ \A b \in DOMAIN st.bindings :
          At(st, t)!Live(b) => b \in DOMAIN dt.bindings /\ At(dt, u)!Live(b)

\* What the tables say of who holds a scope, at one binding and one scope.
LEMMA HoldsPoints ==
    ASSUME NEW st, NEW t, NEW p, NEW a, NEW n
    PROVE  At(st, t)!HasScope(p, a, n) <=>
             \E b \in DOMAIN st.bindings, x \in DOMAIN st.scopes :
                /\ b[1] = p /\ b[3] \in At(st, t)!Above(a)
                /\ b[3] \in At(st, t)!Uncut(a) \/ st.roles[b[2]].crosses
                /\ At(st, t)!Live(b)
                /\ <<b[2], x>> \in st.roleScopes /\ st.scopes[x].name = n
BY DEF At!HasScope, At!EffectiveScopes, At!EffectiveBindings, At!BindingsInForce

\* The ancestors depend on parents alone.
LEMMA AboveFrame ==
    ASSUME NEW st, NEW dt, SameFrame(st, dt), NEW t, NEW u, NEW a
    PROVE  At(st, t)!Above(a) = At(dt, u)!Above(a)
<1>1. \A S \in SUBSET DOMAIN st.tenants : At(st, t)!ClosedUp(S) <=> At(dt, u)!ClosedUp(S)
  BY DEF SameFrame, At!ClosedUp
<1> QED BY <1>1 DEF SameFrame, At!Above

\* With fewer cuts more is reached unfiltered.
LEMMA UncutGrows ==
    ASSUME NEW st, NEW dt, SameFrame(st, dt), NEW t, NEW u, NEW a,
           \A x \in DOMAIN st.tenants : st.tenants[x].inherit => dt.tenants[x].inherit
    PROVE  At(st, t)!Uncut(a) \subseteq At(dt, u)!Uncut(a)
<1>1. \A S \in SUBSET DOMAIN st.tenants : At(dt, u)!ClosedInherit(S) => At(st, t)!ClosedInherit(S)
  BY DEF SameFrame, At!ClosedInherit
<1> QED BY <1>1 DEF SameFrame, At!Uncut

LEMMA References ==
    ASSUME NEW st, IsDatabase(st)
    PROVE  /\ \A b \in DOMAIN st.bindings : /\ b = <<b[1], b[2], b[3]>> /\ b[2] \in DOMAIN st.roles
                                            /\ st.bindings[b].expires \in Nat \cup {None}
           /\ \A k \in DOMAIN st.keys : st.keys[k].expires \in Nat \cup {None}
           /\ \A x \in DOMAIN st.tenants : st.tenants[x].inherit \in BOOLEAN
           /\ \A r \in DOMAIN st.roles : st.roles[r].crosses \in BOOLEAN /\ st.roles[r].tenant \in DOMAIN st.tenants
           /\ st.roleScopes \subseteq (DOMAIN st.roles) \X (DOMAIN st.scopes)
<1> USE DEF IsDatabase, At!TypeOK
<1>1. \A b \in DOMAIN st.bindings : /\ b = <<b[1], b[2], b[3]>> /\ b[2] \in DOMAIN st.roles
                                    /\ st.bindings[b].expires \in Nat \cup {None}
  <2>1. /\ DOMAIN st.bindings \subseteq At(st, MaxTime)!Principals \X (DOMAIN st.roles) \X (DOMAIN st.tenants)
        /\ \A b \in DOMAIN st.bindings : st.bindings[b].expires \in Expiries \cup {None}
    BY DEF At!BindingsOK
  <2>2. \A b \in DOMAIN st.bindings : b = <<b[1], b[2], b[3]>> /\ b[2] \in DOMAIN st.roles
    BY <2>1
  <2> QED BY <2>1, <2>2, RaceBounds
<1>2. \A k \in DOMAIN st.keys : st.keys[k].expires \in Nat \cup {None}
  BY RaceBounds DEF At!PrincipalsOK
<1>3. \A x \in DOMAIN st.tenants : st.tenants[x].inherit \in BOOLEAN
  BY DEF At!TenantsOK
<1>4. /\ \A r \in DOMAIN st.roles : st.roles[r].crosses \in BOOLEAN /\ st.roles[r].tenant \in DOMAIN st.tenants
      /\ st.roleScopes \subseteq (DOMAIN st.roles) \X (DOMAIN st.scopes)
  BY DEF At!RolesOK, At!ScopesOK
<1> QED BY <1>1, <1>2, <1>3, <1>4

\* Whoever holds something below holds it above.
LEMMA HoldsBelow ==
    ASSUME NEW st, NEW t, NEW dt, NEW u, Below(st, t, dt, u), NEW p, NEW a, NEW n,
           IsDatabase(st), At(st, t)!HasScope(p, a, n)
    PROVE  At(dt, u)!HasScope(p, a, n)
<1>1. PICK b \in DOMAIN st.bindings, x \in DOMAIN st.scopes :
         /\ b[1] = p /\ b[3] \in At(st, t)!Above(a)
         /\ b[3] \in At(st, t)!Uncut(a) \/ st.roles[b[2]].crosses
         /\ At(st, t)!Live(b)
         /\ <<b[2], x>> \in st.roleScopes /\ st.scopes[x].name = n
  BY HoldsPoints
<1>2. SameFrame(st, dt)
  BY DEF Below
<1>3. /\ b[3] \in At(dt, u)!Above(a)
      /\ b[3] \in At(dt, u)!Uncut(a) \/ dt.roles[b[2]].crosses
  BY <1>1, <1>2, AboveFrame, UncutGrows, References DEF Below
<1>4. b \in DOMAIN dt.bindings /\ At(dt, u)!Live(b)
  BY <1>1 DEF Below
<1>5. x \in DOMAIN dt.scopes /\ dt.scopes[x].name = n /\ <<b[2], x>> \in dt.roleScopes
  BY <1>1, <1>2 DEF Below, SameFrame
<1> QED BY <1>1, <1>3, <1>4, <1>5, HoldsPoints

-----------------------------------------------------------------------------
(* What a call writes. *)

\* A call writes one row, the one it is about.
Writes(c, st, t, w) ==
    /\ IsTables(w)
    /\ w.scopes = st.scopes /\ w.users = st.users /\ w.keys = st.keys
    /\ w.tenants = IF c.op = "update_tenant"
                   THEN [st.tenants EXCEPT ![c.on] = [@ EXCEPT !.inherit = c.arg]] ELSE st.tenants
    /\ w.roles = IF c.op = "update_role"
                 THEN [st.roles EXCEPT ![c.on] = [@ EXCEPT !.crosses = c.arg]] ELSE st.roles
    /\ c.op \notin {"add_role_scope", "remove_role_scope"} => w.roleScopes = st.roleScopes
    /\ c.op = "add_role_scope" => w.roleScopes = st.roleScopes \cup {c.on}
    /\ c.op = "remove_role_scope" => w.roleScopes = st.roleScopes \ {c.on}
    /\ c.op \notin {"grant_role", "revoke_binding"} => w.bindings = st.bindings
    /\ c.op = "grant_role" => w.bindings = At(st, t)!Put(st.bindings, c.on, At(st, t)!Grant(c.actor, c.arg))
    /\ c.op = "revoke_binding" => w.bindings = [st.bindings EXCEPT ![c.on] = [@ EXCEPT !.revoked = t]]

LEMMA WrittenIs ==
    ASSUME NEW st, IsTables(st), NEW c, IsCall(c, st), NEW t
    PROVE  Writes(c, st, t, Written(c, st, t))
<1> DEFINE w == Written(c, st, t)
<1>1. CASE c.op = "grant_role"
  <2>1. w = [st EXCEPT !.bindings = At(st, t)!Put(st.bindings, c.on, At(st, t)!Grant(c.actor, c.arg))]
    BY <1>1 DEF Written
  <2> HIDE DEF w
  <2>2. /\ IsTables(w)
        /\ w.scopes = st.scopes /\ w.users = st.users /\ w.keys = st.keys
        /\ w.tenants = st.tenants /\ w.roles = st.roles /\ w.roleScopes = st.roleScopes
        /\ w.bindings = At(st, t)!Put(st.bindings, c.on, At(st, t)!Grant(c.actor, c.arg))
    BY <2>1 DEF IsTables
  <2> QED BY <1>1, <2>2 DEF w, Writes
<1>2. CASE c.op = "revoke_binding"
  <2>1. w = [st EXCEPT !.bindings[c.on].revoked = t]
    BY <1>2 DEF Written
  <2> HIDE DEF w
  <2>2. /\ IsTables(w)
        /\ w.scopes = st.scopes /\ w.users = st.users /\ w.keys = st.keys
        /\ w.tenants = st.tenants /\ w.roles = st.roles /\ w.roleScopes = st.roleScopes
        /\ w.bindings = [st.bindings EXCEPT ![c.on] = [@ EXCEPT !.revoked = t]]
    BY <2>1 DEF IsTables
  <2> QED BY <1>2, <2>2 DEF w, Writes
<1>3. CASE c.op = "add_role_scope"
  <2>1. w = [st EXCEPT !.roleScopes = st.roleScopes \cup {c.on}]
    BY <1>3 DEF Written
  <2> HIDE DEF w
  <2>2. /\ IsTables(w)
        /\ w.scopes = st.scopes /\ w.users = st.users /\ w.keys = st.keys
        /\ w.tenants = st.tenants /\ w.roles = st.roles /\ w.bindings = st.bindings
        /\ w.roleScopes = st.roleScopes \cup {c.on}
    BY <2>1 DEF IsTables
  <2> QED BY <1>3, <2>2 DEF w, Writes
<1>4. CASE c.op = "remove_role_scope"
  <2>1. w = [st EXCEPT !.roleScopes = st.roleScopes \ {c.on}]
    BY <1>4 DEF Written
  <2> HIDE DEF w
  <2>2. /\ IsTables(w)
        /\ w.scopes = st.scopes /\ w.users = st.users /\ w.keys = st.keys
        /\ w.tenants = st.tenants /\ w.roles = st.roles /\ w.bindings = st.bindings
        /\ w.roleScopes = st.roleScopes \ {c.on}
    BY <2>1 DEF IsTables
  <2> QED BY <1>4, <2>2 DEF w, Writes
<1>5. CASE c.op = "update_role"
  <2>1. w = [st EXCEPT !.roles[c.on].crosses = c.arg]
    BY <1>5 DEF Written
  <2> HIDE DEF w
  <2>2. /\ IsTables(w)
        /\ w.scopes = st.scopes /\ w.users = st.users /\ w.keys = st.keys
        /\ w.tenants = st.tenants /\ w.roleScopes = st.roleScopes /\ w.bindings = st.bindings
        /\ w.roles = [st.roles EXCEPT ![c.on] = [@ EXCEPT !.crosses = c.arg]]
    BY <2>1 DEF IsTables
  <2> QED BY <1>5, <2>2 DEF w, Writes
<1>6. CASE c.op = "update_tenant"
  <2>1. w = [st EXCEPT !.tenants[c.on].inherit = c.arg]
    BY <1>6 DEF Written
  <2> HIDE DEF w
  <2>2. /\ IsTables(w)
        /\ w.scopes = st.scopes /\ w.users = st.users /\ w.keys = st.keys
        /\ w.roles = st.roles /\ w.roleScopes = st.roleScopes /\ w.bindings = st.bindings
        /\ w.tenants = [st.tenants EXCEPT ![c.on] = [@ EXCEPT !.inherit = c.arg]]
    BY <2>1 DEF IsTables
  <2> QED BY <1>6, <2>2 DEF w, Writes
<1> QED BY <1>1, <1>2, <1>3, <1>4, <1>5, <1>6 DEF IsCall

LEMMA WrittenFrame ==
    ASSUME NEW st, IsTables(st), NEW c, IsCall(c, st), NEW t
    PROVE  SameFrame(st, Written(c, st, t)) /\ SameFrame(Written(c, st, t), st)
<1> DEFINE w == Written(c, st, t)
<1>1. Writes(c, st, t, w)
  BY WrittenIs
<1> HIDE DEF w
<1> USE DEF Writes
<1>2. DOMAIN st.tenants = DOMAIN w.tenants /\ \A x \in DOMAIN st.tenants : st.tenants[x].parent = w.tenants[x].parent
  BY <1>1
<1>3. DOMAIN st.roles = DOMAIN w.roles /\ \A r \in DOMAIN st.roles : st.roles[r].tenant = w.roles[r].tenant
  BY <1>1
<1> QED BY <1>1, <1>2, <1>3 DEF SameFrame, w

\* A call is still about rows that are there.
LEMMA StillCall ==
    ASSUME NEW st, NEW dt, SameFrame(st, dt), NEW c, IsCall(c, st)
    PROVE  IsCall(c, dt)
BY DEF SameFrame, IsCall

LEMMA WrittenTyped ==
    ASSUME NEW st, IsDatabase(st), NEW c, IsCall(c, st), NEW t \in 0..MaxTime
    PROVE  IsDatabase(Written(c, st, t))
<1> DEFINE w == Written(c, st, t)
<1>1. IsTables(st)
  BY DEF IsDatabase
<1>2. Writes(c, st, t, w)
  BY <1>1, WrittenIs
<1> HIDE DEF w
<1> USE DEF At!TypeOK, Writes
<1>3. At(w, MaxTime)!TenantsOK
  <2>1. At(st, MaxTime)!TenantsOK
    BY DEF IsDatabase
  <2> QED BY <1>2, <2>1 DEF At!TenantsOK, IsCall
<1>4. DOMAIN w.tenants = DOMAIN st.tenants /\ DOMAIN w.roles = DOMAIN st.roles
  BY <1>2
<1>5. At(w, MaxTime)!RolesOK
  <2>1. At(st, MaxTime)!RolesOK
    BY DEF IsDatabase
  <2> QED BY <1>2, <1>4, <2>1 DEF At!RolesOK, IsCall
<1>6. At(w, MaxTime)!ScopesOK
  <2>1. At(st, MaxTime)!ScopesOK
    BY DEF IsDatabase
  <2>2. c.op \in {"add_role_scope", "remove_role_scope"} => c.on \in (DOMAIN st.roles) \X (DOMAIN st.scopes)
    BY DEF IsCall
  <2>3. w.roleScopes \subseteq st.roleScopes \cup (DOMAIN st.roles) \X (DOMAIN st.scopes)
    BY <1>2, <2>2
  <2> QED BY <1>2, <1>4, <2>1, <2>3 DEF At!ScopesOK
<1>7. At(w, MaxTime)!PrincipalsOK /\ At(w, MaxTime)!AuditOK
  <2>1. At(st, MaxTime)!PrincipalsOK /\ At(st, MaxTime)!AuditOK
    BY DEF IsDatabase
  <2> QED BY <1>2, <1>4, <2>1 DEF At!PrincipalsOK, At!AuditOK, At!Times
<1>8. At(w, MaxTime)!BindingsOK
  <2>1. At(st, MaxTime)!BindingsOK /\ At(w, MaxTime)!Principals = At(st, MaxTime)!Principals
    BY <1>2 DEF IsDatabase, At!Principals
  <2>2. c.op \notin {"grant_role", "revoke_binding"} \/ c.on \in At(st, MaxTime)!Principals \X (DOMAIN st.roles) \X (DOMAIN st.tenants)
    BY DEF IsCall, At!Principals
  <2>3. CASE c.op = "grant_role"
    <3>1. c.arg \in Expiries \cup {None} /\ c.actor \in At(st, MaxTime)!Principals
      BY <2>3 DEF IsCall, At!Principals
    <3>2. w.bindings = [x \in DOMAIN st.bindings \cup {c.on} |->
                          IF x = c.on THEN [by |-> c.actor, expires |-> c.arg, revoked |-> None] ELSE st.bindings[x]]
      BY <1>2, <2>3 DEF At!Put, At!Grant
    <3>3. DOMAIN w.bindings \subseteq At(w, MaxTime)!Principals \X (DOMAIN w.roles) \X (DOMAIN w.tenants)
      BY <1>4, <2>1, <2>2, <2>3, <3>2 DEF At!BindingsOK
    <3>4. w.bindings \in [DOMAIN w.bindings ->
             [by : At(w, MaxTime)!Principals, expires : Expiries \cup {None}, revoked : At(w, MaxTime)!Times \cup {None}]]
      BY <2>1, <3>1, <3>2 DEF At!BindingsOK, At!Times
    <3> QED BY <3>3, <3>4 DEF At!BindingsOK
  <2>4. CASE c.op = "revoke_binding"
    BY <1>2, <1>4, <2>1, <2>4 DEF At!BindingsOK, At!Times
  <2>5. CASE c.op \notin {"grant_role", "revoke_binding"}
    BY <1>2, <1>4, <2>1, <2>5 DEF At!BindingsOK, At!Times
  <2> QED BY <2>3, <2>4, <2>5
<1>9. MaxTime \in At(w, MaxTime)!Times
  BY RaceBounds DEF At!Times
<1> QED BY <1>2, <1>3, <1>5, <1>6, <1>7, <1>8, <1>9 DEF IsDatabase, w

-----------------------------------------------------------------------------
(* What a call gives, and what it takes. *)

\* The grant is over at time u.
Dead(c, u) == c.arg # None /\ c.arg <= u

Gives(c, u) ==
    \/ c.op = "add_role_scope"
    \/ c.op = "grant_role" /\ ~Dead(c, u)
    \/ c.op \in {"update_role", "update_tenant"} /\ c.arg

Takes(c, u) ==
    \/ c.op \in {"revoke_binding", "remove_role_scope"}
    \/ c.op = "grant_role" /\ Dead(c, u)
    \/ c.op \in {"update_role", "update_tenant"} /\ ~c.arg

LEMMA GivesOrTakes ==
    ASSUME NEW st, NEW c, IsCall(c, st), NEW u
    PROVE  Gives(c, u) \/ Takes(c, u)
BY DEF IsCall, Gives, Takes

LEMMA StaysDead ==
    ASSUME NEW st, NEW c, IsCall(c, st), c.op = "grant_role", NEW u \in Nat, NEW n \in Nat, u <= n, Dead(c, u)
    PROVE  Dead(c, n)
<1>1. c.arg \in Nat
  BY RaceBounds DEF IsCall, Dead
<1> QED BY <1>1 DEF Dead

\* A grant that the call leaves alone is in force as before.
LEMMA LiveSame ==
    ASSUME NEW st, NEW dt, st.users = dt.users, st.keys = dt.keys, NEW u,
           NEW b \in DOMAIN st.bindings, b \in DOMAIN dt.bindings, st.bindings[b] = dt.bindings[b]
    PROVE  At(st, u)!Live(b) <=> At(dt, u)!Live(b)
BY DEF At!Live, At!Expired, At!Enabled

\* Time only ends things.
LEMMA Later ==
    ASSUME NEW st, IsDatabase(st), NEW t \in Nat, NEW n \in Nat, t <= n
    PROVE  Below(st, n, st, t)
<1>1. ASSUME NEW e \in Nat \cup {None}, At(st, t)!Expired(e) PROVE At(st, n)!Expired(e)
  BY <1>1, RaceBounds DEF At!Expired
<1>2. ASSUME NEW b \in DOMAIN st.bindings, At(st, n)!Live(b) PROVE At(st, t)!Live(b)
  BY <1>1, <1>2, References DEF At!Live, At!Enabled
<1> QED BY <1>2 DEF Below, SameFrame

LEMMA GivingRaises ==
    ASSUME NEW st, IsDatabase(st), NEW c, IsCall(c, st), NEW t, NEW u, Gives(c, u)
    PROVE  Below(st, u, Written(c, st, t), u)
<1> DEFINE w == Written(c, st, t)
<1>1. Writes(c, st, t, w) /\ SameFrame(st, w)
  BY WrittenIs, WrittenFrame DEF IsDatabase
<1> HIDE DEF w
<1>2. \A x \in DOMAIN st.tenants : st.tenants[x].inherit => w.tenants[x].inherit
  BY <1>1 DEF Writes, Gives
<1>3. \A r \in DOMAIN st.roles : st.roles[r].crosses => w.roles[r].crosses
  BY <1>1 DEF Writes, Gives
<1>4. st.roleScopes \subseteq w.roleScopes
  BY <1>1 DEF Writes, Gives
<1>5. ASSUME NEW b \in DOMAIN st.bindings, At(st, u)!Live(b)
      PROVE  b \in DOMAIN w.bindings /\ At(w, u)!Live(b)
  <2>1. CASE c.op = "grant_role"
    <3>1. /\ b \in DOMAIN w.bindings
          /\ w.bindings[b] = IF b = c.on THEN [by |-> c.actor, expires |-> c.arg, revoked |-> None] ELSE st.bindings[b]
      BY <1>1, <2>1 DEF Writes, At!Put, At!Grant
    <3>2. CASE b = c.on
      BY <1>1, <1>5, <2>1, <3>1, <3>2 DEF Writes, Gives, Dead, At!Live, At!Expired, At!Enabled
    <3>3. CASE b # c.on
      BY <1>1, <1>5, <3>1, <3>3, LiveSame DEF Writes
    <3> QED BY <3>2, <3>3
  <2>2. CASE c.op # "grant_role"
    <3>1. w.bindings = st.bindings
      BY <1>1, <2>2 DEF Writes, Gives
    <3> QED BY <1>1, <1>5, <3>1, LiveSame DEF Writes
  <2> QED BY <2>1, <2>2
<1> QED BY <1>1, <1>2, <1>3, <1>4, <1>5 DEF Below, w

LEMMA TakingLowers ==
    ASSUME NEW st, IsDatabase(st), NEW c, IsCall(c, st), NEW t \in Nat, NEW u, Takes(c, u)
    PROVE  Below(Written(c, st, t), u, st, u)
<1> DEFINE w == Written(c, st, t)
<1>1. Writes(c, st, t, w) /\ SameFrame(w, st)
  BY WrittenIs, WrittenFrame DEF IsDatabase
<1> HIDE DEF w
<1>2. \A x \in DOMAIN w.tenants : w.tenants[x].inherit => st.tenants[x].inherit
  BY <1>1 DEF Writes, Takes
<1>3. \A r \in DOMAIN w.roles : w.roles[r].crosses => st.roles[r].crosses
  BY <1>1 DEF Writes, Takes
<1>4. w.roleScopes \subseteq st.roleScopes
  BY <1>1 DEF Writes, Takes
<1>5. ASSUME NEW b \in DOMAIN w.bindings, At(w, u)!Live(b)
      PROVE  b \in DOMAIN st.bindings /\ At(st, u)!Live(b)
  <2>1. CASE c.op = "grant_role"
    <3>1. /\ b \in DOMAIN st.bindings \cup {c.on}
          /\ w.bindings[b] = IF b = c.on THEN [by |-> c.actor, expires |-> c.arg, revoked |-> None] ELSE st.bindings[b]
      BY <1>1, <2>1 DEF Writes, At!Put, At!Grant
    <3>2. b # c.on
      BY <1>5, <2>1, <3>1 DEF Takes, Dead, At!Live, At!Expired
    <3> QED BY <1>1, <1>5, <3>1, <3>2, LiveSame DEF Writes
  <2>2. CASE c.op = "revoke_binding"
    <3>1. /\ b \in DOMAIN st.bindings
          /\ b # c.on => w.bindings[b] = st.bindings[b]
          /\ b = c.on => w.bindings[b].revoked = t
      BY <1>1, <2>2, References DEF Writes, IsDatabase, At!TypeOK, At!BindingsOK
    <3>2. b # c.on
      BY <1>5, <3>1, RaceBounds DEF At!Live
    <3> QED BY <1>1, <1>5, <3>1, <3>2, LiveSame DEF Writes
  <2>3. CASE c.op \notin {"grant_role", "revoke_binding"}
    <3>1. w.bindings = st.bindings
      BY <1>1, <2>3 DEF Writes
    <3> QED BY <1>1, <1>5, <3>1, LiveSame DEF Writes
  <2> QED BY <2>1, <2>2, <2>3
<1> QED BY <1>1, <1>2, <1>3, <1>4, <1>5 DEF Below, w

\* A grant or a revocation takes from its own principal alone, and only what
\* was in force.
LEMMA LostByBinding ==
    ASSUME NEW st, IsDatabase(st), NEW c, IsCall(c, st), c.op \in {"grant_role", "revoke_binding"},
           NEW t, NEW u, NEW p, NEW a, NEW n,
           At(st, u)!HasScope(p, a, n), ~At(Written(c, st, t), u)!HasScope(p, a, n)
    PROVE  c.on \in DOMAIN st.bindings /\ c.on[1] = p /\ At(st, u)!Live(c.on)
<1> DEFINE w == Written(c, st, t)
<1>1. Writes(c, st, t, w) /\ SameFrame(st, w)
  BY WrittenIs, WrittenFrame DEF IsDatabase
<1>2. ~At(w, u)!HasScope(p, a, n)
  OBVIOUS
<1> HIDE DEF w
<1>3. PICK b \in DOMAIN st.bindings, x \in DOMAIN st.scopes :
         /\ b[1] = p /\ b[3] \in At(st, u)!Above(a)
         /\ b[3] \in At(st, u)!Uncut(a) \/ st.roles[b[2]].crosses
         /\ At(st, u)!Live(b)
         /\ <<b[2], x>> \in st.roleScopes /\ st.scopes[x].name = n
  BY HoldsPoints
<1>4. b = c.on
  <2> SUFFICES ASSUME b # c.on PROVE FALSE
    OBVIOUS
  <2>1. b \in DOMAIN w.bindings /\ w.bindings[b] = st.bindings[b]
    BY <1>1 DEF Writes, At!Put
  <2>2. At(w, u)!Live(b)
    BY <1>1, <1>3, <2>1, LiveSame DEF Writes
  <2>3. \A y \in DOMAIN st.tenants : st.tenants[y].inherit => w.tenants[y].inherit
    BY <1>1 DEF Writes
  <2>4. b[3] \in At(w, u)!Above(a) /\ (b[3] \in At(w, u)!Uncut(a) \/ w.roles[b[2]].crosses)
    BY <1>1, <1>3, <2>3, AboveFrame, UncutGrows DEF Writes
  <2>5. x \in DOMAIN w.scopes /\ <<b[2], x>> \in w.roleScopes /\ w.scopes[x].name = n
    BY <1>1, <1>3 DEF Writes
  <2> QED BY <1>2, <1>3, <2>1, <2>2, <2>4, <2>5, HoldsPoints
<1> QED BY <1>3, <1>4

\* A detachment takes the scope's name alone.
LEMMA LostByDetaching ==
    ASSUME NEW st, IsDatabase(st), NEW c, IsCall(c, st), c.op = "remove_role_scope",
           NEW t, NEW u, NEW p, NEW a, NEW n,
           At(st, u)!HasScope(p, a, n), ~At(Written(c, st, t), u)!HasScope(p, a, n)
    PROVE  st.scopes[c.on[2]].name = n
<1> DEFINE w == Written(c, st, t)
<1>1. Writes(c, st, t, w) /\ SameFrame(st, w)
  BY WrittenIs, WrittenFrame DEF IsDatabase
<1>2. ~At(w, u)!HasScope(p, a, n)
  OBVIOUS
<1> HIDE DEF w
<1>3. PICK b \in DOMAIN st.bindings, x \in DOMAIN st.scopes :
         /\ b[1] = p /\ b[3] \in At(st, u)!Above(a)
         /\ b[3] \in At(st, u)!Uncut(a) \/ st.roles[b[2]].crosses
         /\ At(st, u)!Live(b)
         /\ <<b[2], x>> \in st.roleScopes /\ st.scopes[x].name = n
  BY HoldsPoints
<1>4. <<b[2], x>> = c.on
  <2> SUFFICES ASSUME <<b[2], x>> # c.on PROVE FALSE
    OBVIOUS
  <2>1. b \in DOMAIN w.bindings /\ w.bindings[b] = st.bindings[b]
    BY <1>1 DEF Writes
  <2>2. At(w, u)!Live(b)
    BY <1>1, <1>3, <2>1, LiveSame DEF Writes
  <2>3. \A y \in DOMAIN st.tenants : st.tenants[y].inherit => w.tenants[y].inherit
    BY <1>1 DEF Writes
  <2>4. b[3] \in At(w, u)!Above(a) /\ (b[3] \in At(w, u)!Uncut(a) \/ w.roles[b[2]].crosses)
    BY <1>1, <1>3, <2>3, AboveFrame, UncutGrows DEF Writes
  <2>5. x \in DOMAIN w.scopes /\ <<b[2], x>> \in w.roleScopes /\ w.scopes[x].name = n
    BY <1>1, <1>3 DEF Writes
  <2> QED BY <1>2, <1>3, <2>1, <2>2, <2>4, <2>5, HoldsPoints
<1> QED BY <1>3, <1>4

LEMMA DelegatesBelow ==
    ASSUME NEW st, NEW t, NEW dt, NEW u, Below(st, t, dt, u), IsDatabase(st),
           NEW p, NEW s, NEW a, At(st, t)!MayDelegate(p, s, a)
    PROVE  At(dt, u)!MayDelegate(p, s, a)
<1>1. st.scopes = dt.scopes
  BY DEF Below, SameFrame
<1>2. CASE At(st, t)!HasScope(p, a, st.scopes[s].name)
  <2>1. At(dt, u)!HasScope(p, a, dt.scopes[s].name)
    BY <1>1, <1>2, HoldsBelow
  <2> QED BY <2>1 DEF At!MayDelegate
<1>3. CASE At(st, t)!HasScope(p, st.scopes[s].tenant, At(st, t)!ScopesWrite)
  <2>1. At(dt, u)!HasScope(p, dt.scopes[s].tenant, At(st, t)!ScopesWrite)
    BY <1>1, <1>3, HoldsBelow
  <2> QED BY <2>1 DEF At!MayDelegate, At!ScopesWrite
<1> QED BY <1>2, <1>3 DEF At!MayDelegate

\* Who may hand on every scope of a role below may do so above, unless the
\* role has more there.
LEMMA NothingMissing ==
    ASSUME NEW st, NEW t, NEW dt, NEW u, Below(st, t, dt, u), IsDatabase(st),
           NEW p, NEW r, NEW a, At(st, t)!Missing(p, r, a) = {},
           \A s : <<r, s>> \in dt.roleScopes => <<r, s>> \in st.roleScopes \/ At(dt, u)!MayDelegate(p, s, a)
    PROVE  At(dt, u)!Missing(p, r, a) = {}
<1> SUFFICES ASSUME NEW s \in DOMAIN dt.scopes, <<r, s>> \in dt.roleScopes, <<r, s>> \in st.roleScopes
             PROVE  At(dt, u)!MayDelegate(p, s, a)
  BY DEF At!Missing
<1>1. s \in DOMAIN st.scopes
  BY DEF Below, SameFrame
<1>2. At(st, t)!MayDelegate(p, s, a)
  BY <1>1 DEF At!Missing
<1> QED BY <1>2, DelegatesBelow

-----------------------------------------------------------------------------
(* What a call is asked. *)

\* Its guards, one by one.
LEMMA GuardPoints ==
    ASSUME NEW c, NEW read, NEW st, NEW t
    PROVE  /\ c.op = "grant_role" =>
                /\ Len(Guards(c, read, st, t)) = 3
                /\ Guards(c, read, st, t)[1] <=> Holds(c, st, t, c.on[3], "authz.bindings.grant")
                /\ Guards(c, read, st, t)[2] <=> Visible(c, st, t)
                /\ Guards(c, read, st, t)[3] <=> (At(st, t)!Missing(c.actor, c.on[2], c.on[3]) = {})
           /\ c.op = "revoke_binding" =>
                /\ Len(Guards(c, read, st, t)) = 1
                /\ Guards(c, read, st, t)[1] <=> Holds(c, st, t, c.on[3], "authz.bindings.revoke")
           /\ c.op = "add_role_scope" =>
                /\ Len(Guards(c, read, st, t)) = 3
                /\ Guards(c, read, st, t)[1] <=> Holds(c, st, t, st.roles[c.on[1]].tenant, "authz.roles.write")
                /\ Guards(c, read, st, t)[2] <=> Visible(c, st, t)
                /\ Guards(c, read, st, t)[3] <=> At(st, t)!MayDelegate(c.actor, c.on[2], st.roles[c.on[1]].tenant)
           /\ c.op = "remove_role_scope" =>
                /\ Len(Guards(c, read, st, t)) = 1
                /\ Guards(c, read, st, t)[1] <=> Holds(c, st, t, st.roles[c.on[1]].tenant, "authz.roles.write")
           /\ c.op = "update_role" =>
                /\ Len(Guards(c, read, st, t)) = 2
                /\ Guards(c, read, st, t)[1] <=> Holds(c, st, t, st.roles[c.on].tenant, "authz.roles.write")
                /\ Guards(c, read, st, t)[2] <=> (c.arg # read => Holds(c, st, t, Master, "authz.roles.write"))
           /\ c.op = "update_tenant" =>
                /\ Len(Guards(c, read, st, t)) = 1
                /\ Guards(c, read, st, t)[1] <=>
                     (c.arg # read => Holds(c, st, t, st.tenants[c.on].parent, "authz.tenants.write"))
<1>1. CASE c.op = "grant_role"
  BY <1>1 DEF Guards, GrantGuards, Visible
<1>2. CASE c.op = "revoke_binding"
  BY <1>2 DEF Guards, RevokeGuards
<1>3. CASE c.op = "add_role_scope"
  BY <1>3 DEF Guards, AttachGuards, Visible
<1>4. CASE c.op = "remove_role_scope"
  BY <1>4 DEF Guards, DetachGuards
<1>5. CASE c.op = "update_role"
  BY <1>5 DEF Guards, RoleGuards
<1>6. CASE c.op = "update_tenant"
  BY <1>6 DEF Guards, TenantGuards
<1> QED BY <1>1, <1>2, <1>3, <1>4, <1>5, <1>6

\* The number of the last guard.
Last(c) ==
    CASE c.op \in {"grant_role", "add_role_scope"} -> 3
      [] c.op = "update_role" -> 2
      [] OTHER -> 1

LEMMA LastGuard ==
    ASSUME NEW c, NEW st, IsCall(c, st)
    PROVE  Last(c) \in 1..3 /\ \A read, dt, t : Len(Guards(c, read, dt, t)) = Last(c)
BY GuardPoints DEF IsCall, Last

\* What the call finds at its first statement, then at each guard.
Item(c, read, t, i, st) ==
    IF i = 0 THEN Exists(c, st) /\ read = Column(c, st) ELSE Guards(c, read, st, t)[i]

\* Its first statements saw the tables of a, the others those of b.
Progress(c, read, t, n, a, b) ==
    \E k \in 0..(n + 1) : \A i \in 0..n : IF i < k THEN Item(c, read, t, i, a) ELSE Item(c, read, t, i, b)

\* All of them were passed.
Passed(c, read, t, a, b) ==
    /\ \E st \in {a, b} : Exists(c, st) /\ read = Column(c, st)
    /\ Visible(c, a, t) \/ Visible(c, b, t)
    /\ c.op = "grant_role" =>
          LET Grants(st) == Holds(c, st, t, c.on[3], "authz.bindings.grant")
              Covers(st) == At(st, t)!Missing(c.actor, c.on[2], c.on[3]) = {}
          IN  (Grants(a) \/ Grants(b)) /\ ((Grants(a) /\ Covers(a)) \/ Covers(b))
    /\ c.op = "add_role_scope" =>
          LET Defines(st) == Holds(c, st, t, st.roles[c.on[1]].tenant, "authz.roles.write")
              Delegates(st) == At(st, t)!MayDelegate(c.actor, c.on[2], st.roles[c.on[1]].tenant)
          IN  (Defines(a) \/ Defines(b)) /\ ((Defines(a) /\ Delegates(a)) \/ Delegates(b))
    /\ c.op = "update_role" =>
          /\ \E st \in {a, b} : Holds(c, st, t, st.roles[c.on].tenant, "authz.roles.write")
          /\ c.arg # read => \E st \in {a, b} : Holds(c, st, t, Master, "authz.roles.write")
    /\ c.op = "update_tenant" =>
          (c.arg # read => \E st \in {a, b} : Holds(c, st, t, st.tenants[c.on].parent, "authz.tenants.write"))

LEMMA AllPassed ==
    ASSUME NEW a, NEW b, NEW c, IsCall(c, a), NEW read, NEW t, Progress(c, read, t, Last(c), a, b)
    PROVE  Passed(c, read, t, a, b)
<1>1. Last(c) \in 1..3
  BY LastGuard
<1>2. PICK k \in 0..(Last(c) + 1) :
         \A i \in 0..Last(c) : IF i < k THEN Item(c, read, t, i, a) ELSE Item(c, read, t, i, b)
  BY DEF Progress
<1>3. \E st \in {a, b} : Exists(c, st) /\ read = Column(c, st)
  BY <1>1, <1>2 DEF Item
<1>4. \A i \in 1..Last(c) :
         IF i < k THEN Guards(c, read, a, t)[i] ELSE Guards(c, read, b, t)[i]
  BY <1>1, <1>2 DEF Item
<1>5. CASE c.op = "grant_role"
  BY <1>2, <1>3, <1>4, <1>5, GuardPoints DEF Last, Passed
<1>6. CASE c.op = "add_role_scope"
  BY <1>2, <1>3, <1>4, <1>6, GuardPoints DEF Last, Passed
<1>7. CASE c.op = "update_role"
  BY <1>2, <1>3, <1>4, <1>7, GuardPoints DEF Last, Passed, Visible
<1>8. CASE c.op = "update_tenant"
  BY <1>2, <1>3, <1>4, <1>8, GuardPoints DEF Last, Passed, Visible
<1>9. CASE c.op \in {"revoke_binding", "remove_role_scope"}
  BY <1>3, <1>9 DEF Passed, Visible
<1> QED BY <1>5, <1>6, <1>7, <1>8, <1>9 DEF IsCall

\* Against one state they are what the call is asked in turn.
LEMMA AskedInTurn ==
    ASSUME NEW a, NEW c, IsCall(c, a), NEW read, NEW t, Progress(c, read, t, Last(c), a, a)
    PROVE  Exists(c, a) /\ read = Column(c, a) /\ Visible(c, a, t) /\ Entitled(c, a, t)
<1>1. Last(c) \in 1..3
  BY LastGuard
<1>2. \A i \in 0..Last(c) : Item(c, read, t, i, a)
  BY DEF Progress
<1>3. Exists(c, a) /\ read = Column(c, a)
  BY <1>1, <1>2 DEF Item
<1>4. \A i \in 1..Last(c) : Guards(c, read, a, t)[i]
  BY <1>1, <1>2 DEF Item
<1>5. CASE c.op = "grant_role"
  BY <1>3, <1>4, <1>5, GuardPoints DEF Last, Entitled
<1>6. CASE c.op = "add_role_scope"
  BY <1>3, <1>4, <1>6, GuardPoints DEF Last, Entitled
<1>7. CASE c.op = "update_role"
  BY <1>3, <1>4, <1>7, GuardPoints DEF Last, Entitled, Visible, Column
<1>8. CASE c.op = "update_tenant"
  BY <1>3, <1>4, <1>8, GuardPoints DEF Last, Entitled, Visible, Column
<1>9. CASE c.op = "revoke_binding"
  BY <1>3, <1>4, <1>9, GuardPoints DEF Last, Entitled, Visible
<1>10. CASE c.op = "remove_role_scope"
  BY <1>3, <1>4, <1>10, GuardPoints DEF Last, Entitled, Visible
<1> QED BY <1>5, <1>6, <1>7, <1>8, <1>9, <1>10 DEF IsCall

-----------------------------------------------------------------------------
(* What one call does to what another is asked. *)

\* A call that gives leaves the other entitled, unless it adds to a role.
LEMMA KeepsEntitled ==
    ASSUME NEW st, IsDatabase(st), NEW x, IsCall(x, st), NEW y, IsCall(y, st), NEW t, NEW u,
           Gives(x, u), Row(x) # Row(y), Entitled(y, st, u),
           ~(x.op = "add_role_scope" /\ y.op = "grant_role")
    PROVE  Entitled(y, Written(x, st, t), u)
<1> DEFINE w == Written(x, st, t)
<1>1. Writes(x, st, t, w) /\ SameFrame(st, w) /\ Below(st, u, w, u)
  BY WrittenIs, WrittenFrame, GivingRaises DEF IsDatabase
<1> HIDE DEF w
<1>2. \A p, a, n : At(st, u)!HasScope(p, a, n) => At(w, u)!HasScope(p, a, n)
  BY <1>1, HoldsBelow
<1>3. CASE y.op = "grant_role"
  <2>1. x.op # "add_role_scope" => w.roleScopes = st.roleScopes
    BY <1>1 DEF Writes, Gives
  <2>2. At(w, u)!Missing(y.actor, y.on[2], y.on[3]) = {}
    BY <1>1, <1>3, <2>1, NothingMissing DEF Entitled
  <2> QED BY <1>2, <1>3, <2>2 DEF Entitled, Holds, w
<1>4. CASE y.op = "add_role_scope"
  <2>1. y.on[1] \in DOMAIN st.roles
    BY <1>4 DEF IsCall
  <2>2. w.roles[y.on[1]].tenant = st.roles[y.on[1]].tenant
    BY <1>1, <2>1 DEF SameFrame
  <2>3. At(w, u)!MayDelegate(y.actor, y.on[2], w.roles[y.on[1]].tenant)
    BY <1>1, <1>4, <2>2, DelegatesBelow DEF Entitled
  <2> QED BY <1>2, <1>4, <2>2, <2>3 DEF Entitled, Holds, w
<1>5. CASE y.op = "update_role"
  <2>1. y.on \in DOMAIN st.roles
    BY <1>5 DEF IsCall
  <2>2. w.roles[y.on] = st.roles[y.on]
    BY <1>1, <1>5, <2>1 DEF Writes, Row
  <2> QED BY <1>2, <1>5, <2>2 DEF Entitled, Holds, w
<1>6. CASE y.op = "update_tenant"
  <2>1. y.on \in DOMAIN st.tenants
    BY <1>6 DEF IsCall
  <2>2. w.tenants[y.on] = st.tenants[y.on]
    BY <1>1, <1>6, <2>1 DEF Writes, Row
  <2> QED BY <1>2, <1>6, <2>2 DEF Entitled, Holds, w
<1>7. CASE y.op = "remove_role_scope"
  <2>1. y.on[1] \in DOMAIN st.roles
    BY <1>7 DEF IsCall
  <2>2. w.roles[y.on[1]].tenant = st.roles[y.on[1]].tenant
    BY <1>1, <2>1 DEF SameFrame
  <2> QED BY <1>2, <1>7, <2>2 DEF Entitled, Holds, w
<1>8. CASE y.op = "revoke_binding"
  BY <1>2, <1>8 DEF Entitled, Holds, w
<1> QED BY <1>3, <1>4, <1>5, <1>6, <1>7, <1>8 DEF IsCall

\* What the other call has taken, or a scope it has added to the role, is why
\* a call that gives is no longer entitled to what it was let through for; it
\* was entitled to it before.
LEMMA WasEntitled ==
    ASSUME NEW a, IsDatabase(a), NEW c, IsCall(c, a), NEW tc \in 0..MaxTime,
           NEW d, IsCall(d, a), NEW td \in 0..MaxTime, NEW n, Gives(d, n), NEW read,
           Passed(d, read, td, a, Written(c, a, tc)), ~Entitled(d, Written(c, a, tc), td)
    PROVE  /\ Entitled(d, a, td)
           /\ Takes(c, td) \/ (c.op = "add_role_scope" /\ d.op = "grant_role")
<1> DEFINE m == Written(c, a, tc)
<1>1. Writes(c, a, tc, m) /\ SameFrame(a, m) /\ SameFrame(m, a) /\ IsDatabase(m)
  BY WrittenIs, WrittenFrame, WrittenTyped DEF IsDatabase
<1>2. Gives(c, td) => Below(a, td, m, td)
  BY GivingRaises
<1>3. Takes(c, td) => Below(m, td, a, td)
  BY TakingLowers
<1>4. Passed(d, read, td, a, m) /\ ~Entitled(d, m, td)
  OBVIOUS
<1>5. c.op = "remove_role_scope" =>
         \A p, x, l : At(a, td)!HasScope(p, x, l) /\ ~At(m, td)!HasScope(p, x, l) => a.scopes[c.on[2]].name = l
  BY LostByDetaching
<1> HIDE DEF m
<1>6. Gives(c, td) => \A p, x, l : At(a, td)!HasScope(p, x, l) => At(m, td)!HasScope(p, x, l)
  BY <1>2, HoldsBelow
<1>7. Takes(c, td) => \A p, x, l : At(m, td)!HasScope(p, x, l) => At(a, td)!HasScope(p, x, l)
  BY <1>1, <1>3, HoldsBelow
<1>8. Gives(c, td) \/ Takes(c, td)
  BY GivesOrTakes
<1>9. CASE d.op = "grant_role"
  <2> DEFINE Grants(st) == At(st, td)!HasScope(d.actor, d.on[3], "authz.bindings.grant")
             Covers(st) == At(st, td)!Missing(d.actor, d.on[2], d.on[3]) = {}
  <2>1. (Grants(a) \/ Grants(m)) /\ ((Grants(a) /\ Covers(a)) \/ Covers(m))
    BY <1>4, <1>9 DEF Passed, Holds
  <2>2. ~(Grants(m) /\ Covers(m))
    BY <1>4, <1>9 DEF Entitled, Holds
  <2>3. Gives(c, td) /\ c.op # "add_role_scope" => (Covers(a) => Covers(m))
    <3>1. Gives(c, td) /\ c.op # "add_role_scope" => m.roleScopes = a.roleScopes
      BY <1>1 DEF Writes, Gives
    <3> QED BY <1>2, <3>1, NothingMissing
  <2>4. Takes(c, td) /\ Grants(a) /\ ~Grants(m) /\ Covers(m) => Covers(a)
    <3> SUFFICES ASSUME Takes(c, td), Grants(a), ~Grants(m), Covers(m) PROVE Covers(a)
      OBVIOUS
    <3>1. ASSUME NEW x, <<d.on[2], x>> \in a.roleScopes, <<d.on[2], x>> \notin m.roleScopes
          PROVE  At(a, td)!MayDelegate(d.actor, x, d.on[3])
      <4>1. c.op = "remove_role_scope" /\ c.on = <<d.on[2], x>>
        BY <1>1, <3>1 DEF Writes
      <4>2. a.scopes[x].name = "authz.bindings.grant"
        BY <1>5, <4>1
      <4> QED BY <4>2 DEF At!MayDelegate
    <3> QED BY <1>1, <1>3, <3>1, NothingMissing
  <2>5. Gives(c, td) => (Grants(a) => Grants(m))
    BY <1>6
  <2>6. Takes(c, td) => (Grants(m) => Grants(a))
    BY <1>7
  <2>7. Grants(a) /\ Covers(a) => Entitled(d, a, td)
    BY <1>9 DEF Entitled, Holds
  <2> HIDE DEF Grants, Covers
  <2> QED BY <1>8, <1>9, <2>1, <2>2, <2>3, <2>4, <2>5, <2>6, <2>7
<1>10. CASE d.op = "add_role_scope"
  <2>1. d.on[1] \in DOMAIN a.roles /\ m.roles[d.on[1]].tenant = a.roles[d.on[1]].tenant
    BY <1>1, <1>10 DEF IsCall, SameFrame
  <2> DEFINE Defines(st) == At(st, td)!HasScope(d.actor, a.roles[d.on[1]].tenant, "authz.roles.write")
             Delegates(st) == At(st, td)!MayDelegate(d.actor, d.on[2], a.roles[d.on[1]].tenant)
  <2>2. (Defines(a) \/ Defines(m)) /\ ((Defines(a) /\ Delegates(a)) \/ Delegates(m))
    BY <1>4, <1>10, <2>1 DEF Passed, Holds
  <2>3. ~(Defines(m) /\ Delegates(m))
    BY <1>4, <1>10, <2>1 DEF Entitled, Holds
  <2>4. Gives(c, td) => (Defines(a) => Defines(m)) /\ (Delegates(a) => Delegates(m))
    BY <1>2, <1>6, DelegatesBelow
  <2>5. Takes(c, td) => (Defines(m) => Defines(a)) /\ (Delegates(m) => Delegates(a))
    BY <1>1, <1>3, <1>7, DelegatesBelow
  <2>6. Defines(a) /\ Delegates(a) => Entitled(d, a, td)
    BY <1>10 DEF Entitled, Holds
  <2> HIDE DEF Defines, Delegates
  <2> QED BY <1>8, <2>2, <2>3, <2>4, <2>5, <2>6
<1>11. CASE d.op = "update_role"
  <2>1. d.on \in DOMAIN a.roles /\ d.arg = TRUE /\ m.roles[d.on].tenant = a.roles[d.on].tenant
    BY <1>1, <1>11 DEF IsCall, SameFrame, Gives
  <2> DEFINE Defines(st) == At(st, td)!HasScope(d.actor, a.roles[d.on].tenant, "authz.roles.write")
             Crosses(st) == At(st, td)!HasScope(d.actor, Master, "authz.roles.write")
  <2>2. /\ Defines(a) \/ Defines(m)
        /\ d.arg # read => Crosses(a) \/ Crosses(m)
        /\ read \in {a.roles[d.on].crosses, m.roles[d.on].crosses}
    BY <1>4, <1>11, <2>1 DEF Passed, Holds, Column
  <2>3. ~(Defines(m) /\ (d.arg # m.roles[d.on].crosses => Crosses(m)))
    BY <1>4, <1>11, <2>1 DEF Entitled, Holds
  <2>4. a.roles[d.on].crosses \in BOOLEAN /\ m.roles[d.on].crosses \in BOOLEAN
    BY <1>1, <2>1, References DEF SameFrame
  <2>5. /\ Gives(c, td) => (a.roles[d.on].crosses => m.roles[d.on].crosses)
        /\ Takes(c, td) => (m.roles[d.on].crosses => a.roles[d.on].crosses)
    BY <1>1, <1>2, <1>3, <2>1 DEF Below, SameFrame
  <2>6. /\ Gives(c, td) => (Defines(a) => Defines(m)) /\ (Crosses(a) => Crosses(m))
        /\ Takes(c, td) => (Defines(m) => Defines(a)) /\ (Crosses(m) => Crosses(a))
    BY <1>6, <1>7
  <2>7. Defines(a) /\ (d.arg # a.roles[d.on].crosses => Crosses(a)) => Entitled(d, a, td)
    BY <1>11 DEF Entitled, Holds
  <2> HIDE DEF Defines, Crosses
  <2> QED BY <1>8, <2>1, <2>2, <2>3, <2>4, <2>5, <2>6, <2>7
<1>12. CASE d.op = "update_tenant"
  <2>1. d.on \in DOMAIN a.tenants /\ d.arg = TRUE /\ m.tenants[d.on].parent = a.tenants[d.on].parent
    BY <1>1, <1>12 DEF IsCall, SameFrame, Gives
  <2> DEFINE Moves(st) == At(st, td)!HasScope(d.actor, a.tenants[d.on].parent, "authz.tenants.write")
  <2>2. /\ d.arg # read => Moves(a) \/ Moves(m)
        /\ read \in {a.tenants[d.on].inherit, m.tenants[d.on].inherit}
    BY <1>4, <1>12, <2>1 DEF Passed, Holds, Column
  <2>3. ~(d.arg # m.tenants[d.on].inherit => Moves(m))
    BY <1>4, <1>12, <2>1 DEF Entitled, Holds
  <2>4. a.tenants[d.on].inherit \in BOOLEAN /\ m.tenants[d.on].inherit \in BOOLEAN
    BY <1>1, <2>1, References DEF SameFrame
  <2>5. /\ Gives(c, td) => (a.tenants[d.on].inherit => m.tenants[d.on].inherit)
        /\ Takes(c, td) => (m.tenants[d.on].inherit => a.tenants[d.on].inherit)
    BY <1>1, <1>2, <1>3, <2>1 DEF Below, SameFrame
  <2>6. (Gives(c, td) => (Moves(a) => Moves(m))) /\ (Takes(c, td) => (Moves(m) => Moves(a)))
    BY <1>6, <1>7
  <2>7. (d.arg # a.tenants[d.on].inherit => Moves(a)) => Entitled(d, a, td)
    BY <1>12 DEF Entitled, Holds
  <2> HIDE DEF Moves
  <2> QED BY <1>8, <2>1, <2>2, <2>3, <2>4, <2>5, <2>6, <2>7
<1> QED BY <1>9, <1>10, <1>11, <1>12 DEF Gives

-----------------------------------------------------------------------------
(* Two calls that both wrote: c first, in tables a, then d. *)

LEMMA SameTables ==
    ASSUME NEW st, NEW dt, IsTables(st), IsTables(dt),
           st.tenants = dt.tenants, st.roles = dt.roles, st.scopes = dt.scopes, st.roleScopes = dt.roleScopes,
           st.users = dt.users, st.keys = dt.keys, st.bindings = dt.bindings
    PROVE  st = dt
BY DEF IsTables

\* An insert and an update of other rows.
LEMMA PutElsewhere ==
    ASSUME NEW g, NEW x, NEW y \in DOMAIN g, x # y, NEW row, NEW line
    PROVE  [[z \in DOMAIN g \cup {x} |-> IF z = x THEN row ELSE g[z]] EXCEPT ![y] = line]
              = [z \in DOMAIN [g EXCEPT ![y] = line] \cup {x} |-> IF z = x THEN row ELSE [g EXCEPT ![y] = line][z]]
OBVIOUS

\* Writes of two rows may be made in either order.
LEMMA Commute ==
    ASSUME NEW a, IsDatabase(a), NEW c, IsCall(c, a), NEW d, IsCall(d, a), Row(c) # Row(d),
           NEW tc, NEW td, Exists(c, a), Exists(d, a)
    PROVE  Written(d, Written(c, a, tc), td) = Written(c, Written(d, a, td), tc)
<1> DEFINE m == Written(c, a, tc)
           e == Written(d, a, td)
           b == Written(d, m, td)
           f == Written(c, e, tc)
<1>1. IsTables(a)
  BY DEF IsDatabase
<1>2. Writes(c, a, tc, m) /\ SameFrame(a, m) /\ Writes(d, a, td, e) /\ SameFrame(a, e)
  BY <1>1, WrittenIs, WrittenFrame
<1>3. IsTables(m) /\ IsTables(e) /\ IsCall(d, m) /\ IsCall(c, e)
  BY <1>2, StillCall DEF Writes
<1>4. Writes(d, m, td, b) /\ Writes(c, e, tc, f)
  BY <1>3, WrittenIs
<1> HIDE DEF m, e, b, f
<1>5. b.scopes = f.scopes /\ b.users = f.users /\ b.keys = f.keys
  BY <1>2, <1>4 DEF Writes
<1>6. b.tenants = f.tenants
  <2>1. CASE c.op = "update_tenant" /\ d.op = "update_tenant"
    <3>1. c.on # d.on
      BY <2>1 DEF Row
    <3>2. /\ b.tenants = [[a.tenants EXCEPT ![c.on] = [@ EXCEPT !.inherit = c.arg]] EXCEPT ![d.on] = [@ EXCEPT !.inherit = d.arg]]
          /\ f.tenants = [[a.tenants EXCEPT ![d.on] = [@ EXCEPT !.inherit = d.arg]] EXCEPT ![c.on] = [@ EXCEPT !.inherit = c.arg]]
      BY <1>2, <1>4, <2>1 DEF Writes
    <3> QED BY <3>1, <3>2
  <2>2. CASE ~(c.op = "update_tenant" /\ d.op = "update_tenant")
    BY <1>2, <1>4, <2>2 DEF Writes
  <2> QED BY <2>1, <2>2
<1>7. b.roles = f.roles
  <2>1. CASE c.op = "update_role" /\ d.op = "update_role"
    <3>1. c.on # d.on
      BY <2>1 DEF Row
    <3>2. /\ b.roles = [[a.roles EXCEPT ![c.on] = [@ EXCEPT !.crosses = c.arg]] EXCEPT ![d.on] = [@ EXCEPT !.crosses = d.arg]]
          /\ f.roles = [[a.roles EXCEPT ![d.on] = [@ EXCEPT !.crosses = d.arg]] EXCEPT ![c.on] = [@ EXCEPT !.crosses = c.arg]]
      BY <1>2, <1>4, <2>1 DEF Writes
    <3> QED BY <3>1, <3>2
  <2>2. CASE ~(c.op = "update_role" /\ d.op = "update_role")
    BY <1>2, <1>4, <2>2 DEF Writes
  <2> QED BY <2>1, <2>2
<1>8. b.roleScopes = f.roleScopes
  <2>1. c.op \in {"add_role_scope", "remove_role_scope"} /\ d.op \in {"add_role_scope", "remove_role_scope"} => c.on # d.on
    BY DEF Row
  <2>2. CASE c.op = "add_role_scope"
    BY <1>2, <1>4, <2>1, <2>2 DEF Writes
  <2>3. CASE c.op = "remove_role_scope"
    BY <1>2, <1>4, <2>1, <2>3 DEF Writes
  <2>4. CASE c.op \notin {"add_role_scope", "remove_role_scope"}
    BY <1>2, <1>4, <2>4 DEF Writes
  <2> QED BY <2>2, <2>3, <2>4
<1>9. b.bindings = f.bindings
  <2> USE DEF At!Put, At!Grant
  <2>1. c.op \in {"grant_role", "revoke_binding"} /\ d.op \in {"grant_role", "revoke_binding"} => c.on # d.on
    BY DEF Row
  <2>2. a.bindings = [x \in DOMAIN a.bindings |-> a.bindings[x]]
    BY DEF IsDatabase, At!TypeOK, At!BindingsOK
  <2>3. CASE c.op = "grant_role"
    <3>1. CASE d.op = "grant_role"
      BY <1>2, <1>4, <2>1, <2>3, <3>1 DEF Writes
    <3>2. CASE d.op = "revoke_binding"
      <4> DEFINE g == a.bindings
                 row == [by |-> c.actor, expires |-> c.arg, revoked |-> None]
                 line == [g[d.on] EXCEPT !.revoked = td]
      <4>1. d.on \in DOMAIN g /\ c.on # d.on
        BY <2>1, <2>3, <3>2 DEF Exists
      <4>2. /\ m.bindings = [z \in DOMAIN g \cup {c.on} |-> IF z = c.on THEN row ELSE g[z]]
            /\ e.bindings = [g EXCEPT ![d.on] = line]
        BY <1>2, <2>3, <3>2 DEF Writes
      <4>3. b.bindings = [m.bindings EXCEPT ![d.on] = [m.bindings[d.on] EXCEPT !.revoked = td]]
        BY <1>4, <3>2 DEF Writes
      <4>4. m.bindings[d.on] = g[d.on]
        BY <4>1, <4>2
      <4>5. f.bindings = [z \in DOMAIN e.bindings \cup {c.on} |-> IF z = c.on THEN row ELSE e.bindings[z]]
        BY <1>4, <2>3 DEF Writes
      <4> HIDE DEF g, row, line
      <4>6. b.bindings = [m.bindings EXCEPT ![d.on] = line]
        BY <4>3, <4>4 DEF line
      <4>7. b.bindings = [[z \in DOMAIN g \cup {c.on} |-> IF z = c.on THEN row ELSE g[z]] EXCEPT ![d.on] = line]
        BY <4>2, <4>6
      <4>8. f.bindings = [z \in DOMAIN [g EXCEPT ![d.on] = line] \cup {c.on} |->
                             IF z = c.on THEN row ELSE [g EXCEPT ![d.on] = line][z]]
        BY <4>2, <4>5
      <4> QED BY <4>1, <4>7, <4>8, PutElsewhere
    <3>3. CASE d.op \notin {"grant_role", "revoke_binding"}
      BY <1>2, <1>4, <2>3, <3>3 DEF Writes
    <3> QED BY <3>1, <3>2, <3>3
  <2>4. CASE c.op = "revoke_binding"
    <3>1. CASE d.op = "grant_role"
      <4> DEFINE g == a.bindings
                 row == [by |-> d.actor, expires |-> d.arg, revoked |-> None]
                 line == [g[c.on] EXCEPT !.revoked = tc]
      <4>1. c.on \in DOMAIN g /\ c.on # d.on
        BY <2>1, <2>4, <3>1 DEF Exists
      <4>2. /\ e.bindings = [z \in DOMAIN g \cup {d.on} |-> IF z = d.on THEN row ELSE g[z]]
            /\ m.bindings = [g EXCEPT ![c.on] = line]
        BY <1>2, <2>4, <3>1 DEF Writes
      <4>3. f.bindings = [e.bindings EXCEPT ![c.on] = [e.bindings[c.on] EXCEPT !.revoked = tc]]
        BY <1>4, <2>4 DEF Writes
      <4>4. e.bindings[c.on] = g[c.on]
        BY <4>1, <4>2
      <4>5. b.bindings = [z \in DOMAIN m.bindings \cup {d.on} |-> IF z = d.on THEN row ELSE m.bindings[z]]
        BY <1>4, <3>1 DEF Writes
      <4> HIDE DEF g, row, line
      <4>6. f.bindings = [e.bindings EXCEPT ![c.on] = line]
        BY <4>3, <4>4 DEF line
      <4> QED BY <4>1, <4>2, <4>5, <4>6, PutElsewhere
    <3>2. CASE d.op = "revoke_binding"
      <4>1. c.on # d.on
        BY <2>1, <2>4, <3>2
      <4>2. /\ b.bindings = [[a.bindings EXCEPT ![c.on] = [@ EXCEPT !.revoked = tc]] EXCEPT ![d.on] = [@ EXCEPT !.revoked = td]]
            /\ f.bindings = [[a.bindings EXCEPT ![d.on] = [@ EXCEPT !.revoked = td]] EXCEPT ![c.on] = [@ EXCEPT !.revoked = tc]]
        BY <1>2, <1>4, <2>4, <3>2 DEF Writes
      <4> QED BY <4>1, <4>2
    <3>3. CASE d.op \notin {"grant_role", "revoke_binding"}
      BY <1>2, <1>4, <2>4, <3>3 DEF Writes
    <3> QED BY <3>1, <3>2, <3>3
  <2>5. CASE c.op \notin {"grant_role", "revoke_binding"}
    <3>1. m.bindings = a.bindings /\ f.bindings = e.bindings
      BY <1>2, <1>4, <2>5 DEF Writes
    <3>2. CASE d.op = "grant_role"
      BY <1>2, <1>4, <3>1, <3>2 DEF Writes
    <3>3. CASE d.op = "revoke_binding"
      BY <1>2, <1>4, <3>1, <3>3 DEF Writes
    <3>4. CASE d.op \notin {"grant_role", "revoke_binding"}
      BY <1>2, <1>4, <3>1, <3>4 DEF Writes
    <3> QED BY <3>2, <3>3, <3>4
  <2> QED BY <2>3, <2>4, <2>5
<1> QED BY <1>4, <1>5, <1>6, <1>7, <1>8, <1>9, SameTables DEF Writes, b, f, m, e

\* The tables as the two calls leave them one after the other, with a name
\* looked up as in Turns.
InOrder(a, x, tx, y, ty, st) ==
    \E e, f \in {a, InTurn(x, a, tx, a), InTurn(y, a, ty, a)} : st = InTurn(y, InTurn(x, a, tx, e), ty, f)

\* What Turns has, or nothing that was not in one of them or in a.
Fair(a, c, tc, d, td, b, n) ==
    \E st :
        /\ InOrder(a, c, tc, d, td, st) \/ InOrder(a, d, td, c, tc, st)
        /\ \/ b = st
           \/ /\ Withdraws(c) \/ Withdraws(d)
              /\ Below(b, n, st, n) \/ Below(b, n, a, td)

LEMMA TakesWithdraws ==
    ASSUME NEW st, NEW c, IsCall(c, st), NEW u, Takes(c, u)
    PROVE  Withdraws(c)
BY DEF IsCall, Takes, Withdraws, Dead

\* A flag cleared and set again.
LEMMA RoleBack ==
    ASSUME NEW T, NEW N, NEW x \in [tenant : T, name : N, crosses : BOOLEAN], x.crosses = TRUE,
           NEW y, y = [x EXCEPT !.crosses = FALSE]
    PROVE  [y EXCEPT !.crosses = TRUE] = x
OBVIOUS

LEMMA TenantBack ==
    ASSUME NEW P, NEW x \in [parent : P, inherit : BOOLEAN], x.inherit = TRUE,
           NEW y, y = [x EXCEPT !.inherit = FALSE]
    PROVE  [y EXCEPT !.inherit = TRUE] = x
OBVIOUS

\* On one row a call that gives is let through after one that took from its
\* actor only to put back, at most, what was there when it began.
LEMMA PutsBack ==
    ASSUME NEW a, IsDatabase(a), NEW c, IsCall(c, a), NEW tc \in 0..MaxTime, Effective(c, a, Column(c, a)),
           NEW d, IsCall(d, a), NEW td \in 0..MaxTime, NEW n \in 0..MaxTime, td <= n,
           Row(c) = Row(d), Takes(c, td), Gives(d, n), Entitled(d, a, td),
           Effective(d, Written(c, a, tc), None), ~Entitled(d, Written(c, a, tc), td)
    PROVE  Below(Written(d, Written(c, a, tc), td), n, a, td)
<1> DEFINE m == Written(c, a, tc)
           b == Written(d, m, td)
<1>1. IsTables(a)
  BY DEF IsDatabase
<1>2. Writes(c, a, tc, m) /\ SameFrame(a, m) /\ IsDatabase(m) /\ IsCall(d, m)
  BY <1>1, WrittenIs, WrittenFrame, WrittenTyped, StillCall
<1>3. Writes(d, m, td, b) /\ SameFrame(m, b)
  BY <1>2, WrittenIs, WrittenFrame DEF IsDatabase
<1>4. Effective(d, m, None) /\ Entitled(d, a, td) /\ ~Entitled(d, m, td)
  OBVIOUS
<1>5. c.op \in {"grant_role", "revoke_binding"} =>
         \A p, x, l : At(a, td)!HasScope(p, x, l) /\ ~At(m, td)!HasScope(p, x, l) =>
             c.on \in DOMAIN a.bindings /\ c.on[1] = p /\ At(a, td)!Live(c.on)
  BY LostByBinding
<1>6. Below(a, n, a, td)
  BY Later, RaceBounds
<1> HIDE DEF m, b
<1>7. b.scopes = a.scopes /\ b.users = a.users /\ b.keys = a.keys
  BY <1>2, <1>3 DEF Writes
<1>8. CASE d.op = "grant_role"
  <2>1. c.op \in {"grant_role", "revoke_binding"} /\ c.on = d.on
    BY <1>8 DEF Row, IsCall
  <2>2. m.roleScopes = a.roleScopes /\ m.scopes = a.scopes
    BY <1>2, <2>1 DEF Writes
  <2>3. PICK p, x, l : At(a, td)!HasScope(p, x, l) /\ ~At(m, td)!HasScope(p, x, l)
    <3>1. CASE ~At(m, td)!HasScope(d.actor, d.on[3], "authz.bindings.grant")
      BY <1>4, <1>8, <3>1 DEF Entitled, Holds
    <3>2. CASE At(m, td)!HasScope(d.actor, d.on[3], "authz.bindings.grant")
      <4>1. At(a, td)!Missing(d.actor, d.on[2], d.on[3]) = {} /\ At(m, td)!Missing(d.actor, d.on[2], d.on[3]) # {}
        BY <1>4, <1>8, <3>2 DEF Entitled, Holds
      <4>2. PICK y \in DOMAIN a.scopes : At(a, td)!MayDelegate(d.actor, y, d.on[3]) /\ ~At(m, td)!MayDelegate(d.actor, y, d.on[3])
        BY <2>2, <4>1 DEF At!Missing
      <4>3. CASE At(a, td)!HasScope(d.actor, d.on[3], a.scopes[y].name)
        <5>1. ~At(m, td)!HasScope(d.actor, d.on[3], a.scopes[y].name)
          BY <2>2, <4>2 DEF At!MayDelegate
        <5> QED BY <4>3, <5>1
      <4>4. CASE At(a, td)!HasScope(d.actor, a.scopes[y].tenant, "authz.scopes.write")
        <5>1. ~At(m, td)!HasScope(d.actor, a.scopes[y].tenant, "authz.scopes.write")
          BY <2>2, <4>2 DEF At!MayDelegate, At!ScopesWrite
        <5> QED BY <4>4, <5>1
      <4> QED BY <4>2, <4>3, <4>4 DEF At!MayDelegate, At!ScopesWrite
    <3> QED BY <3>1, <3>2
  <2>4. d.on \in DOMAIN a.bindings /\ At(a, td)!Live(d.on)
    BY <1>5, <2>1, <2>3
  <2>5. b.tenants = a.tenants /\ b.roles = a.roles /\ b.roleScopes = a.roleScopes
    BY <1>2, <1>3, <1>8, <2>1 DEF Writes
  <2>6. ASSUME NEW y \in DOMAIN b.bindings, At(b, n)!Live(y)
        PROVE  y \in DOMAIN a.bindings /\ At(a, td)!Live(y)
    <3>1. CASE y = d.on
      BY <2>4, <3>1
    <3>2. CASE y # d.on
      <4>1. y \in DOMAIN m.bindings /\ b.bindings[y] = m.bindings[y]
        BY <1>3, <1>8, <3>2 DEF Writes, At!Put
      <4>2. y \in DOMAIN a.bindings /\ m.bindings[y] = a.bindings[y]
        BY <1>2, <2>1, <3>2, <4>1 DEF Writes, At!Put
      <4>3. At(a, n)!Live(y)
        BY <1>7, <2>6, <4>1, <4>2, LiveSame
      <4> QED BY <1>6, <4>2, <4>3 DEF Below
    <3> QED BY <3>1, <3>2
  <2>7. Below(b, n, a, td)
    BY <1>7, <2>5, <2>6 DEF Below, SameFrame
  <2> QED BY <2>7 DEF b, m
<1>9. CASE d.op = "add_role_scope"
  <2>1. c.op \in {"add_role_scope", "remove_role_scope"} /\ c.on = d.on
    BY <1>9 DEF Row, IsCall
  <2>2. d.on \notin m.roleScopes
    BY <1>4, <1>9 DEF Effective
  <2>3. c.op = "remove_role_scope" /\ c.on \in a.roleScopes
    BY <1>2, <2>1, <2>2 DEF Writes, Effective
  <2>4. b = a
    BY <1>1, <1>2, <1>3, <1>7, <1>9, <2>1, <2>3, SameTables DEF Writes
  <2> QED BY <1>6, <2>4 DEF b, m
<1>10. CASE d.op = "update_role"
  <2>1. c.op = "update_role" /\ c.on = d.on /\ c.arg = FALSE /\ d.arg = TRUE /\ d.on \in DOMAIN a.roles
    BY <1>10 DEF Row, IsCall, Takes, Gives
  <2>2. a.roles \in [DOMAIN a.roles -> [tenant : DOMAIN a.tenants, name : RoleNames, crosses : BOOLEAN]]
    BY DEF IsDatabase, At!TypeOK, At!RolesOK
  <2>3. a.roles[d.on].crosses \in BOOLEAN
    BY <2>1, References
  <2>4. CASE a.roles[d.on].crosses = TRUE
    <3>1. /\ m.roles = [a.roles EXCEPT ![d.on] = [@ EXCEPT !.crosses = FALSE]]
          /\ b.roles = [m.roles EXCEPT ![d.on] = [@ EXCEPT !.crosses = TRUE]]
      BY <1>2, <1>3, <1>10, <2>1 DEF Writes
    <3>2. b.roles = a.roles
      <4>1. m.roles[d.on] = [a.roles[d.on] EXCEPT !.crosses = FALSE]
        BY <2>1, <2>2, <3>1
      <4>2. a.roles[d.on] \in [tenant : DOMAIN a.tenants, name : RoleNames, crosses : BOOLEAN]
        BY <2>1, <2>2
      <4>3. [m.roles[d.on] EXCEPT !.crosses = TRUE] = a.roles[d.on]
        BY <2>4, <4>1, <4>2, RoleBack
      <4>4. b.roles = [m.roles EXCEPT ![d.on] = a.roles[d.on]]
        BY <3>1, <4>3
      <4> QED BY <2>1, <2>2, <3>1, <4>4
    <3>3. b = a
      BY <1>1, <1>2, <1>3, <1>7, <1>10, <2>1, <3>2, SameTables DEF Writes
    <3> QED BY <1>6, <3>3 DEF b, m
  <2>5. CASE a.roles[d.on].crosses = FALSE
    <3>1. m.roles = a.roles
      <4>1. m.roles = [a.roles EXCEPT ![d.on] = [@ EXCEPT !.crosses = FALSE]]
        BY <1>2, <2>1 DEF Writes
      <4> QED BY <2>1, <2>2, <2>5, <4>1
    <3>2. m = a
      BY <1>1, <1>2, <2>1, <3>1, SameTables DEF Writes
    <3> QED BY <1>4, <3>2
  <2> QED BY <2>3, <2>4, <2>5
<1>11. CASE d.op = "update_tenant"
  <2>1. c.op = "update_tenant" /\ c.on = d.on /\ c.arg = FALSE /\ d.arg = TRUE /\ d.on \in DOMAIN a.tenants
    BY <1>11 DEF Row, IsCall, Takes, Gives
  <2>2. a.tenants \in [DOMAIN a.tenants -> [parent : DOMAIN a.tenants \cup {None}, inherit : BOOLEAN]]
    BY DEF IsDatabase, At!TypeOK, At!TenantsOK
  <2>3. a.tenants[d.on].inherit \in BOOLEAN
    BY <2>1, References
  <2>4. CASE a.tenants[d.on].inherit = TRUE
    <3>1. /\ m.tenants = [a.tenants EXCEPT ![d.on] = [@ EXCEPT !.inherit = FALSE]]
          /\ b.tenants = [m.tenants EXCEPT ![d.on] = [@ EXCEPT !.inherit = TRUE]]
      BY <1>2, <1>3, <1>11, <2>1 DEF Writes
    <3>2. b.tenants = a.tenants
      <4>1. m.tenants[d.on] = [a.tenants[d.on] EXCEPT !.inherit = FALSE]
        BY <2>1, <2>2, <3>1
      <4>2. a.tenants[d.on] \in [parent : DOMAIN a.tenants \cup {None}, inherit : BOOLEAN]
        BY <2>1, <2>2
      <4>3. [m.tenants[d.on] EXCEPT !.inherit = TRUE] = a.tenants[d.on]
        BY <2>4, <4>1, <4>2, TenantBack
      <4>4. b.tenants = [m.tenants EXCEPT ![d.on] = a.tenants[d.on]]
        BY <3>1, <4>3
      <4> QED BY <2>1, <2>2, <3>1, <4>4
    <3>3. b = a
      BY <1>1, <1>2, <1>3, <1>7, <1>11, <2>1, <3>2, SameTables DEF Writes
    <3> QED BY <1>6, <3>3 DEF b, m
  <2>5. CASE a.tenants[d.on].inherit = FALSE
    <3>1. m.tenants = a.tenants
      <4>1. m.tenants = [a.tenants EXCEPT ![d.on] = [@ EXCEPT !.inherit = FALSE]]
        BY <1>2, <2>1 DEF Writes
      <4> QED BY <2>1, <2>2, <2>5, <4>1
    <3>2. m = a
      BY <1>1, <1>2, <2>1, <3>1, SameTables DEF Writes
    <3> QED BY <1>4, <3>2
  <2> QED BY <2>3, <2>4, <2>5
<1> QED BY <1>8, <1>9, <1>10, <1>11 DEF Gives, b, m

\* Two calls that wrote leave what they would have in turn, or what a
\* withdrawal among them failed to take.
LEMMA BothWrote ==
    ASSUME NEW a, IsDatabase(a), NEW c, IsCall(c, a), NEW tc \in 0..MaxTime, NEW d, IsCall(d, a),
           NEW td \in 0..MaxTime, NEW n \in 0..MaxTime, tc <= n, td <= n,
           Exists(c, a), Visible(c, a, tc), Entitled(c, a, tc), Effective(c, a, Column(c, a)),
           NEW read, Passed(d, read, td, a, Written(c, a, tc)), Effective(d, Written(c, a, tc), read)
    PROVE  Fair(a, c, tc, d, td, Written(d, Written(c, a, tc), td), n)
<1> DEFINE m == Written(c, a, tc)
           b == Written(d, m, td)
           e == Written(d, a, td)
<1>1. Writes(c, a, tc, m) /\ IsDatabase(m) /\ IsCall(d, m)
  BY WrittenIs, WrittenFrame, WrittenTyped, StillCall DEF IsDatabase
<1>2. InTurn(c, a, tc, a) = m
  BY DEF InTurn
<1>3. ASSUME NEW seen \in {a, m} PROVE InOrder(a, c, tc, d, td, InTurn(d, m, td, seen))
  BY <1>2, <1>3 DEF InOrder
<1>4. CASE Takes(d, n)
  <2>1. InTurn(d, m, td, a) \in {b, m}
    BY DEF InTurn
  <2>2. Below(b, n, m, n)
    BY <1>1, <1>4, TakingLowers, RaceBounds
  <2>3. Withdraws(d)
    BY <1>4, TakesWithdraws
  <2> QED BY <1>3, <2>1, <2>2, <2>3 DEF Fair
<1>5. CASE ~Takes(d, n)
  <2>1. Gives(d, n) /\ Exists(d, a) /\ Exists(d, m)
    BY <1>5, GivesOrTakes DEF Gives, Exists
  <2>2. /\ Effective(d, m, Column(d, m)) /\ Effective(d, m, None)
        /\ Row(c) # Row(d) => Effective(d, a, Column(d, a))
    <3>1. CASE d.op = "add_role_scope"
      <4>1. d.on \notin m.roleScopes
        BY <3>1 DEF Effective
      <4>2. Row(c) # Row(d) => d.on \notin a.roleScopes
        <5>1. c.op = "remove_role_scope" /\ Row(c) # Row(d) => c.on # d.on
          BY <3>1 DEF Row
        <5> QED BY <1>1, <4>1, <5>1 DEF Writes, IsCall
      <4> QED BY <3>1, <4>1, <4>2 DEF Effective
    <3>2. CASE d.op # "add_role_scope"
      BY <2>1, <3>2 DEF Effective, Gives
    <3> QED BY <3>1, <3>2
  <2>3. PICK seen \in {a, m} : Visible(d, seen, td)
    BY DEF Passed
  <2>4. CASE Entitled(d, m, td)
    <3>1. InTurn(d, m, td, seen) = b
      BY <2>1, <2>2, <2>3, <2>4 DEF InTurn
    <3> QED BY <1>3, <3>1 DEF Fair
  <2>5. CASE ~Entitled(d, m, td)
    <3>1. Entitled(d, a, td) /\ (Takes(c, td) \/ (c.op = "add_role_scope" /\ d.op = "grant_role"))
      BY <2>1, <2>5, WasEntitled
    <3>2. CASE Row(c) = Row(d)
      <4>1. Takes(c, td)
        BY <3>1, <3>2 DEF Row
      <4>2. Below(b, n, a, td)
        BY <2>1, <2>2, <2>5, <3>1, <3>2, <4>1, PutsBack
      <4>3. Withdraws(c)
        BY <4>1, TakesWithdraws
      <4> QED BY <1>3, <4>2, <4>3 DEF Fair
    <3>3. CASE Row(c) # Row(d)
      <4>1. e = InTurn(d, a, td, seen)
        BY <2>1, <2>2, <2>3, <3>1, <3>3 DEF InTurn
      <4>2. b = Written(c, e, tc)
        BY <2>1, <3>3, Commute
      <4>3. IsDatabase(e) /\ IsCall(c, e) /\ Writes(d, a, td, e)
        BY WrittenIs, WrittenFrame, WrittenTyped, StillCall DEF IsDatabase
      <4>4. InOrder(a, d, td, c, tc, InTurn(c, e, tc, a))
        BY <1>2, <4>1 DEF InOrder
      <4>5. Exists(c, e) /\ Effective(c, e, Column(c, e))
        <5>1. CASE c.op = "revoke_binding"
          <6>1. c.on \in DOMAIN a.bindings /\ a.bindings[c.on].revoked = None
            BY <5>1 DEF Exists, Effective, Column
          <6>2. c.on \in DOMAIN e.bindings /\ e.bindings[c.on] = a.bindings[c.on]
            BY <2>1, <3>3, <4>3, <5>1, <6>1 DEF Writes, Row, Gives, At!Put
          <6> QED BY <5>1, <6>1, <6>2 DEF Exists, Effective, Column
        <5>2. CASE c.op \in {"add_role_scope", "remove_role_scope"}
          <6>1. c.on \in a.roleScopes <=> c.on \in e.roleScopes
            BY <2>1, <3>3, <4>3, <5>2 DEF Writes, Row, Gives
          <6> QED BY <5>2, <6>1 DEF Exists, Effective
        <5>3. CASE c.op \notin {"revoke_binding", "add_role_scope", "remove_role_scope"}
          BY <5>3 DEF Exists, Effective
        <5> QED BY <5>1, <5>2, <5>3
      <4>6. CASE Entitled(c, e, tc)
        <5>1. InTurn(c, e, tc, a) = b
          BY <4>2, <4>5, <4>6 DEF InTurn
        <5> QED BY <4>4, <5>1 DEF Fair
      <4>7. CASE ~Entitled(c, e, tc)
        <5>1. Gives(d, tc)
          BY <2>1, RaceBounds, StaysDead DEF Gives
        <5>2. d.op = "add_role_scope" /\ c.op = "grant_role"
          BY <3>3, <4>7, <5>1, KeepsEntitled
        <5>3. Takes(c, n)
          <6>1. Dead(c, td)
            BY <3>1, <5>2 DEF Takes
          <6> QED BY <5>2, <6>1, RaceBounds, StaysDead DEF Takes
        <5>4. Below(b, n, e, n)
          BY <4>2, <4>3, <5>3, TakingLowers, RaceBounds
        <5>5. InTurn(c, e, tc, a) = e
          BY <4>7 DEF InTurn
        <5>6. Withdraws(c)
          BY <5>3, TakesWithdraws
        <5> QED BY <4>4, <5>4, <5>5, <5>6 DEF Fair
      <4> QED BY <4>6, <4>7
    <3> QED BY <3>2, <3>3
  <2> QED BY <2>4, <2>5
<1> QED BY <1>4, <1>5

-----------------------------------------------------------------------------
(* What holds of the transactions at every moment. *)

Landed(x) == x.stage = "done" /\ x.effect
Writing(x) == x.stage = "written" /\ x.effect

Leaves(x, st) == Written(x.call, st, x.began)

Through(x, n, a, b) == Progress(x.call, x.read, x.began, n, a, b)

\* x was let through by the tables of a and of b, and wrote into those of b.
Settled(x, a, b) == Through(x, Last(x.call), a, b) /\ Effective(x.call, b, x.read)

\* In turn x would have done nothing to the tables of a, or to those of b.
Refused(x, a, b) == \E st \in {a, b} : InTurn(x.call, st, x.began, st) = st

\* What is committed is the writes of the calls that landed, in that order,
\* each let through by what was committed before it.
Committed ==
    \/ db = first /\ \A s \in Sessions : ~Landed(txn[s])
    \/ \E s \in Sessions :
          /\ Landed(txn[s]) /\ \A q \in Sessions \ {s} : ~Landed(txn[q])
          /\ Settled(txn[s], first, first) /\ db = Leaves(txn[s], first)
    \/ \E s, q \in Sessions :
          /\ s # q /\ Landed(txn[s]) /\ Landed(txn[q])
          /\ Settled(txn[s], first, first) /\ Settled(txn[q], first, Leaves(txn[s], first))
          /\ db = Leaves(txn[q], Leaves(txn[s], first))

\* Where a session is, and what let it come there.
SessionOK(x, a, b) ==
    /\ x.stage = "guard" => x.at \in 1..Last(x.call) /\ Through(x, x.at - 1, a, b)
    /\ x.stage \in {"write", "written"} => Through(x, Last(x.call), a, b)
    /\ Writing(x) => Effective(x.call, b, x.read)
    /\ x.effect => Writing(x) \/ Landed(x)
    /\ x.stage = "raised" \/ (x.stage \in {"written", "done"} /\ ~x.effect) => Refused(x, a, b)

\* Two calls do not hold the lock of one row.
Apart ==
    \A s, q \in Sessions : s # q /\ Writing(txn[s]) /\ Writing(txn[q]) => Row(txn[s].call) # Row(txn[q].call)

RaceOK ==
    /\ TypeOK /\ SameFrame(first, db) /\ Committed /\ Apart
    /\ \A s \in Sessions : SessionOK(txn[s], first, db)

LEMMA Begun ==
    ASSUME NEW a, NEW b, NEW c, Exists(c, b), NEW t
    PROVE  Progress(c, Column(c, b), t, 0, a, b)
BY DEF Progress, Item

LEMMA OneMore ==
    ASSUME NEW a, NEW b, NEW c, NEW read, NEW t, NEW i \in 1..3,
           Progress(c, read, t, i - 1, a, b), Guards(c, read, b, t)[i]
    PROVE  Progress(c, read, t, i, a, b)
<1>1. PICK k \in 0..i : \A j \in 0..(i - 1) : IF j < k THEN Item(c, read, t, j, a) ELSE Item(c, read, t, j, b)
  BY DEF Progress
<1>2. Item(c, read, t, i, b)
  BY DEF Item
<1>3. \A j \in 0..i : IF j < k THEN Item(c, read, t, j, a) ELSE Item(c, read, t, j, b)
  BY <1>1, <1>2
<1> QED BY <1>3 DEF Progress

\* What was seen in one state was seen before any other.
LEMMA SeenBefore ==
    ASSUME NEW a, NEW b, NEW c, NEW read, NEW t, NEW n \in Nat, Progress(c, read, t, n, a, a)
    PROVE  Progress(c, read, t, n, a, b)
<1>1. \A i \in 0..n : IF i < n + 1 THEN Item(c, read, t, i, a) ELSE Item(c, read, t, i, b)
  BY DEF Progress
<1> QED BY <1>1 DEF Progress

\* A guard that fails refuses the call in turn.
LEMMA Fails ==
    ASSUME NEW b, IsDatabase(b), NEW c, IsCall(c, b), NEW read, NEW t, NEW i \in 1..Last(c),
           ~Guards(c, read, b, t)[i]
    PROVE  InTurn(c, b, t, b) = b
<1>1. IsTables(b)
  BY DEF IsDatabase
<1>2. ~Visible(c, b, t) \/ ~Entitled(c, b, t) => InTurn(c, b, t, b) = b
  BY DEF InTurn
<1>3. Written(c, b, t) = b => InTurn(c, b, t, b) = b
  BY DEF InTurn
<1>4. Writes(c, b, t, Written(c, b, t))
  BY <1>1, WrittenIs
<1>5. CASE c.op = "grant_role"
  BY <1>2, <1>5, GuardPoints DEF Last, Entitled
<1>6. CASE c.op = "add_role_scope"
  BY <1>2, <1>6, GuardPoints DEF Last, Entitled
<1>7. CASE c.op = "revoke_binding"
  BY <1>2, <1>7, GuardPoints DEF Last, Entitled
<1>8. CASE c.op = "remove_role_scope"
  BY <1>2, <1>8, GuardPoints DEF Last, Entitled
<1>9. CASE c.op = "update_role"
  <2>1. CASE c.arg # b.roles[c.on].crosses
    BY <1>2, <1>9, <2>1, GuardPoints DEF Last, Entitled
  <2>2. CASE c.arg = b.roles[c.on].crosses
    <3> DEFINE w == Written(c, b, t)
    <3>1. w.roles = [b.roles EXCEPT ![c.on] = [@ EXCEPT !.crosses = c.arg]]
      BY <1>4, <1>9 DEF Writes
    <3>2. b.roles \in [DOMAIN b.roles -> [tenant : DOMAIN b.tenants, name : RoleNames, crosses : BOOLEAN]]
      BY DEF IsDatabase, At!TypeOK, At!RolesOK
    <3> HIDE DEF w
    <3>3. w.roles = b.roles
      BY <1>9, <2>2, <3>1, <3>2 DEF IsCall
    <3>4. w = b
      BY <1>1, <1>4, <1>9, <3>3, SameTables DEF Writes, w
    <3> QED BY <1>3, <3>4 DEF w
  <2> QED BY <2>1, <2>2
<1>10. CASE c.op = "update_tenant"
  <2>1. CASE c.arg # b.tenants[c.on].inherit
    BY <1>2, <1>10, <2>1, GuardPoints DEF Last, Entitled
  <2>2. CASE c.arg = b.tenants[c.on].inherit
    <3> DEFINE w == Written(c, b, t)
    <3>1. w.tenants = [b.tenants EXCEPT ![c.on] = [@ EXCEPT !.inherit = c.arg]]
      BY <1>4, <1>10 DEF Writes
    <3>2. b.tenants \in [DOMAIN b.tenants -> [parent : DOMAIN b.tenants \cup {None}, inherit : BOOLEAN]]
      BY DEF IsDatabase, At!TypeOK, At!TenantsOK
    <3> HIDE DEF w
    <3>3. w.tenants = b.tenants
      BY <1>10, <2>2, <3>1, <3>2 DEF IsCall
    <3>4. w = b
      BY <1>1, <1>4, <1>10, <3>3, SameTables DEF Writes, w
    <3> QED BY <1>3, <3>4 DEF w
  <2> QED BY <2>1, <2>2
<1> QED BY <1>5, <1>6, <1>7, <1>8, <1>9, <1>10 DEF IsCall

\* So does a write that finds nothing to do.
LEMMA Idles ==
    ASSUME NEW a, NEW b, NEW c, IsCall(c, a), NEW read, NEW t,
           Progress(c, read, t, Last(c), a, b), ~Effective(c, b, read)
    PROVE  \E st \in {a, b} : InTurn(c, st, t, st) = st
<1>1. PICK st \in {a, b} : Exists(c, st) /\ read = Column(c, st)
  BY AllPassed DEF Passed
<1>2. CASE c.op = "revoke_binding"
  BY <1>1, <1>2 DEF Effective, InTurn
<1>3. CASE c.op # "revoke_binding"
  BY <1>3 DEF Effective, InTurn
<1> QED BY <1>2, <1>3

\* A write leaves the writes of other rows as they were.
LEMMA Elsewhere ==
    ASSUME NEW a, IsDatabase(a), NEW c, IsCall(c, a), NEW t, NEW d, IsCall(d, a),
           Row(c) # Row(d), NEW read, Effective(d, a, read)
    PROVE  Effective(d, Written(c, a, t), read)
<1>1. Writes(c, a, t, Written(c, a, t))
  BY WrittenIs DEF IsDatabase
<1> QED BY <1>1 DEF Writes, Row, Effective, IsCall

\* A session moves and nothing is committed.
LEMMA Moves ==
    ASSUME RaceOK, NEW s \in Sessions, db' = db, now' = now, first' = first,
           DOMAIN txn' = Sessions, \A q \in Sessions \ {s} : txn'[q] = txn[q],
           NEW y, y = txn'[s], ~Landed(txn[s]), ~Landed(y), IsTransaction(txn[s])', SessionOK(y, first, db),
           Writing(y) => \A q \in Sessions \ {s} : Writing(txn[q]) => Row(y.call) # Row(txn[q].call)
    PROVE  RaceOK'
<1>1. TypeOK'
  BY DEF RaceOK, TypeOK, IsTransaction
<1>2. \A q \in Sessions : Landed(txn[q]) => q # s /\ txn'[q] = txn[q]
  OBVIOUS
<1>3. \A q \in Sessions : Landed(txn[q]) <=> Landed(txn'[q])
  OBVIOUS
<1>4. Committed'
  <2>1. CASE db = first /\ \A q \in Sessions : ~Landed(txn[q])
    BY <1>3, <2>1 DEF Committed
  <2>2. CASE \E q \in Sessions :
               /\ Landed(txn[q]) /\ \A r \in Sessions \ {q} : ~Landed(txn[r])
               /\ Settled(txn[q], first, first) /\ db = Leaves(txn[q], first)
    BY <1>2, <1>3, <2>2 DEF Committed
  <2>3. CASE \E q, r \in Sessions :
               /\ q # r /\ Landed(txn[q]) /\ Landed(txn[r])
               /\ Settled(txn[q], first, first) /\ Settled(txn[r], first, Leaves(txn[q], first))
               /\ db = Leaves(txn[r], Leaves(txn[q], first))
    BY <1>2, <1>3, <2>3 DEF Committed
  <2> QED BY <2>1, <2>2, <2>3 DEF RaceOK, Committed
<1>5. Apart'
  BY DEF RaceOK, Apart
<1>6. ASSUME NEW q \in Sessions PROVE SessionOK(txn[q], first, db)'
  BY DEF RaceOK
<1> QED BY <1>1, <1>4, <1>5, <1>6 DEF RaceOK

LEMMA TxnTyped ==
    ASSUME RaceOK, NEW s \in Sessions, txn[s].stage # "idle"
    PROVE  /\ IsCall(txn[s].call, first) /\ IsCall(txn[s].call, db)
           /\ txn[s].began \in 0..MaxTime /\ Last(txn[s].call) \in 1..3
<1>1. IsCall(txn[s].call, first) /\ txn[s].began \in 0..now /\ now \in 0..MaxTime
  BY DEF RaceOK, TypeOK, IsTransaction
<1>2. IsCall(txn[s].call, db)
  BY <1>1, StillCall DEF RaceOK
<1>3. txn[s].began \in 0..MaxTime
  BY <1>1, RaceBounds
<1> QED BY <1>1, <1>2, <1>3, LastGuard

LEMMA BeginStep ==
    ASSUME RaceOK, NEW s \in Sessions, Begin(s)
    PROVE  RaceOK'
<1>0. PICK y : y = txn'[s]
  OBVIOUS
<1>1. PICK c \in Calls :
         Go(s, IF Exists(c, db) THEN [Idle EXCEPT !.call = c, !.began = now, !.stage = "guard", !.at = 1, !.read = Column(c, db)]
               ELSE [Idle EXCEPT !.call = c, !.began = now, !.stage = "raised"])
  BY DEF Begin, Idle
<1>2. txn[s].stage = "idle" /\ DOMAIN txn = Sessions /\ UNCHANGED <<db, now, first>>
  BY <1>1 DEF Begin, RaceOK, TypeOK, Go
<1>3. /\ txn'[s] = IF Exists(c, db) THEN [Idle EXCEPT !.call = c, !.began = now, !.stage = "guard", !.at = 1, !.read = Column(c, db)]
                   ELSE [Idle EXCEPT !.call = c, !.began = now, !.stage = "raised"]
      /\ DOMAIN txn' = Sessions /\ \A q \in Sessions \ {s} : txn'[q] = txn[q]
  BY <1>1, <1>2 DEF Go
<1>4. IsCall(c, first) /\ now \in 0..MaxTime
  BY CallsTyped DEF RaceOK, TypeOK
<1>5. CASE Exists(c, db)
  <2>1. txn'[s] = [Idle EXCEPT !.call = c, !.began = now, !.stage = "guard", !.at = 1, !.read = Column(c, db)]
    BY <1>3, <1>5
  <2>2. /\ txn'[s].stage = "guard" /\ txn'[s].call = c /\ txn'[s].began = now /\ txn'[s].at = 1
        /\ txn'[s].read = Column(c, db) /\ txn'[s].effect = FALSE
    BY <2>1 DEF Idle
  <2>3. IsTransaction(txn[s])'
    <3>1. txn'[s] = [stage |-> txn'[s].stage, call |-> txn'[s].call, began |-> txn'[s].began,
                     at |-> txn'[s].at, read |-> txn'[s].read, effect |-> txn'[s].effect]
      BY <2>1 DEF Idle
    <3>2. txn'[s].began = now /\ txn'[s].at \in 0..3
      BY <2>1 DEF Idle
    <3>3. txn'[s].began \in 0..now' /\ IsCall(txn'[s].call, first')
      BY <1>2, <1>4, <2>2, <3>2
    <3> QED BY <2>2, <3>1, <3>2, <3>3 DEF IsTransaction
  <2>4. SessionOK(y, first, db)
    BY <1>0, <1>4, <1>5, <2>2, Begun, LastGuard DEF SessionOK, Through, Writing
  <2> QED BY <1>0, <1>2, <1>3, <2>2, <2>3, <2>4, Moves DEF Landed, Writing
<1>6. CASE ~Exists(c, db)
  <2>1. txn'[s] = [Idle EXCEPT !.call = c, !.began = now, !.stage = "raised"]
    BY <1>3, <1>6
  <2>2. txn'[s].stage = "raised" /\ txn'[s].call = c /\ txn'[s].effect = FALSE
    BY <2>1 DEF Idle
  <2>3. IsTransaction(txn[s])'
    <3>1. txn'[s] = [stage |-> txn'[s].stage, call |-> txn'[s].call, began |-> txn'[s].began,
                     at |-> txn'[s].at, read |-> txn'[s].read, effect |-> txn'[s].effect]
      BY <2>1 DEF Idle
    <3>2. txn'[s].began = now /\ txn'[s].at \in 0..3
      BY <2>1 DEF Idle
    <3>3. txn'[s].began \in 0..now' /\ IsCall(txn'[s].call, first')
      BY <1>2, <1>4, <2>2, <3>2
    <3> QED BY <2>2, <3>1, <3>2, <3>3 DEF IsTransaction
  <2>4. \A t : InTurn(c, db, t, db) = db
    BY <1>6 DEF InTurn
  <2>5. SessionOK(y, first, db)
    BY <1>0, <2>2, <2>4 DEF SessionOK, Refused, Writing
  <2> QED BY <1>0, <1>2, <1>3, <2>2, <2>3, <2>5, Moves DEF Landed, Writing
<1> QED BY <1>5, <1>6

LEMMA CheckStep ==
    ASSUME RaceOK, NEW s \in Sessions, Check(s)
    PROVE  RaceOK'
<1> DEFINE x == txn[s]
           guards == Guards(x.call, x.read, db, x.began)
<1>0. PICK y : y = txn'[s]
  OBVIOUS
<1>1. /\ x.stage = "guard" /\ UNCHANGED <<db, now, first>>
      /\ txn' = [txn EXCEPT ![s] = CASE ~guards[x.at] -> [x EXCEPT !.stage = "raised"]
                                     [] guards[x.at] /\ x.at = Len(guards) -> [x EXCEPT !.stage = "write"]
                                     [] OTHER -> [x EXCEPT !.at = x.at + 1]]
  BY DEF Check, Go, ReadsAt
<1>2. DOMAIN txn = Sessions /\ IsTransaction(x) /\ SessionOK(x, first, db) /\ IsDatabase(db)
  BY DEF RaceOK, TypeOK
<1>3. IsCall(x.call, db) /\ IsCall(x.call, first) /\ Last(x.call) \in 1..3 /\ Len(guards) = Last(x.call)
  BY <1>1, TxnTyped, LastGuard
<1>4. x.at \in 1..Last(x.call) /\ Through(x, x.at - 1, first, db) /\ ~x.effect
  BY <1>1, <1>2 DEF SessionOK, Writing, Landed
<1>5. DOMAIN txn' = Sessions /\ \A q \in Sessions \ {s} : txn'[q] = txn[q]
  BY <1>1, <1>2
<1>6. ~Landed(txn[s])
  BY <1>1 DEF Landed
<1>7. CASE ~guards[x.at]
  <2>1. txn'[s] = [x EXCEPT !.stage = "raised"]
    BY <1>1, <1>2, <1>7
  <2>2. /\ txn'[s].stage = "raised" /\ txn'[s].call = x.call /\ txn'[s].began = x.began
        /\ txn'[s].effect = x.effect
    BY <1>2, <2>1 DEF IsTransaction
  <2>3. IsTransaction(txn[s])'
    BY <1>1, <1>2, <1>3, <2>1 DEF IsTransaction
  <2>4. InTurn(x.call, db, x.began, db) = db
    BY <1>2, <1>3, <1>4, <1>7, Fails
  <2>5. SessionOK(y, first, db)
    BY <1>0, <1>4, <2>2, <2>4 DEF SessionOK, Refused, Writing, Landed
  <2> QED BY <1>0, <1>1, <1>5, <1>6, <2>2, <2>3, <2>5, Moves DEF Landed, Writing
<1>8. CASE guards[x.at] /\ x.at = Last(x.call)
  <2>1. txn'[s] = [x EXCEPT !.stage = "write"]
    BY <1>1, <1>2, <1>3, <1>8
  <2>2. /\ txn'[s].stage = "write" /\ txn'[s].call = x.call /\ txn'[s].began = x.began
        /\ txn'[s].read = x.read /\ txn'[s].effect = x.effect
    BY <1>2, <2>1 DEF IsTransaction
  <2>3. IsTransaction(txn[s])'
    BY <1>1, <1>2, <1>3, <2>1 DEF IsTransaction
  <2>4. Through(x, Last(x.call), first, db)
    BY <1>3, <1>4, <1>8, OneMore DEF Through
  <2>5. SessionOK(y, first, db)
    BY <1>0, <1>4, <2>2, <2>4 DEF SessionOK, Writing, Through
  <2> QED BY <1>0, <1>1, <1>5, <1>6, <2>2, <2>3, <2>5, Moves DEF Landed, Writing
<1>9. CASE guards[x.at] /\ x.at # Last(x.call)
  <2>1. txn'[s] = [x EXCEPT !.at = x.at + 1]
    BY <1>1, <1>2, <1>3, <1>9
  <2>2. /\ txn'[s].stage = "guard" /\ txn'[s].call = x.call /\ txn'[s].began = x.began
        /\ txn'[s].read = x.read /\ txn'[s].effect = x.effect /\ txn'[s].at = x.at + 1
    BY <1>1, <1>2, <2>1 DEF IsTransaction
  <2>3. IsTransaction(txn[s])'
    BY <1>1, <1>2, <1>3, <1>4, <1>9, <2>1 DEF IsTransaction
  <2>4. Through(x, x.at, first, db)
    BY <1>3, <1>4, <1>9, OneMore DEF Through
  <2>5. SessionOK(y, first, db)
    <3>1. x.at + 1 \in 1..Last(x.call) /\ (x.at + 1) - 1 = x.at
      BY <1>3, <1>4, <1>9
    <3> QED BY <1>0, <1>4, <2>2, <2>4, <3>1 DEF SessionOK, Writing, Through
  <2> QED BY <1>0, <1>1, <1>5, <1>6, <2>2, <2>3, <2>5, Moves DEF Landed, Writing
<1> QED BY <1>7, <1>8, <1>9

LEMMA WriteStep ==
    ASSUME RaceOK, NEW s \in Sessions, Write(s)
    PROVE  RaceOK'
<1> DEFINE x == txn[s]
           effect == Effective(x.call, db, x.read)
<1>0. PICK y : y = txn'[s]
  OBVIOUS
<1>1. /\ x.stage = "write" /\ ~Waits(s) /\ UNCHANGED <<db, now, first>>
      /\ txn' = [txn EXCEPT ![s] = [x EXCEPT !.stage = "written", !.effect = effect]]
  BY DEF Write, Go
<1>2. DOMAIN txn = Sessions /\ IsTransaction(x) /\ SessionOK(x, first, db) /\ IsDatabase(db)
  BY DEF RaceOK, TypeOK
<1>3. IsCall(x.call, db) /\ IsCall(x.call, first) /\ Last(x.call) \in 1..3
  BY <1>1, TxnTyped
<1>4. Through(x, Last(x.call), first, db)
  BY <1>1, <1>2 DEF SessionOK
<1>5. DOMAIN txn' = Sessions /\ \A q \in Sessions \ {s} : txn'[q] = txn[q]
  BY <1>1, <1>2
<1>6. effect \in BOOLEAN
  <2>1. CASE x.call.op = "revoke_binding"
    BY <2>1 DEF Effective
  <2>2. CASE x.call.op = "add_role_scope"
    BY <2>2 DEF Effective
  <2>3. CASE x.call.op = "remove_role_scope"
    BY <2>3 DEF Effective
  <2>4. CASE x.call.op \notin {"revoke_binding", "add_role_scope", "remove_role_scope"}
    BY <2>4 DEF Effective
  <2> QED BY <2>1, <2>2, <2>3, <2>4
<1> HIDE DEF effect
<1>7. txn'[s] = [x EXCEPT !.stage = "written", !.effect = effect]
  BY <1>1, <1>2
<1>8. /\ txn'[s].stage = "written" /\ txn'[s].call = x.call /\ txn'[s].began = x.began
      /\ txn'[s].read = x.read /\ txn'[s].effect = effect
  BY <1>2, <1>7 DEF IsTransaction
<1>9. IsTransaction(txn[s])'
  <2>1. txn'[s] = [stage |-> txn'[s].stage, call |-> txn'[s].call, began |-> txn'[s].began,
                   at |-> txn'[s].at, read |-> txn'[s].read, effect |-> txn'[s].effect]
    BY <1>2, <1>7 DEF IsTransaction
  <2>2. txn'[s].at = x.at
    BY <1>2, <1>7 DEF IsTransaction
  <2> QED BY <1>1, <1>2, <1>3, <1>6, <1>8, <2>1, <2>2 DEF IsTransaction
<1>10. ~effect => Refused(x, first, db)
  <2>1. ~effect => \E st \in {first, db} : InTurn(x.call, st, x.began, st) = st
    BY <1>3, <1>4, Idles DEF Through, effect
  <2> QED BY <2>1 DEF Refused
<1>11. SessionOK(y, first, db)
  BY <1>0, <1>4, <1>8, <1>10 DEF SessionOK, Writing, Through, Refused, effect
<1>12. effect => ~Locked(Row(x.call))
  <2>1. CASE x.call.op = "revoke_binding"
    BY <1>1, <2>1 DEF Waits, effect, Effective
  <2>2. CASE x.call.op = "remove_role_scope"
    BY <1>1, <2>2 DEF Waits, effect, Effective
  <2>3. CASE x.call.op \notin {"revoke_binding", "remove_role_scope"}
    BY <1>1, <2>3 DEF Waits
  <2> QED BY <2>1, <2>2, <2>3
<1>13. Writing(txn'[s]) => \A q \in Sessions \ {s} : Writing(txn[q]) => Row(txn'[s].call) # Row(txn[q].call)
  BY <1>8, <1>12 DEF Writing, Locked
<1> QED BY <1>0, <1>1, <1>5, <1>8, <1>9, <1>11, <1>13, Moves DEF Landed

LEMMA CommitStep ==
    ASSUME RaceOK, NEW s \in Sessions, Commit(s)
    PROVE  RaceOK'
<1> DEFINE x == txn[s]
<1>0. PICK y : y = txn'[s]
  OBVIOUS
<1>1. /\ x.stage = "written" /\ now' = now /\ first' = first
      /\ db' = IF x.effect THEN Leaves(x, db) ELSE db
      /\ txn' = [txn EXCEPT ![s] = [x EXCEPT !.stage = "done"]]
  BY DEF Commit, Go, Leaves
<1>2. DOMAIN txn = Sessions /\ IsTransaction(x) /\ SessionOK(x, first, db) /\ IsDatabase(db) /\ SameFrame(first, db)
  BY DEF RaceOK, TypeOK
<1>3. IsCall(x.call, db) /\ IsCall(x.call, first) /\ Last(x.call) \in 1..3 /\ x.began \in 0..MaxTime
  BY <1>1, TxnTyped
<1>4. Through(x, Last(x.call), first, db)
  BY <1>1, <1>2 DEF SessionOK
<1>5. DOMAIN txn' = Sessions /\ \A q \in Sessions \ {s} : txn'[q] = txn[q]
  BY <1>1, <1>2
<1>6. txn'[s] = [x EXCEPT !.stage = "done"]
  BY <1>1, <1>2
<1>7. /\ txn'[s].stage = "done" /\ txn'[s].call = x.call /\ txn'[s].began = x.began
      /\ txn'[s].read = x.read /\ txn'[s].effect = x.effect
  BY <1>2, <1>6 DEF IsTransaction
<1>8. IsTransaction(txn[s])'
  BY <1>1, <1>2, <1>3, <1>6 DEF IsTransaction
<1>9. ~Landed(x)
  BY <1>1 DEF Landed
<1>10. CASE ~x.effect
  <2>1. SessionOK(y, first, db)
    BY <1>0, <1>1, <1>2, <1>7, <1>10 DEF SessionOK, Writing, Refused
  <2> QED BY <1>0, <1>1, <1>5, <1>7, <1>8, <1>9, <1>10, <2>1, Moves DEF Landed, Writing
<1>11. CASE x.effect
  <2> DEFINE w == Leaves(x, db)
  <2>1. db' = w
    BY <1>1, <1>11
  <2>2. IsDatabase(w) /\ SameFrame(db, w)
    BY <1>2, <1>3, WrittenTyped, WrittenFrame DEF IsDatabase, Leaves
  <2>3. SameFrame(first, w)
    BY <1>2, <2>2 DEF SameFrame
  <2>4. Settled(x, first, db)
    BY <1>1, <1>2, <1>4, <1>11 DEF SessionOK, Settled, Writing
  <2>5. TypeOK'
    BY <1>1, <1>5, <1>8, <2>1, <2>2 DEF RaceOK, TypeOK, IsTransaction
  <2>6. Apart'
    BY <1>5, <1>7 DEF RaceOK, Apart, Writing
  <2>7. SessionOK(y, first, w)
    BY <1>0, <1>7, <1>11 DEF SessionOK, Writing, Landed
  <2>8. Landed(txn'[s])
    BY <1>7, <1>11 DEF Landed
  <2>9. PICK q \in Sessions : q # s /\ Sessions = {s, q}
    BY TwoSessions
  <2>10. txn'[q] = txn[q]
    BY <1>5, <2>9
  <2>11. CASE ~Landed(txn[q])
    <3>1. db = first
      BY <1>9, <2>9, <2>11 DEF RaceOK, Committed
    <3>2. Settled(y, first, first) /\ w = Leaves(y, first)
      BY <1>0, <1>7, <2>4, <3>1 DEF Settled, Through, Leaves
    <3>3. Committed'
      BY <1>0, <1>1, <2>1, <2>8, <2>9, <2>10, <2>11, <3>2 DEF Committed
    <3>4. SessionOK(txn[q], first, w)
      <4>1. SessionOK(txn[q], first, first)
        BY <3>1 DEF RaceOK
      <4>2. txn[q].stage = "guard" => Through(txn[q], txn[q].at - 1, first, w)
        <5>1. txn[q].stage = "guard" => txn[q].at - 1 \in Nat
          BY TxnTyped, <4>1 DEF SessionOK
        <5> QED BY <4>1, <5>1, SeenBefore DEF SessionOK, Through
      <4>3. txn[q].stage \in {"write", "written"} => Through(txn[q], Last(txn[q].call), first, w)
        <5>1. txn[q].stage \in {"write", "written"} => Last(txn[q].call) \in Nat
          BY TxnTyped
        <5> QED BY <4>1, <5>1, SeenBefore DEF SessionOK, Through
      <4>4. Writing(txn[q]) => Effective(txn[q].call, w, txn[q].read)
        <5> SUFFICES ASSUME Writing(txn[q]) PROVE Effective(txn[q].call, w, txn[q].read)
          OBVIOUS
        <5>1. Row(x.call) # Row(txn[q].call)
          BY <1>1, <1>11, <2>9 DEF RaceOK, Apart, Writing
        <5>2. IsCall(txn[q].call, db)
          BY TxnTyped DEF Writing
        <5>3. Effective(txn[q].call, db, txn[q].read)
          BY DEF RaceOK, SessionOK
        <5> QED BY <1>2, <1>3, <5>1, <5>2, <5>3, Elsewhere DEF Leaves
      <4>5. \/ txn[q].stage = "raised"
            \/ txn[q].stage \in {"written", "done"} /\ ~txn[q].effect
            => Refused(txn[q], first, w)
        BY <4>1 DEF SessionOK, Refused
      <4> QED BY <4>1, <4>2, <4>3, <4>4, <4>5 DEF SessionOK
    <3>5. \A r \in Sessions : SessionOK(txn[r], first, db)'
      BY <1>0, <1>1, <2>1, <2>7, <2>9, <2>10, <3>4
    <3> QED BY <1>1, <2>1, <2>3, <2>5, <2>6, <3>3, <3>5 DEF RaceOK
  <2>12. CASE Landed(txn[q])
    <3>1. Settled(txn[q], first, first) /\ db = Leaves(txn[q], first)
      BY <1>9, <2>9, <2>12 DEF RaceOK, Committed
    <3>2. Settled(y, first, Leaves(txn[q], first)) /\ w = Leaves(y, Leaves(txn[q], first))
      BY <1>0, <1>7, <2>4, <3>1 DEF Settled, Through, Leaves
    <3>3. Committed'
      BY <1>0, <1>1, <2>1, <2>8, <2>9, <2>10, <2>12, <3>1, <3>2 DEF Committed
    <3>4. SessionOK(txn[q], first, w)
      BY <2>12 DEF SessionOK, Landed, Writing
    <3>5. \A r \in Sessions : SessionOK(txn[r], first, db)'
      BY <1>0, <1>1, <2>1, <2>7, <2>9, <2>10, <3>4
    <3> QED BY <1>1, <2>1, <2>3, <2>5, <2>6, <3>3, <3>5 DEF RaceOK
  <2> QED BY <2>11, <2>12
<1> QED BY <1>10, <1>11

LEMMA TickStep ==
    ASSUME RaceOK, Tick
    PROVE  RaceOK'
<1>1. now < MaxTime /\ now' = now + 1 /\ UNCHANGED <<db, txn, first>>
  BY DEF Tick
<1>2. now \in 0..MaxTime /\ \A s \in Sessions : IsTransaction(txn[s])
  BY DEF RaceOK, TypeOK
<1>3. now' \in 0..MaxTime /\ \A i \in 0..now : i \in 0..now'
  BY <1>1, <1>2, RaceBounds
<1>4. \A s \in Sessions : IsTransaction(txn[s])'
  BY <1>1, <1>2, <1>3 DEF IsTransaction
<1>5. TypeOK'
  BY <1>1, <1>3, <1>4 DEF RaceOK, TypeOK
<1> QED BY <1>1, <1>5 DEF RaceOK, Committed, Apart

\* The inductive invariant of every race.
THEOREM RaceInvariant == Spec => []RaceOK
<1>1. Init => RaceOK
  <2> SUFFICES ASSUME Init PROVE RaceOK
    OBVIOUS
  <2>1. /\ db \in Databases /\ IsDatabase(db) /\ first = db /\ now = 0
        /\ DOMAIN txn = Sessions /\ \A s \in Sessions : txn[s] = Idle
    BY DEF Init
  <2>2. \A s \in Sessions : IsTransaction(txn[s])
    <3>1. Idle = [stage |-> Idle.stage, call |-> Idle.call, began |-> Idle.began,
                  at |-> Idle.at, read |-> Idle.read, effect |-> Idle.effect]
      BY DEF Idle
    <3>2. Idle.stage = "idle" /\ Idle.began = 0 /\ Idle.at = 0 /\ Idle.effect = FALSE
      BY DEF Idle
    <3>3. Idle.began \in 0..now /\ Idle.at \in 0..3 /\ Idle.effect \in BOOLEAN
      BY <2>1 DEF Idle
    <3>4. IsTransaction(Idle)
      BY <3>1, <3>2, <3>3 DEF IsTransaction
    <3> QED BY <2>1, <3>4
  <2>3. TypeOK /\ SameFrame(first, db)
    BY <2>1, <2>2, RaceBounds DEF TypeOK, SameFrame
  <2>4. Committed /\ Apart
    BY <2>1 DEF Committed, Apart, Landed, Writing, Idle
  <2>5. \A s \in Sessions : SessionOK(txn[s], first, db)
    BY <2>1 DEF SessionOK, Writing, Idle
  <2> QED BY <2>3, <2>4, <2>5 DEF RaceOK
<1>2. RaceOK /\ [Next]_vars => RaceOK'
  <2> SUFFICES ASSUME RaceOK, [Next]_vars PROVE RaceOK'
    OBVIOUS
  <2>1. CASE Tick
    BY <2>1, TickStep
  <2>2. ASSUME NEW s \in Sessions, Begin(s) \/ Check(s) \/ Write(s) \/ Commit(s) PROVE RaceOK'
    BY <2>2, BeginStep, CheckStep, WriteStep, CommitStep
  <2>3. CASE UNCHANGED vars
    BY <2>3 DEF vars, RaceOK, TypeOK, IsTransaction, Committed, Apart
  <2> QED BY <2>1, <2>2, <2>3 DEF Next
<1> QED BY <1>1, <1>2, PTL DEF Spec

-----------------------------------------------------------------------------
(* What comes of a race. *)

LEMMA OrdersAreTurns ==
    ASSUME NEW s \in Sessions, NEW q \in Sessions, s # q, NEW st,
           InOrder(first, txn[s].call, txn[s].began, txn[q].call, txn[q].began, st)
    PROVE  st \in Turns
<1>1. PICK e, f \in {first, After(s, first, first), After(q, first, first)} :
         st = After(q, After(s, first, e), f)
  BY DEF InOrder, After
<1>2. e \in Looked /\ f \in Looked
  BY DEF Looked
<1>3. <<s, q>> \in {y \in Sessions \X Sessions : y[1] # y[2]} /\ <<e, f>> \in Looked \X Looked
  BY <1>2
<1>4. st = After(<<s, q>>[2], After(<<s, q>>[1], first, <<e, f>>[1]), <<e, f>>[2])
  BY <1>1
<1> QED BY <1>3, <1>4 DEF Turns

\* A settled call does, in turn, what it did.
LEMMA SettledInTurn ==
    ASSUME NEW x, NEW a, IsCall(x.call, a), Settled(x, a, a)
    PROVE  /\ InTurn(x.call, a, x.began, a) = Leaves(x, a)
           /\ Exists(x.call, a) /\ Visible(x.call, a, x.began) /\ Entitled(x.call, a, x.began)
           /\ Effective(x.call, a, Column(x.call, a))
<1>1. /\ Exists(x.call, a) /\ x.read = Column(x.call, a) /\ Visible(x.call, a, x.began)
      /\ Entitled(x.call, a, x.began)
  BY AskedInTurn DEF Settled, Through
<1> QED BY <1>1 DEF Settled, InTurn, Leaves

LEMMA Outcome ==
    ASSUME RaceOK, Ended
    PROVE  \E st \in Turns :
              \/ db = st
              \/ /\ \E s \in Sessions : Withdraws(txn[s].call)
                 /\ Below(db, now, st, now) \/ \E s \in Sessions : Below(db, now, first, txn[s].began)
<1>1. IsDatabase(first) /\ now \in 0..MaxTime /\ \A s \in Sessions : txn[s].began <= now
  BY DEF RaceOK, TypeOK, IsTransaction
<1>2. ASSUME NEW s \in Sessions
      PROVE  /\ IsCall(txn[s].call, first) /\ txn[s].began \in 0..MaxTime
             /\ Landed(txn[s]) \/ Refused(txn[s], first, db)
  <2>1. txn[s].stage \in {"done", "raised"}
    BY DEF Ended
  <2>2. SessionOK(txn[s], first, db)
    BY DEF RaceOK
  <2> QED BY <2>1, <2>2, TxnTyped DEF SessionOK, Landed
<1>3. PICK s, q \in Sessions : s # q /\ Sessions = {s, q}
  BY TwoSessions
<1>4. CASE db = first /\ \A r \in Sessions : ~Landed(txn[r])
  <2>1. /\ InTurn(txn[s].call, first, txn[s].began, first) = first
        /\ InTurn(txn[q].call, first, txn[q].began, first) = first
    BY <1>2, <1>4 DEF Refused
  <2>2. InOrder(first, txn[s].call, txn[s].began, txn[q].call, txn[q].began, db)
    BY <1>4, <2>1 DEF InOrder
  <2> QED BY <1>3, <2>2, OrdersAreTurns
<1>5. ASSUME NEW r \in Sessions, NEW p \in Sessions, r # p, Landed(txn[r]), ~Landed(txn[p]),
             Settled(txn[r], first, first), db = Leaves(txn[r], first)
      PROVE  db \in Turns
  <2>1. InTurn(txn[r].call, first, txn[r].began, first) = db
    BY <1>2, <1>5, SettledInTurn
  <2>2. PICK st \in {first, db} : InTurn(txn[p].call, st, txn[p].began, st) = st
    BY <1>2, <1>5 DEF Refused
  <2>3. CASE st = first
    <3>1. InOrder(first, txn[p].call, txn[p].began, txn[r].call, txn[r].began, db)
      BY <2>1, <2>2, <2>3 DEF InOrder
    <3> QED BY <1>5, <3>1, OrdersAreTurns
  <2>4. CASE st = db
    <3>1. InOrder(first, txn[r].call, txn[r].began, txn[p].call, txn[p].began, db)
      BY <2>1, <2>2, <2>4 DEF InOrder
    <3> QED BY <1>5, <3>1, OrdersAreTurns
  <2> QED BY <2>3, <2>4
<1>6. CASE \E r \in Sessions :
              /\ Landed(txn[r]) /\ \A p \in Sessions \ {r} : ~Landed(txn[p])
              /\ Settled(txn[r], first, first) /\ db = Leaves(txn[r], first)
  <2>1. db \in Turns
    BY <1>3, <1>5, <1>6
  <2> QED BY <2>1
<1>7. ASSUME NEW r \in Sessions, NEW p \in Sessions, r # p,
             Settled(txn[r], first, first), Settled(txn[p], first, Leaves(txn[r], first)),
             db = Leaves(txn[p], Leaves(txn[r], first))
      PROVE  \E st \in Turns :
                \/ db = st
                \/ /\ \E k \in Sessions : Withdraws(txn[k].call)
                   /\ Below(db, now, st, now) \/ \E k \in Sessions : Below(db, now, first, txn[k].began)
  <2> DEFINE c == txn[r].call
             tc == txn[r].began
             d == txn[p].call
             td == txn[p].began
             m == Written(c, first, tc)
  <2>1. Exists(c, first) /\ Visible(c, first, tc) /\ Entitled(c, first, tc) /\ Effective(c, first, Column(c, first))
    BY <1>2, <1>7, SettledInTurn
  <2>2. Passed(d, txn[p].read, td, first, m) /\ Effective(d, m, txn[p].read)
    BY <1>2, <1>7, AllPassed DEF Settled, Through, Leaves
  <2>3. db = Written(d, m, td)
    BY <1>7 DEF Leaves
  <2>4. IsCall(c, first) /\ IsCall(d, first) /\ tc \in 0..MaxTime /\ td \in 0..MaxTime /\ tc <= now /\ td <= now
    BY <1>1, <1>2
  <2>5. Fair(first, c, tc, d, td, db, now)
    BY <1>1, <2>1, <2>2, <2>3, <2>4, BothWrote
  <2>6. PICK st :
          /\ InOrder(first, c, tc, d, td, st) \/ InOrder(first, d, td, c, tc, st)
          /\ \/ db = st
             \/ /\ Withdraws(c) \/ Withdraws(d)
                /\ Below(db, now, st, now) \/ Below(db, now, first, td)
    BY <2>5 DEF Fair
  <2>7. st \in Turns
    BY <1>7, <2>6, OrdersAreTurns
  <2> QED BY <2>6, <2>7
<1>8. CASE \E r, p \in Sessions :
              /\ r # p /\ Landed(txn[r]) /\ Landed(txn[p])
              /\ Settled(txn[r], first, first) /\ Settled(txn[p], first, Leaves(txn[r], first))
              /\ db = Leaves(txn[p], Leaves(txn[r], first))
  BY <1>7, <1>8
<1> QED BY <1>4, <1>6, <1>8 DEF RaceOK, Committed

\* The tables stay such as Authz makes them, whichever way the calls fall
\* together, and no session asks for a guard there is not.
THEOREM RaceTyped == Spec => []TypeOK
<1>1. RaceOK => TypeOK
  BY DEF RaceOK
<1> QED BY <1>1, RaceInvariant, PTL

\* Nobody comes out of a race with what they did not hold when a call began
\* and no order of the calls would have given them.
THEOREM NothingFromRaces == Spec => []RacesGiveNothing
<1>1. RaceOK => RacesGiveNothing
  <2> SUFFICES ASSUME RaceOK, Ended PROVE RacesGiveNothing
    BY DEF RacesGiveNothing
  <2> DEFINE before == UNION {Everything(first, txn[s].began) : s \in Sessions}
  <2>1. PICK st \in Turns :
          \/ db = st
          \/ Below(db, now, st, now)
          \/ \E s \in Sessions : Below(db, now, first, txn[s].began)
    BY Outcome
  <2>2. IsDatabase(db)
    BY DEF RaceOK, TypeOK
  <2>3. ASSUME NEW dt, NEW u, Below(db, now, dt, u) PROVE Everything(db, now) \subseteq Everything(dt, u)
    BY <2>2, <2>3, HoldsBelow DEF Everything
  <2>4. Everything(db, now) \subseteq before \cup Everything(st, now)
    BY <2>1, <2>3
  <2> QED BY <2>4 DEF RacesGiveNothing
<1> QED BY <1>1, RaceInvariant, PTL

\* Two calls of which neither withdraws anything end as they would have in
\* turn.
THEOREM OnlyWithdrawalsAreLost == Spec => []OnlyWithdrawalsRace
<1>1. RaceOK => OnlyWithdrawalsRace
  BY Outcome DEF OnlyWithdrawalsRace
<1> QED BY <1>1, RaceInvariant, PTL
=============================================================================
