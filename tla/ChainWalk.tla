------------------------------ MODULE ChainWalk ------------------------------
(***************************************************************************)
(* authz.tenant_chain as the recursive query it is: it starts with one row *)
(* and each pass joins the row the last pass found with its parent.  The   *)
(* functions that join the chain and keep the nearest definition by depth  *)
(* are stated over its rows, so that TLC can compare them with the closed  *)
(* sets module Resolution states them by.  list_child_tenants is here too, *)
(* because its shortcut is a fact about two walks.                         *)
(***************************************************************************)
EXTENDS Resolution, Sequences

CONSTANT MaxLevel   \* no row is joined to one at this depth: 64 in the code

ASSUME MaxLevelIsNat == MaxLevel \in Nat
ASSUME NullIsNoTenant == None \notin TenantIds

VARIABLES
    start,   \* p_tenant_id
    chain    \* the rows found, in the order they were found

tables == <<tenants, roles, scopes, roleScopes, users, keys, bindings, now>>

vars == <<start, chain, tables>>

Row(t, crossed, depth) == [tenant |-> t, crossed |-> crossed, depth |-> depth]

\* The non-recursive term: one row, or none for a tenant that does not exist.
Begin(t) ==
    /\ start = t
    /\ chain = IF t \in DOMAIN tenants THEN <<Row(t, FALSE, 0)>> ELSE << >>

\* Faults: crossed is set anew on each pass; the parent's own flag is used.
NextRowNotLatched(c) ==
    Row(tenants[c.tenant].parent, ~tenants[c.tenant].inherit, c.depth + 1)

NextRowParentsFlag(c) ==
    Row(tenants[c.tenant].parent, c.crossed \/ ~tenants[tenants[c.tenant].parent].inherit,
        c.depth + 1)

\* The row the recursive term joins c with.  crossed latches on when the walk
\* steps out of a tenant that does not inherit.
NextRow(c) ==
    Row(tenants[c.tenant].parent, c.crossed \/ ~tenants[c.tenant].inherit, c.depth + 1)

HasNext(c) == tenants[c.tenant].parent # None /\ c.depth < MaxLevel

Ended == chain = << >> \/ ~HasNext(chain[Len(chain)])

Pass ==
    /\ ~Ended
    /\ chain' = Append(chain, NextRow(chain[Len(chain)]))
    /\ UNCHANGED <<start, tables>>

\* The tables of a query: parents exist, no tenant is an ancestor of its own,
\* and none stands more than MaxLevel below the master.  (create_tenant does
\* not look at the depth; a tenant beyond it is outside this model.)
TreeOK ==
    /\ DOMAIN tenants \subseteq TenantIds /\ IsFiniteSet(DOMAIN tenants)
    /\ tenants \in [DOMAIN tenants -> [parent : DOMAIN tenants \cup {None}, inherit : BOOLEAN]]
    /\ \A t \in DOMAIN tenants :
         /\ t \notin Above(tenants[t].parent)
         /\ Cardinality(Above(t)) <= MaxLevel + 1

Init == TreeOK /\ \E t \in TenantIds : Begin(t)

Spec == Init /\ [][Pass]_vars

Rows == {chain[i] : i \in DOMAIN chain}

\* Fault: the farthest definition is kept.
RolesFarthest ==
    LET joined == {x \in Rows \X DOMAIN roles :
                     /\ roles[x[2]].tenant = x[1].tenant
                     /\ ~x[1].crossed \/ roles[x[2]].crosses}
    IN  {x[2] : x \in {y \in joined : \A z \in joined :
            roles[z[2]].name = roles[y[2]].name => z[1].depth <= y[1].depth}}

\* effective_roles: join, filter by crossed, then distinct on (name) by depth.
RolesByDepth ==
    LET joined == {x \in Rows \X DOMAIN roles :
                     /\ roles[x[2]].tenant = x[1].tenant
                     /\ ~x[1].crossed \/ roles[x[2]].crosses}
    IN  {x[2] : x \in {y \in joined : \A z \in joined :
            roles[z[2]].name = roles[y[2]].name => y[1].depth <= z[1].depth}}

\* effective_scope_defs.
ScopesByDepth ==
    LET joined == {x \in Rows \X DOMAIN scopes :
                     /\ scopes[x[2]].tenant = x[1].tenant
                     /\ \/ ~x[1].crossed
                        \/ \E r \in DOMAIN roles : <<r, x[2]>> \in roleScopes /\ roles[r].crosses}
    IN  {x[2] : x \in {y \in joined : \A z \in joined :
            scopes[z[2]].name = scopes[y[2]].name => y[1].depth <= z[1].depth}}

\* Fault: the shortcut is taken for a child that is cut off too.
ChildTenantsOfAnyKind(actor, parent, read) ==
    {t \in DOMAIN tenants :
        /\ tenants[t].parent = parent
        /\ HasScope(actor, parent, read) \/ HasScope(actor, t, read)}

\* list_child_tenants: a child that inherits is listed on authority at the
\* parent alone; only the others are asked one by one.
ChildTenants(actor, parent, read) ==
    {t \in DOMAIN tenants :
        /\ tenants[t].parent = parent
        /\ \/ tenants[t].inherit /\ HasScope(actor, parent, read)
           \/ HasScope(actor, t, read)}

-----------------------------------------------------------------------------
\* The walk only goes up: its rows are distinct tenants at rising depths, and
\* crossed, once set, stays set.
TypeOK ==
    /\ start \in TenantIds
    /\ \A i \in DOMAIN chain :
         /\ chain[i].tenant \in DOMAIN tenants
         /\ chain[i].crossed \in BOOLEAN
         /\ chain[i].depth = i - 1
         /\ \A j \in 1..(i - 1) : /\ chain[j].tenant # chain[i].tenant
                                  /\ chain[j].crossed => chain[i].crossed

\* tenant_chain returns t and its ancestors, and crossed is false exactly for
\* those that a walk over inheriting tenants alone reaches: the sets every
\* other definition of the resolution is stated by.
WalkIsClosure ==
    Ended => /\ {c.tenant : c \in Rows} = Above(start)
             /\ {c.tenant : c \in {x \in Rows : ~x.crossed}} = Uncut(start)

\* distinct on (name) order by depth picks the definition that every other
\* visible one of the name lies above, for roles and for scopes.
NearestWins ==
    Ended => RolesByDepth = EffectiveRoles(start) /\ ScopesByDepth = EffectiveScopeDefs(start)

\* The comment of tenant_chain: one upward pass collapses a compositional
\* definition.  What is in force or visible at a tenant is its own rows, and
\* what is in force at its parent, of which a cut lets only the crossing
\* part through.
Compositional ==
    Ended /\ start \in DOMAIN tenants =>
        LET parent == tenants[start].parent
            Through(r) == tenants[start].inherit \/ roles[r].crosses
        IN  /\ BindingsInForce(start) =
                 {b \in DOMAIN bindings : b[3] = start /\ Live(b)}
                   \cup {b \in BindingsInForce(parent) : Through(b[2])}
            /\ VisibleRoles(start) =
                 {r \in DOMAIN roles : roles[r].tenant = start}
                   \cup {r \in VisibleRoles(parent) : Through(r)}

\* The shortcut of list_child_tenants lists exactly the children at which the
\* actor holds the scope.
ShortcutIsExact ==
    Ended => \A p \in Principals, n \in ScopeNames :
        ChildTenants(p, start, n) =
            {t \in DOMAIN tenants : tenants[t].parent = start /\ HasScope(p, t, n)}
=============================================================================
