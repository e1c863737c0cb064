----------------------------- MODULE MCRequest -----------------------------
(***************************************************************************)
(* A request on routes picked so that every guard, every credential and    *)
(* every way to fail occurs, beside one of the same principal.             *)
(***************************************************************************)
EXTENDS Request, TLC

CONSTANTS user, robot, t1, t2, t3, key, account, stranger, r1, r2

MCPrincipals == {user, robot}
MCTenants == {t1, t2, t3}
MCExisting == {t1, t2}
MCScopes == {"read", "write"}
MCKeys == {key}
MCAccounts == {account, stranger}
MCFailCodes == {"42501", ""}

MCOwner == (key :> robot) @@ (account :> user) @@ (stranger :> None)

\* The user holds everything at t1 and can write at t2; the key reads at t1.
MCFirstWorlds ==
    {[grants |-> {<<user, t1, "read">>, <<user, t1, "write">>, <<robot, t1, "read">>},
      owner |-> MCOwner]}

Bearer(fault, role, sub, aal) ==
    [scheme |-> "bearer", token |-> [fault |-> fault, role |-> role, sub |-> sub, aal |-> aal]]

Aal1 == Bearer(None, "authenticated", account, "aal1")
Aal2 == Bearer(None, "authenticated", account, "aal2")
Expired == Bearer("ERR_JWT_EXPIRED", "authenticated", account, "aal2")
Unverifiable == Bearer("ERR_JWKS_TIMEOUT", "authenticated", account, "aal2")
ServiceRole == Bearer(None, "service_role", account, "aal2")
Unknown == Bearer(None, "authenticated", stranger, "aal2")

With(keys, auth) == [apiKey |-> keys, authorization |-> auth]
Read1(t) == [do |-> "has", fn |-> "has", tenant |-> t, scope |-> "read"]
Call(fn, t) == [do |-> "write", fn |-> fn, tenant |-> t, scope |-> "write"]

Route(binding, hook, guards, tasks, handled) ==
    [binding |-> binding, mounted |-> TRUE, hook |-> hook, guards |-> guards,
     tasks |-> tasks, errorHandler |-> handled]

In(route, headers, tenant, context) ==
    [route |-> route, headers |-> headers, tenant |-> tenant, context |-> context]

Members == Route("express", "helper",
                 <<RequireIdentity, RequireAllScopes({"read", "write"}, FALSE), RequireScope("read", FALSE)>>,
                 <<Read1(t1), Call("create_role", t2)>>, TRUE)
Reports == Route("fastify", "custom", <<RequireAnyScope({"read", "write"}, TRUE)>>,
                 <<Read1(t2), Read1(t2), Call("update_role", t1)>>, FALSE)
Sessions == Route("express", "helper", <<RequireAal2(FALSE)>>, << >>, FALSE)
Machines == Route("fastify", "helper", <<RequireAal2(TRUE), RequireScope("read", FALSE)>>,
                  <<Call("grant_role", t3)>>, TRUE)
Public == Route("express", "helper", << >>, <<Read1(t1)>>, FALSE)
Forgotten == [Machines EXCEPT !.mounted = FALSE]

Varied ==
    {In(Members, With(<< >>, <<Aal1>>), t1, "known"),
     In(Members, With(<<key>>, <<Aal1>>), t1, "known"),
     In(Members, With(<< >>, <<Aal1>>), "garbage", "known"),
     In(Reports, With(<< >>, <<Aal2>>), t1, "empty"),
     In(Reports, With(<< >>, <<Aal1>>), t1, "known"),
     In(Reports, With(<< >>, <<Unverifiable>>), t1, "known"),
     In(Sessions, With(<<key>>, << >>), None, "known"),
     In(Sessions, With(<< >>, <<Expired>>), None, "empty"),
     In(Sessions, With(<< >>, <<ServiceRole>>), None, "known"),
     In(Machines, With(<<key>>, << >>), t1, "known"),
     In(Machines, With(<<key, key>>, << >>), t1, "known"),
     In(Machines, With(<< >>, <<Unknown>>), t1, "known"),
     In(Public, With(<< >>, << >>), None, "known"),
     In(Forgotten, With(<<key>>, << >>), t1, "known")}

Beside == {In(Public, With(<< >>, <<Aal2>>), None, "known")}

MCRequests == {r1, r2}
MCInputs == (r1 :> Varied) @@ (r2 :> Beside)
=============================================================================
