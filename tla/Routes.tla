------------------------------ MODULE Routes ------------------------------
(***************************************************************************)
(* What a request brings and what a route asks of it: credentials          *)
(* (core/src/headers.ts, identity.ts), the tenant (tenant.ts), and the     *)
(* guards in front of a handler (guard.ts and the bindings' factories).    *)
(*                                                                         *)
(* The authorization schema is an external database here.  A world is what *)
(* it would answer at one moment: the scopes each principal holds, by      *)
(* tenant, and the principal behind each API key and each account.  How    *)
(* scopes come to be held is the subject of Resolution and Authz.          *)
(***************************************************************************)
EXTENDS Outcomes, Naturals, Sequences

CONSTANTS
    Principals,
    Tenants,     \* well-formed tenant ids
    ScopeNames,
    Keys,        \* plaintext API keys
    Accounts     \* well-formed auth.users ids

ASSUME NullIsNoId == None \notin Principals \cup Tenants \cup ScopeNames \cup Keys \cup Accounts

Worlds == [grants : SUBSET (Principals \X Tenants \X ScopeNames),
           owner : [Keys \cup Accounts -> Principals \cup {None}]]

Held(w, p, t) == {s \in ScopeNames : <<p, t, s>> \in w.grants}

-----------------------------------------------------------------------------
(* Credentials.  A header is the sequence of its values: none, one, or the *)
(* array a repeated header becomes.  An authorization value is a scheme    *)
(* and a token, None when nothing follows the scheme.                      *)

BearerFrom(header) ==
    IF Len(header) = 1 /\ header[1].scheme = "bearer" THEN header[1].token ELSE None

\* Fault: the first of two keys is taken.
CredentialsFromFirst(headers) ==
    [apiKey |-> IF Len(headers.apiKey) > 0 THEN headers.apiKey[1] ELSE None,
     bearer |-> BearerFrom(headers.authorization)]

\* Two keys are no key.
CredentialsFromHeaders(headers) ==
    [apiKey |-> IF Len(headers.apiKey) = 1 THEN headers.apiKey[1] ELSE None,
     bearer |-> BearerFrom(headers.authorization)]

\* jose's codes for "this token is not acceptable".
InvalidTokenCodes ==
    {"ERR_JWT_EXPIRED", "ERR_JWT_CLAIM_VALIDATION_FAILED", "ERR_JWT_INVALID", "ERR_JWS_INVALID",
     "ERR_JWS_SIGNATURE_VERIFICATION_FAILED", "ERR_JWKS_NO_MATCHING_KEY",
     "ERR_JWKS_MULTIPLE_MATCHING_KEYS", "ERR_JOSE_ALG_NOT_ALLOWED"}

RejectedRoles == {"service_role", "anon"}

AalFromClaim(claim) == IF claim \in {"aal1", "aal2"} THEN claim ELSE None

\* A token is [fault, role, sub, aal]: what jwtVerify makes of it (None, one
\* of the codes above, or another failure such as an unreachable key set),
\* and its claims.  An unacceptable token is null, any other failure rejects.
VerifyBearer(token) ==
    CASE token.fault \in InvalidTokenCodes -> Resolved(None)
      [] token.fault \notin InvalidTokenCodes \cup {None} -> Rejected("Error")
      [] token.fault = None /\ (token.role \in RejectedRoles \/ token.sub \notin Accounts) -> Resolved(None)
      [] OTHER -> Resolved([authUserId |-> token.sub, aal |-> AalFromClaim(token.aal)])

Nobody == [principal |-> None, kind |-> None, presented |-> FALSE, aal |-> None]

\* The outcome of resolving a credential that maps to principal p or None.
Resolution(p, kind, aal) ==
    [principal |-> p, presented |-> TRUE,
     kind |-> IF p = None THEN None ELSE kind,
     aal |-> IF p = None THEN None ELSE aal]

-----------------------------------------------------------------------------
(* The tenant: whatever the hook finds; the helpers pass uuids only.       *)

IsUuid(v) == v \in Tenants

TenantFrom(v) == IF IsUuid(v) THEN v ELSE None

\* A route's hook is one of the helpers, or the application's own function.
ResolvesTo(hook, v) == IF hook = "helper" THEN TenantFrom(v) ELSE v

-----------------------------------------------------------------------------
(* Guards, as requireIdentity, requireAal2 and so on make them.            *)

Guard(check, scopes, aal2, allowApiKeys) ==
    [check |-> check, scopes |-> scopes, aal2 |-> aal2, allowApiKeys |-> allowApiKeys]

RequireIdentity == Guard("none", {}, FALSE, FALSE)
RequireAal2(allowApiKeys) == Guard("none", {}, TRUE, allowApiKeys)
RequireScope(s, aal2) == Guard("all", {s}, aal2, FALSE)
RequireAllScopes(S, aal2) == Guard("all", S, aal2, FALSE)
RequireAnyScope(S, aal2) == Guard("any", S, aal2, FALSE)

\* An API key has no second factor; a user's is in the token.
SecondFactor(g, c) == IF c.kind = "api_key" THEN g.allowApiKeys ELSE c.aal = "aal2"

\* Fault: the guard for several scopes is satisfied by one of them.
CheckHoldsAny(g, held) == g.scopes \cap held # {}

\* checkScope and checkAllScopes need all, checkAnyScope one.
CheckHolds(g, held) ==
    \/ g.check = "all" /\ g.scopes \ held = {}
    \/ g.check = "any" /\ g.scopes \cap held # {}
=============================================================================
