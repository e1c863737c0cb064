---------------------------- MODULE AuthzClaims ----------------------------
(***************************************************************************)
(* A statement of the repository's comments about the write functions that *)
(* their code does not keep; its run finds the calls that break it.        *)
(***************************************************************************)
EXTENDS MCAuthz

\* provision_admin "grants the master admin role to an email address": when
\* it returns, an enabled identity has the grant.
ProvisionGrants ==
    [][\A p \in UserIds, r \in DOMAIN roles :
        ProvisionAdmin(p, r) => bindings'[<<p, r, Master>>].revoked = None]_vars
=============================================================================
