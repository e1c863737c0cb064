------------------------- MODULE IdentityLifecycle -------------------------
(***************************************************************************)
(* What the kit promises about the identity of an address, whatever        *)
(* transactions run at once: it is provisioned or claimed once, the        *)
(* account it is linked to is let go only by deleting that account, and an *)
(* identity so retired comes back only by a deliberate reclaim.            *)
(***************************************************************************)
CONSTANTS
    Emails,   \* addresses, one identity each
    Accounts, \* Supabase accounts
    Reclaims, \* whether an operator reclaims identities
    None

VARIABLE identity   \* address -> [auth, claimed], for the addresses that have one

Nobody == [auth |-> None, claimed |-> FALSE]

Put(e, row) == [x \in DOMAIN identity \cup {e} |-> IF x = e THEN row ELSE identity[x]]

Init == identity = [e \in {} |-> Nobody]

\* invite_user or provision_admin reaches an address without identity.
Provision(e) == e \notin DOMAIN identity /\ identity' = Put(e, Nobody)

\* An account takes an identity nobody has ever been linked to.
Claim(e, a) ==
    /\ e \in DOMAIN identity => ~identity[e].claimed
    /\ identity' = Put(e, [auth |-> a, claimed |-> TRUE])

\* The account is deleted; claimed stays and marks the identity retired.
Retire(e) ==
    /\ e \in DOMAIN identity /\ identity[e].auth # None
    /\ identity' = [identity EXCEPT ![e].auth = None]

\* An operator links an unlinked identity on purpose.
Reclaim(e, a) ==
    /\ Reclaims
    /\ e \in DOMAIN identity /\ identity[e].auth = None
    /\ identity' = Put(e, [auth |-> a, claimed |-> TRUE])

Next ==
    \E e \in Emails :
        \/ Provision(e) \/ Retire(e)
        \/ \E a \in Accounts : Claim(e, a) \/ Reclaim(e, a)

Spec == Init /\ [][Next]_identity
=============================================================================
