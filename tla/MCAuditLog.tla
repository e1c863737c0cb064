---------------------------- MODULE MCAuditLog ----------------------------
(***************************************************************************)
(* Two replicas that prune everything, a global prune and a tenant's, and  *)
(* a reader and a global prune: each beside a writer.                      *)
(***************************************************************************)
EXTENDS AuditLog, TLC

CONSTANTS a, wide, replica, narrow

MCTenants == {a}
MCIds == 1 .. 4
MCJobs == {wide, replica, narrow}

\* The replica's cutoff lies in the future, and its batches are of two rows.
MCOptions ==
    (wide :> [before |-> 1, tenant |-> None, limit |-> 0])
        @@ (replica :> [before |-> 4, tenant |-> None, limit |-> 2])
        @@ (narrow :> [before |-> 2, tenant |-> a, limit |-> 1])

\* Two rows of one moment; a row of a tenant and one without.
Tied == {Row(2, 0, a, None), Row(4, 0, a, None)}
Mixed == {Row(2, 0, a, None), Row(3, 1, None, None)}

MCCasts == {[jobs |-> {wide, replica}, reads |-> FALSE, log |-> Mixed],
            [jobs |-> {replica, narrow}, reads |-> FALSE, log |-> Mixed],
            [jobs |-> {wide}, reads |-> TRUE, log |-> Tied]}

Ask(tenant, from, to, limit, after) ==
    [tenant |-> tenant, from |-> from, to |-> to, limit |-> limit, after |-> after]

\* Pages of one row, of the most there may be, and of more than that.
MCListings ==
    {Ask(None, 0, None, 0, None), Ask(a, 0, 3, 3, None), Ask(None, 1, None, None, None),
     Ask(None, 0, None, None, Malformed)}

MCReadable == {a, None}
=============================================================================
