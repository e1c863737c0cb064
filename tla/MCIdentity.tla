----------------------------- MODULE MCIdentity -----------------------------
(***************************************************************************)
(* Identity in three settings at once, chosen in the initial state:        *)
(*   serial      one session after the other, three accounts, reclaims;    *)
(*   concurrent  two sessions at once, two accounts;                       *)
(*   reclaiming  the same with reclaims.                                   *)
(* What holds differs: a reclaim beside a claim may undo it, and a claim   *)
(* beside a provision may miss it, which is why no setting has them all.   *)
(***************************************************************************)
EXTENDS Identity

CONSTANTS s1, s2, a1, a2, a3

VARIABLE setting

MCSessions == {s1, s2}
MCAccounts == {a1, a2, a3}

SettingSessions == IF setting = "serial" THEN {s1} ELSE {s1, s2}
SettingAccounts == IF setting = "serial" THEN {a1, a2, a3} ELSE {a1, a2}

MCInit == Init /\ setting \in {"serial", "concurrent", "reclaiming"}

MCNext ==
    /\ Next /\ UNCHANGED setting
    /\ \A s \in Sessions :
          /\ txn'[s] # Idle => s \in SettingSessions
          /\ txn'[s].op = "reclaim" => setting # "concurrent"
          /\ txn'[s].acct \in SettingAccounts \cup {None}

MCSpec ==
    /\ MCInit /\ [][MCNext]_<<vars, setting>>
    /\ \A s \in Sessions : WF_vars(Statement(s))

Reclaimable == INSTANCE IdentityLifecycle WITH identity <- users, Reclaims <- TRUE
Unreclaimed == INSTANCE IdentityLifecycle WITH identity <- users, Reclaims <- FALSE

\* The transactions implement the lifecycle of the identities: one after the
\* other all of it, and at once the part without reclaims.
ImplementsLifecycle ==
    /\ Reclaimable!Init /\ Unreclaimed!Init
    /\ [][/\ setting = "serial" => Reclaimable!Next
          /\ setting = "concurrent" => Unreclaimed!Next]_users

\* One after the other, no transaction leaves a provisioned identity waiting
\* beside the confirmed account it waits for.
WaitingIsClaimedInTurn == setting = "serial" => WaitingIsClaimed
=============================================================================
