------------------------------ MODULE Identity ------------------------------
(***************************************************************************)
(* How an authz.users row comes to be linked to a Supabase account, one    *)
(* SQL statement per step: the trigger claim_auth_user, invite_user and    *)
(* provision_admin up to their grant, reclaim_identity, and the account    *)
(* deletion that retires an identity.                                      *)
(*                                                                         *)
(* Transactions run in sessions at READ COMMITTED.  A statement sees what  *)
(* has committed, and its session's own writes; it waits for another       *)
(* session that has written the row or unique key it needs, and goes by    *)
(* what is there when that session is done.  A raised exception rolls      *)
(* everything of its transaction back.                                     *)
(***************************************************************************)
EXTENDS Integers, FiniteSets

CONSTANTS
    Sessions,
    Emails,    \* addresses (users_email_id_uq: one identity each)
    Accounts,  \* ids an auth.users row may have
    Reclaims,  \* whether an operator runs reclaim_identity
    None       \* SQL null

ASSUME NullIsNoValue == None \notin Emails \cup Accounts
ASSUME NullIsNoRow == None \notin [auth : Accounts \cup {None}, claimed : BOOLEAN]
ASSUME ReclaimsIsBoolean == Reclaims \in BOOLEAN

VARIABLES
    accounts,  \* auth.users: id -> [email, confirmed]; email None once deleted
    users,     \* authz.users: email -> [auth, claimed]
    bound,     \* addresses whose identity has been granted a role
    txn        \* session -> its transaction in progress

vars == <<accounts, users, bound, txn>>

\* row: the users row the transaction has written and not committed.
\* account: the auth.users row it has written, for the trigger.
Idle == [op |-> "none", pc |-> "idle", acct |-> None, email |-> None,
         account |-> None, row |-> None]

Nobody == [auth |-> None, claimed |-> FALSE]

\* Fault: claimed_at is not looked at, so a retired identity waits too.
WaitingUnlinked(e) == e \in DOMAIN users /\ users[e].auth = None

Waiting(e) == e \in DOMAIN users /\ users[e] = Nobody
Retired(e) == e \in DOMAIN users /\ users[e].claimed /\ users[e].auth = None
Linked(a) == \E e \in DOMAIN users : users[e].auth = a

\* Another session has written the identity of e, or one that links a.
Contended(s, e) == \E o \in Sessions \ {s} : txn[o].row # None /\ txn[o].email = e
ContendedLink(s, a) == \E o \in Sessions \ {s} : txn[o].row # None /\ txn[o].row.auth = a

\* The account's row is written by a transaction in progress.
Busy(a) == \E s \in Sessions : txn[s].acct = a

\* auth.users keeps addresses unique among accounts.
FreeEmail(e, a) ==
    /\ \A b \in DOMAIN accounts \ {a} : accounts[b].email # e
    /\ \A s \in Sessions : txn[s].acct # a /\ txn[s].op = "trigger" => txn[s].email # e

Begin(s, op, a, e, account, pc) ==
    /\ txn[s] = Idle
    /\ txn' = [txn EXCEPT ![s] = [op |-> op, pc |-> pc, acct |-> a, email |-> e,
                                  account |-> account, row |-> None]]
    /\ UNCHANGED <<accounts, users, bound>>

At(s, op, pc) == txn[s].op = op /\ txn[s].pc = pc

Goto(s, pc) == txn' = [txn EXCEPT ![s].pc = pc] /\ UNCHANGED <<accounts, users, bound>>

Write(s, row, pc) ==
    /\ txn' = [txn EXCEPT ![s].row = row, ![s].pc = pc]
    /\ UNCHANGED <<accounts, users, bound>>

Raise(s) == txn' = [txn EXCEPT ![s] = Idle] /\ UNCHANGED <<accounts, users, bound>>

Init ==
    /\ accounts = [a \in {} |-> None]
    /\ users = [e \in {} |-> Nobody]
    /\ bound = {}
    /\ txn = [s \in Sessions |-> Idle]

-----------------------------------------------------------------------------
(* Supabase Auth inserts or updates an auth.users row, which fires the     *)
(* trigger inside the same transaction.                                    *)

SignUp(s, a, e, confirmed) ==
    /\ a \notin DOMAIN accounts /\ ~Busy(a) /\ FreeEmail(e, a)
    /\ Begin(s, "trigger", a, e, [email |-> e, confirmed |-> confirmed], "check")

\* Fault: the trigger fires on insert only.
UpdateAccountUnseen(s, a, e, confirmed) ==
    /\ a \in DOMAIN accounts /\ accounts[a].email # None
    /\ ~Busy(a) /\ FreeEmail(e, a)
    /\ accounts[a].confirmed => confirmed
    /\ [email |-> e, confirmed |-> confirmed] # accounts[a]
    /\ Begin(s, "trigger", a, e, [email |-> e, confirmed |-> confirmed], "commit")

\* The address is confirmed, or replaced by another.
UpdateAccount(s, a, e, confirmed) ==
    /\ a \in DOMAIN accounts /\ accounts[a].email # None
    /\ ~Busy(a) /\ FreeEmail(e, a)
    /\ accounts[a].confirmed => confirmed
    /\ [email |-> e, confirmed |-> confirmed] # accounts[a]
    /\ Begin(s, "trigger", a, e, [email |-> e, confirmed |-> confirmed], "check")

\* ON DELETE SET NULL: the identity is unlinked, claimed_at stays.  The
\* delete waits for a transaction that has the account or its identity.
DeleteAccount(a) ==
    /\ a \in DOMAIN accounts /\ accounts[a].email # None
    /\ ~Busy(a)
    /\ \A s \in Sessions : txn[s].row # None =>
            /\ txn[s].row.auth # a
            /\ txn[s].email \in DOMAIN users => users[txn[s].email].auth # a
    /\ accounts' = [accounts EXCEPT ![a] = [email |-> None, confirmed |-> FALSE]]
    /\ users' = [e \in DOMAIN users |->
                    IF users[e].auth = a THEN [users[e] EXCEPT !.auth = None] ELSE users[e]]
    /\ UNCHANGED <<bound, txn>>

-----------------------------------------------------------------------------
(* claim_auth_user *)

\* Not confirmed, or linked already: return.
CheckLinked(s) ==
    /\ At(s, "trigger", "check")
    /\ Goto(s, IF txn[s].account.confirmed /\ ~Linked(txn[s].acct) THEN "claim" ELSE "commit")

\* Fault: the UPDATE sets auth_user_id and forgets claimed_at.
ClaimWaitingUnmarked(s) ==
    LET a == txn[s].acct
        e == txn[s].email
    IN  /\ At(s, "trigger", "claim")
        /\ IF Waiting(e)
           THEN /\ ~Contended(s, e) /\ ~ContendedLink(s, a)
                /\ IF Linked(a) THEN Raise(s)
                   ELSE Write(s, [auth |-> a, claimed |-> FALSE], "commit")
           ELSE Goto(s, "insert")

\* The UPDATE: it takes a committed row that waits.  A link that exists by
\* now breaks users_auth_user_id_uq, which the UPDATE does not catch.
ClaimWaiting(s) ==
    LET a == txn[s].acct
        e == txn[s].email
    IN  /\ At(s, "trigger", "claim")
        /\ IF Waiting(e)
           THEN /\ ~Contended(s, e) /\ ~ContendedLink(s, a)
                /\ IF Linked(a) THEN Raise(s)
                   ELSE Write(s, [auth |-> a, claimed |-> TRUE], "commit")
           ELSE Goto(s, "insert")

\* The INSERT, on conflict do nothing: an identity another session inserts
\* is waited for and then left as it is.
InsertFresh(s) ==
    LET a == txn[s].acct
        e == txn[s].email
    IN  /\ At(s, "trigger", "insert")
        /\ e \in DOMAIN users \/ ~Contended(s, e)
        /\ ~ContendedLink(s, a)
        /\ IF e \in DOMAIN users \/ Linked(a) THEN Goto(s, "commit")
           ELSE Write(s, [auth |-> a, claimed |-> TRUE], "commit")

-----------------------------------------------------------------------------
(* invite_user and provision_admin: look the address up, insert an         *)
(* unclaimed identity when there is none, and grant.                       *)

\* Only invite_user refuses a retired identity.
LookUp(s) ==
    LET e == txn[s].email
    IN  /\ txn[s].op \in {"invite", "provision"} /\ txn[s].pc = "lookup"
        /\ IF txn[s].op = "invite" /\ Retired(e) THEN Raise(s)
           ELSE Goto(s, IF e \in DOMAIN users THEN "bind" ELSE "insert")

\* Fault: the transaction waits for the other identity to go away.
InsertWaitingForever(s) ==
    LET e == txn[s].email
    IN  /\ txn[s].op \in {"invite", "provision"} /\ txn[s].pc = "insert"
        /\ e \notin DOMAIN users /\ ~Contended(s, e)
        /\ Write(s, Nobody, "bind")

\* A plain INSERT: an identity committed since the lookup raises 23505.
InsertWaiting(s) ==
    LET e == txn[s].email
    IN  /\ txn[s].op \in {"invite", "provision"} /\ txn[s].pc = "insert"
        /\ e \in DOMAIN users \/ ~Contended(s, e)
        /\ IF e \in DOMAIN users THEN Raise(s) ELSE Write(s, Nobody, "bind")

\* grant_role's own look at the identity, then the binding.
Bind(s) ==
    /\ txn[s].op \in {"invite", "provision"} /\ txn[s].pc = "bind"
    /\ IF txn[s].op = "invite" /\ Retired(txn[s].email) THEN Raise(s) ELSE Goto(s, "commit")

-----------------------------------------------------------------------------
(* reclaim_identity *)

\* Fault: a linked identity is not refused.
ChooseReclaimOfAny(s) ==
    LET e == txn[s].email
        Confirmed == {a \in DOMAIN accounts : accounts[a].email = e /\ accounts[a].confirmed}
    IN  /\ At(s, "reclaim", "lookup")
        /\ IF e \in DOMAIN users /\ Confirmed # {}
           THEN \E a \in Confirmed :
                  /\ txn' = [txn EXCEPT ![s].account = a, ![s].pc = "link"]
                  /\ UNCHANGED <<accounts, users, bound>>
           ELSE Raise(s)

\* Three selects: the identity exists, is not linked, and its address has a
\* confirmed account.
ChooseReclaim(s) ==
    LET e == txn[s].email
        Confirmed == {a \in DOMAIN accounts : accounts[a].email = e /\ accounts[a].confirmed}
    IN  /\ At(s, "reclaim", "lookup")
        /\ IF e \in DOMAIN users /\ users[e].auth = None /\ Confirmed # {}
           THEN \E a \in Confirmed :
                  /\ txn' = [txn EXCEPT ![s].account = a, ![s].pc = "link"]
                  /\ UNCHANGED <<accounts, users, bound>>
           ELSE Raise(s)

\* Fault: no foreign key, so a deleted account can be linked.
LinkReclaimedNoKey(s) ==
    LET e == txn[s].email
        a == txn[s].account
    IN  /\ At(s, "reclaim", "link")
        /\ ~Contended(s, e) /\ ~ContendedLink(s, a)
        /\ IF \E x \in DOMAIN users \ {e} : users[x].auth = a
           THEN Raise(s)
           ELSE Write(s, [auth |-> a, claimed |-> TRUE], "commit")

\* The UPDATE by id, which does not look at auth_user_id again.  It fails if
\* the account is gone (foreign key) or has been linked (unique index).
LinkReclaimed(s) ==
    LET e == txn[s].email
        a == txn[s].account
    IN  /\ At(s, "reclaim", "link")
        /\ ~Contended(s, e) /\ ~ContendedLink(s, a)
        /\ IF accounts[a].email = None \/ \E x \in DOMAIN users \ {e} : users[x].auth = a
           THEN Raise(s)
           ELSE Write(s, [auth |-> a, claimed |-> TRUE], "commit")

-----------------------------------------------------------------------------
Commit(s) ==
    LET t == txn[s]
    IN  /\ t.pc = "commit"
        /\ accounts' = IF t.op # "trigger" THEN accounts
                       ELSE [a \in DOMAIN accounts \cup {t.acct} |->
                                IF a = t.acct THEN t.account ELSE accounts[a]]
        /\ users' = IF t.row = None THEN users
                    ELSE [e \in DOMAIN users \cup {t.email} |->
                                IF e = t.email THEN t.row ELSE users[e]]
        /\ bound' = IF t.op \in {"invite", "provision"} THEN bound \cup {t.email} ELSE bound
        /\ txn' = [txn EXCEPT ![s] = Idle]

Statement(s) ==
    \/ CheckLinked(s) \/ ClaimWaiting(s) \/ InsertFresh(s)
    \/ LookUp(s) \/ InsertWaiting(s) \/ Bind(s)
    \/ ChooseReclaim(s) \/ LinkReclaimed(s)
    \/ Commit(s)

Start(s) ==
    \/ \E a \in Accounts, e \in Emails, c \in BOOLEAN : SignUp(s, a, e, c)
    \/ \E a \in Accounts, e \in Emails, c \in BOOLEAN : UpdateAccount(s, a, e, c)
    \/ \E e \in Emails, op \in {"invite", "provision"} : Begin(s, op, None, e, None, "lookup")
    \/ \E e \in Emails : Reclaims /\ Begin(s, "reclaim", None, e, None, "lookup")

Next ==
    \/ \E s \in Sessions : Start(s) \/ Statement(s)
    \/ \E a \in Accounts : DeleteAccount(a)

\* The server goes on executing the statements of a transaction in progress.
Spec == Init /\ [][Next]_vars /\ \A s \in Sessions : WF_vars(Statement(s))

-----------------------------------------------------------------------------
(* Properties *)

AccountRow == [email : Emails \cup {None}, confirmed : BOOLEAN]
UserRow == [auth : Accounts \cup {None}, claimed : BOOLEAN]

\* Every row and transaction is of its type; a linked identity is claimed.
TypeOK ==
    /\ DOMAIN accounts \subseteq Accounts /\ accounts \in [DOMAIN accounts -> AccountRow]
    /\ DOMAIN users \subseteq Emails /\ users \in [DOMAIN users -> UserRow]
    /\ \A e \in DOMAIN users : users[e].auth # None => users[e].claimed
    /\ bound \subseteq DOMAIN users
    /\ txn \in [Sessions ->
                  [op : {"none", "trigger", "invite", "provision", "reclaim"},
                   pc : {"idle", "check", "claim", "insert", "lookup", "bind", "link", "commit"},
                   acct : Accounts \cup {None}, email : Emails \cup {None},
                   account : AccountRow \cup Accounts \cup {None},
                   row : UserRow \cup {None}]]

\* An account never stands behind two identities, and a link never points at
\* a deleted account, whatever the trigger, a reclaim and a deletion do at once.
LinksAreSound ==
    /\ \A e, f \in DOMAIN users : users[e].auth = users[f].auth /\ users[e].auth # None => e = f
    /\ \A e \in DOMAIN users : users[e].auth # None =>
            users[e].auth \in DOMAIN accounts /\ accounts[users[e].auth].email # None

\* Nothing is in progress.
Quiescent == \A s \in Sessions : txn[s] = Idle

\* A provisioned identity does not go on waiting beside the account it waits
\* for: when nothing is in progress, no confirmed account without identity
\* has an unclaimed one at its address.
WaitingIsClaimed ==
    Quiescent => \A a \in DOMAIN accounts :
        accounts[a].email # None /\ accounts[a].confirmed /\ ~Linked(a)
            => ~Waiting(accounts[a].email)

\* Every transaction ends: sessions never wait for one another in a circle.
TransactionsEnd == \A s \in Sessions : txn[s] # Idle ~> txn[s] = Idle
=============================================================================
