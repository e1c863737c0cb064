---------------------------- MODULE IdentityProofs ----------------------------
(***************************************************************************)
(* Theorems about the identities: that links are sound whatever claims,    *)
(* provisions, reclaims and deletions do at once, that the transactions    *)
(* implement the lifecycle, and that one after the other they leave nobody *)
(* waiting.  For any number of sessions, addresses and accounts.           *)
(***************************************************************************)
EXTENDS MCIdentity, TLAPS

-----------------------------------------------------------------------------
(* The invariant *)

\* What a transaction has in hand by the point it has reached.
TriggerAt(t) ==
    /\ t.op = "trigger" /\ t.pc \in {"check", "claim", "insert", "commit"}
    /\ t.acct \in Accounts /\ t.email \in Emails
    /\ t.account \in AccountRow /\ t.account.email = t.email
    /\ t.row # None => t.pc = "commit" /\ t.row = [auth |-> t.acct, claimed |-> TRUE]

InvitationAt(t) ==
    /\ t.op \in {"invite", "provision"} /\ t.pc \in {"lookup", "insert", "bind", "commit"}
    /\ t.acct = None /\ t.email \in Emails
    /\ t.row # None => t.pc \in {"bind", "commit"} /\ t.row = Nobody

ReclaimAt(t) ==
    /\ t.op = "reclaim" /\ t.pc \in {"lookup", "link", "commit"}
    /\ t.acct = None /\ t.email \in Emails
    /\ t.pc # "lookup" => t.account \in Accounts
    /\ t.row # None => t.pc = "commit" /\ t.row = [auth |-> t.account, claimed |-> TRUE]

InReach(t) == t = Idle \/ TriggerAt(t) \/ InvitationAt(t) \/ ReclaimAt(t)

\* A row it has written is still new to the table, or still waits there, and
\* the account it links is nobody else's and exists.
Founded(t) ==
    /\ t.op \in {"invite", "provision"} /\ t.pc \in {"bind", "commit"} =>
           t.row # None \/ t.email \in DOMAIN users
    /\ t.op \in {"invite", "provision"} /\ t.row # None => t.email \notin DOMAIN users
    /\ t.op = "trigger" /\ t.row # None /\ t.email \in DOMAIN users =>
           users[t.email] = Nobody
    /\ t.op = "reclaim" /\ t.pc # "lookup" =>
           t.email \in DOMAIN users /\ t.account \in DOMAIN accounts
    /\ t.op = "reclaim" /\ t.row # None => accounts[t.account].email # None
    /\ t.row # None /\ t.row.auth # None =>
           \A e \in DOMAIN users : users[e].auth = t.row.auth => e = t.email

\* No two sessions have written a row of one address, or one link.
RowsApart ==
    \A s, o \in Sessions : s # o /\ txn[s].row # None /\ txn[o].row # None =>
        /\ txn[s].email # txn[o].email
        /\ txn[s].row.auth = txn[o].row.auth => txn[s].row.auth = None

IdentityOK ==
    /\ TypeOK /\ LinksAreSound /\ RowsApart
    /\ \A s \in Sessions : InReach(txn[s]) /\ Founded(txn[s])

-----------------------------------------------------------------------------
(* Steps inside a transaction *)

Ops == {"none", "trigger", "invite", "provision", "reclaim"}
Points == {"idle", "check", "claim", "insert", "lookup", "bind", "link", "commit"}

Transaction ==
    [op : Ops, pc : Points, acct : Accounts \cup {None}, email : Emails \cup {None},
     account : AccountRow \cup Accounts \cup {None}, row : UserRow \cup {None}]

\* Null is no row, and no account.
LEMMA NoRow == None \notin UserRow /\ None \notin Accounts
BY NullIsNoRow, NullIsNoValue DEF UserRow

LEMMA TxnTyped == TypeOK => txn \in [Sessions -> Transaction]
BY DEF TypeOK, Transaction, Ops, Points

LEMMA IdleTyped ==
    /\ Idle \in Transaction /\ InReach(Idle) /\ Founded(Idle)
    /\ Idle.row = None /\ Idle.op = "none" /\ Idle.pc = "idle" /\ Idle.acct = None
BY DEF Idle, Transaction, Ops, Points, InReach, Founded

\* Replacing one session's transaction keeps the invariant, when what it has
\* written now is nobody else's.
LEMMA TxnReplaced ==
    ASSUME IdentityOK, NEW s \in Sessions, NEW t \in Transaction,
           txn' = [txn EXCEPT ![s] = t], UNCHANGED <<accounts, users, bound>>,
           InReach(t), Founded(t),
           t.row # None => \A o \in Sessions \ {s} : txn[o].row # None =>
               txn[o].email # t.email /\ (txn[o].row.auth = t.row.auth => t.row.auth = None)
    PROVE  IdentityOK'
<1>1. txn \in [Sessions -> Transaction] /\ txn' \in [Sessions -> Transaction]
  BY TxnTyped DEF IdentityOK
<1>2. txn'[s] = t /\ \A o \in Sessions \ {s} : txn'[o] = txn[o]
  BY <1>1
<1>3. TypeOK'
  BY <1>1 DEF IdentityOK, TypeOK, Transaction, Ops, Points
<1>4. LinksAreSound'
  BY DEF IdentityOK, LinksAreSound
<1>5. RowsApart'
  <2>1. SUFFICES ASSUME NEW q \in Sessions, NEW o \in Sessions, q # o,
                        txn'[q].row # None, txn'[o].row # None
                 PROVE  /\ txn'[q].email # txn'[o].email
                        /\ txn'[q].row.auth = txn'[o].row.auth => txn'[q].row.auth = None
    BY DEF RowsApart
  <2>2. CASE q = s
    BY <1>2, <2>1, <2>2
  <2>3. CASE o = s
    BY <1>2, <2>1, <2>3
  <2>4. CASE q # s /\ o # s
    BY <1>2, <2>1, <2>4 DEF IdentityOK, RowsApart
  <2> QED BY <2>2, <2>3, <2>4
<1>6. ASSUME NEW o \in Sessions PROVE (InReach(txn[o]) /\ Founded(txn[o]))'
  <2>1. InReach(txn'[o]) /\ Founded(txn'[o])
    BY <1>2 DEF IdentityOK
  <2> QED BY <2>1 DEF InReach, Founded, TriggerAt, InvitationAt, ReclaimAt
<1> QED BY <1>3, <1>4, <1>5, <1>6 DEF IdentityOK

\* A statement that changes nothing but the point.
LEMMA Moved ==
    ASSUME IdentityOK, NEW s \in Sessions, NEW pc \in Points, Goto(s, pc)
    PROVE  \E t \in Transaction :
              /\ txn' = [txn EXCEPT ![s] = t] /\ UNCHANGED <<accounts, users, bound>>
              /\ t.pc = pc /\ t.op = txn[s].op /\ t.acct = txn[s].acct
              /\ t.email = txn[s].email /\ t.account = txn[s].account /\ t.row = txn[s].row
<1>1. txn \in [Sessions -> Transaction]
  BY TxnTyped DEF IdentityOK
<1>2. PICK r : r = txn[s]
  OBVIOUS
<1>3. r \in Transaction
  BY <1>1, <1>2
<1>4. PICK t : t = [r EXCEPT !.pc = pc]
  OBVIOUS
<1>5. /\ t \in Transaction /\ t.pc = pc /\ t.op = r.op /\ t.acct = r.acct
      /\ t.email = r.email /\ t.account = r.account /\ t.row = r.row
  BY <1>3, <1>4 DEF Transaction
<1>6. txn' = [txn EXCEPT ![s] = t]
  BY <1>1, <1>2, <1>4 DEF Goto
<1> QED BY <1>2, <1>5, <1>6 DEF Goto

\* A statement that writes a row.
LEMMA Written ==
    ASSUME IdentityOK, NEW s \in Sessions, NEW pc \in Points, NEW row \in UserRow,
           Write(s, row, pc)
    PROVE  \E t \in Transaction :
              /\ txn' = [txn EXCEPT ![s] = t] /\ UNCHANGED <<accounts, users, bound>>
              /\ t.pc = pc /\ t.op = txn[s].op /\ t.acct = txn[s].acct
              /\ t.email = txn[s].email /\ t.account = txn[s].account /\ t.row = row
<1>1. txn \in [Sessions -> Transaction]
  BY TxnTyped DEF IdentityOK
<1>2. PICK r : r = txn[s]
  OBVIOUS
<1>3. r \in Transaction
  BY <1>1, <1>2
<1>4. PICK q : q = [r EXCEPT !.row = row]
  OBVIOUS
<1>5. PICK t : t = [q EXCEPT !.pc = pc]
  OBVIOUS
<1>6. /\ t \in Transaction /\ t.pc = pc /\ t.op = r.op /\ t.acct = r.acct
      /\ t.email = r.email /\ t.account = r.account /\ t.row = row
  BY <1>3, <1>4, <1>5 DEF Transaction
<1>7. txn' = [txn EXCEPT ![s] = t]
  BY <1>1, <1>2, <1>4, <1>5 DEF Write
<1> QED BY <1>2, <1>6, <1>7 DEF Write

\* A rollback.
LEMMA Raised == ASSUME IdentityOK, NEW s \in Sessions, Raise(s) PROVE IdentityOK'
BY IdleTyped, TxnReplaced DEF Raise

\* A transaction that begins.
LEMMA Begun ==
    ASSUME IdentityOK, NEW s \in Sessions,
           NEW op \in Ops, NEW a \in Accounts \cup {None}, NEW e \in Emails,
           NEW account \in AccountRow \cup {None}, NEW pc \in Points,
           Begin(s, op, a, e, account, pc),
           \/ /\ op = "trigger" /\ pc = "check" /\ a \in Accounts
              /\ account \in AccountRow /\ account.email = e
           \/ op \in {"invite", "provision", "reclaim"} /\ pc = "lookup" /\ a = None
    PROVE  IdentityOK'
<1>1. PICK t : t = [op |-> op, pc |-> pc, acct |-> a, email |-> e,
                    account |-> account, row |-> None]
  OBVIOUS
<1>2. /\ t \in Transaction /\ t.op = op /\ t.pc = pc /\ t.acct = a /\ t.email = e
      /\ t.account = account /\ t.row = None
  BY <1>1 DEF Transaction
<1>3. InReach(t) /\ Founded(t)
  BY <1>2 DEF InReach, Founded, TriggerAt, InvitationAt, ReclaimAt
<1>4. txn' = [txn EXCEPT ![s] = t] /\ UNCHANGED <<accounts, users, bound>>
  BY <1>1 DEF Begin
<1> QED BY <1>2, <1>3, <1>4, TxnReplaced

-----------------------------------------------------------------------------
(* The invariant, statement by statement *)

LEMMA KeptCheckLinked == ASSUME IdentityOK, NEW s \in Sessions, CheckLinked(s) PROVE IdentityOK'
<1>1. PICK pc \in {"claim", "commit"} : Goto(s, pc)
  BY DEF CheckLinked
<1>2. txn[s].op = "trigger" /\ txn[s].pc = "check"
  BY DEF CheckLinked, At
<1>3. PICK t \in Transaction :
        /\ txn' = [txn EXCEPT ![s] = t] /\ UNCHANGED <<accounts, users, bound>>
        /\ t.pc = pc /\ t.op = txn[s].op /\ t.acct = txn[s].acct
        /\ t.email = txn[s].email /\ t.account = txn[s].account /\ t.row = txn[s].row
  BY <1>1, Moved DEF Points
<1>4. TriggerAt(txn[s])
  BY <1>2, IdleTyped DEF IdentityOK, InReach, InvitationAt, ReclaimAt
<1>5. t.row = None /\ TriggerAt(t)
  BY <1>1, <1>2, <1>3, <1>4 DEF TriggerAt
<1>6. InReach(t) /\ Founded(t)
  BY <1>2, <1>3, <1>5 DEF InReach, Founded
<1> QED BY <1>3, <1>5, <1>6, TxnReplaced

\* The row a claim, an insert of the trigger or a reclaim writes, when the
\* conditions it was written under hold.
LEMMA LinkWritten ==
    ASSUME IdentityOK, NEW s \in Sessions, NEW a \in Accounts,
           \/ TriggerAt(txn[s]) /\ a = txn[s].acct
              /\ (txn[s].email \in DOMAIN users => users[txn[s].email] = Nobody)
           \/ ReclaimAt(txn[s]) /\ txn[s].pc = "link" /\ a = txn[s].account
              /\ accounts[a].email # None,
           ~Contended(s, txn[s].email), ~ContendedLink(s, a),
           \A x \in DOMAIN users : users[x].auth = a => x = txn[s].email,
           Write(s, [auth |-> a, claimed |-> TRUE], "commit")
    PROVE  IdentityOK'
<1>1. PICK row : row = [auth |-> a, claimed |-> TRUE]
  OBVIOUS
<1>2. row \in UserRow /\ row.auth = a /\ a # None /\ row # None
  <2>1. row \in UserRow /\ row.auth = a
    BY <1>1 DEF UserRow
  <2> QED BY <2>1, NoRow
<1>3. PICK t \in Transaction :
        /\ txn' = [txn EXCEPT ![s] = t] /\ UNCHANGED <<accounts, users, bound>>
        /\ t.pc = "commit" /\ t.op = txn[s].op /\ t.acct = txn[s].acct
        /\ t.email = txn[s].email /\ t.account = txn[s].account /\ t.row = row
  BY <1>1, <1>2, Written DEF Points
<1>4. TriggerAt(t) \/ ReclaimAt(t)
  BY <1>1, <1>3 DEF TriggerAt, ReclaimAt
<1>5. Founded(txn[s])
  BY DEF IdentityOK
<1>6. Founded(t)
  <2>1. CASE TriggerAt(txn[s]) /\ a = txn[s].acct
              /\ (txn[s].email \in DOMAIN users => users[txn[s].email] = Nobody)
    <3>1. t.op = "trigger"
      BY <1>3, <2>1 DEF TriggerAt
    <3> QED BY <1>2, <1>3, <2>1, <3>1 DEF Founded
  <2>2. CASE ReclaimAt(txn[s]) /\ txn[s].pc = "link" /\ a = txn[s].account
              /\ accounts[a].email # None
    <3>1. t.op = "reclaim"
      BY <1>3, <2>2 DEF ReclaimAt
    <3> QED BY <1>2, <1>3, <1>5, <2>2, <3>1 DEF Founded
  <2> QED BY <2>1, <2>2
<1>7. \A o \in Sessions \ {s} : txn[o].row # None =>
          txn[o].email # t.email /\ (txn[o].row.auth = t.row.auth => t.row.auth = None)
  BY <1>2, <1>3 DEF Contended, ContendedLink
<1>8. InReach(t)
  BY <1>4 DEF InReach
<1> QED BY <1>3, <1>6, <1>7, <1>8, TxnReplaced

LEMMA KeptClaimWaiting == ASSUME IdentityOK, NEW s \in Sessions, ClaimWaiting(s) PROVE IdentityOK'
<1>1. PICK a, e : a = txn[s].acct /\ e = txn[s].email
  OBVIOUS
<1>2. /\ At(s, "trigger", "claim")
      /\ IF Waiting(e)
         THEN /\ ~Contended(s, e) /\ ~ContendedLink(s, a)
              /\ IF Linked(a) THEN Raise(s)
                 ELSE Write(s, [auth |-> a, claimed |-> TRUE], "commit")
         ELSE Goto(s, "insert")
  BY <1>1, Zenon DEF ClaimWaiting
<1>3. txn[s].op = "trigger" /\ txn[s].pc = "claim"
  BY <1>2 DEF At
<1>4. TriggerAt(txn[s])
  BY <1>3, IdleTyped DEF IdentityOK, InReach, InvitationAt, ReclaimAt
<1>5. CASE Waiting(e) /\ Linked(a)
  BY <1>2, <1>5, Raised
<1>6. CASE Waiting(e) /\ ~Linked(a)
  <2>1. /\ a \in Accounts
        /\ \A x \in DOMAIN users : users[x].auth = a => x = e
        /\ e \in DOMAIN users => users[e] = Nobody
    BY <1>1, <1>4, <1>6 DEF TriggerAt, Linked, Waiting
  <2> QED BY <1>1, <1>2, <1>4, <1>6, <2>1, LinkWritten
<1>7. CASE ~Waiting(e)
  <2>1. PICK t \in Transaction :
        /\ txn' = [txn EXCEPT ![s] = t] /\ UNCHANGED <<accounts, users, bound>>
        /\ t.pc = "insert" /\ t.op = txn[s].op /\ t.acct = txn[s].acct
        /\ t.email = txn[s].email /\ t.account = txn[s].account /\ t.row = txn[s].row
    BY <1>2, <1>7, Moved DEF Points
  <2>2. t.row = None /\ TriggerAt(t)
    BY <1>3, <1>4, <2>1 DEF TriggerAt
  <2>3. InReach(t) /\ Founded(t)
    BY <1>3, <2>1, <2>2 DEF InReach, Founded
  <2> QED BY <2>1, <2>2, <2>3, TxnReplaced
<1> QED BY <1>5, <1>6, <1>7

LEMMA KeptInsertFresh == ASSUME IdentityOK, NEW s \in Sessions, InsertFresh(s) PROVE IdentityOK'
<1>1. PICK a, e : a = txn[s].acct /\ e = txn[s].email
  OBVIOUS
<1>2. /\ At(s, "trigger", "insert")
      /\ e \in DOMAIN users \/ ~Contended(s, e)
      /\ ~ContendedLink(s, a)
      /\ IF e \in DOMAIN users \/ Linked(a) THEN Goto(s, "commit")
         ELSE Write(s, [auth |-> a, claimed |-> TRUE], "commit")
  BY <1>1, Zenon DEF InsertFresh
<1>3. txn[s].op = "trigger" /\ txn[s].pc = "insert"
  BY <1>2 DEF At
<1>4. TriggerAt(txn[s])
  BY <1>3, IdleTyped DEF IdentityOK, InReach, InvitationAt, ReclaimAt
<1>5. CASE e \in DOMAIN users \/ Linked(a)
  <2>1. PICK t \in Transaction :
        /\ txn' = [txn EXCEPT ![s] = t] /\ UNCHANGED <<accounts, users, bound>>
        /\ t.pc = "commit" /\ t.op = txn[s].op /\ t.acct = txn[s].acct
        /\ t.email = txn[s].email /\ t.account = txn[s].account /\ t.row = txn[s].row
    BY <1>2, <1>5, Moved DEF Points
  <2>2. t.row = None /\ TriggerAt(t)
    BY <1>3, <1>4, <2>1 DEF TriggerAt
  <2>3. InReach(t) /\ Founded(t)
    BY <1>3, <2>1, <2>2 DEF InReach, Founded
  <2> QED BY <2>1, <2>2, <2>3, TxnReplaced
<1>6. CASE ~(e \in DOMAIN users \/ Linked(a))
  <2>1. a \in Accounts /\ \A x \in DOMAIN users : users[x].auth = a => x = e
    BY <1>1, <1>4, <1>6 DEF TriggerAt, Linked
  <2> QED BY <1>1, <1>2, <1>4, <1>6, <2>1, LinkWritten
<1> QED BY <1>5, <1>6

\* A statement of an invitation that writes nothing.
LEMMA InvitationMoved ==
    ASSUME IdentityOK, NEW s \in Sessions, txn[s].op \in {"invite", "provision"},
           NEW pc \in {"insert", "bind", "commit"}, Goto(s, pc),
           pc = "insert" => txn[s].row = None,
           pc # "insert" => txn[s].row # None \/ txn[s].email \in DOMAIN users
    PROVE  IdentityOK'
<1>1. PICK t \in Transaction :
        /\ txn' = [txn EXCEPT ![s] = t] /\ UNCHANGED <<accounts, users, bound>>
        /\ t.pc = pc /\ t.op = txn[s].op /\ t.acct = txn[s].acct
        /\ t.email = txn[s].email /\ t.account = txn[s].account /\ t.row = txn[s].row
  BY Moved DEF Points
<1>2. InvitationAt(txn[s])
  BY IdleTyped DEF IdentityOK, InReach, TriggerAt, ReclaimAt
<1>3. InReach(t)
  BY <1>1, <1>2 DEF InReach, InvitationAt
<1>4. Founded(t)
  BY <1>1 DEF IdentityOK, Founded
<1>5. t.row # None => \A o \in Sessions \ {s} : txn[o].row # None =>
          txn[o].email # t.email /\ (txn[o].row.auth = t.row.auth => t.row.auth = None)
  BY <1>1 DEF IdentityOK, RowsApart
<1> QED BY <1>1, <1>3, <1>4, <1>5, TxnReplaced

LEMMA KeptLookUp == ASSUME IdentityOK, NEW s \in Sessions, LookUp(s) PROVE IdentityOK'
<1>1. /\ txn[s].op \in {"invite", "provision"} /\ txn[s].pc = "lookup"
      /\ \/ Raise(s)
         \/ Goto(s, IF txn[s].email \in DOMAIN users THEN "bind" ELSE "insert")
  BY DEF LookUp
<1>2. txn[s].row = None
  BY <1>1, IdleTyped DEF IdentityOK, InReach, TriggerAt, InvitationAt, ReclaimAt
<1>3. CASE Raise(s)
  BY <1>3, Raised
<1>4. CASE Goto(s, IF txn[s].email \in DOMAIN users THEN "bind" ELSE "insert")
  <2>1. CASE txn[s].email \in DOMAIN users
    BY <1>1, <1>4, <2>1, InvitationMoved
  <2>2. CASE txn[s].email \notin DOMAIN users
    BY <1>1, <1>2, <1>4, <2>2, InvitationMoved
  <2> QED BY <2>1, <2>2
<1> QED BY <1>1, <1>3, <1>4

LEMMA KeptInsertWaiting == ASSUME IdentityOK, NEW s \in Sessions, InsertWaiting(s) PROVE IdentityOK'
<1>1. PICK e : e = txn[s].email
  OBVIOUS
<1>2. /\ txn[s].op \in {"invite", "provision"} /\ txn[s].pc = "insert"
      /\ e \in DOMAIN users \/ ~Contended(s, e)
      /\ IF e \in DOMAIN users THEN Raise(s) ELSE Write(s, Nobody, "bind")
  BY <1>1, Zenon DEF InsertWaiting
<1>3. CASE e \in DOMAIN users
  BY <1>2, <1>3, Raised
<1>4. CASE e \notin DOMAIN users
  <2>1. Nobody \in UserRow /\ Nobody # None /\ Nobody.auth = None
    <3>1. Nobody \in UserRow /\ Nobody.auth = None
      BY DEF Nobody, UserRow
    <3> QED BY <3>1, NoRow
  <2>2. PICK t \in Transaction :
        /\ txn' = [txn EXCEPT ![s] = t] /\ UNCHANGED <<accounts, users, bound>>
        /\ t.pc = "bind" /\ t.op = txn[s].op /\ t.acct = txn[s].acct
        /\ t.email = txn[s].email /\ t.account = txn[s].account /\ t.row = Nobody
    BY <1>2, <1>4, <2>1, Written DEF Points
  <2>3. InvitationAt(txn[s])
    BY <1>2, IdleTyped DEF IdentityOK, InReach, TriggerAt, ReclaimAt
  <2>4. InReach(t)
    BY <2>2, <2>3 DEF InReach, InvitationAt
  <2>5. Founded(t)
    BY <1>1, <1>2, <1>4, <2>1, <2>2 DEF Founded
  <2>6. \A o \in Sessions \ {s} : txn[o].row # None =>
            txn[o].email # t.email /\ (txn[o].row.auth = t.row.auth => t.row.auth = None)
    BY <1>1, <1>2, <1>4, <2>1, <2>2 DEF Contended
  <2> QED BY <2>2, <2>4, <2>5, <2>6, TxnReplaced
<1> QED BY <1>3, <1>4

LEMMA KeptBind == ASSUME IdentityOK, NEW s \in Sessions, Bind(s) PROVE IdentityOK'
<1>1. /\ txn[s].op \in {"invite", "provision"} /\ txn[s].pc = "bind"
      /\ Raise(s) \/ Goto(s, "commit")
  BY DEF Bind
<1>2. txn[s].row # None \/ txn[s].email \in DOMAIN users
  BY <1>1 DEF IdentityOK, Founded
<1> QED BY <1>1, <1>2, Raised, InvitationMoved

LEMMA KeptChooseReclaim == ASSUME IdentityOK, NEW s \in Sessions, ChooseReclaim(s) PROVE IdentityOK'
<1>1. PICK e : e = txn[s].email
  OBVIOUS
<1>2. CASE Raise(s)
  BY <1>2, Raised
<1>3. CASE ~Raise(s)
  <2>1. /\ txn[s].op = "reclaim" /\ txn[s].pc = "lookup" /\ e \in DOMAIN users
        /\ UNCHANGED <<accounts, users, bound>>
    BY <1>1, <1>3, Zenon DEF ChooseReclaim, At
  <2>2. PICK a \in DOMAIN accounts :
            txn' = [txn EXCEPT ![s].account = a, ![s].pc = "link"]
    BY <1>1, <1>3 DEF ChooseReclaim
  <2>3. txn \in [Sessions -> Transaction] /\ a \in Accounts
    BY <2>2, TxnTyped DEF IdentityOK, TypeOK
  <2>4. PICK r : r = txn[s]
    OBVIOUS
  <2>5. r \in Transaction
    BY <2>3, <2>4
  <2>6. PICK q : q = [r EXCEPT !.account = a]
    OBVIOUS
  <2>7. PICK t : t = [q EXCEPT !.pc = "link"]
    OBVIOUS
  <2>8. /\ t \in Transaction /\ t.pc = "link" /\ t.op = r.op /\ t.acct = r.acct
        /\ t.email = r.email /\ t.account = a /\ t.row = r.row
    BY <2>3, <2>5, <2>6, <2>7 DEF Transaction, Points
  <2>9. txn' = [txn EXCEPT ![s] = t]
    BY <2>2, <2>3, <2>4, <2>6, <2>7
  <2>10. ReclaimAt(r) /\ r.row = None
    BY <2>1, <2>4, IdleTyped DEF IdentityOK, InReach, TriggerAt, InvitationAt, ReclaimAt
  <2>11. InReach(t) /\ Founded(t)
    BY <1>1, <2>1, <2>2, <2>3, <2>4, <2>8, <2>10 DEF InReach, ReclaimAt, Founded
  <2> QED BY <2>1, <2>8, <2>9, <2>10, <2>11, TxnReplaced
<1> QED BY <1>2, <1>3

LEMMA KeptLinkReclaimed == ASSUME IdentityOK, NEW s \in Sessions, LinkReclaimed(s) PROVE IdentityOK'
<1>1. PICK e, a : e = txn[s].email /\ a = txn[s].account
  OBVIOUS
<1>2. /\ At(s, "reclaim", "link")
      /\ ~Contended(s, e) /\ ~ContendedLink(s, a)
      /\ IF accounts[a].email = None \/ \E x \in DOMAIN users \ {e} : users[x].auth = a
         THEN Raise(s)
         ELSE Write(s, [auth |-> a, claimed |-> TRUE], "commit")
  BY <1>1, Zenon DEF LinkReclaimed
<1>3. ReclaimAt(txn[s]) /\ txn[s].pc = "link"
  BY <1>2, IdleTyped DEF At, IdentityOK, InReach, TriggerAt, InvitationAt
<1>4. CASE accounts[a].email = None \/ \E x \in DOMAIN users \ {e} : users[x].auth = a
  BY <1>2, <1>4, Raised
<1>5. CASE ~(accounts[a].email = None \/ \E x \in DOMAIN users \ {e} : users[x].auth = a)
  <2>1. a \in Accounts /\ \A x \in DOMAIN users : users[x].auth = a => x = e
    BY <1>1, <1>3, <1>5 DEF ReclaimAt
  <2> QED BY <1>1, <1>2, <1>3, <1>5, <2>1, LinkWritten
<1> QED BY <1>4, <1>5

-----------------------------------------------------------------------------
(* The invariant, at a start, a commit and a deletion *)

LEMMA KeptStart == ASSUME IdentityOK, NEW s \in Sessions, Start(s) PROVE IdentityOK'
<1>1. ASSUME NEW a \in Accounts, NEW e \in Emails, NEW c \in BOOLEAN,
             SignUp(s, a, e, c) \/ UpdateAccount(s, a, e, c)
      PROVE  IdentityOK'
  <2>1. PICK account : account = [email |-> e, confirmed |-> c]
    OBVIOUS
  <2>2. account \in AccountRow /\ account.email = e
    BY <2>1 DEF AccountRow
  <2>3. Begin(s, "trigger", a, e, account, "check")
    BY <1>1, <2>1 DEF SignUp, UpdateAccount
  <2> QED BY <2>2, <2>3, Begun DEF Ops, Points
<1>2. ASSUME NEW e \in Emails, NEW op \in {"invite", "provision", "reclaim"},
             Begin(s, op, None, e, None, "lookup")
      PROVE  IdentityOK'
  BY <1>2, Begun DEF Ops, Points
<1> QED BY <1>1, <1>2 DEF Start

\* A commit puts the row and the account it has in hand into the tables.
CommittedAccounts(t) ==
    \/ t.op # "trigger" /\ accounts' = accounts
    \/ /\ t.op = "trigger"
       /\ accounts' = [a \in DOMAIN accounts \cup {t.acct} |->
                          IF a = t.acct THEN t.account ELSE accounts[a]]

CommittedUsers(t) ==
    \/ t.row = None /\ users' = users
    \/ /\ t.row # None
       /\ users' = [e \in DOMAIN users \cup {t.email} |->
                       IF e = t.email THEN t.row ELSE users[e]]

\* What every point of a commit can use.
LEMMA Committing ==
    ASSUME IdentityOK, NEW s \in Sessions, Commit(s), NEW t, t = txn[s]
    PROVE  /\ t.pc = "commit" /\ CommittedAccounts(t) /\ CommittedUsers(t)
           /\ bound' = IF t.op \in {"invite", "provision"} THEN bound \cup {t.email} ELSE bound
           /\ txn' = [txn EXCEPT ![s] = Idle]
           /\ txn \in [Sessions -> Transaction] /\ t \in Transaction
           /\ TriggerAt(t) \/ InvitationAt(t) \/ ReclaimAt(t)
           /\ Founded(t)
<1>1. /\ t.pc = "commit"
      /\ accounts' = IF t.op # "trigger" THEN accounts
                     ELSE [a \in DOMAIN accounts \cup {t.acct} |->
                              IF a = t.acct THEN t.account ELSE accounts[a]]
      /\ users' = IF t.row = None THEN users
                  ELSE [e \in DOMAIN users \cup {t.email} |->
                              IF e = t.email THEN t.row ELSE users[e]]
      /\ bound' = IF t.op \in {"invite", "provision"} THEN bound \cup {t.email} ELSE bound
      /\ txn' = [txn EXCEPT ![s] = Idle]
  BY Zenon DEF Commit
<1>2. CommittedAccounts(t)
  BY <1>1 DEF CommittedAccounts
<1>3. CommittedUsers(t)
  BY <1>1 DEF CommittedUsers
<1>4. txn \in [Sessions -> Transaction]
  BY TxnTyped DEF IdentityOK
<1>5. TriggerAt(t) \/ InvitationAt(t) \/ ReclaimAt(t)
  BY <1>1, IdleTyped DEF IdentityOK, InReach
<1> QED BY <1>1, <1>2, <1>3, <1>4, <1>5 DEF IdentityOK

\* The row in hand, by what wrote it.
LEMMA RowInHand ==
    ASSUME IdentityOK, NEW s \in Sessions, txn[s].row # None
    PROVE  /\ txn[s].row \in UserRow /\ txn[s].email \in Emails
           /\ txn[s].row.auth # None => txn[s].row.claimed
           /\ txn[s].op \in {"invite", "provision"} => txn[s].row = Nobody
           /\ txn[s].op = "trigger" => txn[s].row.auth = txn[s].acct
           /\ txn[s].op = "reclaim" => txn[s].row.auth = txn[s].account
           /\ txn[s].op \in {"trigger", "reclaim"} => txn[s].row.claimed
           /\ txn[s].op \in {"invite", "provision", "trigger", "reclaim"}
<1>1. InReach(txn[s]) /\ txn[s] # Idle
  BY IdleTyped DEF IdentityOK
<1>2. txn[s] \in Transaction
  BY TxnTyped DEF IdentityOK
<1>3. txn[s].row \in UserRow
  BY <1>2 DEF Transaction
<1>4. CASE TriggerAt(txn[s])
  BY <1>3, <1>4 DEF TriggerAt
<1>5. CASE InvitationAt(txn[s])
  BY <1>3, <1>5 DEF InvitationAt, Nobody
<1>6. CASE ReclaimAt(txn[s])
  BY <1>3, <1>6 DEF ReclaimAt
<1> QED BY <1>1, <1>4, <1>5, <1>6 DEF InReach

LEMMA KeptCommit == ASSUME IdentityOK, NEW s \in Sessions, Commit(s) PROVE IdentityOK'
<1>1. PICK t : t = txn[s]
  OBVIOUS
<1>2. /\ t.pc = "commit" /\ CommittedAccounts(t) /\ CommittedUsers(t)
      /\ bound' = IF t.op \in {"invite", "provision"} THEN bound \cup {t.email} ELSE bound
      /\ txn' = [txn EXCEPT ![s] = Idle]
      /\ txn \in [Sessions -> Transaction] /\ t \in Transaction
      /\ TriggerAt(t) \/ InvitationAt(t) \/ ReclaimAt(t)
      /\ Founded(t)
  BY <1>1, Committing
<1>3. txn' \in [Sessions -> Transaction] /\ txn'[s] = Idle
      /\ \A o \in Sessions \ {s} : txn'[o] = txn[o]
  BY <1>2, IdleTyped
<1>4. t.email \in Emails
  BY <1>2 DEF TriggerAt, InvitationAt, ReclaimAt
<1>5. TypeOK
  BY DEF IdentityOK
<1>6. /\ DOMAIN accounts' \subseteq Accounts /\ accounts' \in [DOMAIN accounts' -> AccountRow]
      /\ DOMAIN accounts \subseteq DOMAIN accounts'
      /\ \A a \in DOMAIN accounts :
            /\ accounts'[a] = accounts[a] \/ accounts'[a].email # None
            /\ accounts[a].email # None => accounts'[a].email # None
      /\ t.op = "trigger" => t.acct \in DOMAIN accounts' /\ accounts'[t.acct].email # None
  <2>1. CASE t.op # "trigger"
    <3>1. accounts' = accounts
      BY <1>2, <2>1 DEF CommittedAccounts
    <3> QED BY <1>5, <2>1, <3>1 DEF TypeOK
  <2>2. CASE t.op = "trigger"
    <3>1. t.acct \in Accounts /\ t.account \in AccountRow /\ t.account.email = t.email
      BY <1>2, <2>2 DEF TriggerAt, InvitationAt, ReclaimAt
    <3>2. t.account.email # None
      BY <1>4, <3>1, NullIsNoValue
    <3>3. accounts' = [a \in DOMAIN accounts \cup {t.acct} |->
                          IF a = t.acct THEN t.account ELSE accounts[a]]
      BY <1>2, <2>2 DEF CommittedAccounts
    <3> QED BY <1>5, <3>1, <3>2, <3>3 DEF TypeOK
  <2> QED BY <2>1, <2>2
<1>7. t.row # None => /\ t.row \in UserRow
                      /\ t.row.auth # None => t.row.claimed
                      /\ t.op \in {"invite", "provision"} => t.row = Nobody
                      /\ t.op = "trigger" => t.row.auth = t.acct
                      /\ t.op = "reclaim" => t.row.auth = t.account
                      /\ t.op \in {"invite", "provision", "trigger", "reclaim"}
  BY <1>1, RowInHand
<1>8. /\ DOMAIN users' \subseteq Emails /\ users' \in [DOMAIN users' -> UserRow]
      /\ DOMAIN users \subseteq DOMAIN users'
      /\ \A e \in DOMAIN users' : users'[e].auth # None => users'[e].claimed
      /\ \A e \in DOMAIN users' : \/ e \in DOMAIN users /\ users'[e] = users[e]
                                  \/ t.row # None /\ e = t.email /\ users'[e] = t.row
      /\ t.row # None => t.email \in DOMAIN users' /\ users'[t.email] = t.row
      /\ \A e \in DOMAIN users : e # t.email \/ t.row = None => users'[e] = users[e]
  <2>1. CASE t.row = None
    <3>1. users' = users
      BY <1>2, <2>1 DEF CommittedUsers
    <3> QED BY <1>5, <2>1, <3>1 DEF TypeOK
  <2>2. CASE t.row # None
    <3>1. users' = [e \in DOMAIN users \cup {t.email} |->
                       IF e = t.email THEN t.row ELSE users[e]]
      BY <1>2, <2>2 DEF CommittedUsers
    <3> QED BY <1>4, <1>5, <1>7, <2>2, <3>1 DEF TypeOK
  <2> QED BY <2>1, <2>2
<1>9. bound' \subseteq DOMAIN users'
  <2>1. t.op \in {"invite", "provision"} => t.email \in DOMAIN users'
    BY <1>2, <1>8 DEF Founded
  <2> QED BY <1>2, <1>5, <1>8, <2>1 DEF TypeOK
<1>10. TypeOK'
  BY <1>3, <1>6, <1>8, <1>9 DEF TypeOK, Transaction, Ops, Points
<1>11. LinksAreSound'
  <2>1. LinksAreSound
    BY DEF IdentityOK
  <2>2. ASSUME NEW e \in DOMAIN users', NEW f \in DOMAIN users',
               users'[e].auth = users'[f].auth, users'[e].auth # None
        PROVE  e = f
    <3>1. t.row # None /\ t.row.auth # None =>
              \A x \in DOMAIN users : users[x].auth = t.row.auth => x = t.email
      BY <1>2 DEF Founded
    <3> QED BY <1>8, <2>1, <2>2, <3>1 DEF LinksAreSound
  <2>3. ASSUME NEW e \in DOMAIN users', users'[e].auth # None
        PROVE  users'[e].auth \in DOMAIN accounts' /\ accounts'[users'[e].auth].email # None
    <3>1. CASE e \in DOMAIN users /\ users'[e] = users[e]
      BY <1>6, <2>1, <2>3, <3>1 DEF LinksAreSound
    <3>2. CASE t.row # None /\ users'[e] = t.row
      <4>1. t.op = "trigger" \/ t.op = "reclaim"
        BY <1>7, <2>3, <3>2 DEF Nobody
      <4>2. CASE t.op = "trigger"
        BY <1>6, <1>7, <3>2, <4>2
      <4>3. CASE t.op = "reclaim"
        <5>1. t.account \in DOMAIN accounts /\ accounts[t.account].email # None
          BY <1>2, <3>2, <4>3 DEF Founded
        <5> QED BY <1>6, <1>7, <3>2, <4>3, <5>1
      <4> QED BY <4>1, <4>2, <4>3
    <3> QED BY <1>8, <3>1, <3>2
  <2> QED BY <2>2, <2>3 DEF LinksAreSound
<1>12. RowsApart'
  BY <1>3, IdleTyped DEF IdentityOK, RowsApart
<1>13. ASSUME NEW o \in Sessions PROVE (InReach(txn[o]) /\ Founded(txn[o]))'
  <2>1. CASE o = s
    BY <1>3, <2>1, IdleTyped DEF InReach, Founded, Idle
  <2>2. CASE o # s
    <3>1. PICK q : q = txn[o] /\ q = txn'[o]
      BY <1>3, <2>2
    <3>2. InReach(q) /\ Founded(q)
      BY <3>1 DEF IdentityOK
    <3>3. q.row # None /\ t.row # None =>
              q.email # t.email /\ (q.row.auth = t.row.auth => q.row.auth = None)
      BY <1>1, <2>2, <3>1 DEF IdentityOK, RowsApart
    <3>4. Founded(q)'
      <4>1. /\ q.op \in {"invite", "provision"} /\ q.pc \in {"bind", "commit"} =>
                  q.row # None \/ q.email \in DOMAIN users'
            /\ q.op \in {"invite", "provision"} /\ q.row # None => q.email \notin DOMAIN users'
        BY <1>8, <3>2, <3>3 DEF Founded
      <4>2. q.op = "trigger" /\ q.row # None /\ q.email \in DOMAIN users' =>
                users'[q.email] = Nobody
        BY <1>8, <3>2, <3>3 DEF Founded
      <4>3. /\ q.op = "reclaim" /\ q.pc # "lookup" =>
                  q.email \in DOMAIN users' /\ q.account \in DOMAIN accounts'
            /\ q.op = "reclaim" /\ q.row # None => accounts'[q.account].email # None
        <5>1. q.op = "reclaim" /\ q.row # None => q.pc # "lookup"
          BY <3>2, IdleTyped DEF InReach, TriggerAt, InvitationAt, ReclaimAt
        <5> QED BY <1>6, <1>8, <3>2, <5>1 DEF Founded
      <4>4. q.row # None /\ q.row.auth # None =>
                \A e \in DOMAIN users' : users'[e].auth = q.row.auth => e = q.email
        BY <1>8, <3>2, <3>3 DEF Founded
      <4> QED BY <4>1, <4>2, <4>3, <4>4 DEF Founded
    <3>5. InReach(q)'
      BY <3>2 DEF InReach, TriggerAt, InvitationAt, ReclaimAt
    <3> QED BY <3>1, <3>4, <3>5 DEF InReach, Founded, TriggerAt, InvitationAt, ReclaimAt
  <2> QED BY <2>1, <2>2
<1> QED BY <1>10, <1>11, <1>12, <1>13 DEF IdentityOK

LEMMA KeptDeleteAccount ==
    ASSUME IdentityOK, NEW a \in Accounts, DeleteAccount(a)
    PROVE  IdentityOK'
<1>1. TypeOK /\ a # None
  BY NoRow DEF IdentityOK
<1>2. /\ txn' = txn /\ bound' = bound
      /\ \A s \in Sessions : txn[s].row # None => txn[s].row.auth # a
  BY DEF DeleteAccount
<1>3. /\ DOMAIN accounts' = DOMAIN accounts
      /\ \A x \in DOMAIN accounts : x # a => accounts'[x] = accounts[x]
      /\ accounts' \in [DOMAIN accounts -> AccountRow]
  BY <1>1 DEF DeleteAccount, TypeOK, AccountRow
<1>4. /\ DOMAIN users' = DOMAIN users
      /\ users' \in [DOMAIN users -> UserRow]
      /\ \A e \in DOMAIN users :
            IF users[e].auth = a THEN users'[e].auth = None /\ users'[e].claimed = users[e].claimed
            ELSE users'[e] = users[e]
  BY <1>1 DEF DeleteAccount, TypeOK, UserRow
<1>5. \A e \in DOMAIN users : users'[e].auth # None => users'[e] = users[e] /\ users[e].auth # a
  BY <1>4
<1>6. TypeOK'
  BY <1>1, <1>2, <1>3, <1>4, <1>5 DEF TypeOK
<1>7. LinksAreSound'
  BY <1>3, <1>4, <1>5 DEF IdentityOK, LinksAreSound
<1>8. RowsApart'
  BY <1>2 DEF IdentityOK, RowsApart
<1>9. ASSUME NEW s \in Sessions PROVE (InReach(txn[s]) /\ Founded(txn[s]))'
  <2>1. PICK q : q = txn[s] /\ q = txn'[s]
    BY <1>2
  <2>2. InReach(q) /\ Founded(q)
    BY <2>1 DEF IdentityOK
  <2>3. q.row # None => q.row.auth # a
    BY <1>2, <2>1
  <2>4. q.op = "reclaim" /\ q.row # None => q.row.auth = q.account /\ q.account \in DOMAIN accounts
    <3>1. q.op = "reclaim" => ReclaimAt(q)
      BY <2>2, IdleTyped DEF InReach, TriggerAt, InvitationAt
    <3> QED BY <2>2, <3>1 DEF ReclaimAt, Founded
  <2>5. Nobody.auth # a
    BY <1>1 DEF Nobody
  <2>6. Founded(q)'
    BY <1>3, <1>4, <1>5, <2>2, <2>3, <2>4, <2>5 DEF Founded
  <2>7. InReach(q)'
    BY <2>2 DEF InReach, TriggerAt, InvitationAt, ReclaimAt
  <2> QED BY <2>1, <2>6, <2>7 DEF InReach, Founded, TriggerAt, InvitationAt, ReclaimAt
<1> QED BY <1>6, <1>7, <1>8, <1>9 DEF IdentityOK

LEMMA KeptStutter == ASSUME IdentityOK, UNCHANGED vars PROVE IdentityOK'
BY DEF IdentityOK, vars, TypeOK, LinksAreSound, RowsApart, InReach, Founded,
       TriggerAt, InvitationAt, ReclaimAt

LEMMA KeptNext == IdentityOK /\ [Next]_vars => IdentityOK'
<1> SUFFICES ASSUME IdentityOK, [Next]_vars PROVE IdentityOK'
  OBVIOUS
<1>1. ASSUME NEW s \in Sessions, Statement(s) PROVE IdentityOK'
  BY <1>1, KeptCheckLinked, KeptClaimWaiting, KeptInsertFresh, KeptLookUp, KeptInsertWaiting,
     KeptBind, KeptChooseReclaim, KeptLinkReclaimed, KeptCommit DEF Statement
<1> QED BY <1>1, KeptStart, KeptDeleteAccount, KeptStutter DEF Next

LEMMA KeptInit == Init => IdentityOK
<1> SUFFICES ASSUME Init PROVE IdentityOK
  OBVIOUS
<1>1. txn \in [Sessions -> Transaction] /\ \A s \in Sessions : txn[s] = Idle
  BY IdleTyped DEF Init
<1>2. DOMAIN users = {} /\ DOMAIN accounts = {} /\ bound = {}
  BY DEF Init
<1>3. accounts \in [DOMAIN accounts -> AccountRow] /\ users \in [DOMAIN users -> UserRow]
  BY <1>2 DEF Init
<1>4. TypeOK
  BY <1>1, <1>2, <1>3 DEF TypeOK, Transaction, Ops, Points
<1>5. LinksAreSound /\ RowsApart
  BY <1>1, <1>2, IdleTyped DEF LinksAreSound, RowsApart
<1> QED BY <1>1, <1>4, <1>5, IdleTyped DEF IdentityOK

\* Whatever claims, provisions, reclaims and account deletions do at once, in
\* any number of sessions, every row and transaction keeps its type and a
\* linked identity is claimed (TypeOK).
THEOREM IdentityTyped == Spec => []TypeOK
<1>1. IdentityOK => TypeOK
  BY DEF IdentityOK
<1> QED BY <1>1, KeptInit, KeptNext, PTL DEF Spec

\* At all those interleavings no account stands behind two identities, and
\* none that is deleted stands behind one (LinksAreSound).
THEOREM LinksSound == Spec => []LinksAreSound
<1>1. IdentityOK => LinksAreSound
  BY DEF IdentityOK
<1> QED BY <1>1, KeptInit, KeptNext, PTL DEF Spec

-----------------------------------------------------------------------------
(* The lifecycle, at once and in turn *)

\* At most one transaction is in progress.
InTurn == \A s, o \in Sessions : txn[s] # Idle /\ txn[o] # Idle => s = o

\* Account a has an identity, or somebody has or had the one at e.
Served(a, e) == Linked(a) \/ (e \in DOMAIN users /\ ~Waiting(e))

\* A reclaim still has the unlinked identity it chose; a trigger that does
\* not link its confirmed account leaves it served.
InHand(t) ==
    /\ t.op = "reclaim" /\ t.pc # "lookup" => users[t.email].auth = None
    /\ t.op = "trigger" /\ t.pc = "insert" => ~Waiting(t.email)
    /\ t.op = "trigger" /\ t.pc = "commit" /\ t.row = None /\ t.account.confirmed =>
           Served(t.acct, t.email)

\* What transactions one after the other keep.
InTurnOK ==
    /\ \A a \in DOMAIN accounts :
          accounts[a].email # None /\ accounts[a].confirmed => Served(a, accounts[a].email)
    /\ \A s \in Sessions : InHand(txn[s])

\* A statement before the commit changes its own transaction only, and leaves
\* in hand what has to be.
LEMMA StepInHand ==
    ASSUME IdentityOK, NEW s \in Sessions, Start(s) \/ Statement(s), ~Commit(s),
           InHand(txn[s])
    PROVE  /\ UNCHANGED <<accounts, users, bound>>
           /\ \A o \in Sessions \ {s} : txn'[o] = txn[o]
           /\ InHand(txn'[s])
<1>1. txn \in [Sessions -> Transaction]
  BY TxnTyped DEF IdentityOK
<1>2. ASSUME Raise(s)
      PROVE  /\ UNCHANGED <<accounts, users, bound>>
             /\ \A o \in Sessions \ {s} : txn'[o] = txn[o]
             /\ InHand(txn'[s])
  BY <1>1, <1>2, IdleTyped DEF Raise, InHand
<1>3. ASSUME NEW pc \in Points, Goto(s, pc)
      PROVE  /\ UNCHANGED <<accounts, users, bound>>
             /\ \A o \in Sessions \ {s} : txn'[o] = txn[o]
             /\ txn'[s].pc = pc /\ txn'[s].op = txn[s].op /\ txn'[s].acct = txn[s].acct
             /\ txn'[s].email = txn[s].email /\ txn'[s].account = txn[s].account
             /\ txn'[s].row = txn[s].row
  BY <1>1, <1>3, Moved
<1>4. ASSUME NEW row \in UserRow, NEW pc \in Points, Write(s, row, pc)
      PROVE  /\ UNCHANGED <<accounts, users, bound>>
             /\ \A o \in Sessions \ {s} : txn'[o] = txn[o]
             /\ txn'[s].pc = pc /\ txn'[s].op = txn[s].op /\ txn'[s].row = row
             /\ txn'[s].email = txn[s].email
  BY <1>1, <1>4, Written
<1>5. CASE Start(s)
  <2>1. ASSUME NEW op, NEW a, NEW e, NEW account, NEW pc \in {"check", "lookup"},
               Begin(s, op, a, e, account, pc), op = "reclaim" => pc = "lookup"
        PROVE  /\ UNCHANGED <<accounts, users, bound>>
               /\ \A o \in Sessions \ {s} : txn'[o] = txn[o]
               /\ InHand(txn'[s])
    <3>1. PICK t : t = [op |-> op, pc |-> pc, acct |-> a, email |-> e,
                        account |-> account, row |-> None]
      OBVIOUS
    <3>2. txn' = [txn EXCEPT ![s] = t] /\ t.op = op /\ t.pc = pc
          /\ UNCHANGED <<accounts, users, bound>>
      BY <2>1, <3>1 DEF Begin
    <3>3. InHand(t)
      BY <2>1, <3>2 DEF InHand
    <3> QED BY <1>1, <3>2, <3>3
  <2>2. ASSUME NEW a \in Accounts, NEW e \in Emails, NEW c \in BOOLEAN,
               SignUp(s, a, e, c) \/ UpdateAccount(s, a, e, c)
        PROVE  Begin(s, "trigger", a, e, [email |-> e, confirmed |-> c], "check")
    BY <2>2 DEF SignUp, UpdateAccount
  <2> QED BY <1>5, <2>1, <2>2, Zenon DEF Start
<1>6. CASE CheckLinked(s)
  <2>1. /\ txn[s].op = "trigger"
        /\ Goto(s, IF txn[s].account.confirmed /\ ~Linked(txn[s].acct) THEN "claim" ELSE "commit")
    BY <1>6 DEF CheckLinked, At
  <2>2. CASE txn[s].account.confirmed /\ ~Linked(txn[s].acct)
    BY <1>3, <2>1, <2>2 DEF InHand, Points
  <2>3. CASE ~(txn[s].account.confirmed /\ ~Linked(txn[s].acct))
    BY <1>3, <2>1, <2>3 DEF InHand, Points, Served
  <2> QED BY <2>2, <2>3
<1>7. CASE ClaimWaiting(s)
  <2>1. PICK a, e : a = txn[s].acct /\ e = txn[s].email
    OBVIOUS
  <2>2. /\ At(s, "trigger", "claim")
        /\ IF Waiting(e)
           THEN Raise(s) \/ Write(s, [auth |-> a, claimed |-> TRUE], "commit")
           ELSE Goto(s, "insert")
    BY <1>7, <2>1, Zenon DEF ClaimWaiting
  <2>3. CASE Write(s, [auth |-> a, claimed |-> TRUE], "commit")
    <3>1. TriggerAt(txn[s])
      BY <2>2, IdleTyped DEF At, IdentityOK, InReach, InvitationAt, ReclaimAt
    <3>2. PICK row : row = [auth |-> a, claimed |-> TRUE]
      OBVIOUS
    <3>3. row \in UserRow
      BY <2>1, <3>1, <3>2 DEF TriggerAt, UserRow
    <3> QED BY <1>4, <2>2, <2>3, <3>2, <3>3, NoRow DEF At, InHand, Points
  <2>4. CASE ~Waiting(e) /\ Goto(s, "insert")
    BY <1>3, <2>1, <2>2, <2>4 DEF At, InHand, Points
  <2> QED BY <1>2, <2>2, <2>3, <2>4
<1>8. CASE InsertFresh(s)
  <2>1. PICK a, e : a = txn[s].acct /\ e = txn[s].email
    OBVIOUS
  <2>2. /\ At(s, "trigger", "insert")
        /\ IF e \in DOMAIN users \/ Linked(a) THEN Goto(s, "commit")
           ELSE Write(s, [auth |-> a, claimed |-> TRUE], "commit")
    BY <1>8, <2>1, Zenon DEF InsertFresh
  <2>3. CASE e \in DOMAIN users \/ Linked(a)
    <3>1. Served(a, e)
      BY <2>1, <2>2, <2>3 DEF At, InHand, Served
    <3> QED BY <1>3, <2>1, <2>2, <2>3, <3>1 DEF At, InHand, Points
  <2>4. CASE ~(e \in DOMAIN users \/ Linked(a))
    <3>1. TriggerAt(txn[s])
      BY <2>2, IdleTyped DEF At, IdentityOK, InReach, InvitationAt, ReclaimAt
    <3>2. PICK row : row = [auth |-> a, claimed |-> TRUE]
      OBVIOUS
    <3>3. row \in UserRow
      BY <2>1, <3>1, <3>2 DEF TriggerAt, UserRow
    <3> QED BY <1>4, <2>2, <2>4, <3>2, <3>3, NoRow DEF At, InHand, Points
  <2> QED BY <2>3, <2>4
<1>9. CASE LookUp(s) \/ InsertWaiting(s) \/ Bind(s)
  <2>1. /\ txn[s].op \in {"invite", "provision"}
        /\ \/ Raise(s) \/ \E pc \in {"insert", "bind", "commit"} : Goto(s, pc)
           \/ Write(s, Nobody, "bind")
    BY <1>9 DEF LookUp, InsertWaiting, Bind
  <2>2. Nobody \in UserRow
    BY DEF Nobody, UserRow
  <2>3. ASSUME NEW pc \in {"insert", "bind", "commit"}, Goto(s, pc)
        PROVE  /\ UNCHANGED <<accounts, users, bound>>
               /\ \A o \in Sessions \ {s} : txn'[o] = txn[o]
               /\ InHand(txn'[s])
    BY <1>3, <2>1, <2>3 DEF InHand, Points
  <2>4. ASSUME Write(s, Nobody, "bind")
        PROVE  /\ UNCHANGED <<accounts, users, bound>>
               /\ \A o \in Sessions \ {s} : txn'[o] = txn[o]
               /\ InHand(txn'[s])
    BY <1>4, <2>1, <2>2, <2>4 DEF InHand, Points
  <2> QED BY <1>2, <2>1, <2>3, <2>4
<1>10. CASE ChooseReclaim(s)
  <2>1. PICK e : e = txn[s].email
    OBVIOUS
  <2>2. \/ Raise(s)
        \/ /\ txn[s].op = "reclaim" /\ users[e].auth = None
           /\ \E a : txn' = [txn EXCEPT ![s].account = a, ![s].pc = "link"]
           /\ UNCHANGED <<accounts, users, bound>>
    BY <1>10, <2>1 DEF ChooseReclaim, At
  <2>3. ASSUME NEW a, txn' = [txn EXCEPT ![s].account = a, ![s].pc = "link"]
        PROVE  /\ \A o \in Sessions \ {s} : txn'[o] = txn[o]
               /\ txn'[s].op = txn[s].op /\ txn'[s].email = txn[s].email
    BY <1>1, <2>3 DEF Transaction
  <2>4. CASE ~Raise(s)
    BY <2>1, <2>2, <2>3, <2>4 DEF InHand
  <2> QED BY <1>2, <2>4
<1>11. CASE LinkReclaimed(s)
  <2>1. PICK a : a = txn[s].account
    OBVIOUS
  <2>2. /\ At(s, "reclaim", "link")
        /\ Raise(s) \/ Write(s, [auth |-> a, claimed |-> TRUE], "commit")
    BY <1>11, <2>1, Zenon DEF LinkReclaimed
  <2>3. CASE Write(s, [auth |-> a, claimed |-> TRUE], "commit")
    <3>1. ReclaimAt(txn[s]) /\ txn[s].pc = "link"
      BY <2>2, IdleTyped DEF At, IdentityOK, InReach, TriggerAt, InvitationAt
    <3>2. PICK row : row = [auth |-> a, claimed |-> TRUE]
      OBVIOUS
    <3>3. row \in UserRow
      BY <2>1, <3>1, <3>2 DEF ReclaimAt, UserRow
    <3> QED BY <1>4, <2>2, <2>3, <3>1, <3>2, <3>3 DEF At, InHand, Points
  <2> QED BY <1>2, <2>2, <2>3
<1> QED BY <1>5, <1>6, <1>7, <1>8, <1>9, <1>10, <1>11 DEF Statement

\* While one transaction commits in turn, no other is in progress.
LEMMA OthersIdle ==
    ASSUME IdentityOK, InTurn, NEW s \in Sessions, Commit(s)
    PROVE  \A o \in Sessions : txn'[o] = Idle
<1>1. txn \in [Sessions -> Transaction] /\ txn[s].pc = "commit" /\ txn' = [txn EXCEPT ![s] = Idle]
  BY Committing
<1>2. \A o \in Sessions \ {s} : txn[o] = Idle
  BY <1>1, IdleTyped DEF InTurn
<1> QED BY <1>1, <1>2

\* A commit in turn takes no account's identity away, makes nobody wait that
\* an account could be waited for by, and serves its own account.
LEMMA CommitInTurn ==
    ASSUME IdentityOK, InTurnOK, InTurn, NEW s \in Sessions, Commit(s)
    PROVE  InTurnOK'
<1>1. PICK t : t = txn[s]
  OBVIOUS
<1>2. /\ t.pc = "commit" /\ CommittedAccounts(t) /\ CommittedUsers(t)
      /\ TriggerAt(t) \/ InvitationAt(t) \/ ReclaimAt(t)
      /\ Founded(t)
  BY <1>1, Committing
<1>3. InHand(t) /\ TypeOK
  BY <1>1 DEF InTurnOK, IdentityOK
<1>4. \A o \in Sessions : InHand(txn[o])'
  <2>1. \A o \in Sessions : /\ txn'[o].op = "none" /\ txn'[o].op # "reclaim"
                             /\ txn'[o].op # "trigger"
    BY OthersIdle, IdleTyped
  <2> QED BY <2>1 DEF InHand
<1>5. t.row # None =>
          /\ t.op \in {"invite", "provision"} => t.row = Nobody /\ t.email \notin DOMAIN users
          /\ t.op = "trigger" => t.row.auth = t.acct
          /\ t.op \in {"trigger", "reclaim"} => t.row.claimed
          /\ t.op \in {"invite", "provision", "trigger", "reclaim"}
          /\ t.email \in DOMAIN users => users[t.email].auth = None
  <2>1. t.row # None /\ t.op \in {"invite", "provision"} => t.email \notin DOMAIN users
    BY <1>2 DEF Founded
  <2>2. t.row # None /\ t.email \in DOMAIN users => users[t.email].auth = None
    BY <1>1, <1>2, <1>3, RowInHand DEF Founded, InHand, Nobody
  <2> QED BY <1>1, <2>1, <2>2, RowInHand
<1>6. \A b : b # None /\ Linked(b) => Linked(b)'
  <2>1. \A e \in DOMAIN users : users[e].auth # None =>
            e \in DOMAIN users' /\ users'[e] = users[e]
    BY <1>2, <1>5 DEF CommittedUsers
  <2> QED BY <2>1 DEF Linked
<1>7. \A e : e \in DOMAIN users /\ ~Waiting(e) => e \in DOMAIN users' /\ ~Waiting(e)'
  <2>1. t.row # None /\ t.op \in {"trigger", "reclaim"} => t.row # Nobody
    BY <1>5 DEF Nobody
  <2> QED BY <1>2, <1>5, <2>1 DEF CommittedUsers, Waiting
<1>8. \A b, e : b # None /\ Served(b, e) => Served(b, e)'
  BY <1>6, <1>7 DEF Served
<1>9. ASSUME NEW b \in DOMAIN accounts', accounts'[b].email # None, accounts'[b].confirmed
      PROVE  Served(b, accounts[b].email)'
  <2>1. CASE t.op = "trigger" /\ b = t.acct
    <3>1. TriggerAt(t)
      BY <1>2, <2>1 DEF InvitationAt, ReclaimAt
    <3>2. accounts'[b] = t.account /\ t.account.email = t.email /\ b \in Accounts
      BY <1>2, <1>9, <2>1, <3>1 DEF CommittedAccounts, TriggerAt
    <3>3. CASE t.row = None
      <4>1. Served(b, t.email)
        BY <1>2, <1>3, <1>9, <2>1, <3>2, <3>3 DEF InHand
      <4> QED BY <1>8, <3>2, <4>1, NoRow DEF Served
    <3>4. CASE t.row # None
      <4>1. t.email \in DOMAIN users' /\ users'[t.email] = t.row /\ t.row.auth = b
        BY <1>2, <1>5, <2>1, <3>4 DEF CommittedUsers
      <4> QED BY <4>1 DEF Served, Linked
    <3> QED BY <3>3, <3>4
  <2>2. CASE ~(t.op = "trigger" /\ b = t.acct)
    <3>1. b \in DOMAIN accounts /\ accounts'[b] = accounts[b]
      BY <1>2, <1>9, <2>2 DEF CommittedAccounts
    <3>2. Served(b, accounts[b].email) /\ b # None
      BY <1>3, <1>9, <3>1, NoRow DEF InTurnOK, TypeOK
    <3> QED BY <1>8, <3>1, <3>2 DEF Served
  <2> QED BY <2>1, <2>2
<1> QED BY <1>4, <1>9 DEF InTurnOK

\* A deletion unlinks nobody else's account, and marks what it unlinks.
LEMMA DeleteInTurn ==
    ASSUME IdentityOK, InTurnOK, NEW a \in Accounts, DeleteAccount(a)
    PROVE  InTurnOK'
<1>1. TypeOK /\ a # None
  BY NoRow DEF IdentityOK
<1>2. txn' = txn /\ ~Busy(a)
  BY DEF DeleteAccount
<1>3. /\ DOMAIN accounts' = DOMAIN accounts
      /\ \A x \in DOMAIN accounts : x # a => accounts'[x] = accounts[x]
      /\ a \in DOMAIN accounts => accounts'[a].email = None
  BY <1>1 DEF DeleteAccount
<1>4. /\ DOMAIN users' = DOMAIN users
      /\ \A e \in DOMAIN users :
            IF users[e].auth = a THEN users'[e].auth = None /\ users'[e].claimed = users[e].claimed
            ELSE users'[e] = users[e]
  BY <1>1 DEF DeleteAccount, TypeOK, UserRow
<1>5. \A b : b # a /\ Linked(b) => Linked(b)'
  BY <1>4 DEF Linked
<1>6. \A e : ~Waiting(e) => ~Waiting(e)'
  <2>1. \A e \in DOMAIN users : users[e].auth = a => users'[e].claimed
    BY <1>1, <1>4 DEF TypeOK
  <2>2. \A e \in DOMAIN users : users[e].auth # a => users'[e] = users[e]
    BY <1>4
  <2> QED BY <1>4, <2>1, <2>2 DEF Waiting, Nobody
<1>7. \A b, e : b # a /\ Served(b, e) => Served(b, e)'
  BY <1>4, <1>5, <1>6 DEF Served
<1>8. ASSUME NEW b \in DOMAIN accounts', accounts'[b].email # None, accounts'[b].confirmed
      PROVE  Served(b, accounts[b].email)'
  <2>1. b # a /\ b \in DOMAIN accounts /\ accounts'[b] = accounts[b]
    BY <1>3, <1>8
  <2>2. Served(b, accounts[b].email)
    BY <1>8, <2>1 DEF InTurnOK
  <2> QED BY <1>7, <2>1, <2>2 DEF Served
<1>9. ASSUME NEW s \in Sessions PROVE InHand(txn[s])'
  <2>1. PICK q : q = txn[s] /\ q = txn'[s]
    BY <1>2
  <2>2. InHand(q) /\ q.acct # a /\ Founded(q)
    BY <1>2, <2>1 DEF InTurnOK, Busy, IdentityOK
  <2>3. q.op = "reclaim" /\ q.pc # "lookup" => users'[q.email].auth = None
    BY <1>4, <2>2 DEF InHand, Founded
  <2>4. /\ q.op = "trigger" /\ q.pc = "insert" => ~Waiting(q.email)'
        /\ q.op = "trigger" /\ q.pc = "commit" /\ q.row = None /\ q.account.confirmed =>
               Served(q.acct, q.email)'
    BY <1>6, <1>7, <2>2 DEF InHand
  <2>5. InHand(q)'
    BY <2>3, <2>4 DEF InHand
  <2> QED BY <2>1, <2>5 DEF InHand
<1> QED BY <1>8, <1>9 DEF InTurnOK

LEMMA InTurnStep == IdentityOK /\ InTurnOK /\ InTurn /\ [Next]_vars => InTurnOK'
<1> SUFFICES ASSUME IdentityOK, InTurnOK, InTurn, [Next]_vars PROVE InTurnOK'
  OBVIOUS
<1>1. CASE UNCHANGED vars
  BY <1>1 DEF vars, InTurnOK, InHand, Served, Linked, Waiting
<1>2. ASSUME NEW s \in Sessions, Start(s) \/ Statement(s), ~Commit(s) PROVE InTurnOK'
  <2>1. /\ UNCHANGED <<accounts, users, bound>>
        /\ \A o \in Sessions \ {s} : txn'[o] = txn[o]
        /\ InHand(txn'[s])
    BY <1>2, StepInHand DEF InTurnOK
  <2>2. \A o \in Sessions : InHand(txn'[o])
    BY <2>1 DEF InTurnOK
  <2> QED BY <2>1, <2>2 DEF InTurnOK, InHand, Served, Linked, Waiting
<1>3. ASSUME NEW s \in Sessions, Commit(s) PROVE InTurnOK'
  BY <1>3, CommitInTurn
<1>4. ASSUME NEW a \in Accounts, DeleteAccount(a) PROVE InTurnOK'
  BY <1>4, DeleteInTurn
<1> QED BY <1>1, <1>2, <1>3, <1>4 DEF Next

LEMMA InTurnInit == Init => InTurnOK
BY IdleTyped DEF Init, InTurnOK, InHand

LEMMA InTurnWaiting == InTurnOK => WaitingIsClaimed
BY DEF InTurnOK, WaitingIsClaimed, Served

\* With transactions one after the other, no confirmed account ever finds an
\* identity left waiting at its address: for any number of sessions, addresses
\* and accounts, with reclaims or without.
THEOREM ServedInTurn == Spec /\ []InTurn => []WaitingIsClaimed
BY KeptInit, KeptNext, InTurnInit, InTurnStep, InTurnWaiting, PTL DEF Spec

-----------------------------------------------------------------------------
(* The transactions implement the lifecycle *)

\* The commit of a reclaim, which did not look at the link again.
ReclaimCommits(s) == Commit(s) /\ txn[s].op = "reclaim" /\ txn[s].row # None

\* Whatever runs at once, only a reclaim's commit can be anything but a
\* provision, a first claim or a retirement of one identity.
LEMMA UnreclaimedStep ==
    ASSUME IdentityOK, [Next]_vars
    PROVE  users' = users \/ Unreclaimed!Next \/ \E s \in Sessions : ReclaimCommits(s)
<1>1. ASSUME NEW s \in Sessions, Commit(s)
      PROVE  users' = users \/ Unreclaimed!Next \/ ReclaimCommits(s)
  <2>1. PICK t : t = txn[s]
    OBVIOUS
  <2>2. PICK e : e = t.email
    OBVIOUS
  <2>3. CommittedUsers(t) /\ Founded(t) /\ (TriggerAt(t) \/ InvitationAt(t) \/ ReclaimAt(t))
    BY <1>1, <2>1, Committing
  <2>4. CASE t.row = None
    BY <2>3, <2>4 DEF CommittedUsers
  <2>5. CASE t.row # None /\ t.op \in {"invite", "provision"}
    <3>1. t.row = Nobody /\ e \notin DOMAIN users /\ e \in Emails
      BY <2>1, <2>2, <2>3, <2>5, RowInHand DEF Founded
    <3>2. users' = [x \in DOMAIN users \cup {e} |-> IF x = e THEN Nobody ELSE users[x]]
      BY <2>2, <2>3, <2>5, <3>1 DEF CommittedUsers
    <3>3. Unreclaimed!Provision(e)
      BY <3>1, <3>2 DEF Unreclaimed!Provision, Unreclaimed!Put, Unreclaimed!Nobody, Nobody
    <3> QED BY <3>1, <3>3 DEF Unreclaimed!Next
  <2>6. CASE t.row # None /\ t.op = "trigger"
    <3>1. TriggerAt(t)
      BY <2>3, <2>6 DEF InvitationAt, ReclaimAt
    <3>2. PICK a : a = t.acct
      OBVIOUS
    <3>3. /\ t.row = [auth |-> a, claimed |-> TRUE] /\ a \in Accounts /\ e \in Emails
          /\ e \in DOMAIN users => users[e] = Nobody
      BY <2>2, <2>3, <2>6, <3>1, <3>2 DEF TriggerAt, Founded
    <3>4. users' = [x \in DOMAIN users \cup {e} |->
                       IF x = e THEN [auth |-> a, claimed |-> TRUE] ELSE users[x]]
      BY <2>2, <2>3, <2>6, <3>3 DEF CommittedUsers
    <3>5. Unreclaimed!Claim(e, a)
      BY <3>3, <3>4 DEF Unreclaimed!Claim, Unreclaimed!Put, Nobody
    <3> QED BY <3>3, <3>5 DEF Unreclaimed!Next
  <2>7. CASE t.row # None /\ t.op = "reclaim"
    BY <1>1, <2>1, <2>7 DEF ReclaimCommits
  <2> QED BY <2>1, <2>4, <2>5, <2>6, <2>7, RowInHand
<1>2. ASSUME NEW a \in Accounts, DeleteAccount(a)
      PROVE  users' = users \/ Unreclaimed!Next
  <2>1. TypeOK /\ LinksAreSound /\ a # None
    BY NoRow DEF IdentityOK
  <2>2. users' = [e \in DOMAIN users |->
                    IF users[e].auth = a THEN [users[e] EXCEPT !.auth = None] ELSE users[e]]
    BY <1>2 DEF DeleteAccount
  <2>3. CASE \A e \in DOMAIN users : users[e].auth # a
    BY <2>1, <2>2, <2>3 DEF TypeOK
  <2>4. ASSUME NEW e \in DOMAIN users, users[e].auth = a PROVE Unreclaimed!Next
    <3>1. \A f \in DOMAIN users : users[f].auth = a => f = e
      BY <2>1, <2>4 DEF LinksAreSound
    <3>2. users' = [users EXCEPT ![e].auth = None]
      BY <2>1, <2>2, <2>4, <3>1 DEF TypeOK
    <3>3. e \in Emails /\ Unreclaimed!Retire(e)
      BY <2>1, <2>4, <3>2 DEF TypeOK, Unreclaimed!Retire
    <3> QED BY <3>3 DEF Unreclaimed!Next
  <2> QED BY <2>3, <2>4
<1>3. ASSUME NEW s \in Sessions, Start(s) PROVE users' = users
  <2>1. ASSUME NEW op, NEW a, NEW e, NEW account, NEW pc, Begin(s, op, a, e, account, pc)
        PROVE  users' = users
    BY <2>1 DEF Begin
  <2> QED BY <1>3, <2>1 DEF Start, SignUp, UpdateAccount
<1>4. ASSUME NEW s \in Sessions, Statement(s), ~Commit(s) PROVE users' = users
  BY <1>4 DEF Statement, CheckLinked, ClaimWaiting, InsertFresh, LookUp, InsertWaiting, Bind,
              ChooseReclaim, LinkReclaimed, Raise, Goto, Write
<1>5. CASE UNCHANGED vars
  BY <1>5 DEF vars
<1> QED BY <1>1, <1>2, <1>3, <1>4, <1>5 DEF Next

\* In turn, the identity a reclaim links is still unlinked.
LEMMA ReclaimableStep ==
    ASSUME IdentityOK, InTurnOK, [Next]_vars
    PROVE  users' = users \/ Reclaimable!Next
<1>1. Unreclaimed!Next => Reclaimable!Next
  BY DEF Unreclaimed!Next, Reclaimable!Next, Unreclaimed!Provision, Reclaimable!Provision,
         Unreclaimed!Claim, Reclaimable!Claim, Unreclaimed!Retire, Reclaimable!Retire,
         Unreclaimed!Reclaim, Unreclaimed!Put, Reclaimable!Put,
         Unreclaimed!Nobody, Reclaimable!Nobody
<1>2. ASSUME NEW s \in Sessions, ReclaimCommits(s) PROVE Reclaimable!Next
  <2>1. PICK t, e, a : t = txn[s] /\ e = t.email /\ a = t.account
    OBVIOUS
  <2>2. /\ CommittedUsers(t) /\ Founded(t) /\ InHand(t) /\ ReclaimAt(t)
        /\ t.pc = "commit" /\ t.row # None
    BY <1>2, <2>1, Committing DEF ReclaimCommits, InTurnOK, TriggerAt, InvitationAt
  <2>3. /\ t.row = [auth |-> a, claimed |-> TRUE] /\ a \in Accounts /\ e \in Emails
        /\ e \in DOMAIN users /\ users[e].auth = None
    BY <2>1, <2>2 DEF ReclaimAt, Founded, InHand
  <2>4. users' = [x \in DOMAIN users \cup {e} |->
                     IF x = e THEN [auth |-> a, claimed |-> TRUE] ELSE users[x]]
    BY <2>1, <2>2, <2>3 DEF CommittedUsers
  <2>5. Reclaimable!Reclaim(e, a)
    BY <2>3, <2>4 DEF Reclaimable!Reclaim, Reclaimable!Put
  <2> QED BY <2>3, <2>5 DEF Reclaimable!Next
<1> QED BY <1>1, <1>2, UnreclaimedStep

LEMMA LifecycleInit == Init => Unreclaimed!Init /\ Reclaimable!Init
BY DEF Init, Unreclaimed!Init, Reclaimable!Init, Nobody, Unreclaimed!Nobody, Reclaimable!Nobody

\* Where nobody reclaims, the transactions of all sessions at once implement
\* the lifecycle: an identity is provisioned once, claimed once and for all,
\* and unlinked by the deletion of its account alone.
THEOREM LifecycleWithoutReclaims ==
    Spec /\ [](\A s \in Sessions : txn[s].op # "reclaim") => Unreclaimed!Spec
<1>1. IdentityOK /\ (\A s \in Sessions : txn[s].op # "reclaim") /\ [Next]_vars
          => [Unreclaimed!Next]_users
  BY UnreclaimedStep DEF ReclaimCommits
<1> QED BY <1>1, KeptInit, KeptNext, LifecycleInit, PTL DEF Spec, Unreclaimed!Spec

\* One after the other, all transactions do, reclaims included.
THEOREM LifecycleInTurn == Spec /\ []InTurn => Reclaimable!Spec
<1>1. IdentityOK /\ InTurnOK /\ [Next]_vars => [Reclaimable!Next]_users
  BY ReclaimableStep
<1> QED BY <1>1, KeptInit, KeptNext, InTurnInit, InTurnStep, LifecycleInit, PTL
        DEF Spec, Reclaimable!Spec

-----------------------------------------------------------------------------
(* The settings that are checked *)

\* In the serial setting one session runs; in the concurrent one nobody
\* reclaims.
SettingKept ==
    /\ setting = "serial" => InTurn
    /\ setting = "concurrent" => \A s \in Sessions : txn[s].op # "reclaim"

LEMMA SettingInit == MCInit => SettingKept
BY IdleTyped DEF MCInit, Init, SettingKept, InTurn

LEMMA SettingStep == SettingKept /\ [MCNext]_<<vars, setting>> => SettingKept'
<1>1. ASSUME SettingKept, MCNext PROVE SettingKept'
  <2>1. setting' = setting
    BY <1>1 DEF MCNext
  <2>2. ASSUME setting = "serial" PROVE InTurn'
    <3>1. \A s \in Sessions : txn'[s] # Idle => s = s1
      BY <1>1, <2>2 DEF MCNext, SettingSessions
    <3> QED BY <3>1 DEF InTurn, Idle
  <2>3. ASSUME setting = "concurrent" PROVE \A s \in Sessions : txn'[s].op # "reclaim"
    BY <1>1, <2>3 DEF MCNext
  <2> QED BY <2>1, <2>2, <2>3 DEF SettingKept
<1>2. ASSUME SettingKept, UNCHANGED <<vars, setting>> PROVE SettingKept'
  BY <1>2 DEF SettingKept, InTurn, vars, Idle
<1> QED BY <1>1, <1>2

\* The settings keep what every behaviour of the transactions keeps, ...
LEMMA SettingTransactions == (MCInit => Init) /\ ([MCNext]_<<vars, setting>> => [Next]_vars)
BY DEF MCInit, MCNext, vars

\* ... and the serial one what transactions in turn keep.
LEMMA SettingInTurn ==
    /\ MCInit => InTurnOK
    /\ IdentityOK /\ SettingKept /\ (setting = "serial" => InTurnOK)
           /\ [MCNext]_<<vars, setting>> => (setting = "serial" => InTurnOK)'
<1>1. MCInit => InTurnOK
  BY InTurnInit, SettingTransactions
<1>2. [MCNext]_<<vars, setting>> => setting' = setting
  BY DEF MCNext
<1> QED BY <1>1, <1>2, InTurnStep, SettingTransactions DEF SettingKept

\* One after the other, no transaction leaves a provisioned identity waiting
\* beside the confirmed account it waits for.
THEOREM SerialServes == MCSpec => []WaitingIsClaimedInTurn
<1>1. (setting = "serial" => InTurnOK) => WaitingIsClaimedInTurn
  BY InTurnWaiting DEF WaitingIsClaimedInTurn
<1> QED BY <1>1, KeptInit, KeptNext, SettingInit, SettingStep, SettingTransactions,
           SettingInTurn, PTL DEF MCSpec

\* Every commit and every deletion is a step of the lifecycle: in turn with
\* reclaims, at once without them.
THEOREM SettingsImplementLifecycle == MCSpec => ImplementsLifecycle
<1> DEFINE
      Lifecycle == /\ setting = "serial" => Reclaimable!Next
                   /\ setting = "concurrent" => Unreclaimed!Next
<1>1. IdentityOK /\ SettingKept /\ (setting = "serial" => InTurnOK) /\ [MCNext]_<<vars, setting>>
          => [Lifecycle]_users
  BY SettingTransactions, ReclaimableStep, UnreclaimedStep DEF SettingKept, ReclaimCommits
<1>2. MCInit => Reclaimable!Init /\ Unreclaimed!Init
  BY LifecycleInit, SettingTransactions
<1> QED BY <1>1, <1>2, KeptInit, KeptNext, SettingInit, SettingStep, SettingTransactions,
           SettingInTurn, PTL DEF MCSpec, ImplementsLifecycle
=============================================================================
