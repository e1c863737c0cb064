--------------------------- MODULE ChainWalkProofs ---------------------------
(***************************************************************************)
(* Theorems about the recursive query and the rules built on its rows: for *)
(* every tree that is no deeper than the query's cap, every placement of   *)
(* roles, scopes, grants and cuts in it, and every tenant it starts from.  *)
(***************************************************************************)
EXTENDS ChainWalk, FiniteSetTheorems, TLAPS

-----------------------------------------------------------------------------
(* Ancestors *)

\* A tenant that exists begins its own walk.
LEMMA AboveSelf == \A t \in DOMAIN tenants : t \in Above(t) /\ t \in Uncut(t)
BY DEF Above, Uncut

\* The two walks stay among the tenants, and every closed set with the start
\* contains them.
LEMMA AboveLeast ==
    /\ \A t : Above(t) \subseteq DOMAIN tenants /\ Uncut(t) \subseteq DOMAIN tenants
    /\ \A t : \A S \in SUBSET DOMAIN tenants :
          /\ t \in S /\ ClosedUp(S) => Above(t) \subseteq S
          /\ t \in S /\ ClosedInherit(S) => Uncut(t) \subseteq S
BY DEF Above, Uncut

\* What a walk has reached, it goes on from.
LEMMA AboveClosed ==
    ASSUME TreeOK, NEW t, NEW x, tenants[x].parent # None
    PROVE  /\ x \in Above(t) => tenants[x].parent \in Above(t)
           /\ x \in Uncut(t) /\ tenants[x].inherit => tenants[x].parent \in Uncut(t)
<1>1. ASSUME x \in Above(t) PROVE tenants[x].parent \in Above(t)
  <2>1. x \in DOMAIN tenants /\ t \in DOMAIN tenants
    BY <1>1 DEF Above
  <2>2. tenants[x].parent \in DOMAIN tenants
    BY <2>1 DEF TreeOK
  <2>3. ASSUME NEW S \in SUBSET DOMAIN tenants, t \in S, ClosedUp(S)
        PROVE  tenants[x].parent \in S
    BY <1>1, <2>3 DEF Above, ClosedUp
  <2> QED BY <2>1, <2>2, <2>3 DEF Above
<1>2. ASSUME x \in Uncut(t), tenants[x].inherit PROVE tenants[x].parent \in Uncut(t)
  <2>1. x \in DOMAIN tenants /\ t \in DOMAIN tenants
    BY <1>2 DEF Uncut
  <2>2. tenants[x].parent \in DOMAIN tenants
    BY <2>1 DEF TreeOK
  <2>3. ASSUME NEW S \in SUBSET DOMAIN tenants, t \in S, ClosedInherit(S)
        PROVE  tenants[x].parent \in S
    BY <1>2, <2>3 DEF Uncut, ClosedInherit
  <2> QED BY <2>1, <2>2, <2>3 DEF Uncut
<1> QED BY <1>1, <1>2

\* A tenant's walk is the tenant and the walk of its parent, which the cut
\* of a tenant that does not inherit leaves out.
LEMMA AboveStep ==
    ASSUME TreeOK, NEW t \in DOMAIN tenants
    PROVE  /\ Above(t) = {t} \cup Above(tenants[t].parent)
           /\ Uncut(t) = {t} \cup IF tenants[t].inherit THEN Uncut(tenants[t].parent) ELSE {}
<1> DEFINE p == tenants[t].parent
           U == {t} \cup Above(p)
           V == {t} \cup IF tenants[t].inherit THEN Uncut(p) ELSE {}
<1>1. p \in DOMAIN tenants \cup {None} /\ None \notin DOMAIN tenants
  BY NullIsNoTenant DEF TreeOK
<1>2. Above(t) \subseteq U
  <2>1. U \in SUBSET DOMAIN tenants
    BY AboveLeast
  <2>2. p \in U \cup {None}
    BY <1>1, AboveSelf
  <2>3. ASSUME NEW x \in Above(p) PROVE tenants[x].parent \in U \cup {None}
    BY AboveClosed
  <2>4. ClosedUp(U)
    BY <2>2, <2>3 DEF ClosedUp
  <2> QED BY <2>1, <2>4, AboveLeast
<1>3. U \subseteq Above(t)
  <2>1. ASSUME NEW x \in Above(p) PROVE x \in Above(t)
    <3>1. p \in DOMAIN tenants /\ p # None /\ x \in DOMAIN tenants
      BY <1>1 DEF Above
    <3>2. ASSUME NEW S \in SUBSET DOMAIN tenants, t \in S, ClosedUp(S) PROVE x \in S
      <4>1. p \in S
        BY <3>1, <3>2 DEF ClosedUp
      <4> QED BY <3>2, <4>1 DEF Above
    <3> QED BY <3>1, <3>2 DEF Above
  <2> QED BY <2>1, AboveSelf
<1>4. Uncut(t) \subseteq V
  <2>1. V \in SUBSET DOMAIN tenants
    BY AboveLeast
  <2>2. tenants[t].inherit => p \in V \cup {None}
    BY <1>1, AboveSelf
  <2>3. ASSUME NEW x \in V, x # t, tenants[x].inherit
        PROVE  tenants[x].parent \in V \cup {None}
    <3>1. tenants[t].inherit /\ x \in Uncut(p)
      BY <2>3
    <3> QED BY <2>3, <3>1, AboveClosed
  <2>4. ClosedInherit(V)
    BY <2>2, <2>3 DEF ClosedInherit
  <2> QED BY <2>1, <2>4, AboveLeast
<1>5. V \subseteq Uncut(t)
  <2>1. ASSUME tenants[t].inherit, NEW x \in Uncut(p) PROVE x \in Uncut(t)
    <3>1. p \in DOMAIN tenants /\ p # None /\ x \in DOMAIN tenants
      BY <1>1 DEF Uncut
    <3>2. ASSUME NEW S \in SUBSET DOMAIN tenants, t \in S, ClosedInherit(S) PROVE x \in S
      <4>1. p \in S
        BY <2>1, <3>1, <3>2 DEF ClosedInherit
      <4> QED BY <3>2, <4>1 DEF Uncut
    <3> QED BY <3>1, <3>2 DEF Uncut
  <2> QED BY <2>1, AboveSelf
<1> QED BY <1>2, <1>3, <1>4, <1>5

-----------------------------------------------------------------------------
(* The walk *)

ChainRow == [tenant : DOMAIN tenants, crossed : BOOLEAN, depth : Nat]

\* The rows are of their type, and the first is the tenant's own.
RowsTyped ==
    /\ start \in TenantIds
    /\ chain \in Seq(ChainRow)
    /\ chain = << >> <=> start \notin DOMAIN tenants
    /\ chain # << >> => chain[1] = Row(start, FALSE, 0)

\* Row i is the i-th, its flag does not lie, and the row after it is the one
\* the query joins it with.
RowsJoined ==
    \A i \in 1..Len(chain) :
         /\ chain[i].depth = i - 1
         /\ ~chain[i].crossed => chain[i].tenant \in Uncut(start)
         /\ i < Len(chain) => /\ tenants[chain[i].tenant].parent # None
                              /\ chain[i + 1] = NextRow(chain[i])

\* A later row is of an ancestor of an earlier row's parent.
RowsRise ==
    \A i \in 1..Len(chain), j \in 1..Len(chain) : i < j =>
         /\ chain[j].tenant \in Above(tenants[chain[i].tenant].parent)
         /\ chain[i].crossed => chain[j].crossed

WalkOK == TreeOK /\ RowsTyped /\ RowsJoined /\ RowsRise

LEMMA WalkInit == Init => WalkOK
<1> SUFFICES ASSUME Init PROVE WalkOK
  OBVIOUS
<1>1. PICK t \in TenantIds : Begin(t)
  BY DEF Init
<1>2. TreeOK
  BY DEF Init
<1>3. CASE t \notin DOMAIN tenants
  <2>1. chain = << >> /\ start = t
    BY <1>1, <1>3 DEF Begin
  <2> QED BY <1>2, <1>3, <2>1 DEF WalkOK, RowsTyped, RowsJoined, RowsRise
<1>4. CASE t \in DOMAIN tenants
  <2>1. chain = <<Row(t, FALSE, 0)>> /\ start = t
    BY <1>1, <1>4 DEF Begin
  <2>2. Row(t, FALSE, 0) \in ChainRow
    BY <1>4 DEF Row, ChainRow
  <2>3. Row(t, FALSE, 0).depth = 0 /\ Row(t, FALSE, 0).tenant = t
    BY DEF Row
  <2>4. t \in Uncut(t)
    BY <1>4, AboveSelf
  <2>5. PICK r : r = Row(t, FALSE, 0)
    OBVIOUS
  <2>6. chain = <<r>> /\ r \in ChainRow /\ r.depth = 0 /\ r.tenant = start
    BY <2>1, <2>2, <2>3, <2>5
  <2>7. /\ chain \in Seq(ChainRow) /\ chain # << >> /\ Len(chain) = 1 /\ chain[1] = r
    BY <2>6
  <2>8. \A i \in 1..Len(chain) : i = 1
    BY <2>7
  <2>9. RowsTyped
    BY <1>4, <2>1, <2>5, <2>7 DEF RowsTyped
  <2>10. RowsJoined
    <3>1. ASSUME NEW i \in 1..Len(chain)
          PROVE  /\ chain[i].depth = i - 1
                 /\ ~chain[i].crossed => chain[i].tenant \in Uncut(start)
                 /\ ~(i < Len(chain))
      <4>1. i = 1 /\ chain[i] = r
        BY <2>7, <2>8
      <4>2. r.depth = 1 - 1 /\ r.tenant \in Uncut(start) /\ ~(1 < Len(chain))
        BY <2>1, <2>4, <2>7, <2>6
      <4> QED BY <4>1, <4>2
    <3> QED BY <3>1 DEF RowsJoined
  <2>11. RowsRise
    BY <2>8 DEF RowsRise
  <2> QED BY <1>2, <2>9, <2>10, <2>11 DEF WalkOK
<1> QED BY <1>3, <1>4

\* Walks depend on the tenants alone.
LEMMA WalkSame ==
    ASSUME tenants' = tenants
    PROVE  /\ TreeOK' <=> TreeOK
           /\ \A t : Above(t)' = Above(t) /\ Uncut(t)' = Uncut(t)
           /\ ChainRow' = ChainRow
           /\ \A c : NextRow(c)' = NextRow(c)
<1>1. \A t : Above(t)' = Above(t)
  BY DEF Above, ClosedUp
<1>2. \A t : Uncut(t)' = Uncut(t)
  BY DEF Uncut, ClosedInherit
<1>3. TreeOK' <=> TreeOK
  BY <1>1 DEF TreeOK
<1> QED BY <1>1, <1>2, <1>3 DEF ChainRow, NextRow, Row

\* A pass adds the parent of the last tenant, which is an ancestor of the
\* parents of all the others, so a tenant it has not been at.
LEMMA WalkStep == WalkOK /\ Pass => WalkOK'
<1> SUFFICES ASSUME WalkOK, Pass PROVE WalkOK'
  OBVIOUS
<1>1. PICK n, c, r, p : /\ n = Len(chain) /\ c = chain[n] /\ r = NextRow(c)
                        /\ p = tenants[c.tenant].parent
  OBVIOUS
<1>2. /\ chain # << >> /\ HasNext(c) /\ chain' = Append(chain, r)
      /\ start' = start /\ tenants' = tenants
  BY <1>1 DEF Pass, Ended, tables
<1>3. chain \in Seq(ChainRow) /\ TreeOK /\ start \in TenantIds
  BY DEF WalkOK, RowsTyped
<1>4. n \in Nat /\ n > 0 /\ n \in 1..n /\ c \in ChainRow
  BY <1>1, <1>2, <1>3
<1>5. p # None /\ p \in DOMAIN tenants
  BY <1>1, <1>2, <1>3, <1>4 DEF HasNext, TreeOK, ChainRow
<1>6. /\ r \in ChainRow /\ r.tenant = p /\ r.depth = c.depth + 1
      /\ ~r.crossed => ~c.crossed /\ tenants[c.tenant].inherit
      /\ c.crossed => r.crossed
  <2>1. c.crossed \in BOOLEAN /\ tenants[c.tenant].inherit \in BOOLEAN /\ c.depth \in Nat
    BY <1>3, <1>4 DEF TreeOK, ChainRow
  <2>2. PICK b \in BOOLEAN : b <=> c.crossed \/ ~tenants[c.tenant].inherit
    <3>1. CASE c.crossed \/ ~tenants[c.tenant].inherit
      BY <3>1
    <3>2. CASE ~(c.crossed \/ ~tenants[c.tenant].inherit)
      BY <3>2
    <3> QED BY <3>1, <3>2
  <2>3. b = (c.crossed \/ ~tenants[c.tenant].inherit)
    BY <2>1, <2>2
  <2>4. r = [tenant |-> p, crossed |-> b, depth |-> c.depth + 1]
    BY <1>1, <2>3, Zenon DEF NextRow, Row
  <2>5. r \in ChainRow /\ r.tenant = p /\ r.crossed = b /\ r.depth = c.depth + 1
    BY <1>5, <2>1, <2>4 DEF ChainRow
  <2> QED BY <2>1, <2>2, <2>5
<1>7. /\ chain' \in Seq(ChainRow) /\ Len(chain') = n + 1 /\ chain'[n + 1] = r /\ chain' # << >>
      /\ \A i \in 1..n : chain'[i] = chain[i]
      /\ chain'[n] = c /\ chain'[1] = chain[1]
  BY <1>1, <1>2, <1>3, <1>4, <1>6
<1>8. chain'[1] = Row(start, FALSE, 0) /\ start \in DOMAIN tenants
  BY <1>2, <1>7 DEF WalkOK, RowsTyped
<1>9. ASSUME NEW i \in 1..(n + 1)
      PROVE  /\ chain'[i].depth = i - 1
             /\ ~chain'[i].crossed => chain'[i].tenant \in Uncut(start)
             /\ i < n + 1 => /\ tenants[chain'[i].tenant].parent # None
                             /\ chain'[i + 1] = NextRow(chain'[i])
  <2>1. CASE i < n
    <3>1. i \in 1..n /\ i + 1 \in 1..n
      BY <1>4, <2>1
    <3>2. chain'[i] = chain[i] /\ chain'[i + 1] = chain[i + 1]
      BY <1>7, <3>1
    <3> QED BY <1>1, <2>1, <3>1, <3>2 DEF WalkOK, RowsJoined
  <2>2. CASE i = n
    <3>1. /\ chain[n].depth = n - 1
          /\ ~chain[n].crossed => chain[n].tenant \in Uncut(start)
      BY <1>1, <1>4 DEF WalkOK, RowsJoined
    <3> QED BY <1>1, <1>5, <1>7, <2>2, <3>1
  <2>3. CASE i = n + 1
    <3>1. r.depth = n
      BY <1>1, <1>4, <1>6 DEF WalkOK, RowsJoined
    <3>2. ASSUME ~r.crossed PROVE r.tenant \in Uncut(start)
      <4>1. c.tenant \in Uncut(start)
        BY <1>1, <1>4, <1>6, <3>2 DEF WalkOK, RowsJoined
      <4> QED BY <1>1, <1>3, <1>5, <1>6, <3>2, <4>1, AboveClosed
    <3> QED BY <1>4, <1>7, <2>3, <3>1, <3>2
  <2> QED BY <1>4, <2>1, <2>2, <2>3
<1>10. ASSUME NEW i \in 1..(n + 1), NEW j \in 1..(n + 1), i < j
       PROVE  /\ chain'[j].tenant \in Above(tenants[chain'[i].tenant].parent)
              /\ chain'[i].crossed => chain'[j].crossed
  <2>1. CASE j <= n
    <3>1. i \in 1..n /\ j \in 1..n
      BY <1>4, <1>10, <2>1
    <3> QED BY <1>1, <1>7, <1>10, <3>1 DEF WalkOK, RowsRise
  <2>2. CASE j = n + 1 /\ i = n
    <3>1. p \in Above(p)
      BY <1>5, AboveSelf
    <3> QED BY <1>1, <1>6, <1>7, <2>2, <3>1
  <2>3. CASE j = n + 1 /\ i < n
    <3>1. i \in 1..n /\ chain'[i] = chain[i]
      BY <1>4, <1>7, <2>3
    <3>2. /\ c.tenant \in Above(tenants[chain[i].tenant].parent)
          /\ chain[i].crossed => c.crossed
      BY <1>1, <1>4, <2>3, <3>1 DEF WalkOK, RowsRise
    <3>3. p \in Above(tenants[chain[i].tenant].parent)
      BY <1>1, <1>3, <1>5, <3>2, AboveClosed
    <3> QED BY <1>6, <1>7, <2>3, <3>1, <3>2, <3>3
  <2> QED BY <1>4, <1>10, <2>1, <2>2, <2>3
<1>11. RowsTyped'
  BY <1>2, <1>3, <1>7, <1>8, WalkSame DEF RowsTyped, Row
<1>12. RowsJoined'
  BY <1>2, <1>7, <1>9, WalkSame DEF RowsJoined
<1>13. RowsRise'
  BY <1>2, <1>7, <1>10, WalkSame DEF RowsRise
<1> QED BY <1>2, <1>3, <1>11, <1>12, <1>13, WalkSame DEF WalkOK

\* The walk is what the invariant says at every point of it.
LEMMA WalkInvariant == Spec => []WalkOK
<1>1. WalkOK /\ UNCHANGED vars => WalkOK'
  BY WalkSame DEF WalkOK, RowsTyped, RowsJoined, RowsRise, vars, tables, Row
<1>2. WalkOK /\ [Pass]_vars => WalkOK'
  BY WalkStep, <1>1
<1> QED BY WalkInit, <1>2, PTL DEF Spec

\* A tenant's row is there once: what is past a row is above its parent.
LEMMA RowsDiffer ==
    ASSUME WalkOK, NEW i \in 1..Len(chain), NEW j \in 1..Len(chain), i # j
    PROVE  chain[i].tenant # chain[j].tenant
<1>1. chain \in Seq(ChainRow) /\ Len(chain) \in Nat
  BY DEF WalkOK, RowsTyped
<1>2. ASSUME NEW k \in 1..Len(chain), NEW l \in 1..Len(chain), k < l
      PROVE  chain[k].tenant # chain[l].tenant
  <2>1. chain[k] \in ChainRow
    BY <1>1
  <2>2. chain[l].tenant \in Above(tenants[chain[k].tenant].parent)
    BY <1>2 DEF WalkOK, RowsRise
  <2> QED BY <2>1, <2>2 DEF WalkOK, TreeOK, ChainRow
<1> QED BY <1>1, <1>2

\* The invariant gives the walk's type.
LEMMA WalkTypes == WalkOK => TypeOK
<1> SUFFICES ASSUME WalkOK PROVE TypeOK
  OBVIOUS
<1>1. chain \in Seq(ChainRow) /\ Len(chain) \in Nat /\ start \in TenantIds
  BY DEF WalkOK, RowsTyped
<1>2. DOMAIN chain = 1..Len(chain)
  BY <1>1
<1>3. ASSUME NEW i \in 1..Len(chain)
      PROVE  /\ chain[i].tenant \in DOMAIN tenants
             /\ chain[i].crossed \in BOOLEAN
             /\ chain[i].depth = i - 1
             /\ \A j \in 1..(i - 1) : /\ chain[j].tenant # chain[i].tenant
                                      /\ chain[j].crossed => chain[i].crossed
  <2>1. chain[i] \in ChainRow
    BY <1>1
  <2>2. ASSUME NEW j \in 1..(i - 1)
        PROVE  /\ chain[j].tenant # chain[i].tenant
               /\ chain[j].crossed => chain[i].crossed
    <3>1. j \in 1..Len(chain) /\ j < i
      BY <1>1
    <3> QED BY <3>1, RowsDiffer DEF WalkOK, RowsRise
  <2> QED BY <2>1, <2>2 DEF WalkOK, RowsJoined, ChainRow
<1> QED BY <1>1, <1>2, <1>3 DEF TypeOK

\* Every row of the walk is of an ancestor of the tenant it started from.
LEMMA RowsAbove ==
    ASSUME WalkOK, NEW i \in 1..Len(chain)
    PROVE  chain[i].tenant \in Above(start)
<1>1. chain \in Seq(ChainRow) /\ Len(chain) \in Nat /\ chain # << >> /\ 1 \in 1..Len(chain)
  BY DEF WalkOK, RowsTyped
<1>2. start \in DOMAIN tenants /\ chain[1].tenant = start /\ TreeOK
  BY <1>1 DEF WalkOK, RowsTyped, Row
<1>3. CASE i = 1
  BY <1>2, <1>3, AboveSelf
<1>4. CASE i # 1
  <2>1. chain[i].tenant \in Above(tenants[start].parent)
    BY <1>1, <1>2, <1>4 DEF WalkOK, RowsRise
  <2> QED BY <1>2, <2>1, AboveStep
<1> QED BY <1>3, <1>4

\* The cap is not what ends the walk: a walk of MaxLevel + 1 rows whose last
\* tenant has a parent has come by more ancestors than a tenant has.
LEMMA CapNotMet ==
    ASSUME WalkOK, Ended, chain # << >>
    PROVE  tenants[chain[Len(chain)].tenant].parent = None
<1>1. PICK n, c : n = Len(chain) /\ c = chain[n]
  OBVIOUS
<1>2. chain \in Seq(ChainRow) /\ n \in Nat /\ n \in 1..n /\ 1 \in 1..n /\ c \in ChainRow
  BY <1>1 DEF WalkOK, RowsTyped
<1>3. TreeOK /\ start \in DOMAIN tenants
  BY DEF WalkOK, RowsTyped
<1> SUFFICES ASSUME tenants[c.tenant].parent # None PROVE FALSE
  BY <1>1
<1>4. PICK p : p = tenants[c.tenant].parent
  OBVIOUS
<1>5. p \in DOMAIN tenants /\ p \in Above(p)
  BY <1>2, <1>3, <1>4, AboveSelf DEF TreeOK, ChainRow
<1>6. n >= MaxLevel + 1
  BY <1>1, <1>2, <1>4, MaxLevelIsNat DEF Ended, HasNext, ChainRow, WalkOK, RowsJoined
<1>7. ASSUME NEW i \in 1..n
      PROVE  chain[i].tenant \in Above(start) /\ chain[i].tenant # p
  <2>1. chain[i] \in ChainRow
    BY <1>1, <1>2
  <2>2. p \in Above(tenants[chain[i].tenant].parent)
    <3>1. CASE i = n
      BY <1>1, <1>4, <1>5, <3>1
    <3>2. CASE i < n
      <4>1. c.tenant \in Above(tenants[chain[i].tenant].parent)
        BY <1>1, <1>2, <3>2 DEF WalkOK, RowsRise
      <4> QED BY <1>3, <1>4, <4>1, AboveClosed
    <3> QED BY <1>2, <3>1, <3>2
  <2> QED BY <1>1, <1>3, <2>1, <2>2, RowsAbove DEF TreeOK, ChainRow
<1>8. p \in Above(start)
  BY <1>1, <1>2, <1>3, <1>4, <1>7, AboveClosed
<1> DEFINE f == [i \in 1..(n + 1) |-> IF i <= n THEN chain[i].tenant ELSE p]
<1>9. f \in Injection(1..(n + 1), Above(start))
  <2>1. \A i \in 1..(n + 1) : f[i] \in Above(start)
    BY <1>2, <1>7, <1>8
  <2>2. ASSUME NEW i \in 1..(n + 1), NEW j \in 1..(n + 1), i < j PROVE f[i] # f[j]
    <3>1. i \in 1..n /\ f[i] = chain[i].tenant
      BY <1>2, <2>2
    <3>2. CASE j = n + 1
      BY <1>2, <1>7, <3>1, <3>2
    <3>3. CASE j \in 1..n
      BY <1>1, <1>2, <2>2, <3>1, <3>3, RowsDiffer
    <3> QED BY <1>2, <3>2, <3>3
  <2>3. \A i, j \in 1..(n + 1) : f[i] = f[j] => i = j
    BY <1>2, <2>2
  <2>4. f \in [1..(n + 1) -> Above(start)]
    BY <2>1
  <2> HIDE DEF f
  <2> QED BY <2>3, <2>4 DEF Injection, IsInjective
<1>10. IsFiniteSet(Above(start)) /\ Cardinality(Above(start)) <= MaxLevel + 1
  BY <1>3, AboveLeast, FS_Subset DEF TreeOK
<1>11. IsFiniteSet(1..(n + 1)) /\ Cardinality(1..(n + 1)) = n + 1
  BY <1>2, FS_Interval
<1>12. Cardinality(1..(n + 1)) <= Cardinality(Above(start))
  <2> HIDE DEF f
  <2> QED BY <1>9, <1>10, FS_Injection
<1>13. Cardinality(Above(start)) \in Nat
  BY <1>10, FS_CardinalityType
<1> QED BY <1>2, <1>6, <1>10, <1>11, <1>12, <1>13, MaxLevelIsNat

\* Each row is a row.
LEMMA RowTyped ==
    ASSUME WalkOK, NEW i \in 1..Len(chain)
    PROVE  chain[i] \in ChainRow /\ chain[i].tenant \in DOMAIN tenants
<1>1. chain[i] \in ChainRow
  BY DEF WalkOK, RowsTyped
<1> QED BY <1>1 DEF ChainRow

\* Where a walk that has ended goes from row i: on to row i + 1 or nowhere.
LEMMA RowsGoOn ==
    ASSUME WalkOK, Ended, NEW i \in 1..Len(chain)
    PROVE  \/ tenants[chain[i].tenant].parent = None
           \/ /\ i + 1 \in 1..Len(chain)
              /\ chain[i + 1].tenant = tenants[chain[i].tenant].parent
              /\ ~chain[i].crossed /\ tenants[chain[i].tenant].inherit => ~chain[i + 1].crossed
<1>1. chain \in Seq(ChainRow) /\ Len(chain) \in Nat /\ chain # << >>
  BY DEF WalkOK, RowsTyped
<1>2. CASE i = Len(chain)
  BY <1>1, <1>2, CapNotMet
<1>3. CASE i < Len(chain)
  <2>1. chain[i + 1] = NextRow(chain[i]) /\ i + 1 \in 1..Len(chain)
    BY <1>1, <1>3 DEF WalkOK, RowsJoined
  <2>2. /\ NextRow(chain[i]).tenant = tenants[chain[i].tenant].parent
        /\ NextRow(chain[i]).crossed = (chain[i].crossed \/ ~tenants[chain[i].tenant].inherit)
    BY DEF NextRow, Row
  <2>3. ASSUME ~chain[i].crossed, tenants[chain[i].tenant].inherit
        PROVE  ~chain[i + 1].crossed
    BY <2>1, <2>2, <2>3
  <2> QED BY <2>1, <2>2, <2>3
<1> QED BY <1>1, <1>2, <1>3

\* The rows are all the ancestors, and the ones without the flag all that no
\* cut lies below.
LEMMA RowsAreAbove ==
    ASSUME WalkOK, Ended
    PROVE  /\ \A a : a \in Above(start) <=> \E i \in 1..Len(chain) : chain[i].tenant = a
           /\ \A a : a \in Uncut(start) <=>
                         \E i \in 1..Len(chain) : chain[i].tenant = a /\ ~chain[i].crossed
<1> DEFINE R == {chain[i].tenant : i \in 1..Len(chain)}
           U == {chain[i].tenant : i \in {j \in 1..Len(chain) : ~chain[j].crossed}}
<1>1. chain \in Seq(ChainRow) /\ Len(chain) \in Nat /\ TreeOK
  BY DEF WalkOK, RowsTyped
<1>2. R \in SUBSET DOMAIN tenants /\ U \in SUBSET DOMAIN tenants
  BY RowTyped
<1>3. CASE chain = << >>
  <2>1. start \notin DOMAIN tenants /\ Len(chain) = 0
    BY <1>3 DEF WalkOK, RowsTyped
  <2> QED BY <2>1 DEF Above, Uncut
<1>4. CASE chain # << >>
  <2>1. 1 \in 1..Len(chain) /\ chain[1].tenant = start /\ ~chain[1].crossed
    BY <1>1, <1>4 DEF WalkOK, RowsTyped, Row
  <2>2. ClosedUp(R)
    BY RowsGoOn DEF ClosedUp
  <2>3. ClosedInherit(U)
    <3>1. ASSUME NEW i \in 1..Len(chain), ~chain[i].crossed, tenants[chain[i].tenant].inherit
          PROVE  tenants[chain[i].tenant].parent \in U \cup {None}
      BY <3>1, RowsGoOn
    <3> QED BY <3>1 DEF ClosedInherit
  <2>4. start \in R /\ start \in U
    BY <2>1
  <2>5. Above(start) \subseteq R
    <3> HIDE DEF R
    <3> QED BY <1>2, <2>2, <2>4, AboveLeast
  <2>6. Uncut(start) \subseteq U
    <3> HIDE DEF U
    <3> QED BY <1>2, <2>3, <2>4, AboveLeast
  <2>7. \A i \in 1..Len(chain) : ~chain[i].crossed => chain[i].tenant \in Uncut(start)
    BY DEF WalkOK, RowsJoined
  <2> QED BY <2>5, <2>6, <2>7, RowsAbove
<1> QED BY <1>3, <1>4

\* The rows as a set.
LEMMA RowsIndexed ==
    ASSUME WalkOK
    PROVE  /\ \A c \in Rows : \E i \in 1..Len(chain) : c = chain[i]
           /\ \A i \in 1..Len(chain) : chain[i] \in Rows
<1>1. DOMAIN chain = 1..Len(chain)
  BY DEF WalkOK, RowsTyped
<1> QED BY <1>1 DEF Rows

\* However far the walk has come, its rows are of distinct tenants that exist,
\* the depths count them, and crossed once set stays set (functions.sql:262-281).
THEOREM WalkTyped == Spec => []TypeOK
<1>1. WalkOK => TypeOK
  BY WalkTypes
<1> QED BY <1>1, WalkInvariant, PTL

\* The recursive query returns the tenant and its ancestors, and sets the
\* flag exactly for those that a cut separates from it, in every tree the
\* walk's cap reaches to the top of.
THEOREM WalkComputesChain == Spec => []WalkIsClosure
<1>1. ASSUME WalkOK, Ended PROVE {c.tenant : c \in Rows} = Above(start)
  BY <1>1, RowsAreAbove, RowsIndexed
<1>2. ASSUME WalkOK, Ended
      PROVE  {c.tenant : c \in {x \in Rows : ~x.crossed}} = Uncut(start)
  BY <1>2, RowsAreAbove, RowsIndexed
<1>3. WalkOK => WalkIsClosure
  BY <1>1, <1>2 DEF WalkIsClosure
<1> QED BY <1>3, WalkInvariant, PTL

-----------------------------------------------------------------------------
(* Nearest wins *)

\* A row is no deeper than another exactly when the other's tenant is above.
LEMMA DepthIsOrder ==
    ASSUME WalkOK, Ended, NEW i \in 1..Len(chain), NEW j \in 1..Len(chain)
    PROVE  chain[i].depth <= chain[j].depth <=> chain[j].tenant \in Above(chain[i].tenant)
<1>1. chain \in Seq(ChainRow) /\ Len(chain) \in Nat /\ TreeOK
  BY DEF WalkOK, RowsTyped
<1>2. /\ chain[i] \in ChainRow /\ chain[i].tenant \in DOMAIN tenants
      /\ chain[j] \in ChainRow /\ chain[j].tenant \in DOMAIN tenants
  BY RowTyped
<1>3. chain[i].depth = i - 1 /\ chain[j].depth = j - 1
  BY DEF WalkOK, RowsJoined
<1>4. CASE i = j
  BY <1>2, <1>3, <1>4, AboveSelf
<1>5. CASE i < j
  <2>1. chain[j].tenant \in Above(tenants[chain[i].tenant].parent)
    BY <1>5 DEF WalkOK, RowsRise
  <2> QED BY <1>1, <1>2, <1>3, <1>5, <2>1, AboveStep
<1>6. CASE j < i
  <2> DEFINE S == {chain[k].tenant : k \in i..Len(chain)}
  <2>1. S \in SUBSET DOMAIN tenants /\ chain[i].tenant \in S
    <3>1. \A k \in i..Len(chain) : chain[k].tenant \in DOMAIN tenants
      BY <1>1, RowTyped
    <3> QED BY <1>1, <3>1
  <2>2. ASSUME NEW k \in i..Len(chain) PROVE tenants[chain[k].tenant].parent \in S \cup {None}
    <3>1. k \in 1..Len(chain)
      BY <1>1
    <3>2. \/ tenants[chain[k].tenant].parent = None
          \/ /\ k + 1 \in i..Len(chain)
             /\ chain[k + 1].tenant = tenants[chain[k].tenant].parent
      BY <1>1, <3>1, RowsGoOn
    <3> QED BY <3>2
  <2>3. Above(chain[i].tenant) \subseteq S
    <3>1. ClosedUp(S)
      BY <2>2 DEF ClosedUp
    <3> HIDE DEF S
    <3> QED BY <2>1, <3>1, AboveLeast
  <2>4. \A k \in i..Len(chain) : chain[k].tenant # chain[j].tenant
    BY <1>1, <1>6, RowsDiffer
  <2> QED BY <1>3, <1>6, <2>3, <2>4
<1> QED BY <1>4, <1>5, <1>6

\* Row c lets the role through; it lets the scope through.
JoinsRole(c, r) ==
    r \in DOMAIN roles /\ roles[r].tenant = c.tenant /\ (~c.crossed \/ roles[r].crosses)

JoinsScope(c, s) ==
    /\ s \in DOMAIN scopes /\ scopes[s].tenant = c.tenant
    /\ \/ ~c.crossed
       \/ \E r \in DOMAIN roles : <<r, s>> \in roleScopes /\ roles[r].crosses

\* What is visible at the tenant is what some row lets through.
LEMMA VisibleByRow ==
    ASSUME WalkOK, Ended
    PROVE  /\ \A r : r \in VisibleRoles(start) <=>
                        \E i \in 1..Len(chain) : JoinsRole(chain[i], r)
           /\ \A s : s \in VisibleScopes(start) <=>
                        \E i \in 1..Len(chain) : JoinsScope(chain[i], s)
<1>1. ASSUME NEW r
      PROVE  r \in VisibleRoles(start) <=> \E i \in 1..Len(chain) : JoinsRole(chain[i], r)
  BY RowsAreAbove DEF VisibleRoles, JoinsRole
<1>2. ASSUME NEW s
      PROVE  s \in VisibleScopes(start) <=> \E i \in 1..Len(chain) : JoinsScope(chain[i], s)
  BY RowsAreAbove DEF VisibleScopes, JoinsScope
<1> QED BY <1>1, <1>2

\* distinct on (name) order by depth, of a set J of pairs of a row and the id
\* of a definition in a table.
DistinctByDepth(J, table) ==
    {x[2] : x \in {y \in J : \A z \in J :
        table[z[2]].name = table[y[2]].name => y[1].depth <= z[1].depth}}

\* Of the pairs in J, c is with the definition r, and no row of C is with one
\* of r's name at a lesser depth.
NearestPair(C, J, table, c, r) ==
    /\ <<c, r>> \in J
    /\ \A d \in C, q \in DOMAIN table :
          <<d, q>> \in J /\ table[q].name = table[r].name => c.depth <= d.depth

LEMMA DistinctOn ==
    ASSUME NEW C, NEW table, NEW J, J \subseteq C \X DOMAIN table, NEW r
    PROVE  r \in DistinctByDepth(J, table) <=> \E c \in C : NearestPair(C, J, table, c, r)
<1> DEFINE First(y) == \A z \in J : table[z[2]].name = table[y[2]].name => y[1].depth <= z[1].depth
<1>1. \A x \in J : x[1] \in C /\ x[2] \in DOMAIN table /\ x = <<x[1], x[2]>>
  OBVIOUS
<1>2. ASSUME NEW x \in J, First(x), r = x[2] PROVE NearestPair(C, J, table, x[1], r)
  <2>1. <<x[1], r>> \in J /\ x[1] \in C
    BY <1>1, <1>2
  <2>2. ASSUME NEW d \in C, NEW q \in DOMAIN table, <<d, q>> \in J, table[q].name = table[r].name
        PROVE  x[1].depth <= d.depth
    BY <1>2, <2>2
  <2> QED BY <2>1, <2>2 DEF NearestPair
<1>3. ASSUME NEW c \in C, NearestPair(C, J, table, c, r)
      PROVE  \E x \in J : First(x) /\ r = x[2]
  <2>1. First(<<c, r>>)
    BY <1>1, <1>3 DEF NearestPair
  <2> QED BY <1>3, <2>1 DEF NearestPair
<1>4. r \in DistinctByDepth(J, table) <=> \E x \in J : First(x) /\ r = x[2]
  BY DEF DistinctByDepth
<1> QED BY <1>1, <1>2, <1>3, <1>4

\* The nearest by depth, said of the rows.
LEMMA ByDepth ==
    ASSUME WalkOK
    PROVE  /\ \A r : r \in RolesByDepth <=>
                \E i \in 1..Len(chain) : JoinsRole(chain[i], r) /\
                    \A j \in 1..Len(chain), q \in DOMAIN roles :
                        JoinsRole(chain[j], q) /\ roles[q].name = roles[r].name =>
                            chain[i].depth <= chain[j].depth
           /\ \A s : s \in ScopesByDepth <=>
                \E i \in 1..Len(chain) : JoinsScope(chain[i], s) /\
                    \A j \in 1..Len(chain), q \in DOMAIN scopes :
                        JoinsScope(chain[j], q) /\ scopes[q].name = scopes[s].name =>
                            chain[i].depth <= chain[j].depth
<1> DEFINE J == {x \in Rows \X DOMAIN roles : JoinsRole(x[1], x[2])}
           K == {x \in Rows \X DOMAIN scopes : JoinsScope(x[1], x[2])}
<1>1. /\ J \subseteq Rows \X DOMAIN roles
      /\ \A c \in Rows : \A r : <<c, r>> \in J <=> JoinsRole(c, r)
  BY DEF JoinsRole
<1>2. /\ K \subseteq Rows \X DOMAIN scopes
      /\ \A c \in Rows : \A s : <<c, s>> \in K <=> JoinsScope(c, s)
  BY DEF JoinsScope
<1>3. RolesByDepth = DistinctByDepth(J, roles)
  BY DEF RolesByDepth, JoinsRole, DistinctByDepth
<1>4. ScopesByDepth = DistinctByDepth(K, scopes)
  BY DEF ScopesByDepth, JoinsScope, DistinctByDepth
<1> HIDE DEF J, K
<1>5. ASSUME NEW r
      PROVE  r \in RolesByDepth <=> \E c \in Rows : NearestPair(Rows, J, roles, c, r)
  BY <1>1, <1>3, DistinctOn
<1>6. ASSUME NEW s
      PROVE  s \in ScopesByDepth <=> \E c \in Rows : NearestPair(Rows, K, scopes, c, s)
  BY <1>2, <1>4, DistinctOn
<1>7. /\ \A i \in 1..Len(chain) : chain[i] \in Rows
      /\ \A c \in Rows : \E i \in 1..Len(chain) : c = chain[i]
  BY RowsIndexed
<1>8. ASSUME NEW r
      PROVE  r \in RolesByDepth <=>
                \E i \in 1..Len(chain) : JoinsRole(chain[i], r) /\
                    \A j \in 1..Len(chain), q \in DOMAIN roles :
                        JoinsRole(chain[j], q) /\ roles[q].name = roles[r].name =>
                            chain[i].depth <= chain[j].depth
  <2> DEFINE Q(i) == JoinsRole(chain[i], r) /\
                       \A j \in 1..Len(chain), q \in DOMAIN roles :
                           JoinsRole(chain[j], q) /\ roles[q].name = roles[r].name =>
                               chain[i].depth <= chain[j].depth
  <2>1. \A i \in 1..Len(chain) : NearestPair(Rows, J, roles, chain[i], r) <=> Q(i)
    BY <1>1, <1>7 DEF NearestPair
  <2> HIDE DEF Q
  <2>2. r \in RolesByDepth <=> \E i \in 1..Len(chain) : Q(i)
    BY <1>5, <1>7, <2>1
  <2> QED BY <2>2 DEF Q
<1>9. ASSUME NEW s
      PROVE  s \in ScopesByDepth <=>
                \E i \in 1..Len(chain) : JoinsScope(chain[i], s) /\
                    \A j \in 1..Len(chain), q \in DOMAIN scopes :
                        JoinsScope(chain[j], q) /\ scopes[q].name = scopes[s].name =>
                            chain[i].depth <= chain[j].depth
  <2> DEFINE Q(i) == JoinsScope(chain[i], s) /\
                       \A j \in 1..Len(chain), q \in DOMAIN scopes :
                           JoinsScope(chain[j], q) /\ scopes[q].name = scopes[s].name =>
                               chain[i].depth <= chain[j].depth
  <2>1. \A i \in 1..Len(chain) : NearestPair(Rows, K, scopes, chain[i], s) <=> Q(i)
    BY <1>2, <1>7 DEF NearestPair
  <2> HIDE DEF Q
  <2>2. s \in ScopesByDepth <=> \E i \in 1..Len(chain) : Q(i)
    BY <1>6, <1>7, <2>1
  <2> QED BY <2>2 DEF Q
<1> QED BY <1>8, <1>9

\* Depth order keeps what closeness in the tree keeps.
LEMMA RolesNearest == ASSUME WalkOK, Ended PROVE RolesByDepth = EffectiveRoles(start)
<1>1. ASSUME NEW r, NEW i \in 1..Len(chain), JoinsRole(chain[i], r)
      PROVE  (\A j \in 1..Len(chain), q \in DOMAIN roles :
                  JoinsRole(chain[j], q) /\ roles[q].name = roles[r].name =>
                      chain[i].depth <= chain[j].depth)
             <=> \A q \in VisibleRoles(start) :
                  roles[q].name = roles[r].name => roles[q].tenant \in Above(roles[r].tenant)
  <2>1. \A j \in 1..Len(chain), q \in DOMAIN roles : JoinsRole(chain[j], q) =>
            /\ q \in VisibleRoles(start)
            /\ chain[i].depth <= chain[j].depth <=> roles[q].tenant \in Above(roles[r].tenant)
    BY <1>1, DepthIsOrder, VisibleByRow DEF JoinsRole
  <2>2. \A q \in VisibleRoles(start) : q \in DOMAIN roles /\
            \E j \in 1..Len(chain) : JoinsRole(chain[j], q)
    BY VisibleByRow DEF VisibleRoles
  <2> QED BY <2>1, <2>2
<1>2. \A r : r \in EffectiveRoles(start) <=> r \in VisibleRoles(start) /\
          \A q \in VisibleRoles(start) :
              roles[q].name = roles[r].name => roles[q].tenant \in Above(roles[r].tenant)
  BY DEF EffectiveRoles
<1>3. \A r : r \in RolesByDepth <=> r \in EffectiveRoles(start)
  BY <1>1, <1>2, ByDepth, VisibleByRow
<1> QED BY <1>3 DEF RolesByDepth, EffectiveRoles

LEMMA ScopesNearest == ASSUME WalkOK, Ended PROVE ScopesByDepth = EffectiveScopeDefs(start)
<1>1. ASSUME NEW s, NEW i \in 1..Len(chain), JoinsScope(chain[i], s)
      PROVE  (\A j \in 1..Len(chain), q \in DOMAIN scopes :
                  JoinsScope(chain[j], q) /\ scopes[q].name = scopes[s].name =>
                      chain[i].depth <= chain[j].depth)
             <=> \A q \in VisibleScopes(start) :
                  scopes[q].name = scopes[s].name => scopes[q].tenant \in Above(scopes[s].tenant)
  <2>1. \A j \in 1..Len(chain), q \in DOMAIN scopes : JoinsScope(chain[j], q) =>
            /\ q \in VisibleScopes(start)
            /\ chain[i].depth <= chain[j].depth <=> scopes[q].tenant \in Above(scopes[s].tenant)
    BY <1>1, DepthIsOrder, VisibleByRow DEF JoinsScope
  <2>2. \A q \in VisibleScopes(start) : q \in DOMAIN scopes /\
            \E j \in 1..Len(chain) : JoinsScope(chain[j], q)
    BY VisibleByRow DEF VisibleScopes
  <2> QED BY <2>1, <2>2
<1>2. \A s : s \in EffectiveScopeDefs(start) <=> s \in VisibleScopes(start) /\
          \A q \in VisibleScopes(start) :
              scopes[q].name = scopes[s].name => scopes[q].tenant \in Above(scopes[s].tenant)
  BY DEF EffectiveScopeDefs
<1>3. ASSUME NEW s PROVE s \in ScopesByDepth <=> s \in EffectiveScopeDefs(start)
  <2>1. s \in ScopesByDepth <=> \E i \in 1..Len(chain) : JoinsScope(chain[i], s) /\
            \A q \in VisibleScopes(start) :
                scopes[q].name = scopes[s].name => scopes[q].tenant \in Above(scopes[s].tenant)
    BY <1>1, ByDepth
  <2> QED BY <1>2, <2>1, VisibleByRow
<1> QED BY <1>3 DEF ScopesByDepth, EffectiveScopeDefs

\* distinct on (name) order by depth keeps, of every name, the definition
\* that all other visible ones of the name lie above, for roles and scopes.
THEOREM DepthPicksNearest == Spec => []NearestWins
<1>1. WalkOK => NearestWins
  BY RolesNearest, ScopesNearest DEF NearestWins
<1> QED BY <1>1, WalkInvariant, PTL

-----------------------------------------------------------------------------
(* One upward pass *)

\* What is in force, and what is visible, at a tenant is its own and what the
\* tenant lets through of its parent's.
THEOREM PassIsCompositional == Spec => []Compositional
<1>1. ASSUME WalkOK, start \in DOMAIN tenants
      PROVE  LET parent == tenants[start].parent
                 Through(r) == tenants[start].inherit \/ roles[r].crosses
             IN  /\ BindingsInForce(start) =
                      {b \in DOMAIN bindings : b[3] = start /\ Live(b)}
                        \cup {b \in BindingsInForce(parent) : Through(b[2])}
                 /\ VisibleRoles(start) =
                      {r \in DOMAIN roles : roles[r].tenant = start}
                        \cup {r \in VisibleRoles(parent) : Through(r)}
  <2>1. PICK p : p = tenants[start].parent
    OBVIOUS
  <2>2. /\ Above(start) = {start} \cup Above(p)
        /\ Uncut(start) = {start} \cup IF tenants[start].inherit THEN Uncut(p) ELSE {}
    BY <1>1, <2>1, AboveStep DEF WalkOK
  <2> DEFINE Through(r) == tenants[start].inherit \/ roles[r].crosses
  <2>3. BindingsInForce(start) =
            {b \in DOMAIN bindings : b[3] = start /\ Live(b)}
              \cup {b \in BindingsInForce(p) : Through(b[2])}
    BY <2>2 DEF BindingsInForce
  <2>4. VisibleRoles(start) =
            {r \in DOMAIN roles : roles[r].tenant = start}
              \cup {r \in VisibleRoles(p) : Through(r)}
    BY <2>2 DEF VisibleRoles
  <2> QED BY <2>1, <2>3, <2>4
<1>2. WalkOK => Compositional
  BY <1>1, Zenon DEF Compositional
<1> QED BY <1>2, WalkInvariant, PTL

\* A tenant that inherits has every scope that the actor has at its parent.
LEMMA InheritedScope ==
    ASSUME TreeOK, NEW t \in DOMAIN tenants, tenants[t].inherit, NEW p, NEW n,
           HasScope(p, tenants[t].parent, n)
    PROVE  HasScope(p, t, n)
<1>1. /\ Above(tenants[t].parent) \subseteq Above(t)
      /\ Uncut(tenants[t].parent) \subseteq Uncut(t)
  BY AboveStep
<1>2. EffectiveBindings(p, tenants[t].parent) \subseteq EffectiveBindings(p, t)
  BY <1>1 DEF EffectiveBindings, BindingsInForce
<1> QED BY <1>2 DEF HasScope, EffectiveScopes

\* list_child_tenants, which asks once at the parent for all the children
\* that inherit, lists exactly the children the actor has the scope at.
THEOREM ShortcutLists == Spec => []ShortcutIsExact
<1>1. TreeOK => ShortcutIsExact
  BY InheritedScope DEF ShortcutIsExact, ChildTenants
<1>2. WalkOK => TreeOK
  BY DEF WalkOK
<1> QED BY <1>1, <1>2, WalkInvariant, PTL
=============================================================================
