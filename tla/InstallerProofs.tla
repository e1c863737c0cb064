-------------------------- MODULE InstallerProofs --------------------------
(***************************************************************************)
(* What the install command keeps, whatever is packaged, however often it  *)
(* is run and killed, and whatever the project dates ahead: types, every   *)
(* migration once, runs that leave nothing, copies behind what is there.   *)
(***************************************************************************)
EXTENDS Installer, FiniteSetTheorems, TLAPS

-----------------------------------------------------------------------------
(* Sorting *)

\* A name's rank is how many sort before it: no two names have the same.
LEMMA RankIs ==
    ASSUME NEW names \in SUBSET Nat, IsFiniteSet(names)
    PROVE  /\ Cardinality(names) \in Nat
           /\ \A m \in names : Rank(names, m) \in 0 .. (Cardinality(names) - 1)
           /\ \A m, n \in names : m < n => Rank(names, m) < Rank(names, n)
<1>1. Cardinality(names) \in Nat /\ \A m \in names : m \in Nat
  BY FS_CardinalityType
<1>2. ASSUME NEW m \in names
      PROVE  /\ IsFiniteSet({x \in names : x < m})
             /\ Rank(names, m) \in 0 .. (Cardinality(names) - 1)
  <2>1. PICK before : before = {x \in names : x < m}
    OBVIOUS
  <2>2. before \in SUBSET (names \ {m})
    BY <2>1
  <2>3. IsFiniteSet(names \ {m}) /\ Cardinality(names \ {m}) = Cardinality(names) - 1
    BY FS_RemoveElement
  <2>4. /\ IsFiniteSet(before) /\ Cardinality(before) <= Cardinality(names) - 1
        /\ Cardinality(before) \in Nat
    BY <2>2, <2>3, FS_Subset, FS_CardinalityType
  <2> QED BY <1>1, <2>1, <2>4 DEF Rank
<1>3. ASSUME NEW m \in names, NEW n \in names, m < n
      PROVE  Rank(names, m) < Rank(names, n)
  <2>1. PICK a, b : a = {x \in names : x < m} /\ b = {x \in names : x < n}
    OBVIOUS
  <2>2. m \in Nat /\ n \in Nat /\ \A x \in names : x \in Nat
    BY <1>1
  <2>3. a \in SUBSET b
    <3>1. ASSUME NEW x \in a PROVE x \in b
      BY <1>3, <2>1, <2>2
    <3> QED BY <3>1
  <2>4. m \in b /\ m \notin a
    BY <1>3, <2>1, <2>2
  <2>5. IsFiniteSet(b)
    BY <1>2, <2>1
  <2>6. /\ Cardinality(a) <= Cardinality(b) /\ Cardinality(a) # Cardinality(b)
        /\ Cardinality(a) \in Nat /\ Cardinality(b) \in Nat
    BY <2>3, <2>4, <2>5, FS_Subset, FS_CardinalityType
  <2> QED BY <2>1, <2>6 DEF Rank
<1> QED BY <1>1, <1>2, <1>3

\* And every rank is some name's.
LEMMA RankTaken ==
    ASSUME NEW names \in SUBSET Nat, IsFiniteSet(names), NEW k \in 0 .. (Cardinality(names) - 1)
    PROVE  \E m \in names : Rank(names, m) = k
<1> SUFFICES ASSUME \A m \in names : Rank(names, m) # k PROVE FALSE
  OBVIOUS
<1>1. PICK n \in Nat : n = Cardinality(names)
  BY RankIs
<1>2. PICK rest : rest = (0 .. (n - 1)) \ {k}
  OBVIOUS
<1>3. IsFiniteSet(rest) /\ Cardinality(rest) = n - 1
  <2>1. IsFiniteSet(0 .. (n - 1)) /\ Cardinality(0 .. (n - 1)) = n
    BY <1>1, FS_Interval
  <2> QED BY <1>1, <1>2, <2>1, FS_RemoveElement
<1>4. PICK f : f = [m \in names |-> Rank(names, m)]
  OBVIOUS
<1>5. f \in [names -> rest]
  BY <1>1, <1>2, <1>4, RankIs
<1>6. Cardinality(rest) < Cardinality(names)
  BY <1>1, <1>3
<1>7. PICK m, l \in names : m # l /\ f[m] = f[l]
  BY <1>3, <1>5, <1>6, FS_PigeonHole
<1>8. m < l \/ l < m
  BY <1>7
<1>9. /\ Rank(names, m) \in 0 .. (n - 1) /\ Rank(names, l) \in 0 .. (n - 1)
      /\ Rank(names, m) < Rank(names, l) \/ Rank(names, l) < Rank(names, m)
  BY <1>1, <1>8, RankIs
<1> QED BY <1>4, <1>7, <1>9

\* What is sorted ascends and holds every name.
LEMMA SortedIs ==
    ASSUME NEW names \in SUBSET Nat, IsFiniteSet(names), NEW list, list = Sorted(names)
    PROVE  /\ list \in Seq(Nat) /\ Len(list) = Cardinality(names) /\ Cardinality(names) \in Nat
           /\ \A i, k \in DOMAIN list : i < k => list[i] < list[k]
           /\ names = {list[i] : i \in DOMAIN list}
<1>1. PICK n \in Nat : n = Cardinality(names) /\ \A m \in names : m \in Nat
  BY RankIs
<1>2. list = [i \in 1 .. n |-> CHOOSE m \in names : Rank(names, m) = i - 1]
  BY <1>1 DEF Sorted
<1>3. ASSUME NEW i \in 1 .. n PROVE list[i] \in names /\ Rank(names, list[i]) = i - 1
  <2>1. i - 1 \in 0 .. (Cardinality(names) - 1)
    BY <1>1
  <2>2. \E m \in names : Rank(names, m) = i - 1
    BY <2>1, RankTaken
  <2> QED BY <1>2, <2>2
<1>4. list \in Seq(Nat) /\ Len(list) = n /\ DOMAIN list = 1 .. n
  <2>1. \A i \in 1 .. n : list[i] \in Nat
    BY <1>1, <1>3
  <2> QED BY <1>2, <2>1
<1>5. ASSUME NEW i \in 1 .. n, NEW k \in 1 .. n, i < k PROVE list[i] < list[k]
  <2>1. /\ list[i] \in names /\ Rank(names, list[i]) = i - 1
        /\ list[k] \in names /\ Rank(names, list[k]) = k - 1
    BY <1>3
  <2>2. list[i] \in Nat /\ list[k] \in Nat /\ Rank(names, list[i]) < Rank(names, list[k])
    <3>1. i - 1 < k - 1
      BY <1>5
    <3> QED BY <1>1, <2>1, <3>1
  <2>3. ~(list[k] < list[i]) /\ list[i] # list[k]
    <3>1. list[k] < list[i] => Rank(names, list[k]) < Rank(names, list[i])
      BY <2>1, RankIs
    <3> QED BY <1>5, <2>1, <3>1
  <2> QED BY <2>2, <2>3
<1>6. ASSUME NEW m \in names PROVE \E i \in 1 .. n : list[i] = m
  <2>1. PICK i \in 1 .. n : i = Rank(names, m) + 1
    BY <1>1, RankIs
  <2>2. list[i] \in names /\ Rank(names, list[i]) = Rank(names, m)
    BY <1>3, <2>1, RankIs
  <2>3. /\ list[i] < m => Rank(names, list[i]) < Rank(names, m)
        /\ m < list[i] => Rank(names, m) < Rank(names, list[i])
    BY <2>2, RankIs
  <2>4. Rank(names, m) \in Int /\ list[i] \in Nat /\ m \in Nat
    <3>1. Rank(names, m) \in 0 .. (Cardinality(names) - 1) /\ Cardinality(names) \in Nat
      BY RankIs
    <3>2. list[i] \in Nat /\ m \in Nat
      BY <1>1, <2>2
    <3>3. Rank(names, m) \in Int
      BY <3>1
    <3> QED BY <3>2, <3>3
  <2> QED BY <2>2, <2>3, <2>4
<1> QED BY <1>1, <1>3, <1>4, <1>5, <1>6

-----------------------------------------------------------------------------
(* Versions *)

\* The times that a version of its width can say.
Calendar == 0 .. (Carry * (LastYear + 1) - 1)

\* Up to the last second of the last year, a later time has a later version.
LEMMA FormatAscends ==
    ASSUME NEW s \in Calendar, NEW t \in Calendar, s < t
    PROVE  FormatVersion(s) < FormatVersion(t)
  BY DEF Calendar, FormatVersion, Carry, LastYear

\* The second after a version's has a later version, though a field carries.
LEMMA NextIsLater ==
    ASSUME NEW v \in 0 .. 99, ParseVersion(v) + 1 \in Calendar
    PROVE  v < FormatVersion(ParseVersion(v) + 1)
  BY DEF Calendar, FormatVersion, ParseVersion, Carry, LastYear

\* What a version says is a time, and what a time is said by is a version.
LEMMA LastVersion == ParseVersion(99) = 63
  BY DEF ParseVersion, Carry

LEMMA ParseIs == \A v \in 0 .. 99 : ParseVersion(v) \in 0 .. 63
  BY DEF ParseVersion, Carry

LEMMA FormatIs == \A t \in Nat : t < 6000 => FormatVersion(t) \in 0 .. 99
  BY DEF FormatVersion, Carry, LastYear

-----------------------------------------------------------------------------
(* The invariant *)

\* The times of the run are in the calendar.
InCalendar == run.stage # "idle" => run.start + Len(run.pending) <= Carry * (LastYear + 1)

\* What of the pending has still to be begun.
Ahead == {i \in DOMAIN run.pending : run.index < i \/ (run.index = i /\ run.stage = "between")}

Runs ==
    [stage : {"idle", "between", "within"},
     start : 0 .. (MaxClock + 64), pending : Seq(Nat), index : Nat]

\* What a run has still to copy is what is not there, in order; what it has
\* copied is whole; and its next version is behind every version there is.
RunOK ==
    run.stage # "idle" =>
        /\ run.index \in DOMAIN run.pending
        /\ Len(run.pending) <= Cardinality(Releases[release])
        /\ \A i, k \in DOMAIN run.pending : i < k => run.pending[i] < run.pending[k]
        /\ Releases[release] \ Installed = {run.pending[i] : i \in Ahead}
        /\ \A i \in DOMAIN run.pending :
              i < run.index => \A f \in files : f.name = run.pending[i] => f.whole
        /\ InCalendar =>
              \A f \in files :
                  IF run.stage = "between" THEN f.version < VersionOf(run.index)
                                           ELSE f.version <= VersionOf(run.index)

Files == [version : 0 .. 99, name : Nat \cup {None}, whole : BOOLEAN]

IInv ==
    /\ TypeOK /\ InstalledOnce
    /\ files \subseteq Files /\ run \in Runs
    /\ RunOK

\* The constants, as the steps need them.
LEMMA Packages ==
    ASSUME NEW r \in DOMAIN Releases
    PROVE  /\ Releases[r] \in SUBSET Nat /\ IsFiniteSet(Releases[r])
           /\ Cardinality(Releases[r]) \in Nat
           /\ MaxClock + Cardinality(Releases[r]) + 64 < 6000
<1>1. Releases[r] \in SUBSET Nat /\ IsFiniteSet(Releases[r])
  BY InstallerBounds
<1>2. Cardinality(Releases[r]) \in Nat
  BY <1>1, FS_CardinalityType
<1>3. MaxClock + 63 + Cardinality(Releases[r]) + 1 < 1000 * 6
  BY DatesSuffice, LastVersion DEF Carry
<1> QED BY <1>1, <1>2, <1>3, InstallerBounds

LEMMA InitIInv == Init => IInv
<1> SUFFICES ASSUME Init PROVE IInv
  OBVIOUS
<1>1. files = {}
  BY DEF Init
<1>2. run = NotRunning /\ clock = 0 /\ crashes = 0 /\ release \in DOMAIN Releases
  BY InstallerBounds DEF Init
<1>3. NotRunning \in Runs
  <2>1. 0 \in 0 .. (MaxClock + 64)
    BY InstallerBounds
  <2>2. << >> \in Seq(Nat)
    OBVIOUS
  <2> QED BY <2>1, <2>2 DEF NotRunning, Runs
<1> QED BY <1>1, <1>2, <1>3, InstallerBounds
        DEF IInv, TypeOK, InstalledOnce, Copies, RunOK, NotRunning

\* A version of a run is a version.
LEMMA RunVersion ==
    ASSUME IInv, run.stage # "idle", NEW i \in DOMAIN run.pending
    PROVE  VersionOf(i) \in 0 .. 99
<1>1. /\ run.start \in 0 .. (MaxClock + 64)
      /\ Len(run.pending) \in Nat /\ i \in 1 .. Len(run.pending)
      /\ Len(run.pending) <= Cardinality(Releases[release])
  BY DEF IInv, Runs, RunOK
<1>2. /\ Cardinality(Releases[release]) \in Nat /\ MaxClock \in Nat
      /\ MaxClock + Cardinality(Releases[release]) + 64 < 6000
  BY Packages, InstallerBounds DEF IInv, TypeOK
<1>3. PICK s \in 0 .. (MaxClock + 64), k \in Nat : s = run.start /\ k = i
  BY <1>1
<1>4. 1 <= k /\ k <= Cardinality(Releases[release])
  BY <1>1, <1>2, <1>3
<1>5. s + k - 1 \in Nat /\ s + k - 1 < 6000
  BY <1>2, <1>4
<1>6. FormatVersion(s + k - 1) \in 0 .. 99
  BY <1>5, FormatIs
<1> QED BY <1>3, <1>6 DEF VersionOf

\* A newest file is there, and the plan starts after it.
LEMMA StartIs ==
    ASSUME IInv
    PROVE  /\ Start \in 0 .. (MaxClock + 64)
           /\ Start \in Calendar => \A f \in files : f.version < FormatVersion(Start)
<1>1. clock \in 0 .. MaxClock /\ MaxClock \in Nat
  BY InstallerBounds DEF IInv, TypeOK
<1>2. CASE files = {}
  BY <1>1, <1>2 DEF Start, Later
<1>3. CASE files # {}
  <2>1. PICK versions : versions = {f.version : f \in files}
    OBVIOUS
  <2>2. versions \subseteq 0 .. 99 /\ versions # {}
    BY <1>3, <2>1 DEF IInv, Files
  <2>3. \E v \in versions : \A w \in versions : w <= v
    <3>1. versions \in SUBSET Nat /\ IsFiniteSet(versions)
      <4> DEFINE n == 99
      <4>1. IsFiniteSet(0 .. n)
        <5> HIDE DEF n
        <5>1. n \in Int
          BY DEF n
        <5> QED BY <5>1, FS_Interval
      <4>2. versions \in SUBSET (0 .. n)
        BY <2>2
      <4>3. versions \in SUBSET Nat
        BY <2>2
      <4> QED BY <4>1, <4>2, <4>3, FS_Subset
    <3>2. PICK list : list = Sorted(versions)
      OBVIOUS
    <3>3. /\ list \in Seq(Nat) /\ versions = {list[i] : i \in DOMAIN list}
          /\ \A i, k \in DOMAIN list : i < k => list[i] < list[k]
      BY <3>1, <3>2, SortedIs
    <3>4. Len(list) \in DOMAIN list /\ \A i \in DOMAIN list : list[i] <= list[Len(list)]
      BY <2>2, <3>3
    <3> QED BY <3>3, <3>4
  <2>4. LatestVersion \in 0 .. 99 /\ \A f \in files : f.version <= LatestVersion
    BY <2>1, <2>2, <2>3 DEF LatestVersion
  <2>5. ParseVersion(LatestVersion) \in 0 .. 63
    BY <2>4, ParseIs
  <2>6. Start = Later(clock, ParseVersion(LatestVersion) + 1)
    BY <1>3 DEF Start
  <2>7. Start \in 0 .. (MaxClock + 64)
    BY <1>1, <2>5, <2>6 DEF Later
  <2>8. ASSUME Start \in Calendar, NEW f \in files PROVE f.version < FormatVersion(Start)
    <3>1. ParseVersion(LatestVersion) + 1 \in Calendar /\ ParseVersion(LatestVersion) + 1 <= Start
      BY <1>1, <2>5, <2>6, <2>8 DEF Later, Calendar, Carry, LastYear
    <3>2. LatestVersion < FormatVersion(ParseVersion(LatestVersion) + 1)
      BY <2>4, <3>1, NextIsLater
    <3>3. FormatVersion(ParseVersion(LatestVersion) + 1) <= FormatVersion(Start)
      BY <2>8, <3>1 DEF FormatVersion, Calendar, Carry, LastYear
    <3>4. f.version \in 0 .. 99 /\ f.version <= LatestVersion
      BY <2>4 DEF IInv, Files
    <3> QED BY <2>4, <2>5, <2>8, <3>1, <3>2, <3>3, <3>4 DEF FormatVersion, Calendar, Carry, LastYear
  <2> QED BY <2>7, <2>8
<1> QED BY <1>2, <1>3

-----------------------------------------------------------------------------
(* The steps *)

\* The plan: what is pending is all that is not there.
LEMMA RunStep == ASSUME IInv, Run PROVE IInv'
<1> DEFINE names == Releases[release] \ Installed
<1>1. /\ run.stage = "idle" /\ Pending # << >>
      /\ run' = [stage |-> "between", start |-> Start, pending |-> Pending, index |-> 1]
      /\ UNCHANGED <<clock, release, files, crashes>>
  BY DEF Run
<1>2. /\ Releases[release] \in SUBSET Nat /\ IsFiniteSet(Releases[release])
      /\ Cardinality(Releases[release]) \in Nat
  BY Packages DEF IInv, TypeOK
<1>3. /\ names \in SUBSET Nat /\ IsFiniteSet(names)
      /\ Cardinality(names) <= Cardinality(Releases[release])
  BY <1>2, FS_Subset
<1>4. /\ Pending \in Seq(Nat) /\ Len(Pending) = Cardinality(names)
      /\ \A i, k \in DOMAIN Pending : i < k => Pending[i] < Pending[k]
      /\ names = {Pending[i] : i \in DOMAIN Pending}
  <2>1. PICK list : list = Sorted(names)
    OBVIOUS
  <2>2. /\ list \in Seq(Nat) /\ Len(list) = Cardinality(names)
        /\ \A i, k \in DOMAIN list : i < k => list[i] < list[k]
        /\ names = {list[i] : i \in DOMAIN list}
    <3> HIDE DEF names
    <3> QED BY <1>3, <2>1, SortedIs
  <2>3. Pending = list
    BY <2>1 DEF Pending
  <2> QED BY <2>2, <2>3
<1>5. 1 \in DOMAIN Pending /\ DOMAIN Pending = 1 .. Len(Pending)
  BY <1>1, <1>4
<1>6. /\ run'.stage = "between" /\ run'.start = Start /\ run'.pending = Pending /\ run'.index = 1
      /\ Installed' = Installed
  BY <1>1 DEF Installed
<1>7. run' \in Runs
  BY <1>1, <1>4, StartIs DEF Runs
<1>8. Ahead' = DOMAIN Pending
  BY <1>5, <1>6 DEF Ahead
<1>9. ASSUME InCalendar' PROVE \A f \in files' : f.version < VersionOf(1)'
  <2>1. Start + Len(Pending) <= 60 /\ Len(Pending) \in Nat /\ Len(Pending) >= 1
    BY <1>4, <1>5, <1>6, <1>9 DEF InCalendar, Carry, LastYear
  <2>2. PICK start \in 0 .. (MaxClock + 64) : start = Start
    BY StartIs
  <2>3. start \in Calendar /\ start + 1 - 1 = start
    BY <2>1, <2>2, InstallerBounds DEF Calendar, Carry, LastYear
  <2>4. VersionOf(1)' = FormatVersion(start)
    BY <1>6, <2>2, <2>3 DEF VersionOf
  <2> QED BY <1>1, <2>2, <2>3, <2>4, StartIs
<1>10. RunOK'
  <2>1. names = {Pending[i] : i \in Ahead'}
    BY <1>4, <1>8
  <2>2. \A i \in DOMAIN Pending : ~(i < 1)
    BY <1>5
  <2> QED BY <1>1, <1>3, <1>4, <1>5, <1>6, <1>9, <2>1, <2>2 DEF RunOK
<1>11. TypeOK'
  BY <1>1, <1>5, <1>6 DEF IInv, TypeOK
<1> QED BY <1>1, <1>7, <1>10, <1>11 DEF IInv, InstalledOnce, Copies

\* A copy has the name of what was pending and not there, and a version
\* behind every other.
LEMMA BeginCopyStep == ASSUME IInv, BeginCopy PROVE IInv'
<1> DEFINE name == run.pending[run.index]
           copy == [version |-> VersionOf(run.index), name |-> name, whole |-> FALSE]
<1>1. /\ run.stage = "between" /\ files' = files \cup {copy}
      /\ run' = [run EXCEPT !.stage = "within"] /\ UNCHANGED <<clock, release, crashes>>
  BY DEF BeginCopy
<1>2. run \in Runs /\ run.index \in DOMAIN run.pending /\ name \in Nat
  BY <1>1 DEF IInv, RunOK, Runs
<1>3. copy \in Files
  BY <1>1, <1>2, RunVersion DEF Files
<1>4. /\ run' \in Runs /\ run'.stage = "within" /\ run'.start = run.start
      /\ run'.pending = run.pending /\ run'.index = run.index
  BY <1>1, <1>2 DEF Runs
<1>5. name \notin Installed /\ name # None
  <2>1. run.index \in Ahead
    BY <1>1, <1>2 DEF Ahead
  <2> QED BY <1>1, <1>2, <2>1, InstallerBounds DEF IInv, RunOK
<1>6. Installed' = Installed \cup {name}
  <2>1. {f.name : f \in files \cup {copy}} = {f.name : f \in files} \cup {copy.name}
    OBVIOUS
  <2>2. copy.name = name
    OBVIOUS
  <2> HIDE DEF copy, name
  <2> QED BY <1>1, <1>5, <2>1, <2>2 DEF Installed
<1>7. /\ run.index \in Nat /\ DOMAIN run.pending = 1 .. Len(run.pending) /\ Len(run.pending) \in Nat
      /\ \A i, k \in DOMAIN run.pending : i < k => run.pending[i] < run.pending[k]
      /\ \A i \in DOMAIN run.pending : run.pending[i] \in Nat
  BY <1>1, <1>2 DEF IInv, RunOK, Runs
<1>8. \A i \in DOMAIN run.pending : i # run.index => run.pending[i] # name
  <2>1. ASSUME NEW i \in DOMAIN run.pending, i # run.index PROVE run.pending[i] # name
    <3>1. i < run.index \/ run.index < i
      BY <1>7, <2>1
    <3>2. run.pending[i] < name \/ name < run.pending[i]
      BY <1>2, <1>7, <3>1
    <3>3. run.pending[i] \in Nat
      BY <1>7
    <3> QED BY <1>2, <3>2, <3>3
  <2> QED BY <2>1
<1>9. Releases[release] \ Installed' = {run.pending[i] : i \in Ahead'}
  <2>1. Releases[release] \ Installed = {run.pending[i] : i \in Ahead}
    BY <1>1 DEF IInv, RunOK
  <2>2. Ahead' = Ahead \ {run.index} /\ Ahead \subseteq DOMAIN run.pending /\ run.index \in Ahead
    BY <1>1, <1>2, <1>4, <1>7 DEF Ahead
  <2> QED BY <1>6, <1>8, <2>1, <2>2
<1>10. ASSUME NEW i \in DOMAIN run.pending, i < run.index, NEW f \in files', f.name = run.pending[i]
       PROVE  f.whole
  <2>1. f # copy
    BY <1>7, <1>8, <1>10
  <2> QED BY <1>1, <1>10, <2>1 DEF IInv, RunOK
<1>11. ASSUME InCalendar', NEW f \in files' PROVE f.version <= VersionOf(run.index)
  <2>1. InCalendar
    BY <1>1, <1>4, <1>11 DEF InCalendar
  <2>2. VersionOf(run.index) \in 0 .. 99
    BY <1>1, <1>2, RunVersion
  <2>3. CASE f = copy
    BY <2>2, <2>3
  <2>4. CASE f \in files
    <3>1. f.version < VersionOf(run.index) /\ f.version \in 0 .. 99
      BY <1>1, <2>1, <2>4 DEF IInv, RunOK, Files
    <3> QED BY <2>2, <3>1
  <2> QED BY <1>1, <2>3, <2>4
<1>12. RunOK'
  <2>1. VersionOf(run.index)' = VersionOf(run.index)
    BY <1>4 DEF VersionOf
  <2> QED BY <1>1, <1>2, <1>4, <1>9, <1>10, <1>11, <2>1 DEF IInv, RunOK, VersionOf
<1>13. TypeOK'
  BY <1>1, <1>2, <1>3, <1>4 DEF IInv, TypeOK, Files
<1>14. InstalledOnce'
  <2>1. \A f \in Copies : f.name # name
    BY <1>5 DEF Copies, Installed
  <2>2. Copies' \subseteq Copies \cup {copy}
    BY <1>1 DEF Copies
  <2>3. copy.name = name
    OBVIOUS
  <2> HIDE DEF copy, name
  <2>4. ASSUME NEW f \in Copies', NEW g \in Copies', f.name = g.name PROVE f = g
    BY <2>1, <2>2, <2>3, <2>4 DEF IInv, InstalledOnce
  <2> QED BY <2>4 DEF InstalledOnce
<1> QED BY <1>1, <1>3, <1>4, <1>12, <1>13, <1>14 DEF IInv

\* To fill a copy changes no name.
LEMMA NamesKept == ASSUME IInv, EndCopy PROVE Installed' = Installed
<1> DEFINE filled(f) == IF f.name = run.pending[run.index] THEN [f EXCEPT !.whole = TRUE] ELSE f
<1>1. files' = {filled(f) : f \in files}
  BY DEF EndCopy
<1>2. \A f \in files : filled(f).name = f.name
  BY DEF IInv, Files
<1> HIDE DEF filled
<1> QED BY <1>1, <1>2 DEF Installed

\* The copy is whole; the run has another to make, or has made them all.
LEMMA EndCopyStep == ASSUME IInv, EndCopy PROVE IInv'
<1> DEFINE name == run.pending[run.index]
           filled(f) == IF f.name = name THEN [f EXCEPT !.whole = TRUE] ELSE f
<1>1. /\ run.stage = "within" /\ files' = {filled(f) : f \in files}
      /\ run' = IF EndsNow THEN NotRunning ELSE [run EXCEPT !.stage = "between", !.index = @ + 1]
      /\ UNCHANGED <<clock, release, crashes>>
  BY DEF EndCopy
<1>2. ASSUME NEW f \in files
      PROVE  /\ filled(f) \in Files /\ filled(f).name = f.name /\ filled(f).version = f.version
             /\ f.name = name => filled(f).whole
             /\ f.name # name => filled(f) = f
  BY DEF IInv, Files
<1> HIDE DEF filled
<1>3. files' \subseteq Files
  BY <1>1, <1>2
<1>4. Installed' = Installed
  BY NamesKept
<1>5. InstalledOnce'
  <2>1. ASSUME NEW f \in files, NEW g \in files, filled(f).name # None, filled(g).name # None,
               filled(f).name = filled(g).name
        PROVE  filled(f) = filled(g)
    <3>1. f = g
      BY <1>2, <2>1 DEF IInv, InstalledOnce, Copies
    <3> QED BY <3>1
  <2> QED BY <1>1, <2>1 DEF InstalledOnce, Copies
<1>6. /\ run \in Runs /\ run.index \in DOMAIN run.pending /\ run.pending \in Seq(Nat)
      /\ DOMAIN run.pending = 1 .. Len(run.pending) /\ Len(run.pending) \in Nat
  BY <1>1 DEF IInv, RunOK, Runs
<1>7. CASE EndsNow
  <2>1. run' = NotRunning
    BY <1>1, <1>7
  <2>2. run' \in Runs
    <3>1. 0 \in 0 .. (MaxClock + 64)
      BY InstallerBounds
    <3>2. << >> \in Seq(Nat)
      OBVIOUS
    <3> QED BY <2>1, <3>1, <3>2 DEF NotRunning, Runs
  <2>3. RunOK'
    BY <2>1 DEF RunOK, NotRunning
  <2>4. TypeOK'
    <3>1. \A f \in files' : f.version \in 0 .. 99 /\ f.name \in Nat \cup {None} /\ f.whole \in BOOLEAN
      BY <1>3 DEF Files
    <3>2. run'.stage = "idle"
      BY <2>1 DEF NotRunning
    <3> QED BY <1>1, <3>1, <3>2 DEF IInv, TypeOK
  <2> QED BY <1>3, <1>5, <2>2, <2>3, <2>4 DEF IInv
<1>8. CASE ~EndsNow
  <2>1. /\ run' \in Runs /\ run'.stage = "between" /\ run'.start = run.start
        /\ run'.pending = run.pending /\ run'.index = run.index + 1
    <3>1. run' = [run EXCEPT !.stage = "between", !.index = run.index + 1]
      BY <1>1, <1>8
    <3>2. run.index + 1 \in Nat
      BY <1>6
    <3> QED BY <1>6, <3>1, <3>2 DEF Runs
  <2>2. run.index + 1 \in DOMAIN run.pending
    BY <1>6, <1>8 DEF EndsNow
  <2>3. Ahead' = Ahead
    BY <1>1, <1>6, <2>1 DEF Ahead
  <2>4. ASSUME NEW i \in DOMAIN run.pending, i < run.index + 1, NEW f \in files,
               filled(f).name = run.pending[i]
        PROVE  filled(f).whole
    <3>1. i = run.index \/ i < run.index
      BY <1>6, <2>4
    <3>2. f.name = run.pending[i]
      BY <1>2, <2>4
    <3>3. CASE f.name = name
      BY <1>2, <3>3
    <3>4. CASE f.name # name
      <4>1. i < run.index
        BY <3>1, <3>2, <3>4
      <4> QED BY <1>1, <1>2, <3>2, <3>4, <4>1 DEF IInv, RunOK
    <3> QED BY <3>3, <3>4
  <2>5. ASSUME InCalendar', NEW f \in files PROVE filled(f).version < VersionOf(run.index + 1)
    <3>1. InCalendar /\ run.start + Len(run.pending) <= 60
      BY <1>1, <2>1, <2>5 DEF InCalendar, Carry, LastYear
    <3>2. f.version <= VersionOf(run.index) /\ f.version \in 0 .. 99 /\ VersionOf(run.index) \in 0 .. 99
      BY <1>1, <1>6, <3>1, RunVersion DEF IInv, RunOK, Files
    <3>3. PICK s \in Nat, k \in Nat, n \in Nat :
             /\ s = run.start /\ k = run.index /\ n = Len(run.pending) /\ 1 <= k /\ k + 1 <= n /\ s + n <= 60
      BY <1>6, <2>2, <3>1, InstallerBounds DEF Runs
    <3>4. 1 <= k /\ k + 1 <= n /\ s + n <= 60
      BY <3>3
    <3>5. s + k - 1 \in Calendar /\ s + (k + 1) - 1 \in Calendar /\ s + k - 1 < s + (k + 1) - 1
      BY <3>4 DEF Calendar, Carry, LastYear
    <3>6. FormatVersion(s + k - 1) < FormatVersion(s + (k + 1) - 1)
      BY <3>5, FormatAscends
    <3>7. VersionOf(run.index) < VersionOf(run.index + 1)
      BY <3>3, <3>6 DEF VersionOf
    <3>8. VersionOf(run.index + 1) \in 0 .. 99
      BY <1>1, <2>2, RunVersion
    <3> QED BY <1>2, <3>2, <3>7, <3>8
  <2>6. VersionOf(run.index)' = VersionOf(run.index + 1)
    BY <2>1 DEF VersionOf
  <2>7. RunOK'
    BY <1>1, <1>4, <2>1, <2>2, <2>3, <2>4, <2>5, <2>6 DEF IInv, RunOK
  <2> QED BY <1>1, <1>3, <1>5, <2>1, <2>2, <2>7 DEF IInv, TypeOK, Files
<1> QED BY <1>7, <1>8

LEMMA CrashStep == ASSUME IInv, Crash PROVE IInv'
<1>1. run' = NotRunning /\ crashes' \in 0 .. MaxCrashes /\ UNCHANGED <<clock, release, files>>
  BY InstallerBounds DEF Crash, IInv, TypeOK
<1>2. run' \in Runs
  <2>1. 0 \in 0 .. (MaxClock + 64)
    BY InstallerBounds
  <2>2. << >> \in Seq(Nat)
    OBVIOUS
  <2> QED BY <1>1, <2>1, <2>2 DEF NotRunning, Runs
<1> QED BY <1>1, <1>2 DEF IInv, TypeOK, InstalledOnce, Copies, RunOK, NotRunning

\* The clock has no part in a run once it is planned.
LEMMA TickStep == ASSUME IInv, Tick PROVE IInv'
<1>1. clock' \in 0 .. MaxClock /\ UNCHANGED <<release, files, run, crashes>>
  BY InstallerBounds DEF Tick, IInv, TypeOK
<1>2. RunOK'
  BY <1>1 DEF IInv, RunOK, Installed, Ahead, InCalendar, VersionOf
<1>3. TypeOK'
  BY <1>1 DEF IInv, TypeOK
<1> QED BY <1>1, <1>2, <1>3 DEF IInv, InstalledOnce, Copies

\* Neither an upgrade nor a migration of the project's own comes amid a run,
\* and the latter is no copy.
LEMMA UpgradeStep == ASSUME IInv, Upgrade PROVE IInv'
<1>1. run.stage = "idle" /\ release' \in DOMAIN Releases /\ UNCHANGED <<clock, files, run, crashes>>
  BY InstallerBounds DEF Upgrade, IInv, TypeOK
<1> QED BY <1>1 DEF IInv, TypeOK, InstalledOnce, Copies, RunOK

LEMMA OwnStep == ASSUME IInv, Own PROVE IInv'
<1>1. /\ run.stage = "idle" /\ UNCHANGED <<clock, release, run, crashes>>
  BY DEF Own
<1>2. PICK v \in OwnVersions \cup {FormatVersion(clock)} :
         files' = files \cup {[version |-> v, name |-> None, whole |-> TRUE]}
  BY DEF Own
<1>3. v \in 0 .. 99
  <2>1. release \in DOMAIN Releases /\ clock \in 0 .. MaxClock /\ MaxClock \in Nat
    BY InstallerBounds DEF IInv, TypeOK
  <2>2. clock \in Nat /\ clock < 6000
    BY <2>1, Packages
  <2>3. FormatVersion(clock) \in 0 .. 99
    BY <2>2, FormatIs
  <2>4. \A o \in OwnVersions : o \in 0 .. 99
    BY InstallerBounds
  <2> QED BY <2>3, <2>4
<1>4. files' \subseteq Files
  <2>1. [version |-> v, name |-> None, whole |-> TRUE] \in Files
    BY <1>3 DEF Files
  <2> QED BY <1>2, <2>1 DEF IInv
<1>5. Copies' = Copies
  BY <1>2 DEF Copies
<1> QED BY <1>1, <1>4, <1>5 DEF IInv, TypeOK, InstalledOnce, RunOK, Files

LEMMA Inductive == IInv /\ [Next]_vars => IInv'
<1> SUFFICES ASSUME IInv, [Next]_vars PROVE IInv'
  OBVIOUS
<1>1. CASE UNCHANGED vars
  BY <1>1 DEF vars, IInv, TypeOK, InstalledOnce, Copies, RunOK, Installed, Ahead, InCalendar, VersionOf
<1> QED BY <1>1, RunStep, BeginCopyStep, EndCopyStep, CrashStep, TickStep, UpgradeStep, OwnStep DEF Next

LEMMA Invariant == Spec => []IInv
  BY InitIInv, Inductive, PTL DEF Spec

-----------------------------------------------------------------------------
(* The theorems *)

\* Every part of the state has its type, and the command never reaches for a
\* copy that is not planned (install-migrations.ts:128).
THEOREM InstallerTyped == Spec => []TypeOK
<1>1. IInv => TypeOK
  BY DEF IInv
<1> QED BY <1>1, Invariant, PTL

\* No migration is ever there twice, whatever is packaged and however often
\* the command is run, killed and run again (install-migrations.ts:77-108).
THEOREM NothingTwice == Spec => []InstalledOnce
<1>1. IInv => InstalledOnce
  BY DEF IInv
<1> QED BY <1>1, Invariant, PTL

\* A run that ends by itself has copied all there was, and whole
\* (install-migrations.ts:128-141).
THEOREM CompleteRuns == Spec => RunsAreComplete
<1> DEFINE Complete ==
        run.stage # "idle" /\ run'.stage = "idle" /\ crashes' = crashes =>
            /\ Pending' = << >>
            /\ \A f \in files' : ~f.whole => f \in files /\ f.name \notin {run.pending[i] : i \in DOMAIN run.pending}
<1>1. ASSUME IInv, [Next]_vars, run.stage # "idle", run'.stage = "idle", crashes' = crashes
      PROVE  /\ Pending' = << >>
             /\ \A f \in files' : ~f.whole => f \in files /\ f.name \notin {run.pending[i] : i \in DOMAIN run.pending}
  <2>1. EndCopy
    <3>1. ~Crash
      BY <1>1, InstallerBounds DEF Crash, IInv, TypeOK
    <3>2. run' # run
      BY <1>1
    <3> QED BY <1>1, <3>1, <3>2 DEF Next, Run, BeginCopy, Tick, Upgrade, Own, vars, IInv, Runs
  <2>2. EndsNow /\ run.stage = "within" /\ release' = release
    BY <1>1, <2>1 DEF EndCopy, IInv, Runs
  <2>3. /\ run.index = Len(run.pending) /\ run.index \in DOMAIN run.pending
        /\ DOMAIN run.pending = 1 .. Len(run.pending) /\ Len(run.pending) \in Nat
    BY <1>1, <2>2 DEF EndsNow, IInv, Runs, RunOK
  <2>4. files' = {IF f.name = run.pending[run.index] THEN [f EXCEPT !.whole = TRUE] ELSE f : f \in files}
    BY <2>1 DEF EndCopy
  <2>5. \A f \in files : [f EXCEPT !.whole = TRUE].name = f.name /\ [f EXCEPT !.whole = TRUE].whole
    BY <1>1 DEF IInv, Files
  <2>6. Releases[release] \ Installed = {}
    <3>1. Ahead = {}
      BY <2>2, <2>3 DEF Ahead
    <3> QED BY <1>1, <3>1 DEF IInv, RunOK
  <2>7. Pending' = << >>
    <3>1. Installed' = Installed
      BY <1>1, <2>1, NamesKept
    <3>2. Pending' = Sorted({})
      BY <2>2, <2>6, <3>1 DEF Pending
    <3>3. {} \in SUBSET Nat /\ IsFiniteSet({}) /\ Cardinality({}) = 0
      BY FS_EmptySet
    <3>4. Sorted({}) \in Seq(Nat) /\ Len(Sorted({})) = 0
      BY <3>3, SortedIs
    <3> QED BY <3>2, <3>4
  <2>8. ASSUME NEW f \in files', ~f.whole
        PROVE  f \in files /\ f.name \notin {run.pending[i] : i \in DOMAIN run.pending}
    <3>1. f \in files /\ f.name # run.pending[run.index]
      BY <2>4, <2>5, <2>8
    <3>2. ASSUME NEW i \in DOMAIN run.pending PROVE f.name # run.pending[i]
      <4>1. i = run.index \/ i < run.index
        BY <2>3
      <4> QED BY <1>1, <2>8, <3>1, <4>1 DEF IInv, RunOK
    <3> QED BY <3>1, <3>2
  <2> QED BY <2>7, <2>8
<1>2. IInv /\ [Next]_vars => [Complete]_vars
  BY <1>1
<1> QED BY <1>2, Invariant, PTL DEF Spec, RunsAreComplete

\* In the calendar of versions, a copy sorts after all that is there and is
\* made when all originals before it are (install-migrations.ts:110-131).
THEOREM CopiesBehind == Spec /\ []InCalendar => AlwaysLater
<1> DEFINE Behind ==
        \A f \in files' : f.name # None /\ f.name \notin Installed =>
            /\ \A g \in files : g.version < f.version
            /\ \A m \in Releases[release] : m < f.name => m \in Installed
<1>1. ASSUME IInv, InCalendar, [Next]_vars, NEW f \in files', f.name # None, f.name \notin Installed
      PROVE  /\ \A g \in files : g.version < f.version
             /\ \A m \in Releases[release] : m < f.name => m \in Installed
  <2>1. f \notin files
    BY <1>1 DEF Installed
  <2>2. BeginCopy
    <3>1. ~EndCopy
      <4> SUFFICES ASSUME EndCopy PROVE FALSE
        OBVIOUS
      <4>1. PICK g \in files : f = IF g.name = run.pending[run.index] THEN [g EXCEPT !.whole = TRUE] ELSE g
        BY <1>1 DEF EndCopy
      <4>2. f.name = g.name
        BY <1>1, <4>1 DEF IInv, Files
      <4> QED BY <1>1, <4>2 DEF Installed
    <3>2. ~Own
      BY <1>1, <2>1 DEF Own
    <3> QED BY <1>1, <2>1, <3>1, <3>2 DEF Next, Run, Crash, Tick, Upgrade, vars
  <2>3. /\ run.stage = "between" /\ f.version = VersionOf(run.index) /\ f.name = run.pending[run.index]
    BY <2>1, <2>2 DEF BeginCopy
  <2>4. \A g \in files : g.version < f.version
    BY <1>1, <2>3 DEF IInv, RunOK
  <2>5. ASSUME NEW m \in Releases[release], m < f.name, m \notin Installed PROVE FALSE
    <3>1. PICK i \in Ahead : m = run.pending[i]
      BY <1>1, <2>3, <2>5 DEF IInv, RunOK
    <3>2. /\ i \in DOMAIN run.pending /\ run.index \in DOMAIN run.pending
          /\ run.pending \in Seq(Nat) /\ (i = run.index \/ run.index < i)
      BY <1>1, <2>3 DEF IInv, RunOK, Runs, Ahead
    <3>3. run.pending[i] \in Nat /\ run.pending[run.index] \in Nat
      BY <3>2
    <3>4. i = run.index \/ run.pending[run.index] < run.pending[i]
      BY <1>1, <2>3, <3>2 DEF IInv, RunOK
    <3> QED BY <2>3, <2>5, <3>1, <3>3, <3>4
  <2> QED BY <2>4, <2>5
<1>2. IInv /\ InCalendar /\ [Next]_vars => [Behind]_vars
  BY <1>1
<1> QED BY <1>2, Invariant, PTL DEF Spec, AlwaysLater
=============================================================================
