----------------------------- MODULE Installer -----------------------------
(***************************************************************************)
(* The command that copies the packaged migrations into a project          *)
(* (apps/installer/bin/install-migrations.ts), run and run again, killed   *)
(* between two copies or within one, beside upgrades of the package and    *)
(* migrations of the project's own.                                        *)
(*                                                                         *)
(* A version YYYYMMDDHHMMSS is scaled down to two digits, Y and S: there   *)
(* are Carry seconds to a year, of the ten that S could say, and LastYear  *)
(* is the last year that Y can.                                            *)
(***************************************************************************)
EXTENDS Naturals, FiniteSets, Sequences

CONSTANTS
    None,
    Releases,      \* release -> the names its package holds; they sort as numbers
    OwnVersions,   \* versions the project may give to migrations of its own
    MaxClock, MaxOwn, MaxCrashes   \* bounds

Digits == 0 .. 9
LastYear == 9
Carry == 6

ASSUME InstallerBounds ==
    /\ None \notin Nat /\ Releases \in Seq(SUBSET Nat) /\ Releases # << >>
    /\ \A i \in DOMAIN Releases : IsFiniteSet(Releases[i])
    /\ OwnVersions \subseteq 0 .. 99
    /\ MaxClock \in Nat /\ MaxOwn \in Nat /\ MaxCrashes \in Nat

VARIABLES
    clock,     \* in seconds
    release,   \* the release of the package that is there
    files,     \* supabase/migrations: [version, name, whole], name None for the project's own
    run,       \* the command: [stage, start, pending, index]
    crashes

vars == <<clock, release, files, run, crashes>>

NotRunning == [stage |-> "idle", start |-> 0, pending |-> << >>, index |-> 0]

-----------------------------------------------------------------------------
(* Versions. *)

\* toISOString gives years past the last a sign and two more digits, and the
\* version is cut to its width from the left.
FormatVersion(time) ==
    LET year == time \div Carry
    IN  IF year <= LastYear THEN 10 * year + (time % Carry) ELSE year \div 10

\* Date.UTC carries what a field has too much into the next.
ParseVersion(version) == Carry * (version \div 10) + (version % 10)

\* Times stay in the range of a Date, whose years have six digits, here three.
ASSUME DatesSuffice ==
    \A i \in DOMAIN Releases :
        MaxClock + ParseVersion(99) + Cardinality(Releases[i]) + 1 < 1000 * Carry

-----------------------------------------------------------------------------
(* main() *)

\* How many of some names sort before one of them.
Rank(names, m) == Cardinality({n \in names : n < m})

\* Fault: in the reverse order.
Unsorted(names) ==
    [i \in 1 .. Cardinality(names) |-> CHOOSE m \in names : Rank(names, m) = Cardinality(names) - i]

\* readdir(...).sort()
Sorted(names) == [i \in 1 .. Cardinality(names) |-> CHOOSE m \in names : Rank(names, m) = i - 1]

Installed == {f.name : f \in files} \ {None}

\* Fault: whatever is packaged is copied.
PendingAll == Sorted(Releases[release])

\* Fault: what has been installed once is taken to be there.
PendingAtFirst == IF Installed = {} THEN Sorted(Releases[release]) ELSE << >>

Pending == Sorted(Releases[release] \ Installed)

LatestVersion == CHOOSE v \in {f.version : f \in files} : \A f \in files : f.version <= v

Later(x, y) == IF x < y THEN y ELSE x

\* Fault: the clock alone.
StartNow == clock

\* The clock, or the second after the newest version.
Start == Later(clock, IF files = {} THEN 0 ELSE ParseVersion(LatestVersion) + 1)

\* The directory is read and the copies are planned.
Run ==
    /\ run.stage = "idle" /\ Pending # << >>
    /\ run' = [stage |-> "between", start |-> Start, pending |-> Pending, index |-> 1]
    /\ UNCHANGED <<clock, release, files, crashes>>

\* Fault: all copies have the time of the run.
VersionOfRun(i) == FormatVersion(run.start)

VersionOf(i) == FormatVersion(run.start + i - 1)

\* copyFile creates the target, then fills it.
BeginCopy ==
    /\ run.stage = "between"
    /\ files' = files \cup {[version |-> VersionOf(run.index), name |-> run.pending[run.index], whole |-> FALSE]}
    /\ run' = [run EXCEPT !.stage = "within"]
    /\ UNCHANGED <<clock, release, crashes>>

\* Fault: the last of the pending is not reached.
EndsBeforeLast == run.index >= Len(run.pending) - 1

\* Fault: one more is looked for.
EndsAfterLast == run.index > Len(run.pending)

EndsNow == run.index = Len(run.pending)

EndCopy ==
    /\ run.stage = "within"
    /\ files' = {IF f.name = run.pending[run.index] THEN [f EXCEPT !.whole = TRUE] ELSE f : f \in files}
    /\ run' = IF EndsNow THEN NotRunning ELSE [run EXCEPT !.stage = "between", !.index = @ + 1]
    /\ UNCHANGED <<clock, release, crashes>>

\* Killed, or a copy fails.
Crash ==
    /\ run.stage # "idle" /\ crashes < MaxCrashes
    /\ crashes' = crashes + 1 /\ run' = NotRunning
    /\ UNCHANGED <<clock, release, files>>

-----------------------------------------------------------------------------
(* Around it. *)

Tick == clock < MaxClock /\ clock' = clock + 1 /\ UNCHANGED <<release, files, run, crashes>>

Upgrade ==
    /\ run.stage = "idle" /\ release < Len(Releases) /\ release' = release + 1
    /\ UNCHANGED <<clock, files, run, crashes>>

Own ==
    /\ run.stage = "idle" /\ Cardinality({f \in files : f.name = None}) < MaxOwn
    /\ \E v \in OwnVersions \cup {FormatVersion(clock)} :
          files' = files \cup {[version |-> v, name |-> None, whole |-> TRUE]}
    /\ UNCHANGED <<clock, release, run, crashes>>

Init ==
    /\ clock = 0 /\ release = 1 /\ files = {} /\ run = NotRunning /\ crashes = 0

Next == Run \/ BeginCopy \/ EndCopy \/ Crash \/ Tick \/ Upgrade \/ Own

\* A run goes on, and the command is run until there is nothing to do.
Spec == Init /\ [][Next]_vars /\ WF_vars(Run) /\ WF_vars(BeginCopy \/ EndCopy)

-----------------------------------------------------------------------------
(* Properties. *)

Copies == {f \in files : f.name # None}

\* Every part of the state has its type, and the run is within its plan.
TypeOK ==
    /\ clock \in 0 .. MaxClock /\ release \in DOMAIN Releases /\ crashes \in 0 .. MaxCrashes
    /\ \A f \in files : f.version \in 0 .. 99 /\ f.name \in Nat \cup {None} /\ f.whole \in BOOLEAN
    /\ run.stage \in {"idle", "between", "within"}
    /\ run.stage # "idle" => run.index \in DOMAIN run.pending

\* However often the command is run, killed and run again over upgrades, no
\* migration is there twice, which would fail on its second create type
\* (install-migrations.ts:77-81).
InstalledOnce == \A f, g \in Copies : f.name = g.name => f = g

\* A copy sorts after every migration that is there when it is made, and is
\* made when all originals before it are there: the copies are applied in the
\* order of the originals, whatever ran, crashed or was upgraded meanwhile,
\* except what an upgrade puts before what is there (install-migrations.ts:110-114).
AlwaysLater ==
    [][\A f \in files' : f.name # None /\ f.name \notin Installed =>
           /\ \A g \in files : g.version < f.version
           /\ \A m \in Releases[release] : m < f.name => m \in Installed]_vars

\* A run that is not killed leaves nothing pending and no copy of its own in
\* part, so what is in part is the copy a crash interrupted.
RunsAreComplete ==
    [][run.stage # "idle" /\ run'.stage = "idle" /\ crashes' = crashes =>
           /\ Pending' = << >>
           /\ \A f \in files' : ~f.whole => f \in files /\ f.name \notin {run.pending[i] : i \in DOMAIN run.pending}]_vars

\* Whatever is shipped gets to the project, though runs are killed.
EverythingInstalled == []<>(Installed = Releases[release])
=============================================================================
