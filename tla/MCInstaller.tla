---------------------------- MODULE MCInstaller ----------------------------
(***************************************************************************)
(* A package of three migrations, then of five, in a project that dates    *)
(* some of its own ahead of the clock.                                     *)
(***************************************************************************)
EXTENDS Installer

MCReleases == <<{1, 2, 3}, 1 .. 5>>

\* Ahead of the clock, and with a field past its range, which carries.
MCOwnVersions == {19}
=============================================================================
