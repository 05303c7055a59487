---------------------------- MODULE JobContract ----------------------------
(***************************************************************************)
(* What a job promises to those who hold it, whatever its storage: it runs *)
(* at most once, a run is never cut short by a Close, a closed job never   *)
(* runs or reopens, and the closing call, and no other, releases Wait.     *)
(***************************************************************************)
EXTENDS Naturals

VARIABLES
    phase,     \* "open", "running", "ran" or "closed"
    waiting    \* 1 until Wait is released, then 0

cvars == <<phase, waiting>>

CInit == phase = "open" /\ waiting = 1

\* A worker starts the job.
Start == phase = "open" /\ phase' = "running" /\ UNCHANGED waiting

\* The worker function has returned.
Ran == phase = "running" /\ phase' = "ran" /\ UNCHANGED waiting

\* One Close wins: by the user or a Purge before the run, by anyone after it.
Close == phase \in {"open", "ran"} /\ phase' = "closed" /\ UNCHANGED waiting

\* The winner of Close releases Wait, once.
Release == phase = "closed" /\ waiting = 1 /\ waiting' = 0 /\ UNCHANGED phase

CNext == Start \/ Ran \/ Close \/ Release

CSpec == CInit /\ [][CNext]_cvars

=============================================================================
