--------------------------- MODULE CycleLifecycle ---------------------------
(***************************************************************************)
(* What the cycle detector promises the rest of the integration, whatever  *)
(* the power does: a cycle is recorded once, when it ends, and is shown as *)
(* ended the way it was recorded; a probe that turns out to be a false     *)
(* start records nothing and gives back the state it interrupted.          *)
(*                                                                         *)
(* An appliance is idle, waiting for a delayed start, probing (a start not *)
(* yet confirmed), in a cycle, or shows how its last cycle ended.          *)
(***************************************************************************)
CONSTANTS
    Statuses,     \* the ways a recorded cycle ends
    Nothing       \* no record

VARIABLES
    phase,     \* a status once a cycle has ended that way
    origin,    \* the phase a probe interrupted
    filed      \* the status of the cycle this step records, or Nothing

lifecycleVars == <<phase, origin, filed>>

LifecycleInit ==
    /\ phase = "idle"
    /\ origin = "idle"
    /\ filed = Nothing

BeginWait ==
    /\ phase = "idle" /\ phase' = "waiting"
    /\ origin' = "idle" /\ filed' = Nothing

\* A cycle whose end is shown may give its place to the probe for good (the
\* appliance was moving clothes after the end), and then a false start is idle.
BeginProbe ==
    /\ phase \in {"idle", "waiting"} \union Statuses
    /\ phase' = "probing"
    /\ origin' \in {phase, "idle"}
    /\ filed' = Nothing

Commit ==
    /\ phase = "probing" /\ phase' = "cycle"
    /\ origin' = "idle" /\ filed' = Nothing

FalseStart ==
    /\ phase = "probing" /\ phase' \in {origin, "idle"}
    /\ origin' = "idle" /\ filed' = Nothing

\* A cycle ends by being recorded; so does a probe that is stopped.  Stopping the
\* wait for a delayed start may record whatever start was noted last, though no
\* cycle is open.
Close(s) ==
    /\ phase \in {"probing", "cycle", "waiting"} /\ phase' = s
    /\ origin' = "idle" /\ filed' = s

\* Back to idle: the wait or the display of the end is over, or the manager
\* discards what it has.
Leave ==
    /\ phase # "idle" /\ phase' = "idle"
    /\ origin' = "idle" /\ filed' = Nothing

\* A restart in a probe forgets what the probe interrupted.
Forget ==
    /\ phase = "probing" /\ UNCHANGED phase
    /\ origin' = "idle" /\ filed' = Nothing

\* A reading that changes nothing of this.
Stay ==
    /\ UNCHANGED <<phase, origin>>
    /\ filed' = Nothing

LifecycleNext ==
    \/ BeginWait \/ BeginProbe \/ Commit \/ FalseStart \/ Leave \/ Forget \/ Stay
    \/ \E s \in Statuses : Close(s)

LifecycleSpec == LifecycleInit /\ [][LifecycleNext]_lifecycleVars
=============================================================================
