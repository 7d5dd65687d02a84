--------------------------- MODULE TumbleTriggers --------------------------
(***************************************************************************)
(* still_tumbling: short bursts of power after a finished cycle, followed  *)
(* by TumbleTracker, and the manager that holds a tumble back while a      *)
(* cycle that began since is not over: a tumble looks like a false start.  *)
(* The tail of a cycle's end, which decides, runs while the next cycle may *)
(* be starting.  Time is counted in minutes since the finish.              *)
(***************************************************************************)
EXTENDS Integers

CONSTANTS
    GiveUp,      \* STILL_TUMBLING_GIVE_UP_S
    MaxBurst,    \* STILL_TUMBLING_MAX_BURST_S
    MaxFinishes    \* bound: cycles announced

ASSUME TumbleAssumption == {GiveUp, MaxBurst, MaxFinishes} \subseteq Nat

Thresholds == 1..GiveUp
Finishes == 1..MaxFinishes
Never == -1

VARIABLES
    since,      \* minutes since the finish the tracker is armed for; Never: not armed
    burst,      \* minutes the burst has lasted; Never: not in one
    leading,    \* the burst began before the finish: it is the cycle's
    last,       \* minutes of the last tumble
    heldTumble, \* the tumble held back: from the last one sent, its minutes, its finish
    tailOwes,   \* an announced cycle that has not ended
    cycle,      \* cycles announced; the newest owns the token
    tails,      \* cycles whose end is being processed, and how they ended
    finishes,   \* history: finishes so far
    ran,        \* history: how often an automation of each threshold ran for this finish
    due,        \* history: the latest tumble of this finish that was sent
    mixed       \* history: a tumble held for an earlier finish met this one's

tumbleVars == <<since, burst, leading, last, heldTumble, tailOwes, cycle, tails, finishes, ran, due, mixed>>

NoTumble == [from |-> Never, at |-> Never, finish |-> 0]

TumblesInit ==
    /\ since = Never /\ burst = Never /\ leading = FALSE /\ last = Never /\ heldTumble = NoTumble
    /\ tailOwes = FALSE /\ cycle = 0 /\ tails = [c \in Finishes |-> "none"]
    /\ finishes = 0 /\ ran = [n \in Thresholds |-> 0] /\ due = Never /\ mixed = FALSE

\* run_variables: the automations the tumble takes across their threshold.
Sent(t, beside) ==
    /\ ran' = [n \in Thresholds |-> ran[n] + (IF t.at >= n /\ (t.from = Never \/ t.from < n) THEN 1 ELSE 0)]
    /\ due' = IF t.at > due THEN t.at ELSE due
    /\ mixed' = (mixed \/ beside # NoTumble \/ t.finish # finishes)

NotSent == UNCHANGED <<ran, due, mixed>>

-----------------------------------------------------------------------------
Minute ==
    /\ since \in 0..GiveUp
    /\ since' = since + 1 /\ burst' = IF burst = Never THEN Never ELSE burst + 1
    /\ UNCHANGED <<leading, last, heldTumble, tailOwes, cycle, tails, finishes, ran, due, mixed>>

\* cancel.
GivesUp ==
    /\ since > GiveUp /\ since' = Never /\ burst' = Never /\ leading' = FALSE
    /\ UNCHANGED <<last, heldTumble, tailOwes, cycle, tails, finishes, ran, due, mixed>>

BurstBegins ==
    /\ since \in 0..GiveUp /\ burst = Never
    /\ burst' = 0 /\ leading' = FALSE
    /\ UNCHANGED <<since, last, heldTumble, tailOwes, cycle, tails, finishes, ran, due, mixed>>

IsTumble == ~leading /\ burst <= MaxBurst

\* Of several held back, the last, crossing from the last one sent.
HeldWith(t) == IF heldTumble = NoTumble THEN t ELSE [t EXCEPT !.from = heldTumble.from]

\* The reading that ends a burst.
BurstEnds ==
    /\ since \in 0..GiveUp /\ burst # Never
    /\ burst' = Never /\ leading' = FALSE
    /\ LET tumble == [from |-> last, at |-> since, finish |-> finishes] IN
       IF ~IsTumble THEN UNCHANGED last /\ UNCHANGED heldTumble /\ NotSent
       ELSE /\ last' = since
            /\ IF tailOwes
               THEN /\ heldTumble' = HeldWith(tumble)
                    /\ mixed' = (mixed \/ heldTumble.finish \notin {0, finishes}) /\ UNCHANGED <<ran, due>>
               ELSE UNCHANGED heldTumble /\ Sent(tumble, heldTumble)
    /\ UNCHANGED <<since, tailOwes, cycle, tails, finishes>>

-----------------------------------------------------------------------------
RunBeginsAgain ==
    /\ ~tailOwes /\ cycle < MaxFinishes
    /\ cycle' = cycle + 1 /\ tailOwes' = TRUE
    /\ UNCHANGED <<since, burst, leading, last, heldTumble, tails, finishes, ran, due, mixed>>

\* _on_cycle_end: a finish arms the tracker at once; a reading still high is the cycle's.
RunFinishes(status, high) ==
    /\ tailOwes /\ tailOwes' = FALSE
    /\ tails' = [tails EXCEPT ![cycle] = status]
    /\ IF status = "finished"
       THEN /\ since' = 0 /\ last' = Never
            /\ burst' = (IF high THEN 0 ELSE Never) /\ leading' = high
            /\ finishes' = finishes + 1 /\ ran' = [n \in Thresholds |-> 0] /\ due' = Never
            /\ mixed' = FALSE
       ELSE UNCHANGED <<since, burst, leading, last, finishes, ran, due, mixed>>
    /\ UNCHANGED <<heldTumble, cycle>>

\* _release_held_tumble: a false start was a tumble; any other end drops it.
Released(status) ==
    /\ heldTumble' = NoTumble
    /\ IF heldTumble = NoTumble \/ status = "finished" \/ since = Never THEN NotSent ELSE Sent(heldTumble, NoTumble)

MutOwns(c) == TRUE

\* The tumble held now belongs to the newest cycle.
Owns(c) == c = cycle

\* The tail announces the end.
TailAnnounces(c) ==
    /\ tails[c] # "none" /\ tails' = [tails EXCEPT ![c] = "none"]
    /\ IF Owns(c) THEN Released(tails[c]) ELSE UNCHANGED heldTumble /\ NotSent
    /\ UNCHANGED <<since, burst, leading, last, tailOwes, cycle, finishes>>

\* A detector reset drops the cycle: _end_dropped_cycle.
CycleDropped ==
    /\ tailOwes /\ tailOwes' = FALSE
    /\ Released("interrupted")
    /\ UNCHANGED <<since, burst, leading, last, cycle, tails, finishes>>

TumblesNext ==
    \/ Minute \/ GivesUp \/ BurstBegins \/ BurstEnds
    \/ RunBeginsAgain \/ CycleDropped
    \/ \E s \in {"finished", "interrupted"}, h \in BOOLEAN : RunFinishes(s, h)
    \/ \E c \in Finishes : TailAnnounces(c)

TumblesSpec == TumblesInit /\ [][TumblesNext]_tumbleVars

-----------------------------------------------------------------------------
(* However tumbles, false starts and the tails of their ends interleave,   *)
(* an automation runs once for a finish at most, and with no tumble held   *)
(* back it has run when one was sent at its threshold or later.  Two holes *)
(* are left out (mixed): a tumble held for the finish before, and one sent *)
(* in the tail of a false start whose own tumble is still held.            *)
TumbledOnce ==
    ~mixed => \A n \in Thresholds :
        /\ ran[n] <= 1
        /\ heldTumble = NoTumble /\ since # Never => ran[n] = IF due >= n THEN 1 ELSE 0
=============================================================================
