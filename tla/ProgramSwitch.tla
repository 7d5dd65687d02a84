--------------------------- MODULE ProgramSwitch ----------------------------
(***************************************************************************)
(* Which programme a running cycle shows: the rules (match_rules.py) that  *)
(* the matching task of the manager applies to every result of the         *)
(* matcher, from the reading of the result to the override under a         *)
(* verified pause, with the user's choice, a new cycle and a restart in    *)
(* between.                                                                *)
(*                                                                         *)
(* Scores are small numbers; a programme the matcher did not return scores *)
(* 0.  Of the score history the rules read how long it is and its peak, and*)
(* whether it rises, which is left open once it is long enough.  A         *)
(* programme is taken to stay in the store while a match of it is under    *)
(* way: consistency_override keeps the duration of another for one that    *)
(* was deleted meanwhile.                                                  *)
(***************************************************************************)
EXTENDS Integers, FiniteSets

CONSTANTS
    Profiles,     \* the profiles of the device
    Timed,        \* those with a usable expected duration
    NoName,       \* no name, no duration
    Scores,       \* the scores a candidate may have
    Threshold,    \* profile_unmatch_threshold
    Decisive,     \* MATCH_DECISIVE_MARGIN
    Lead,         \* what a persistent challenger must lead by
    Persistence,  \* match_persistence
    Judged,      \* the history a divergence is judged from has more scores than this
    Trend         \* the scores a rising trend is read from

ASSUME SwitchAssumption ==
    /\ NoName \notin Profiles /\ "detecting" \notin Profiles \union {NoName}
    /\ Timed \subseteq Profiles
    /\ Persistence \in Nat \ {0}
    /\ Scores \subseteq Nat \ {0}
    /\ {Threshold, Decisive, Lead, Judged, Trend} \subseteq Nat

VARIABLES
    switch,   \* SwitchState: programme, expected duration, wins, candidate, history
    pinned,   \* _manual_program_active
    tick,     \* the matching task and the MatchTick it works on, with what it dropped
    streak,   \* history: each programme's wins in a row since it was last dropped
    locked    \* history: the programme last decided on, while nothing else has won since

switchVars == <<switch, pinned, tick, streak, locked>>

ambiguousFactor == 2
Least(a, b) == IF a < b THEN a ELSE b
Capped(n) == Least(n, ambiguousFactor * Persistence)

NoTick == [at |-> "idle", name |-> NoName, score |-> 0, persistent |-> FALSE,
           ambiguous |-> FALSE, mismatch |-> FALSE, decisive |-> FALSE, dropped |-> FALSE]

NoWins == [p \in Profiles |-> 0]

\* profile_duration: NoName when it is unusable.  A duration is named for its profile.
Duration(p) == IF p \in Timed THEN p ELSE NoName

FreshSwitch == [program |-> "detecting", duration |-> NoName, wins |-> NoWins,
                unmatch |-> 0, candidate |-> NoName, seen |-> NoWins, peak |-> NoWins]

Results ==
    {r \in [name : Profiles \cup {NoName}, score : [Profiles -> Scores \cup {0}],
            ambiguous : BOOLEAN, mismatch : BOOLEAN] :
        /\ r.name # NoName => r.score[r.name] # 0 /\ \A p \in Profiles : r.score[p] <= r.score[r.name]
        /\ r.name = NoName => r.score = NoWins /\ ~r.ambiguous
        /\ r.mismatch => r.name = NoName}

ScoreOf(r, p) == IF p \in Profiles THEN r.score[p] ELSE 0

\* The winner is alone or far clear of every other candidate.
FarClear(r) == \A p \in Profiles \ {r.name} :
                   r.score[p] = 0 \/ ScoreOf(r, r.name) - r.score[p] > Decisive

\* Below 60 % of its own peak (DEFAULT_MATCH_REVERT_RATIO).
Diverges(s, p, score) == s.seen[p] > Judged /\ 10 * score < 6 * s.peak[p]

\* A programme that is dropped starts over.
Unshown(s, p) == [s EXCEPT !.program = "detecting", !.duration = NoName, !.unmatch = 0,
                           !.wins[p] = 0, !.candidate = NoName]

\* Mutant: a new candidate's first win is not counted.
MutWon(s, p) ==
    IF p \in Profiles
    THEN [s EXCEPT !.wins[p] = IF s.candidate = p THEN Capped(@ + 1) ELSE 0, !.candidate = p]
    ELSE [s EXCEPT !.candidate = NoName]

\* The winner's count goes on only from its own last win.
Won(s, p) ==
    IF p \in Profiles
    THEN [s EXCEPT !.wins[p] = IF s.candidate = p THEN Capped(@ + 1) ELSE 1, !.candidate = p]
    ELSE [s EXCEPT !.candidate = NoName]

\* begin_tick: the divergence of the shown programme, then the count of the winner.
Begun(s, r) ==
    LET diverges == /\ r.name \in Profiles /\ r.name = s.program
                    /\ Diverges(s, r.name, r.score[r.name])
        unmatch == IF diverges THEN s.unmatch + 1 ELSE s.unmatch
        reverted == diverges /\ unmatch >= Persistence
        name == IF reverted THEN "detecting" ELSE r.name
        after == Won(IF reverted THEN Unshown(s, r.name) ELSE [s EXCEPT !.unmatch = unmatch], name)
    IN [state |-> after,
        tick |-> [at |-> "aligning", name |-> name, score |-> ScoreOf(r, r.name),
                  persistent |-> name \in Profiles /\ after.wins[name] >= Persistence,
                  ambiguous |-> r.ambiguous, mismatch |-> r.mismatch, decisive |-> FarClear(r),
                  dropped |-> FALSE]]

\* The first commit, and the commit over a programme of unknown duration (Case 1).
MayCommit(s, t) ==
    /\ t.name # NoName /\ t.score >= Threshold
    /\ t.ambiguous => t.persistent
    /\ s.duration = NoName \/ s.program = "detecting"

Commits(s, t) ==
    /\ MayCommit(s, t) /\ t.persistent
    /\ s.wins[t.name] >= IF t.ambiguous THEN ambiguousFactor * Persistence ELSE Persistence

\* Another programme than the one shown wins (Case 2).
MayReplace(s, t) ==
    /\ ~MayCommit(s, t)
    /\ t.name # NoName /\ s.program \in Profiles /\ t.name # s.program

Replaces(s, t, r, rising) ==
    LET shown == ScoreOf(r, s.program)
    IN /\ MayReplace(s, t) /\ t.score > shown
       /\ \/ t.decisive
          \/ t.persistent /\ (~t.ambiguous \/ rising) /\ t.score - shown > Lead

\* The shown programme wins with a low score (Case 3).
Fades(s, t) == /\ ~MayCommit(s, t)
               /\ s.program \in Profiles /\ t.name = s.program /\ t.score < Threshold

Healthy(s, t) ==
    /\ ~MayCommit(s, t) /\ t.name = s.program /\ t.score >= Threshold
    /\ t.name \in Profiles => ~Diverges(s, t.name, t.score)

\* Mutant: the duration of the programme that was shown stays.
MutShown(s, p) ==
    [s EXCEPT !.program = p, !.unmatch = 0, !.wins[p] = Persistence]

Shown(s, p) ==
    [s EXCEPT !.program = p, !.duration = Duration(p), !.unmatch = 0, !.wins[p] = Persistence]

Chooses(s, t, r, rising) == Commits(s, t) \/ Replaces(s, t, r, rising)

\* decide_switch.
Decided(s, t, r, rising) ==
    LET faded == Fades(s, t) /\ s.unmatch + 1 >= Persistence
        kept == CASE faded -> Unshown(s, t.name)
                  [] Fades(s, t) /\ ~faded -> [s EXCEPT !.unmatch = @ + 1]
                  [] Healthy(s, t) -> [s EXCEPT !.unmatch = 0]
                  [] OTHER -> s
    IN IF Chooses(s, t, r, rising) THEN Shown(s, t.name)
       ELSE IF t.name # kept.program /\ kept.duration = NoName
            THEN [kept EXCEPT !.program = "detecting"]
            ELSE kept

\* record_scores: every candidate's score joins its history.
Recorded(s, r) ==
    [s EXCEPT !.seen = [p \in Profiles |-> IF r.score[p] = 0 THEN @[p] ELSE Least(@[p] + 1, Trend)],
              !.peak = [p \in Profiles |-> IF r.score[p] > @[p] THEN r.score[p] ELSE @[p]]]

\* Mutant: under a verified pause every tick's winner is shown.
MutAdopts(t, verified) == verified \/ t.mismatch

Adopts(t, verified) == (verified /\ ~t.ambiguous /\ t.persistent) \/ t.mismatch

\* consistency_override.
Overridden(s, t, verified) ==
    IF t.name = s.program \/ ~Adopts(t, verified) THEN s
    ELSE IF t.name = NoName THEN [s EXCEPT !.program = "detecting", !.duration = NoName]
    ELSE [s EXCEPT !.program = t.name, !.duration = Duration(t.name)]

-----------------------------------------------------------------------------
SwitchInit ==
    /\ switch = FreshSwitch /\ pinned = FALSE
    /\ tick = NoTick /\ streak = NoWins /\ locked = NoName

\* A programme the user picked is not matched.
DispatchMatch ==
    /\ tick.at = "idle" /\ ~pinned
    /\ tick' = [NoTick EXCEPT !.at = "matching"]
    /\ UNCHANGED <<switch, pinned, streak, locked>>

\* The result is applied up to the await of the alignment check.
ResultReturns ==
    /\ tick.at = "matching"
    /\ \E r \in Results, rising \in BOOLEAN :
         LET begun == Begun(switch, r)
             decided == Decided(begun.state, begun.tick, r, rising)
             lost == /\ r.name \in Profiles /\ r.name = switch.program
                     /\ decided.program = "detecting"
         IN /\ rising => r.ambiguous /\ switch.seen[r.name] >= Trend
            /\ streak' = [p \in Profiles |->
                             IF p = r.name /\ ~lost THEN Capped(streak[p] + 1) ELSE 0]
            /\ locked' = CASE Chooses(begun.state, begun.tick, r, rising) -> begun.tick.name
                           [] r.name = locked /\ ~lost -> locked
                           [] OTHER -> NoName
            /\ tick' = [begun.tick EXCEPT !.dropped = lost]
            /\ switch' = Recorded(decided, r)
    /\ UNCHANGED pinned

\* The alignment check is back, or was not due: the rest of the tick.
CheckReturns ==
    /\ tick.at = "aligning"
    /\ \E verified \in BOOLEAN : switch' = Overridden(switch, tick, verified)
    /\ tick' = NoTick
    /\ UNCHANGED <<pinned, streak, locked>>

\* set_manual_program in a running cycle; a match under way is not stopped.
PinProgram ==
    /\ \E p \in Profiles : switch' = [switch EXCEPT !.program = p, !.duration = Duration(p)]
    /\ pinned' = TRUE
    /\ UNCHANGED <<tick, streak, locked>>

\* clear_manual_program
UnpinProgram ==
    /\ pinned
    /\ switch' = [switch EXCEPT !.program = "detecting", !.duration = NoName]
    /\ pinned' = FALSE
    /\ UNCHANGED <<tick, streak, locked>>

\* STARTING -> RUNNING.  A match of the last cycle is discarded; an armed programme
\* is pinned.
FreshCycle ==
    /\ \/ switch' = FreshSwitch /\ pinned' = FALSE
       \/ /\ \E p \in Profiles :
               switch' = [FreshSwitch EXCEPT !.program = p, !.duration = Duration(p)]
          /\ pinned' = TRUE
    /\ tick' = NoTick /\ streak' = NoWins /\ locked' = NoName

\* The programme comes back from the snapshot of the last reading; the counts do not.
RestoreProgram ==
    /\ switch' = [FreshSwitch EXCEPT !.program = switch.program,
                               !.duration = Duration(switch.program)]
    /\ tick' = NoTick /\ streak' = NoWins /\ locked' = NoName
    /\ UNCHANGED pinned

SwitchNext ==
    \/ DispatchMatch \/ ResultReturns \/ CheckReturns
    \/ PinProgram \/ UnpinProgram \/ FreshCycle \/ RestoreProgram

SwitchSpec == SwitchInit /\ [][SwitchNext]_switchVars

-----------------------------------------------------------------------------
\* The first disjunct is what the override does to a programme that the same result has
\* just dropped: it reads the persistence from before the drop and shows it again.  The
\* third is a count that decide_switch locked at match_persistence: it stays when the user
\* takes the programme off, and its next win is enough.
Earned(p, before, t, wins) ==
    \/ t.dropped /\ p = t.name
    \/ before \in Profiles /\ t.decisive
    \/ p = locked
    \/ wins[p] >= IF t.ambiguous /\ before \notin Profiles
                  THEN ambiguousFactor * Persistence ELSE Persistence

Decides == tick.at = "matching" /\ tick'.at = "aligning"

\* The matching task shows another programme only after it has won match_persistence
\* results in a row since it was last dropped, twice as many when it was a close call and
\* none was shown; or by a decisive margin over the one shown; or when it had been decided
\* on before and nothing else has won since: through the locked counters, the drops for a
\* falling or a low score, the override under a verified pause, the user's choices and
\* restarts.
ShownIsEarned ==
    [][switch'.program \in Profiles \ {switch.program} =>
         /\ Decides => Earned(switch'.program, switch.program, tick', streak')
         /\ CheckReturns => Earned(switch'.program, switch.program, tick, streak)]_switchVars

\* A programme that keeps winning clearly with a sufficient score is not held back: at
\* the latest with its match_persistence-th result in a row some programme is shown.
SteadyIsShown ==
    [][/\ Decides /\ tick'.name \in Profiles
       /\ tick'.score >= Threshold /\ ~tick'.ambiguous /\ streak'[tick'.name] >= Persistence
       => switch'.program \in Profiles]_switchVars

\* The expected duration is that of the programme shown, or unknown.
EtaIsOwn == switch.duration \in {NoName, switch.program}
=============================================================================
