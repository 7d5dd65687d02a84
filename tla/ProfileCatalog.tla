--------------------------- MODULE ProfileCatalog ---------------------------
(***************************************************************************)
(* The catalogue of one device (profile_store.py): stored cycles and the   *)
(* programme each is labelled with, profiles with the cycle each uses as   *)
(* its matching sample, the envelope built from a profile's cycles,        *)
(* pending review requests and profile groups.                             *)
(*                                                                         *)
(* Every edit is a coroutine: it changes labels, heals samples and then    *)
(* rebuilds the envelopes it touched, one after the other, each build      *)
(* awaiting the executor.  Other edits run in those awaits.  A coroutine   *)
(* runs until it awaits, so an edit is enabled only when every coroutine   *)
(* is waiting (Settled).                                                   *)
(*                                                                         *)
(* Traces and durations are left out: which of several own cycles becomes  *)
(* the sample (the one nearest the mean duration) is Pick, and an envelope *)
(* is known by the cycles it was built from.                               *)
(***************************************************************************)
EXTENDS Integers, FiniteSets

CONSTANTS
    None,        \* no profile, no cycle
    Names,       \* profile names
    Cycles,      \* cycle ids
    Short,       \* ids of cycles no build uses: not completed, or a minute at most
    Blank,       \* ids of cycles without a usable trace
    Groups,      \* profile group names
    Coroutines,  \* edits that may be under way at once
    StartNames,  \* the profiles of the initial catalogue,
    StartList,   \* the list of each of its cycles
    StartLabel,  \* and their labels
    MaxRev,      \* bound: rewrites of one cycle's trace
    MaxEdits     \* bound: edits of the catalogue

ASSUME CatalogAssumption ==
    /\ None \notin Names /\ None \notin Cycles /\ IsFiniteSet(Names)
    /\ Short \subseteq Cycles /\ Blank \subseteq Cycles
    /\ StartNames \subseteq Names
    /\ StartList \in [Cycles -> {"none", "past", "reference", "backfill"}]
    /\ StartLabel \in [Cycles -> StartNames \union {None}]
    /\ \A c \in Cycles : StartList[c] = "none" => StartLabel[c] = None
    /\ MaxRev \in Nat /\ MaxEdits \in Nat

VARIABLES
    list,      \* the list that holds a cycle: past_cycles, another, or none
    label,     \* profile_name of a cycle
    manual,    \* cycles whose label_source is "manual", in the list or taken from it
    rev,       \* revision of a cycle's trace
    profiles,  \* keys of the profiles dict
    sample,    \* sample_cycle_id of a profile
    profObj,   \* identity of a profile's dict
    env,       \* envelope of a name: its identity (0: none) and what it was built from
    memo,      \* _envelope_built_from
    job,       \* the coroutines
    pending,   \* detected_profile of the pending review request of a cycle
    member,    \* members of a profile group
    pass,      \* the auto-label pass
    tail,      \* a cycle end between its label verdict and its storing
    lost,      \* history: names whose owed rebuild went to a name renamed away, or that
               \* a rename gave to cycles or an envelope of an earlier profile
    edits      \* edits so far

catalogVars == <<list, label, manual, rev, profiles, sample, profObj, env, memo, job,
                 pending, member, pass, tail, lost, edits>>

cycleVars == <<list, label, manual, rev>>
profileVars == <<profiles, sample, profObj>>
envVars == <<env, memo>>
edgeVars == <<pass, tail, lost>>

\* Ids are hashes of a start and a duration: one that was given away is not given again.
Unused == {c \in Cycles : list[c] = "none"}
Past == {c \in Cycles : list[c] = "past"}
Others == {c \in Cycles : list[c] \in {"reference", "backfill"}}
Stored == Past \union Others

IdleJob == [left |-> {}, waits |-> FALSE, name |-> None, existed |-> FALSE, key |-> {},
            newest |-> FALSE, then |-> "done", cyc |-> None, best |-> None, verdict |-> FALSE,
            locks |-> FALSE]

IdlePass == [todo |-> {}, cyc |-> None, best |-> None, touched |-> {}, kind |-> "idle"]

NoTail == [open |-> FALSE, best |-> None, label |-> None, hand |-> FALSE]

NoMemo == [key |-> {}, env |-> 0, prof |-> 0, sample |-> None, set |-> FALSE]

\* Every coroutine has run to its next await: a build, or a save.
AtOnce == {"ask", "unask", "prune"}
Settled == \A j \in Coroutines :
    (job[j].left # {} \/ job[j].then \in AtOnce) => (job[j].name # None \/ job[j].waits)

Edit == Settled /\ edits < MaxEdits /\ edits' = edits + 1

Free(j) == job[j] = IdleJob

\* A coroutine that has the named envelopes to rebuild, then what is still to do.
Rebuilds(names, then, c) ==
    [IdleJob EXCEPT !.left = names \ {None}, !.then = then, !.cyc = c]

\* One with nothing left to do is over.
Rested(r) ==
    IF r.left = {} /\ r.name = None /\ ~r.waits /\ r.then = "done" THEN IdleJob ELSE r

Starts(j, work) == Free(j) /\ job' = [job EXCEPT ![j] = work]

\* The entry's write lock, which the panel's auto-label, split and merge hold.
LockFree == pass.kind # "panel" /\ \A j \in Coroutines : ~job[j].locks

-----------------------------------------------------------------------------
\* Samples.

Pick(S) == CHOOSE c \in S : TRUE

OwnOf(p, lab) == {c \in Cycles : lab[c] = p}

\* _select_reference_cycle_id: a completed own cycle with a trace.
Reference(p, lab) ==
    LET best == OwnOf(p, lab) \ (Short \union Blank)
    IN  IF best # {} THEN Pick(best) ELSE None

\* _own_sample_cycle_id: failing that, any own cycle with a trace.
OwnSample(p, lab) ==
    LET any == OwnOf(p, lab) \ Blank
    IN  IF Reference(p, lab) # None THEN Reference(p, lab)
        ELSE IF any # {} THEN Pick(any) ELSE None

MutHealed(p, s, lab, stored) == s

\* heal_profile_sample, on sample s of p once the cycles carry the labels lab.
\* A dangling sample is left alone.
Healed(p, s, lab, stored) ==
    IF s \in stored /\ lab[s] # p THEN OwnSample(p, lab) ELSE s

HealAll(ps, smp, lab, stored) ==
    [p \in Names |-> IF p \in ps \intersect profiles THEN Healed(p, smp[p], lab, stored) ELSE smp[p]]

-----------------------------------------------------------------------------
\* Envelopes.

\* _envelope_inputs: the cycles of a name, each with its trace's revision, and
\* what a build writes.
Key(p) == {<<c, rev[c]>> : c \in OwnOf(p, label)}
Inputs(p) == [key |-> Key(p), env |-> env[p].obj, prof |-> profObj[p],
              sample |-> sample[p], set |-> TRUE]

Eligible(key) == {r \in key : r[1] \notin Short}
ShapeOf(key) == {r \in key : r[1] \notin Short \union Blank}

NoEnv == [obj |-> 0, from |-> {}]

Tokens == 1..(2 * Cardinality(Names) + 1)
NewEnvObj == CHOOSE t \in Tokens : \A q \in Names : env[q].obj # t /\ memo[q].env # t
NewProfObj == CHOOSE t \in Tokens : \A q \in Names : profObj[q] # t /\ memo[q].prof # t

\* Samples that dangle: cleanup_orphaned_profiles deletes their profiles.
Dangling(smp, stored) == {p \in profiles : smp[p] # None /\ smp[p] \notin stored}

\* The profile dict without the names ps; their envelopes stay.
Dropped(ps) ==
    /\ profiles' = profiles \ ps
    /\ sample' = [p \in Names |-> IF p \in ps THEN None ELSE sample[p]]
    /\ profObj' = [p \in Names |-> IF p \in ps THEN 0 ELSE profObj[p]]

\* Some coroutine still has to rebuild p, or its newest build is under way.
Owed(p) == \E j \in Coroutines : p \in job[j].left \/ (job[j].name = p /\ job[j].newest)

-----------------------------------------------------------------------------
CatalogInit ==
    /\ list = StartList
    /\ label = StartLabel
    /\ manual = {}
    /\ rev = [c \in Cycles |-> 0]
    /\ profiles = StartNames
    /\ sample = [p \in Names |-> OwnSample(p, label)]
    /\ profObj = [p \in Names |-> IF p \in StartNames THEN 1 ELSE 0]
    /\ env = [p \in Names |-> IF ShapeOf(Key(p)) = {} THEN NoEnv
                              ELSE [obj |-> 1, from |-> ShapeOf(Key(p))]]
    /\ memo = [p \in Names |-> NoMemo]
    /\ job = [j \in Coroutines |-> IdleJob]
    /\ pending = [c \in Cycles |-> None]
    /\ member = [g \in Groups |-> {}]
    /\ pass = IdlePass
    /\ tail = NoTail
    /\ lost = {}
    /\ edits = 0

-----------------------------------------------------------------------------
\* async_rebuild_envelope, up to its await.

\* Any build of n still in the executor is no longer the newest.
Superseded(n) ==
    [k \in Coroutines |-> IF job[k].name = n THEN [job[k] EXCEPT !.newest = FALSE] ELSE job[k]]

Starting(j, n) == n \in job[j].left /\ job[j].name = None /\ ~job[j].waits

\* The rebuild of n is no longer one to do.
Taken(r, n) == [r EXCEPT !.left = @ \ {n}]

\* Nothing the build reads has changed since the last one: nothing to do.
SkipBuild(j, n) ==
    /\ Starting(j, n) /\ memo[n] = Inputs(n)
    /\ job' = [job EXCEPT ![j] = Rested(Taken(@, n))]
    /\ UNCHANGED <<cycleVars, profileVars, envVars, pending, member, edgeVars, edits>>

\* No cycle to build from: the envelope goes.
EmptyBuild(j, n) ==
    /\ Starting(j, n) /\ memo[n] # Inputs(n) /\ Eligible(Key(n)) = {}
    /\ memo' = [memo EXCEPT ![n] = NoMemo]
    /\ env' = [env EXCEPT ![n] = NoEnv]
    /\ job' = [Superseded(n) EXCEPT ![j] = Rested(Taken(@, n))]
    /\ lost' = lost \ {n}
    /\ UNCHANGED <<cycleVars, profileVars, pending, member, pass, tail, edits>>

BeginBuild(j, n) ==
    /\ Starting(j, n) /\ memo[n] # Inputs(n) /\ Eligible(Key(n)) # {}
    /\ memo' = [memo EXCEPT ![n] = NoMemo]
    /\ job' = [Superseded(n) EXCEPT ![j] =
                 [Taken(@, n) EXCEPT !.name = n, !.existed = (n \in profiles), !.key = Key(n),
                                     !.newest = TRUE]]
    /\ UNCHANGED <<cycleVars, profileVars, env, pending, member, edgeVars, edits>>

\* and from the executor on: back in the coroutine, with the next rebuild or
\* what follows them.
Resumed(j) ==
    [job EXCEPT ![j] = Rested([@ EXCEPT !.name = None, !.existed = FALSE, !.key = {},
                                        !.newest = FALSE])]

\* Only the newest build of a profile writes, and not once the profile it
\* started for is gone.
Obsolete(j) == ~job[j].newest \/ (job[j].existed /\ job[j].name \notin profiles)

DiscardBuild(j) ==
    /\ Settled /\ job[j].name # None /\ Obsolete(j)
    /\ job' = Resumed(j)
    /\ UNCHANGED <<cycleVars, profileVars, envVars, pending, member, edgeVars, edits>>

\* A build makes up for a lost rebuild unless its evidence is older.
StillLost(n, key) == IF key = Key(n) THEN lost \ {n} ELSE lost

\* The traces gave no curve: the envelope goes.
WriteNone(j) ==
    LET n == job[j].name IN
    /\ Settled /\ n # None /\ ~Obsolete(j) /\ ShapeOf(job[j].key) = {}
    /\ env' = [env EXCEPT ![n] = NoEnv]
    /\ job' = Resumed(j)
    /\ lost' = StillLost(n, job[j].key)
    /\ UNCHANGED <<cycleVars, profileVars, memo, pending, member, pass, tail, edits>>

\* The build is remembered unless its evidence moved while the executor ran.
Remembered(n, key) == key = Key(n)

WriteBuild(j) ==
    LET n == job[j].name
        ref == Reference(n, label)
    IN
    /\ Settled /\ n # None /\ ~Obsolete(j) /\ ShapeOf(job[j].key) # {}
    /\ sample' = IF n \in profiles /\ ref # None THEN [sample EXCEPT ![n] = ref] ELSE sample
    /\ env' = [env EXCEPT ![n] = [obj |-> NewEnvObj, from |-> ShapeOf(job[j].key)]]
    /\ memo' = [p \in Names |->
                  IF p \notin profiles THEN NoMemo
                  ELSE IF p = n /\ Remembered(n, job[j].key)
                  THEN [key |-> Key(n), env |-> env'[n].obj, prof |-> profObj[n],
                        sample |-> sample'[n], set |-> TRUE]
                  ELSE memo[p]]
    /\ job' = Resumed(j)
    /\ lost' = StillLost(n, job[j].key)
    /\ UNCHANGED <<cycleVars, profiles, profObj, pending, member, pass, tail, edits>>

-----------------------------------------------------------------------------
\* Profiles.

MutLeft(old, new) == {new}

\* The envelopes a relabel touches: the profile that gains the cycle and the
\* one it left.
Touched(old, new) == {old, new} \ {None}

\* create_profile: a cycle becomes a profile of the name (a fresh dict, also
\* where the name exists) and leaves the one it had.
CreateProfile(j, c, p) ==
    /\ Edit /\ c \in Stored
    /\ label' = [label EXCEPT ![c] = p]
    /\ profiles' = profiles \union {p}
    /\ sample' = HealAll({label[c]} \ {p}, [sample EXCEPT ![p] = c], label', Stored)
    /\ profObj' = [profObj EXCEPT ![p] = NewProfObj]
    /\ Starts(j, Rebuilds(Touched(label[c], p), "resolve", c))
    /\ UNCHANGED <<list, manual, rev, envVars, pending, member, edgeVars>>

\* create_profile_standalone, with or without a reference cycle.  A cycle of
\* another programme seeds the duration only.
CreateStandalone(j, p, c) ==
    LET lab == IF c # None /\ label[c] = None THEN [label EXCEPT ![c] = p] ELSE label
        smp == IF c = None THEN None ELSE Healed(p, c, lab, Stored)
    IN
    /\ Edit /\ p \notin profiles /\ c \in Stored \union {None}
    /\ label' = lab
    /\ profiles' = profiles \union {p}
    /\ sample' = [sample EXCEPT ![p] = smp]
    /\ profObj' = [profObj EXCEPT ![p] = NewProfObj]
    /\ Starts(j, Rebuilds({p}, "done", None))
    /\ UNCHANGED <<list, manual, rev, envVars, pending, member, edgeVars>>

\* What an earlier profile of the name q left falls to p: cycles that kept its label, an
\* envelope that p has none to replace with, a build under way.
Inherits(p, q) ==
    \/ OwnOf(q, label) # {} \/ (env[p].obj = 0 /\ env[q].obj # 0)
    \/ \E j \in Coroutines : job[j].name = q /\ job[j].newest

\* update_profile with a new name: everything moves in place, nothing is rebuilt.
Rename(p, q) ==
    /\ Edit /\ p \in profiles /\ q \notin profiles
    /\ profiles' = (profiles \ {p}) \union {q}
    /\ sample' = [sample EXCEPT ![q] = sample[p], ![p] = None]
    /\ profObj' = [profObj EXCEPT ![q] = profObj[p], ![p] = 0]
    /\ env' = IF env[p].obj # 0 THEN [env EXCEPT ![q] = env[p], ![p] = NoEnv] ELSE env
    /\ label' = [c \in Cycles |-> IF label[c] = p THEN q ELSE label[c]]
    /\ pending' = [c \in Cycles |-> IF pending[c] = p THEN q ELSE pending[c]]
    /\ member' = [g \in Groups |-> IF p \in member[g] THEN (member[g] \ {p}) \union {q}
                                   ELSE member[g]]
    /\ lost' = IF Owed(p) \/ p \in lost \union pass.touched \/ Inherits(p, q)
               THEN (lost \ {p}) \union {q} ELSE lost \ {p, q}
    /\ UNCHANGED <<list, manual, rev, memo, job, pass, tail>>

\* delete_profile: cycles lose the label, or keep it for a name that is gone.
DeleteProfile(p, unlabel) ==
    /\ Edit /\ p \in profiles
    /\ Dropped({p})
    /\ env' = [env EXCEPT ![p] = NoEnv]
    /\ label' = [c \in Cycles |-> IF unlabel /\ label[c] = p THEN None ELSE label[c]]
    /\ UNCHANGED <<list, manual, rev, memo, job, pending, member, edgeVars>>

\* async_rebuild_all_envelopes.
RebuildAll(j) ==
    /\ Edit /\ profiles # {} /\ Starts(j, Rebuilds(profiles, "done", None))
    /\ UNCHANGED <<cycleVars, profileVars, envVars, pending, member, edgeVars>>

-----------------------------------------------------------------------------
\* Labels.

\* assign_profile_to_cycle on a real cycle.
Assign(j, c, p) ==
    LET first == IF p # None /\ sample[p] = None THEN [sample EXCEPT ![p] = c] ELSE sample IN
    /\ Edit /\ c \in Past /\ p \in profiles \union {None}
    /\ label' = [label EXCEPT ![c] = p]
    /\ manual' = IF p # None THEN manual \union {c} ELSE manual \ {c}
    /\ sample' = HealAll({label[c], p} \ {None}, first, label', Stored)
    /\ Starts(j, Rebuilds(Touched(label[c], p), "tidy", c))
    /\ UNCHANGED <<list, rev, profiles, profObj, envVars, pending, member, edgeVars>>

\* _relabel_non_real_cycle: the sample heals, and a profile left without any
\* cycle is dropped with its envelope.
Emptied(old, lab) == old # None /\ OwnOf(old, lab) = {}

Relabelled(c, p) ==
    /\ label' = [label EXCEPT ![c] = p]
    /\ IF label[c] # p /\ Emptied(label[c], label')
       THEN Dropped({label[c]}) /\ env' = [env EXCEPT ![label[c]] = NoEnv]
       ELSE /\ sample' = HealAll({label[c]} \ {p}, sample, label', Stored)
            /\ UNCHANGED <<profiles, profObj, env>>

RelabelTouches(c, p) ==
    {n \in Touched(label[c], p) : n = p \/ ~Emptied(n, [label EXCEPT ![c] = p])}

\* _assign_reference_cycle_profile.
AssignOther(j, c, p) ==
    /\ Edit /\ c \in Others /\ p \in profiles \union {None}
    /\ Relabelled(c, p)
    /\ manual' = IF p # None THEN manual \union {c} ELSE manual \ {c}
    /\ Starts(j, Rebuilds(RelabelTouches(c, p), "resolve", c))
    /\ UNCHANGED <<list, rev, memo, pending, member, edgeVars>>

\* The label of a review request's answer.  A name that is gone comes back as a
\* label without a profile.
Answered(j, c, p, detected) ==
    /\ label' = IF c \in Past THEN [label EXCEPT ![c] = p] ELSE label
    /\ manual' = IF c \in Past THEN manual \union {c} ELSE manual
    /\ sample' = HealAll(IF c \in Past THEN {label[c]} \ {p, None} ELSE {}, sample, label', Stored)
    /\ pending' = [pending EXCEPT ![c] = None]
    /\ Starts(j, Rebuilds({p, detected} \union (IF c \in Past THEN {label[c]} ELSE {}), "done", None))
    /\ UNCHANGED <<list, rev, profiles, profObj, envVars, member, edgeVars>>

\* async_submit_cycle_feedback: confirmed, corrected, dismissed.
Confirm(j, c) ==
    Edit /\ pending[c] # None /\ Answered(j, c, pending[c], None)

Correct(j, c, p) ==
    Edit /\ pending[c] # None /\ p \in profiles /\ Answered(j, c, p, pending[c])

Dismiss(c) ==
    /\ Edit /\ pending[c] # None
    /\ pending' = [pending EXCEPT ![c] = None]
    /\ UNCHANGED <<cycleVars, profileVars, envVars, job, member, edgeVars>>

-----------------------------------------------------------------------------
\* The cycles themselves.

Unsampled(gone) == [p \in Names |-> IF sample[p] \in gone THEN None ELSE sample[p]]

\* delete_cycle: no profile keeps the id as its sample, no request stays for it.
DeleteCycle(j, c) ==
    /\ Edit /\ c \in Past
    /\ list' = [list EXCEPT ![c] = "gone"]
    /\ label' = [label EXCEPT ![c] = None]
    /\ sample' = Unsampled({c})
    /\ pending' = [pending EXCEPT ![c] = None]
    /\ IF label[c] # None THEN Starts(j, Rebuilds({label[c]}, "done", None)) ELSE UNCHANGED job
    /\ UNCHANGED <<manual, rev, profiles, profObj, envVars, member, edgeVars>>

\* _delete_non_real_cycle: a profile it leaves without any cycle goes too.
DeleteOther(j, c) ==
    LET gone == IF Emptied(label[c], [label EXCEPT ![c] = None]) THEN {label[c]} ELSE {} IN
    /\ Edit /\ c \in Others
    /\ list' = [list EXCEPT ![c] = "gone"]
    /\ label' = [label EXCEPT ![c] = None]
    /\ profiles' = profiles \ gone
    /\ sample' = [p \in Names |-> IF p \in gone THEN None ELSE Unsampled({c})[p]]
    /\ profObj' = [p \in Names |-> IF p \in gone THEN 0 ELSE profObj[p]]
    /\ env' = [p \in Names |-> IF p \in gone THEN NoEnv ELSE env[p]]
    /\ IF label[c] # None /\ gone = {} THEN Starts(j, Rebuilds({label[c]}, "done", None))
       ELSE UNCHANGED job
    /\ UNCHANGED <<manual, rev, memo, pending, member, edgeVars>>

\* add_reference_cycle: a downloaded recording, and its profile where there is none.
AddReference(j, c, p) ==
    /\ Edit /\ c \in Unused \ (Short \union Blank)
    /\ list' = [list EXCEPT ![c] = "reference"]
    /\ label' = [label EXCEPT ![c] = p]
    /\ profiles' = profiles \union {p}
    /\ profObj' = IF p \in profiles THEN profObj ELSE [profObj EXCEPT ![p] = NewProfObj]
    /\ Starts(j, Rebuilds({p}, "done", None))
    /\ UNCHANGED <<manual, rev, sample, envVars, pending, member, edgeVars>>

\* trim_cycle_power_data.
Trim(j, c) ==
    /\ Edit /\ c \in Past \ Blank /\ rev[c] < MaxRev
    /\ rev' = [rev EXCEPT ![c] = @ + 1]
    /\ IF label[c] # None THEN Starts(j, Rebuilds({label[c]}, "done", None)) ELSE UNCHANGED job
    /\ UNCHANGED <<list, label, manual, profileVars, envVars, pending, member, edgeVars>>

\* prune_orphaned_feedback.
PrunedFeedback(past) == [c \in Cycles |-> IF c \in past THEN pending[c] ELSE None]

\* apply_split_interactive, into pieces d and e.  The profile the cycle was
\* labelled with takes a piece that kept its label as its sample; whoever else
\* sampled the cycle takes one of its own.
Split(j, c, d, e, labD, labE) ==
    LET lab == [label EXCEPT ![c] = None, ![d] = labD, ![e] = labE]
        kept == {x \in {d, e} : lab[x] = label[c]}
    IN
    /\ Edit /\ LockFree /\ c \in Past \ Blank
    /\ {d, e} \subseteq Unused \ Blank /\ d # e
    /\ {labD, labE} \subseteq profiles \union {None}
    /\ list' = [list EXCEPT ![c] = "gone", ![d] = "past", ![e] = "past"]
    /\ label' = lab
    /\ sample' = [p \in Names |->
                    IF sample[p] # c THEN sample[p]
                    ELSE IF p = label[c] /\ kept # {} THEN Pick(kept)
                    ELSE OwnSample(p, lab)]
    /\ Starts(j, [Rebuilds({label[c], labD, labE}, "unask", None) EXCEPT !.locks = TRUE])
    /\ UNCHANGED <<manual, rev, profiles, profObj, envVars, pending, member, edgeVars>>

\* apply_merge_interactive of c and the later d into a cycle of a new id.  A part
\* without a trace is left where it is.  The save comes before the rebuilds.
Merge(j, c, d, new, p) ==
    LET consumed == {c} \union ({d} \ Blank)
        lab == [x \in Cycles |-> IF x = new THEN p ELSE IF x \in consumed THEN None ELSE label[x]]
        moved == [n \in Names |-> IF sample[n] \in consumed THEN new ELSE sample[n]]
    IN
    /\ Edit /\ LockFree /\ {c, d} \subseteq Past /\ c # d /\ new \in Unused
    /\ (new \in Blank <=> {c, d} \subseteq Blank) /\ (new \in Short <=> c \in Short)
    /\ p \in profiles \union {None}
    /\ list' = [x \in Cycles |-> IF x = new THEN "past" ELSE IF x \in consumed THEN "gone" ELSE list[x]]
    /\ label' = lab
    /\ manual' = manual \union (IF c \in manual THEN {new} ELSE {})
    /\ sample' = HealAll({n \in profiles : moved[n] = new}, moved, lab, (Stored \ consumed) \union {new})
    /\ pending' = PrunedFeedback((Past \ consumed) \union {new})
    /\ Starts(j, [Rebuilds({label[c], label[d], p}, "done", None) EXCEPT !.waits = TRUE, !.locks = TRUE])
    /\ UNCHANGED <<rev, profiles, profObj, envVars, member, edgeVars>>

\* The save is done.
SaveDone(j) ==
    /\ Settled /\ job[j].waits
    /\ job' = [job EXCEPT ![j] = Rested([@ EXCEPT !.waits = FALSE])]
    /\ UNCHANGED <<cycleVars, profileVars, envVars, pending, member, edgeVars, edits>>

-----------------------------------------------------------------------------
\* The end of a cycle (manager.py): the label verdict, awaits, the storing with
\* its rebuild, then the review request.

TailVerdict(best, lab, hand) ==
    /\ Edit /\ ~tail.open
    /\ best \in profiles \union {None} /\ lab \in {best, None} /\ (hand => lab # None)
    /\ tail' = [open |-> TRUE, best |-> best, label |-> lab, hand |-> hand]
    /\ UNCHANGED <<cycleVars, profileVars, envVars, job, pending, member, pass, lost>>

TailAdd(j, c) ==
    /\ Settled /\ tail.open /\ c \in Unused
    /\ list' = [list EXCEPT ![c] = "past"]
    /\ label' = [label EXCEPT ![c] = tail.label]
    /\ manual' = IF tail.hand THEN manual \union {c} ELSE manual
    /\ tail' = NoTail
    /\ Starts(j, [Rebuilds({tail.label}, "ask", c) EXCEPT !.best = tail.best,
                                                        !.verdict = (tail.label # None)])
    /\ UNCHANGED <<rev, profileVars, envVars, pending, member, pass, lost, edits>>

Ends(j, then) == job[j].then = then /\ job[j].left = {} /\ job[j].name = None /\ ~job[j].waits

\* process_cycle_end.  A hand-picked cycle is left alone; another may be asked
\* about, or, with a verdict for its label, be labelled if it has no other.
TailAsk(j, how) ==
    LET c == job[j].cyc
        detected == IF label[c] # None THEN label[c] ELSE job[j].best
        labels == how = "label" /\ c \in Past
    IN
    /\ Ends(j, "ask")
    /\ how # "nothing" => detected # None /\ c \notin manual
    /\ how = "label" => job[j].verdict \/ label[c] # None
    /\ pending' = IF how = "ask" THEN [pending EXCEPT ![c] = detected] ELSE pending
    /\ label' = IF labels THEN [label EXCEPT ![c] = detected] ELSE label
    /\ job' = [job EXCEPT ![j] = Rebuilds(IF labels THEN {detected} ELSE {}, "done", None)]
    /\ UNCHANGED <<list, manual, rev, profileVars, envVars, member, edgeVars, edits>>

\* The end of a split: prune_orphaned_feedback.
Unask(j) ==
    /\ Ends(j, "unask")
    /\ pending' = PrunedFeedback(Past)
    /\ job' = [job EXCEPT ![j] = IdleJob]
    /\ UNCHANGED <<cycleVars, profileVars, envVars, member, edgeVars, edits>>

\* async_resolve_pending_from_label: the label was the answer.
Resolve(j) ==
    /\ Settled /\ Ends(j, "resolve")
    /\ pending' = [pending EXCEPT ![job[j].cyc] = None]
    /\ job' = [job EXCEPT ![j] = IdleJob]
    /\ UNCHANGED <<cycleVars, profileVars, envVars, member, edgeVars, edits>>

\* async_smart_process_history: cleanup_orphaned_profiles deletes every profile
\* whose sample is no stored cycle; the envelopes stay.
Cleaned == Dropped(Dangling(sample, Stored))

Tidy(j) ==
    /\ Settled /\ Ends(j, "tidy")
    /\ Cleaned
    /\ job' = [job EXCEPT ![j] = [@ EXCEPT !.then = IF job[j].cyc = None THEN "done" ELSE "resolve"]]
    /\ UNCHANGED <<cycleVars, envVars, pending, member, edgeVars, edits>>

-----------------------------------------------------------------------------
\* auto_label_cycles: real and backfilled cycles that have no label, one match
\* after the other.  The panel's holds the write lock; the nightly one is the
\* second step of async_run_maintenance, whose first is the cleanup.

StartPass(kind) ==
    /\ Edit /\ pass.kind = "idle"
    /\ IF kind = "panel" THEN LockFree /\ UNCHANGED profileVars ELSE Cleaned
    /\ pass' = [IdlePass EXCEPT !.kind = kind,
                  !.todo = {c \in Cycles : list[c] \in {"past", "backfill"} /\ label[c] = None}]
    /\ UNCHANGED <<cycleVars, envVars, job, pending, member, tail, lost>>

\* The matcher goes to the executor with the profiles there are now.  A manual
\* label is looked for here, and a trace that is too short ends here.
PassMatch(c, best) ==
    /\ Settled /\ pass.cyc = None /\ c \in pass.todo
    /\ best \in profiles \union {None}
    /\ c \in manual \union Blank => best = None
    /\ pass' = [pass EXCEPT !.todo = @ \ {c}, !.best = best,
                            !.cyc = IF best = None THEN None ELSE c]
    /\ UNCHANGED <<cycleVars, profileVars, envVars, job, pending, member, tail, lost, edits>>

\* The verdict is applied to whatever the cycle has become.
PassApply ==
    LET c == pass.cyc
        best == pass.best
    IN
    /\ Settled /\ c # None /\ (list[c] = "backfill" => best \in profiles)
    /\ IF c \notin Stored \/ label[c] = best
       THEN UNCHANGED <<label, manual, profileVars, env>>
       ELSE /\ manual' = manual \ {c}
            /\ IF list[c] = "past"
               THEN /\ label' = [label EXCEPT ![c] = best]
                    /\ sample' = HealAll({label[c]}, sample, label', Stored)
                    /\ UNCHANGED <<profiles, profObj, env>>
               ELSE Relabelled(c, best)
    /\ pass' = [pass EXCEPT !.cyc = None, !.best = None,
                  !.touched = @ \union (IF list[c] = "backfill" THEN RelabelTouches(c, best)
                                        ELSE Touched(label[c], best))]
    /\ UNCHANGED <<list, rev, memo, job, pending, member, tail, lost, edits>>

\* A backfilled cycle cannot move to a profile that is gone: the pass raises, and
\* what it relabelled so far waits for another rebuild.
PassAbort ==
    /\ Settled /\ pass.cyc # None /\ list[pass.cyc] = "backfill" /\ pass.best \notin profiles
    /\ pass' = IdlePass
    /\ lost' = lost \union pass.touched
    /\ UNCHANGED <<cycleVars, profileVars, envVars, job, pending, member, tail, edits>>

\* The pass is through, or the user cancelled the panel's.
PassEnd(j) ==
    /\ Settled /\ pass.kind # "idle" /\ pass.cyc = None
    /\ pass.todo = {} \/ pass.kind = "panel"
    /\ LET then == IF pass.kind = "nightly" THEN "nightly" ELSE IF pass.touched = {} THEN "done" ELSE "tidy"
       IN  Starts(j, Rested([Rebuilds(pass.touched, then, None) EXCEPT !.locks = (pass.kind = "panel")]))
    /\ pass' = IdlePass
    /\ UNCHANGED <<cycleVars, profileVars, envVars, pending, member, tail, lost, edits>>

\* async_run_maintenance goes on: smart processing, every envelope, and then
\* prune_orphaned_envelopes.
Nightly(j) ==
    /\ Settled /\ Ends(j, "nightly")
    /\ Cleaned
    /\ job' = [job EXCEPT ![j] = Rebuilds(profiles', "prune", None)]
    /\ UNCHANGED <<cycleVars, envVars, pending, member, edgeVars, edits>>

Prune(j) ==
    /\ Ends(j, "prune")
    /\ env' = [p \in Names |-> IF p \in profiles THEN env[p] ELSE NoEnv]
    /\ job' = [job EXCEPT ![j] = IdleJob]
    /\ UNCHANGED <<cycleVars, profileVars, memo, pending, member, edgeVars, edits>>

-----------------------------------------------------------------------------
\* Profile groups.  Every read drops the members that are no profile any more.
Present == [g \in Groups |-> member[g] \intersect profiles]

ReadGroups ==
    /\ Settled /\ member' = Present
    /\ UNCHANGED <<cycleVars, profileVars, envVars, job, pending, edgeVars, edits>>

\* _members_in_other_groups.
Elsewhere(g, ps) == \E h \in Groups \ {g} : ps \intersect Present[h] # {}

\* create_profile_group and set_profile_group_members.
SetGroup(g, ps) ==
    /\ Edit /\ ps \subseteq profiles /\ ~Elsewhere(g, ps)
    /\ member' = [Present EXCEPT ![g] = ps]
    /\ UNCHANGED <<cycleVars, profileVars, envVars, job, pending, edgeVars>>

\* rename_profile_group and delete_profile_group.
RenameGroup(g, h) ==
    /\ Edit /\ member[g] # {} /\ member[h] = {} /\ g # h
    /\ member' = [Present EXCEPT ![h] = Present[g], ![g] = {}]
    /\ UNCHANGED <<cycleVars, profileVars, envVars, job, pending, edgeVars>>

DeleteGroup(g) ==
    /\ Edit /\ member[g] # {}
    /\ member' = [Present EXCEPT ![g] = {}]
    /\ UNCHANGED <<cycleVars, profileVars, envVars, job, pending, edgeVars>>

\* clear_all_data.  Coroutines under way go on.
ClearAll ==
    /\ Edit /\ profiles \union Stored # {}
    /\ list' = [c \in Cycles |-> IF c \in Stored THEN "gone" ELSE list[c]]
    /\ label' = [c \in Cycles |-> None]
    /\ Dropped(profiles)
    /\ env' = [p \in Names |-> NoEnv]
    /\ pending' = [c \in Cycles |-> None]
    /\ member' = [g \in Groups |-> {}]
    /\ UNCHANGED <<manual, rev, memo, job, edgeVars>>

-----------------------------------------------------------------------------
CatalogNext ==
    \/ \E j \in Coroutines : SaveDone(j) \/ DiscardBuild(j) \/ WriteNone(j) \/ WriteBuild(j)
    \/ \E j \in Coroutines : \E n \in job[j].left : SkipBuild(j, n) \/ EmptyBuild(j, n) \/ BeginBuild(j, n)
    \/ \E j \in Coroutines : Unask(j) \/ Resolve(j) \/ Tidy(j) \/ Nightly(j) \/ Prune(j) \/ PassEnd(j)
    \/ \E j \in Coroutines, how \in {"nothing", "ask", "label"} : TailAsk(j, how)
    \/ \E j \in Coroutines, c \in Stored, p \in Names : CreateProfile(j, c, p)
    \/ \E j \in Coroutines, c \in Stored \union {None}, p \in Names : CreateStandalone(j, p, c)
    \/ \E j \in Coroutines, c \in Unused, p \in Names : AddReference(j, c, p)
    \/ \E p \in profiles, q \in Names : Rename(p, q)
    \/ \E p \in profiles, unlabel \in BOOLEAN : DeleteProfile(p, unlabel)
    \/ \E j \in Coroutines : RebuildAll(j)
    \/ \E j \in Coroutines, c \in Stored, p \in profiles \union {None} : Assign(j, c, p) \/ AssignOther(j, c, p)
    \/ \E j \in Coroutines, c \in Stored : DeleteCycle(j, c) \/ DeleteOther(j, c) \/ Trim(j, c)
    \/ \E c \in {x \in Cycles : pending[x] # None} :
          \/ Dismiss(c)
          \/ \E j \in Coroutines : Confirm(j, c) \/ \E p \in profiles : Correct(j, c, p)
    \/ \E j \in Coroutines, c \in Past, d, e \in Unused, m, n \in profiles \union {None} : Split(j, c, d, e, m, n)
    \/ \E j \in Coroutines, c, d \in Past, new \in Unused, p \in profiles \union {None} : Merge(j, c, d, new, p)
    \/ \E best, lab \in profiles \union {None}, hand \in BOOLEAN : TailVerdict(best, lab, hand)
    \/ \E j \in Coroutines, c \in Unused : TailAdd(j, c)
    \/ \E kind \in {"panel", "nightly"} : StartPass(kind)
    \/ \E c \in pass.todo, best \in profiles \union {None} : PassMatch(c, best)
    \/ PassApply \/ PassAbort
    \/ \E g \in Groups, ps \in SUBSET profiles : SetGroup(g, ps)
    \/ \E g, h \in Groups : RenameGroup(g, h)
    \/ \E g \in Groups : DeleteGroup(g)
    \/ ReadGroups \/ ClearAll

CatalogSpec == CatalogInit /\ [][CatalogNext]_catalogVars

-----------------------------------------------------------------------------
\* A profile's sample is one of its own stored cycles: no relabel, split, merge,
\* deletion or rename, in whatever order with the builds that re-point samples,
\* leaves another programme's run as the matching template, or an id that
\* cleanup_orphaned_profiles would delete the profile for.
SampleIsOwn ==
    \A p \in Names : sample[p] # None => p \in profiles /\ sample[p] \in Stored /\ label[sample[p]] = p

\* A profile's envelope is built from exactly the cycles it has now, unless the
\* rebuild is still owed: no build finishing late puts an older set back, and none
\* is skipped as unchanged that would write another one.
EnvelopeFresh ==
    /\ \A p \in profiles : \/ Owed(p) \/ p \in lost \/ env[p].from = ShapeOf(Key(p))
                           \/ (pass.kind # "idle" /\ p \in pass.touched)
    /\ \A p \in Names : memo[p] = Inputs(p) => env[p].from = ShapeOf(Key(p))
=============================================================================
