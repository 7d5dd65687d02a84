------------------------ MODULE ProfileCatalog_proof ------------------------
(***************************************************************************)
(* Proofs about the catalogue of profiles (ProfileCatalog), for any names, *)
(* cycles, coroutines and edits, with names that are used again: the       *)
(* samples, and the envelopes.                                             *)
(***************************************************************************)
EXTENDS ProfileCatalog, FiniteSetTheorems, TLAPS

Labels == Names \union {None}
CycleOrNone == Cycles \union {None}
Lists == {"none", "past", "reference", "backfill", "gone"}
Thens == {"done", "ask", "unask", "resolve", "tidy", "nightly", "prune"}

Jobs == [left : SUBSET Names, waits : BOOLEAN, name : Labels, existed : BOOLEAN,
         key : SUBSET (Cycles \X Nat), newest : BOOLEAN, then : Thens, cyc : CycleOrNone,
         best : Labels, verdict : BOOLEAN, locks : BOOLEAN]
Passes == [todo : SUBSET Cycles, cyc : CycleOrNone, best : Labels, touched : SUBSET Names,
           kind : {"idle", "panel", "nightly"}]
Tails == [open : BOOLEAN, best : Labels, label : Labels, hand : BOOLEAN]

\* What the coroutines carry over their awaits.
CarriedTyped ==
    /\ job \in [Coroutines -> Jobs] /\ pending \in [Cycles -> Labels]
    /\ pass \in Passes /\ tail \in Tails

CatalogTyped ==
    /\ list \in [Cycles -> Lists] /\ label \in [Cycles -> Labels] /\ rev \in [Cycles -> Nat]
    /\ profiles \subseteq Names /\ sample \in [Names -> CycleOrNone]

\* Only a stored cycle has a label.
LabelledStored == \A c \in Cycles : label[c] # None => c \in Stored

SamplesInv == CatalogTyped /\ CarriedTyped /\ LabelledStored /\ SampleIsOwn

-----------------------------------------------------------------------------
(* What heals a sample.                                                    *)

LEMMA OwnSampleFacts ==
    ASSUME NEW p \in Names, NEW lab \in [Cycles -> Labels]
    PROVE  /\ OwnSample(p, lab) \in CycleOrNone /\ Reference(p, lab) \in CycleOrNone
           /\ OwnSample(p, lab) # None => lab[OwnSample(p, lab)] = p
           /\ Reference(p, lab) # None => lab[Reference(p, lab)] = p
<1>1. \A S \in SUBSET OwnOf(p, lab) : S # {} => Pick(S) \in Cycles /\ lab[Pick(S)] = p
  BY DEF Pick, OwnOf
<1>2. Reference(p, lab) \in CycleOrNone /\ (Reference(p, lab) # None => lab[Reference(p, lab)] = p)
  BY <1>1 DEF Reference, CycleOrNone
<1>3. OwnSample(p, lab) \in CycleOrNone /\ (OwnSample(p, lab) # None => lab[OwnSample(p, lab)] = p)
  BY <1>1, <1>2 DEF OwnSample, CycleOrNone
<1> QED
  BY <1>2, <1>3

\* The samples smp belong to profiles of profs, in a catalogue with labels lab.
Own(smp, lab, stored, profs) ==
    \A p \in Names : smp[p] # None => p \in profs /\ smp[p] \in stored /\ lab[smp[p]] = p

LEMMA Healing ==
    ASSUME NEW ps, NEW smp \in [Names -> CycleOrNone], NEW lab \in [Cycles -> Labels],
           NEW stored \in SUBSET Cycles, NEW profs,
           \A c \in Cycles : lab[c] # None => c \in stored,
           \A p \in Names : smp[p] # None =>
              /\ p \in profs /\ smp[p] \in stored
              /\ lab[smp[p]] = p \/ p \in ps \intersect profiles
    PROVE  /\ HealAll(ps, smp, lab, stored) \in [Names -> CycleOrNone]
           /\ Own(HealAll(ps, smp, lab, stored), lab, stored, profs)
<1> DEFINE h == HealAll(ps, smp, lab, stored)
<1>1. ASSUME NEW p \in Names
      PROVE  h[p] \in CycleOrNone
             /\ (h[p] # None => p \in profs /\ h[p] \in stored /\ lab[h[p]] = p)
  <2>1. None \notin stored /\ None \notin Names /\ None \notin Cycles
    BY CatalogAssumption
  <2>2. CASE p \in ps \intersect profiles /\ smp[p] \in stored /\ lab[smp[p]] # p
    <3>1. h[p] = OwnSample(p, lab)
      BY <2>2 DEF HealAll, Healed
    <3>2. smp[p] # None
      BY <2>1, <2>2
    <3>3. h[p] # None => h[p] \in Cycles /\ lab[h[p]] = p
      BY <3>1, OwnSampleFacts DEF CycleOrNone
    <3>4. h[p] # None => h[p] \in stored
      BY <2>1, <3>3
    <3> QED
      BY <3>1, <3>2, <3>3, <3>4, OwnSampleFacts
  <2>3. CASE ~(p \in ps \intersect profiles /\ smp[p] \in stored /\ lab[smp[p]] # p)
    <3>1. h[p] = smp[p]
      BY <2>3 DEF HealAll, Healed
    <3> QED
      BY <2>3, <3>1
  <2> QED
    BY <2>2, <2>3
<1>2. h = [p \in Names |-> h[p]]
  BY DEF HealAll
<1> HIDE DEF h
<1>3. h \in [Names -> CycleOrNone]
  BY <1>1, <1>2
<1> QED
  BY <1>1, <1>3 DEF Own, h

-----------------------------------------------------------------------------
(* The coroutines.                                                         *)

LEMMA IdleTyped == IdleJob \in Jobs /\ IdlePass \in Passes /\ NoTail \in Tails
BY DEF IdleJob, Jobs, IdlePass, Passes, NoTail, Tails, Labels, CycleOrNone, Thens

LEMMA RebuildsTyped ==
    ASSUME NEW names \in SUBSET Labels, NEW then \in Thens, NEW c \in CycleOrNone
    PROVE  Rebuilds(names, then, c) \in Jobs
BY DEF Rebuilds, IdleJob, Jobs, Labels, CycleOrNone

LEMMA RestedTyped == ASSUME NEW r \in Jobs PROVE Rested(r) \in Jobs
BY IdleTyped DEF Rested

LEMMA JobSet ==
    ASSUME CarriedTyped, NEW j \in Coroutines, NEW r \in Jobs, job' = [job EXCEPT ![j] = r]
    PROVE  job' \in [Coroutines -> Jobs]
BY DEF CarriedTyped

LEMMA StartsTyped ==
    ASSUME CarriedTyped, NEW j \in Coroutines, NEW r \in Jobs, Starts(j, r)
    PROVE  job' \in [Coroutines -> Jobs]
BY JobSet DEF Starts

\* A step that leaves cycles, labels, profiles and samples alone.
LEMMA SamplesStay ==
    ASSUME SamplesInv, UNCHANGED <<list, label, profiles, sample>>, rev' \in [Cycles -> Nat],
           CarriedTyped'
    PROVE  SamplesInv'
BY DEF SamplesInv, CatalogTyped, LabelledStored, SampleIsOwn, Stored, Past, Others

LEMMA SupersededTyped ==
    ASSUME CarriedTyped, NEW n, NEW j \in Coroutines, NEW r \in Jobs,
           job' = [Superseded(n) EXCEPT ![j] = r]
    PROVE  job' \in [Coroutines -> Jobs]
<1>1. Superseded(n) \in [Coroutines -> Jobs]
  BY DEF Superseded, CarriedTyped, Jobs
<1> QED
  BY <1>1

\* The state of one coroutine, and of one that leaves a build.
LEMMA JobFacts ==
    ASSUME CarriedTyped, NEW j \in Coroutines
    PROVE  /\ job[j] \in Jobs /\ job[j].left \subseteq Names /\ job[j].name \in Labels
           /\ job[j].cyc \in CycleOrNone /\ job[j].best \in Labels
           /\ \A n \in Names : Taken(job[j], n) \in Jobs
           /\ [job[j] EXCEPT !.waits = FALSE] \in Jobs
           /\ Rested([job[j] EXCEPT !.name = None, !.existed = FALSE, !.key = {}, !.newest = FALSE]) \in Jobs
<1>1. job[j] \in Jobs
  BY DEF CarriedTyped
<1>2. /\ job[j].left \subseteq Names /\ job[j].name \in Labels
      /\ job[j].cyc \in CycleOrNone /\ job[j].best \in Labels
  BY <1>1 DEF Jobs
<1>3. \A n \in Names : Taken(job[j], n) \in Jobs
  BY <1>1 DEF Jobs, Taken
<1>4. [job[j] EXCEPT !.waits = FALSE] \in Jobs
  BY <1>1 DEF Jobs
<1>5. [job[j] EXCEPT !.name = None, !.existed = FALSE, !.key = {}, !.newest = FALSE] \in Jobs
  BY <1>1 DEF Jobs, Labels
<1> QED
  BY <1>1, <1>2, <1>3, <1>4, <1>5, RestedTyped

LEMMA ResumedTyped ==
    ASSUME CarriedTyped, NEW j \in Coroutines, job' = Resumed(j)
    PROVE  job' \in [Coroutines -> Jobs]
<1> DEFINE r == Rested([job[j] EXCEPT !.name = None, !.existed = FALSE, !.key = {}, !.newest = FALSE])
<1>1. r \in Jobs
  BY JobFacts
<1>2. job' = [job EXCEPT ![j] = r]
  BY DEF Resumed
<1> HIDE DEF r
<1> QED
  BY <1>1, <1>2, JobSet

LEMMA BuildsStep ==
    ASSUME SamplesInv, NEW j \in Coroutines, NEW n \in job[j].left,
           SkipBuild(j, n) \/ EmptyBuild(j, n) \/ BeginBuild(j, n)
    PROVE  SamplesInv'
<1>0. CarriedTyped /\ n \in Names
  BY JobFacts DEF SamplesInv
<1>1. UNCHANGED <<list, label, rev, profiles, sample, pending, pass, tail>>
  BY DEF SkipBuild, EmptyBuild, BeginBuild, cycleVars, profileVars, edgeVars
<1>2. ASSUME SkipBuild(j, n) PROVE job' \in [Coroutines -> Jobs]
  <2>1. Rested(Taken(job[j], n)) \in Jobs
    BY <1>0, JobFacts, RestedTyped
  <2>2. job' = [job EXCEPT ![j] = Rested(Taken(job[j], n))]
    BY <1>2 DEF SkipBuild
  <2> QED
    BY <1>0, <2>1, <2>2, JobSet
<1>3. ASSUME EmptyBuild(j, n) PROVE job' \in [Coroutines -> Jobs]
  <2>1. Superseded(n) \in [Coroutines -> Jobs]
    BY <1>0, ZenonT(60) DEF Superseded, CarriedTyped, Jobs
  <2>2. Superseded(n)[j] \in Jobs
    BY <2>1
  <2>3. Taken(Superseded(n)[j], n) \in Jobs
    BY <1>0, <2>2 DEF Jobs, Taken
  <2>4. job' = [Superseded(n) EXCEPT ![j] = Rested(Taken(Superseded(n)[j], n))]
    BY <1>3, <2>1 DEF EmptyBuild
  <2> QED
    BY <1>0, <2>3, <2>4, RestedTyped, SupersededTyped
<1>4. ASSUME BeginBuild(j, n) PROVE job' \in [Coroutines -> Jobs]
  <2>1. Superseded(n) \in [Coroutines -> Jobs]
    BY <1>0, ZenonT(60) DEF Superseded, CarriedTyped, Jobs
  <2>2. Superseded(n)[j] \in Jobs
    BY <2>1
  <2>3. Key(n) \subseteq Cycles \X Nat
    BY DEF SamplesInv, CatalogTyped, Key, OwnOf
  <2> DEFINE r == [Taken(Superseded(n)[j], n) EXCEPT !.name = n, !.existed = (n \in profiles),
                                                 !.key = Key(n), !.newest = TRUE]
  <2>a. Taken(Superseded(n)[j], n) \in Jobs
    BY <1>0, <2>2 DEF Jobs, Taken
  <2>b. (n \in profiles) \in BOOLEAN /\ n \in Labels
    BY <1>0 DEF Labels
  <2>4. r \in Jobs
    <3> DEFINE known == n \in profiles
               key == Key(n)
               q == Taken(Superseded(n)[j], n)
    <3>1. known \in BOOLEAN /\ key \in SUBSET (Cycles \X Nat) /\ q \in Jobs
      BY <2>3, <2>a, <2>b
    <3>2. r = [q EXCEPT !.name = n, !.existed = known, !.key = key, !.newest = TRUE]
      OBVIOUS
    <3> HIDE DEF known, key, q, r
    <3> QED
      BY <2>b, <3>1, <3>2 DEF Jobs
  <2>5. job' = [Superseded(n) EXCEPT ![j] = r]
    BY <1>4, <2>1 DEF BeginBuild
  <2> HIDE DEF r
  <2> QED
    BY <1>0, <2>4, <2>5, SupersededTyped
<1>5. job' \in [Coroutines -> Jobs]
  BY <1>2, <1>3, <1>4
<1>6. CarriedTyped' /\ rev' \in [Cycles -> Nat]
  BY <1>0, <1>1, <1>5 DEF CarriedTyped, SamplesInv, CatalogTyped
<1> QED
  BY <1>1, <1>6, SamplesStay

LEMMA BuildEndsStep ==
    ASSUME SamplesInv, NEW j \in Coroutines,
           SaveDone(j) \/ DiscardBuild(j) \/ WriteNone(j) \/ WriteBuild(j)
    PROVE  SamplesInv'
<1>1. UNCHANGED <<list, label, rev, profiles, pending, pass, tail>>
  BY DEF SaveDone, DiscardBuild, WriteNone, WriteBuild, cycleVars, profileVars, edgeVars
<1>2. job' \in [Coroutines -> Jobs]
  <2>1. CarriedTyped
    BY DEF SamplesInv
  <2>2. CASE SaveDone(j)
    <3>1. Rested([job[j] EXCEPT !.waits = FALSE]) \in Jobs
      BY <2>1, JobFacts, RestedTyped
    <3>2. job' = [job EXCEPT ![j] = Rested([job[j] EXCEPT !.waits = FALSE])]
      BY <2>2 DEF SaveDone
    <3> QED
      BY <2>1, <3>1, <3>2, JobSet
  <2>3. CASE job' = Resumed(j)
    BY <2>1, <2>3, ResumedTyped
  <2> QED
    BY <2>2, <2>3 DEF DiscardBuild, WriteNone, WriteBuild
<1>3. CarriedTyped' /\ rev' \in [Cycles -> Nat]
  BY <1>1, <1>2 DEF CarriedTyped, SamplesInv, CatalogTyped
<1>4. CASE sample' = sample
  BY <1>1, <1>3, <1>4, SamplesStay
<1>5. CASE WriteBuild(j) /\ sample' # sample
  <2> DEFINE n == job[j].name
             ref == Reference(n, label)
  <2>1. sample' = [sample EXCEPT ![n] = ref] /\ n \in profiles /\ ref # None
    BY <1>5 DEF WriteBuild
  <2>2. n \in Names /\ label[ref] = n /\ ref \in Cycles
    <3>1. n \in Names /\ label \in [Cycles -> Labels]
      BY <2>1 DEF SamplesInv, CatalogTyped
    <3> HIDE DEF n
    <3> QED
      BY <2>1, <3>1, OwnSampleFacts DEF CycleOrNone
  <2> HIDE DEF n, ref
  <2>3. sample' \in [Names -> CycleOrNone] /\ sample'[n] = ref
        /\ \A p \in Names : p # n => sample'[p] = sample[p]
    BY <2>1, <2>2 DEF SamplesInv, CatalogTyped, CycleOrNone
  <2>4. ref \in Stored
    <3>1. label[ref] # None
      BY <2>2, CatalogAssumption
    <3> QED
      BY <2>2, <3>1 DEF SamplesInv, LabelledStored
  <2>5. Stored' = Stored
    BY <1>1 DEF Stored, Past, Others
  <2>6. SampleIsOwn'
    BY <1>1, <2>1, <2>2, <2>3, <2>4, <2>5 DEF SamplesInv, SampleIsOwn
  <2>7. CatalogTyped' /\ LabelledStored'
    BY <1>1, <1>3, <2>3, <2>5 DEF SamplesInv, CatalogTyped, LabelledStored
  <2> QED
    BY <1>3, <2>6, <2>7 DEF SamplesInv
<1> QED
  BY <1>4, <1>5 DEF SaveDone, DiscardBuild, WriteNone, profileVars

-----------------------------------------------------------------------------
(* Labels.                                                                 *)

LEMMA Context ==
    ASSUME SamplesInv
    PROVE  /\ CarriedTyped /\ list \in [Cycles -> Lists] /\ label \in [Cycles -> Labels]
           /\ rev \in [Cycles -> Nat] /\ profiles \subseteq Names /\ sample \in [Names -> CycleOrNone]
           /\ Stored \subseteq Cycles /\ Past \subseteq Stored /\ Others \subseteq Stored
           /\ None \notin Names /\ None \notin Cycles
           /\ \A p \in Names : sample[p] # None =>
                 p \in profiles /\ sample[p] \in Stored /\ label[sample[p]] = p
           /\ \A c \in Cycles : label[c] # None => c \in Stored /\ label[c] \in Names
           /\ \A c \in Unused : c \in Cycles /\ c \notin Stored /\ label[c] = None
<1>1. Stored \subseteq Cycles /\ Past \subseteq Stored /\ Others \subseteq Stored
  BY DEF Stored, Past, Others
<1>2. \A c \in Unused : c \in Cycles /\ c \notin Stored
  BY DEF Unused, Stored, Past, Others
<1> QED
  BY <1>1, <1>2, CatalogAssumption DEF SamplesInv, CatalogTyped, LabelledStored, SampleIsOwn, Labels

LEMMA StoredStays == ASSUME list' = list PROVE Stored' = Stored
BY DEF Stored, Past, Others

\* A stored cycle takes the label p.
LEMMA LabelOne ==
    ASSUME SamplesInv, NEW c \in Stored, NEW p \in Labels, label' = [label EXCEPT ![c] = p], list' = list
    PROVE  /\ label' \in [Cycles -> Labels] /\ label'[c] = p
           /\ \A d \in Cycles : d # c => label'[d] = label[d]
           /\ LabelledStored'
<1>1. label' \in [Cycles -> Labels] /\ label'[c] = p /\ \A d \in Cycles : d # c => label'[d] = label[d]
  BY Context
<1> QED
  BY <1>1, Context, StoredStays DEF LabelledStored

\* A step that heals samples among the cycles there are.
LEMMA HealStep ==
    ASSUME SamplesInv, list' = list, rev' \in [Cycles -> Nat], CarriedTyped',
           profiles' \subseteq Names, label' \in [Cycles -> Labels], LabelledStored',
           NEW ps, NEW smp \in [Names -> CycleOrNone], sample' = HealAll(ps, smp, label', Stored),
           \A p \in Names : smp[p] # None =>
              /\ p \in profiles' /\ smp[p] \in Stored
              /\ label'[smp[p]] = p \/ p \in ps \intersect profiles
    PROVE  SamplesInv'
<1>1. Stored' = Stored /\ Stored \in SUBSET Cycles
  BY Context, StoredStays
<1>2. \A c \in Cycles : label'[c] # None => c \in Stored
  BY <1>1 DEF LabelledStored
<1>3. sample' \in [Names -> CycleOrNone] /\ Own(sample', label', Stored, profiles')
  BY <1>1, <1>2, Healing
<1>4. CatalogTyped'
  BY <1>3, Context DEF CatalogTyped
<1>5. SampleIsOwn'
  BY <1>1, <1>3 DEF Own, SampleIsOwn
<1> QED
  BY <1>4, <1>5 DEF SamplesInv

\* What the samples are once c is labelled p: the one that was c heals.
LEMMA RelabelLeaves ==
    ASSUME SamplesInv, NEW c \in Stored, NEW p \in Labels, label' = [label EXCEPT ![c] = p],
           list' = list, profiles \subseteq profiles'
    PROVE  \A q \in Names : sample[q] # None =>
              /\ q \in profiles' /\ sample[q] \in Stored
              /\ label'[sample[q]] = q \/ (q = label[c] /\ q # p /\ q \in profiles)
<1> SUFFICES ASSUME NEW q \in Names, sample[q] # None
             PROVE  /\ q \in profiles' /\ sample[q] \in Stored
                    /\ label'[sample[q]] = q \/ (q = label[c] /\ q # p /\ q \in profiles)
  OBVIOUS
<1>1. q \in profiles /\ sample[q] \in Stored /\ label[sample[q]] = q /\ sample[q] \in Cycles
  BY Context
<1>2. CASE sample[q] = c
  BY <1>1, <1>2, LabelOne
<1>3. CASE sample[q] # c
  BY <1>1, <1>3, LabelOne
<1> QED
  BY <1>2, <1>3

LEMMA CreateProfileStep ==
    ASSUME SamplesInv, NEW j \in Coroutines, NEW c \in Stored, NEW p \in Names, CreateProfile(j, c, p)
    PROVE  SamplesInv'
<1> DEFINE smp == [sample EXCEPT ![p] = c]
<1>1. /\ label' = [label EXCEPT ![c] = p] /\ profiles' = profiles \union {p}
      /\ sample' = HealAll({label[c]} \ {p}, smp, label', Stored)
      /\ Starts(j, Rebuilds(Touched(label[c], p), "resolve", c))
      /\ UNCHANGED <<list, rev, pending, pass, tail>>
  BY DEF CreateProfile, edgeVars
<1>2. c \in Cycles /\ label[c] \in Labels /\ p \in Labels
  BY Context DEF Labels
<1>3. CarriedTyped'
  <2>1. Rebuilds(Touched(label[c], p), "resolve", c) \in Jobs
    BY <1>2, RebuildsTyped DEF Touched, Thens, CycleOrNone
  <2> QED
    BY <1>1, <2>1, Context, StartsTyped DEF CarriedTyped
<1>4. /\ label' \in [Cycles -> Labels] /\ label'[c] = p /\ LabelledStored'
  BY <1>1, <1>2, LabelOne
<1>5. smp \in [Names -> CycleOrNone] /\ smp[p] = c /\ \A q \in Names : q # p => smp[q] = sample[q]
  BY <1>2, Context DEF CycleOrNone
<1> HIDE DEF smp
<1>6. \A q \in Names : smp[q] # None =>
              /\ q \in profiles' /\ smp[q] \in Stored
              /\ label'[smp[q]] = q \/ q \in ({label[c]} \ {p}) \intersect profiles
  <2>1. \A q \in Names : sample[q] # None =>
              /\ q \in profiles' /\ sample[q] \in Stored
              /\ label'[sample[q]] = q \/ (q = label[c] /\ q # p /\ q \in profiles)
    BY <1>1, <1>2, RelabelLeaves
  <2> QED
    BY <1>1, <1>4, <1>5, <2>1
<1>7. profiles' \subseteq Names /\ rev' \in [Cycles -> Nat]
  BY <1>1, Context
<1> QED
  BY <1>1, <1>3, <1>4, <1>5, <1>6, <1>7, HealStep

LEMMA CreateStandaloneStep ==
    ASSUME SamplesInv, NEW j \in Coroutines, NEW c \in Stored \union {None}, NEW p \in Names,
           CreateStandalone(j, p, c)
    PROVE  SamplesInv'
<1> DEFINE lab == IF c # None /\ label[c] = None THEN [label EXCEPT ![c] = p] ELSE label
           smp == IF c = None THEN None ELSE Healed(p, c, lab, Stored)
<1>1. /\ p \notin profiles /\ label' = lab /\ profiles' = profiles \union {p}
      /\ sample' = [sample EXCEPT ![p] = smp]
      /\ Starts(j, Rebuilds({p}, "done", None))
      /\ UNCHANGED <<list, rev, pending, pass, tail>>
  BY DEF CreateStandalone, edgeVars
<1>2. p \in Labels /\ (c # None => c \in Stored /\ c \in Cycles)
  BY Context DEF Labels
<1>3. CarriedTyped'
  <2>1. Rebuilds({p}, "done", None) \in Jobs
    BY <1>2, RebuildsTyped DEF Thens, CycleOrNone
  <2> QED
    BY <1>1, <2>1, Context, StartsTyped DEF CarriedTyped
<1>4. /\ label' \in [Cycles -> Labels] /\ LabelledStored'
      /\ \A d \in Cycles : label[d] # None => label'[d] = label[d]
  <2>1. CASE c # None /\ label[c] = None
    BY <1>1, <1>2, <2>1, LabelOne
  <2>2. CASE ~(c # None /\ label[c] = None)
    BY <1>1, <2>2, Context, StoredStays DEF LabelledStored
  <2> QED
    BY <2>1, <2>2
<1>5. Stored' = Stored
  BY <1>1, StoredStays
<1>6. smp \in CycleOrNone /\ (smp # None => smp \in Stored /\ label'[smp] = p)
  <2>1. CASE c = None
    BY <2>1 DEF CycleOrNone
  <2>2. CASE c # None /\ lab[c] # p
    <3>1. smp = OwnSample(p, label')
      BY <1>1, <1>2, <2>2 DEF Healed
    <3> HIDE DEF smp, lab
    <3>2. smp # None => smp \in Cycles /\ label'[smp] # None
      BY <1>4, <3>1, OwnSampleFacts, CatalogAssumption DEF CycleOrNone
    <3> QED
      BY <1>4, <1>5, <3>1, <3>2, OwnSampleFacts DEF LabelledStored
  <2>3. CASE c # None /\ lab[c] = p
    <3>1. smp = c
      BY <2>3 DEF Healed
    <3> QED
      BY <1>1, <1>2, <2>3, <3>1 DEF CycleOrNone
  <2> QED
    BY <2>1, <2>2, <2>3
<1> HIDE DEF smp, lab
<1>7. sample' \in [Names -> CycleOrNone] /\ sample'[p] = smp
      /\ \A q \in Names : q # p => sample'[q] = sample[q]
  BY <1>1, <1>6, Context
<1>8. SampleIsOwn'
  <2> SUFFICES ASSUME NEW q \in Names, sample'[q] # None
               PROVE  q \in profiles' /\ sample'[q] \in Stored /\ label'[sample'[q]] = q
    BY <1>5 DEF SampleIsOwn
  <2>1. CASE q = p
    BY <1>1, <1>6, <1>7, <2>1
  <2>2. CASE q # p
    <3>1. q \in profiles /\ sample[q] \in Stored /\ label[sample[q]] = q /\ q # None /\ sample[q] \in Cycles
      BY <1>7, <2>2, Context
    <3> QED
      BY <1>1, <1>4, <1>7, <2>2, <3>1
  <2> QED
    BY <2>1, <2>2
<1>9. CatalogTyped'
  BY <1>1, <1>4, <1>7, Context DEF CatalogTyped
<1> QED
  BY <1>3, <1>4, <1>8, <1>9 DEF SamplesInv

LEMMA DroppedStep ==
    ASSUME SamplesInv, NEW ps, Dropped(ps), list' = list, rev' \in [Cycles -> Nat], CarriedTyped',
           label' \in [Cycles -> Labels], LabelledStored',
           \A q \in Names \ ps : sample[q] # None => label'[sample[q]] = q
    PROVE  SamplesInv'
<1>1. /\ profiles' = profiles \ ps
      /\ sample' = [q \in Names |-> IF q \in ps THEN None ELSE sample[q]]
  BY DEF Dropped
<1>2. sample' \in [Names -> CycleOrNone]
  BY <1>1, Context DEF CycleOrNone
<1>3. Stored' = Stored
  BY StoredStays
<1>4. SampleIsOwn'
  BY <1>1, <1>3, Context DEF SampleIsOwn
<1>5. CatalogTyped'
  BY <1>1, <1>2, Context DEF CatalogTyped
<1> QED
  BY <1>4, <1>5 DEF SamplesInv

LEMMA RenameStep ==
    ASSUME SamplesInv, NEW p \in profiles, NEW q \in Names, Rename(p, q)
    PROVE  SamplesInv'
<1>1. /\ q \notin profiles /\ profiles' = (profiles \ {p}) \union {q}
      /\ sample' = [sample EXCEPT ![q] = sample[p], ![p] = None]
      /\ label' = [c \in Cycles |-> IF label[c] = p THEN q ELSE label[c]]
      /\ pending' = [c \in Cycles |-> IF pending[c] = p THEN q ELSE pending[c]]
      /\ UNCHANGED <<list, rev, job, pass, tail>>
  BY DEF Rename
<1>2. p \in Names /\ p # q /\ q \in Labels
  BY <1>1, Context DEF Labels
<1>3. CarriedTyped'
  <2>1. pending' \in [Cycles -> Labels]
    BY <1>1, <1>2, Context DEF CarriedTyped
  <2> QED
    BY <1>1, <2>1, Context DEF CarriedTyped
<1>4. sample' \in [Names -> CycleOrNone] /\ sample'[q] = sample[p] /\ sample'[p] = None
      /\ \A n \in Names \ {p, q} : sample'[n] = sample[n]
  BY <1>1, <1>2, Context DEF CycleOrNone
<1>5. label' \in [Cycles -> Labels] /\ Stored' = Stored
  BY <1>1, <1>2, Context, StoredStays
<1>6. LabelledStored'
  <2>1. \A c \in Cycles : label'[c] # None => label[c] # None
    BY <1>1, <1>2, Context
  <2> QED
    BY <1>5, <2>1, Context DEF LabelledStored
<1>7. SampleIsOwn'
  <2> SUFFICES ASSUME NEW n \in Names, sample'[n] # None
               PROVE  n \in profiles' /\ sample'[n] \in Stored /\ label'[sample'[n]] = n
    BY <1>5 DEF SampleIsOwn
  <2>1. CASE n = q
    <3>1. sample[p] \in Stored /\ label[sample[p]] = p /\ sample[p] \in Cycles
      BY <1>2, <1>4, <2>1, Context
    <3> QED
      BY <1>1, <1>4, <2>1, <3>1
  <2>2. CASE n \notin {p, q}
    <3>1. n \in profiles /\ sample[n] \in Stored /\ label[sample[n]] = n /\ sample[n] \in Cycles
      BY <1>4, <2>2, Context
    <3> QED
      BY <1>1, <1>4, <2>2, <3>1
  <2> QED
    BY <1>4, <2>1, <2>2
<1>8. CatalogTyped'
  BY <1>1, <1>2, <1>4, <1>5, Context DEF CatalogTyped
<1> QED
  BY <1>3, <1>6, <1>7, <1>8 DEF SamplesInv

LEMMA DeleteProfileStep ==
    ASSUME SamplesInv, NEW p \in profiles, NEW unlabel \in BOOLEAN, DeleteProfile(p, unlabel)
    PROVE  SamplesInv'
<1>1. /\ Dropped({p})
      /\ label' = [c \in Cycles |-> IF unlabel /\ label[c] = p THEN None ELSE label[c]]
      /\ UNCHANGED <<list, rev, job, pending, pass, tail>>
  BY DEF DeleteProfile, edgeVars
<1>2. CarriedTyped' /\ rev' \in [Cycles -> Nat]
  BY <1>1, Context DEF CarriedTyped
<1>3. label' \in [Cycles -> Labels] /\ Stored' = Stored
  BY <1>1, Context, StoredStays DEF Labels
<1>4. LabelledStored'
  BY <1>1, <1>3, Context DEF LabelledStored
<1>5. ASSUME NEW q \in Names \ {p}, sample[q] # None PROVE label'[sample[q]] = q
  <2>1. label[sample[q]] = q /\ sample[q] \in Cycles
    BY <1>5, Context
  <2> QED
    BY <1>1, <1>5, <2>1
<1> QED
  BY <1>1, <1>2, <1>3, <1>4, <1>5, DroppedStep

LEMMA AssignStep ==
    ASSUME SamplesInv, NEW j \in Coroutines, NEW c \in Stored, NEW p \in profiles \union {None},
           Assign(j, c, p)
    PROVE  SamplesInv'
<1> DEFINE first == IF p # None /\ sample[p] = None THEN [sample EXCEPT ![p] = c] ELSE sample
<1>1. /\ label' = [label EXCEPT ![c] = p]
      /\ sample' = HealAll({label[c], p} \ {None}, first, label', Stored)
      /\ Starts(j, Rebuilds(Touched(label[c], p), "tidy", c))
      /\ UNCHANGED <<list, rev, profiles, pending, pass, tail>>
  BY DEF Assign, edgeVars
<1>2. c \in Cycles /\ label[c] \in Labels /\ p \in Labels /\ (p # None => p \in Names)
  BY Context DEF Labels
<1>3. CarriedTyped'
  <2>1. Rebuilds(Touched(label[c], p), "tidy", c) \in Jobs
    BY <1>2, RebuildsTyped DEF Touched, Thens, CycleOrNone
  <2> QED
    BY <1>1, <2>1, Context, StartsTyped DEF CarriedTyped
<1>4. label' \in [Cycles -> Labels] /\ label'[c] = p /\ LabelledStored'
  BY <1>1, <1>2, LabelOne
<1>5. first \in [Names -> CycleOrNone]
      /\ \A q \in Names : first[q] = sample[q] \/ (q = p /\ p # None /\ first[q] = c)
  BY <1>2, Context DEF CycleOrNone
<1> HIDE DEF first
<1>6. \A q \in Names : first[q] # None =>
              /\ q \in profiles' /\ first[q] \in Stored
              /\ label'[first[q]] = q \/ q \in ({label[c], p} \ {None}) \intersect profiles
  <2>1. \A q \in Names : sample[q] # None =>
              /\ q \in profiles' /\ sample[q] \in Stored
              /\ label'[sample[q]] = q \/ (q = label[c] /\ q # p /\ q \in profiles)
    BY <1>1, <1>2, RelabelLeaves
  <2>2. None \notin Names
    BY Context
  <2> QED
    BY <1>1, <1>4, <1>5, <2>1, <2>2
<1>7. profiles' \subseteq Names /\ rev' \in [Cycles -> Nat]
  BY <1>1, Context
<1> QED
  BY <1>1, <1>3, <1>4, <1>5, <1>6, <1>7, HealStep

\* A backfilled cycle or a reference moves to another profile, or to none.
LEMMA RelabelledStep ==
    ASSUME SamplesInv, NEW c \in Stored, NEW p \in Labels, Relabelled(c, p), list' = list,
           rev' \in [Cycles -> Nat], CarriedTyped'
    PROVE  SamplesInv'
<1>1. label' = [label EXCEPT ![c] = p] /\ c \in Cycles
  BY Context DEF Relabelled
<1>2. label' \in [Cycles -> Labels] /\ label'[c] = p /\ LabelledStored'
  BY <1>1, LabelOne
<1>3. CASE Dropped({label[c]}) /\ label[c] # p
  <2>1. ASSUME NEW q \in Names \ {label[c]}, sample[q] # None PROVE label'[sample[q]] = q
    <3>1. label[sample[q]] = q /\ sample[q] \in Cycles
      BY <2>1, Context
    <3>2. sample[q] # c
      BY <2>1, <3>1
    <3> QED
      BY <1>1, <3>1, <3>2, LabelOne
  <2> QED
    BY <1>2, <1>3, <2>1, DroppedStep
<1>4. CASE sample' = HealAll({label[c]} \ {p}, sample, label', Stored) /\ profiles' = profiles
  <2>1. \A q \in Names : sample[q] # None =>
              /\ q \in profiles' /\ sample[q] \in Stored
              /\ label'[sample[q]] = q \/ q \in ({label[c]} \ {p}) \intersect profiles
    <3>1. list' = list /\ profiles \subseteq profiles'
      BY <1>4
    <3>2. \A q \in Names : sample[q] # None =>
              /\ q \in profiles' /\ sample[q] \in Stored
              /\ label'[sample[q]] = q \/ (q = label[c] /\ q # p /\ q \in profiles)
      BY <1>1, <3>1, RelabelLeaves
    <3> QED
      BY <3>2
  <2>2. sample \in [Names -> CycleOrNone] /\ profiles' \subseteq Names
    BY <1>4, Context
  <2> QED
    BY <1>2, <1>4, <2>1, <2>2, HealStep
<1> QED
  BY <1>3, <1>4 DEF Relabelled

LEMMA AssignOtherStep ==
    ASSUME SamplesInv, NEW j \in Coroutines, NEW c \in Stored, NEW p \in profiles \union {None},
           AssignOther(j, c, p)
    PROVE  SamplesInv'
<1>1. /\ Relabelled(c, p) /\ Starts(j, Rebuilds(RelabelTouches(c, p), "resolve", c))
      /\ UNCHANGED <<list, rev, pending, pass, tail>>
  BY DEF AssignOther, edgeVars
<1>2. c \in Cycles /\ label[c] \in Labels /\ p \in Labels
  BY Context DEF Labels
<1>3. Rebuilds(RelabelTouches(c, p), "resolve", c) \in Jobs
  <2>1. RelabelTouches(c, p) \in SUBSET Labels
    BY <1>2 DEF RelabelTouches, Touched
  <2> QED
    BY <1>2, <2>1, RebuildsTyped DEF Thens, CycleOrNone
<1>4. CarriedTyped' /\ rev' \in [Cycles -> Nat]
  BY <1>1, <1>3, Context, StartsTyped DEF CarriedTyped
<1> QED
  BY <1>1, <1>2, <1>4, RelabelledStep

\* The answer p to a review request, which asked about detected.
LEMMA AnsweredStep ==
    ASSUME SamplesInv, NEW j \in Coroutines, NEW c \in Cycles, NEW p \in Names, NEW detected \in Labels,
           Answered(j, c, p, detected)
    PROVE  SamplesInv'
<1> DEFINE ps == IF c \in Past THEN {label[c]} \ {p, None} ELSE {}
           names == {p, detected} \union (IF c \in Past THEN {label[c]} ELSE {})
<1>1. /\ label' = IF c \in Past THEN [label EXCEPT ![c] = p] ELSE label
      /\ sample' = HealAll(ps, sample, label', Stored)
      /\ pending' = [pending EXCEPT ![c] = None]
      /\ Starts(j, Rebuilds(names, "done", None))
      /\ UNCHANGED <<list, rev, profiles, pass, tail>>
  BY DEF Answered, edgeVars
<1>2. label[c] \in Labels /\ p \in Labels /\ None \in Labels
  BY Context DEF Labels
<1>3. CarriedTyped'
  <2>1. Rebuilds(names, "done", None) \in Jobs
    BY <1>2, RebuildsTyped DEF Thens, CycleOrNone
  <2> HIDE DEF names
  <2>2. pending' \in [Cycles -> Labels]
    BY <1>1, <1>2, Context DEF CarriedTyped
  <2> QED
    BY <1>1, <2>1, <2>2, Context, StartsTyped DEF CarriedTyped
<1>4. label' \in [Cycles -> Labels] /\ LabelledStored'
  <2>1. CASE c \in Past
    BY <1>1, <1>2, <2>1, Context, LabelOne
  <2>2. CASE c \notin Past
    BY <1>1, <2>2, Context, StoredStays DEF LabelledStored
  <2> QED
    BY <2>1, <2>2
<1>5. \A q \in Names : sample[q] # None =>
              /\ q \in profiles' /\ sample[q] \in Stored
              /\ label'[sample[q]] = q \/ q \in ps \intersect profiles
  <2>1. CASE c \in Past
    <3>1. c \in Stored /\ None \notin Names
      BY <2>1, Context
    <3>2. /\ label' = [label EXCEPT ![c] = p] /\ list' = list /\ profiles \subseteq profiles'
      BY <1>1, <2>1
    <3>3. \A q \in Names : sample[q] # None =>
              /\ q \in profiles' /\ sample[q] \in Stored
              /\ label'[sample[q]] = q \/ (q = label[c] /\ q # p /\ q \in profiles)
      BY <1>2, <3>1, <3>2, RelabelLeaves
    <3>4. ps = {label[c]} \ {p, None}
      BY <2>1
    <3> HIDE DEF ps
    <3> QED
      BY <3>1, <3>3, <3>4
  <2>2. CASE c \notin Past
    BY <1>1, <2>2, Context
  <2> QED
    BY <2>1, <2>2
<1> HIDE DEF ps
<1>6. sample \in [Names -> CycleOrNone] /\ profiles' \subseteq Names /\ rev' \in [Cycles -> Nat]
  BY <1>1, Context
<1> QED
  BY <1>1, <1>3, <1>4, <1>5, <1>6, HealStep

LEMMA AnswersStep ==
    ASSUME SamplesInv, NEW c \in Cycles, pending[c] # None,
           \/ Dismiss(c)
           \/ \E j \in Coroutines : Confirm(j, c) \/ \E p \in profiles : Correct(j, c, p)
    PROVE  SamplesInv'
<1>1. pending[c] \in Names /\ pending[c] \in Labels /\ None \in Labels
  BY Context DEF CarriedTyped, Labels
<1>2. CASE Dismiss(c)
  <2>1. UNCHANGED <<list, label, rev, profiles, sample, job, pass, tail>>
        /\ pending' = [pending EXCEPT ![c] = None]
    BY <1>2 DEF Dismiss, cycleVars, profileVars, edgeVars
  <2>2. CarriedTyped' /\ rev' \in [Cycles -> Nat]
    BY <1>1, <2>1, Context DEF CarriedTyped
  <2> QED
    BY <2>1, <2>2, SamplesStay
<1>3. ASSUME NEW j \in Coroutines, Confirm(j, c) PROVE SamplesInv'
  BY <1>1, <1>3, AnsweredStep DEF Confirm
<1>4. ASSUME NEW j \in Coroutines, NEW p \in profiles, Correct(j, c, p) PROVE SamplesInv'
  <2>1. p \in Names
    BY Context
  <2> QED
    BY <1>1, <1>4, <2>1, AnsweredStep DEF Correct
<1> QED
  BY <1>2, <1>3, <1>4

-----------------------------------------------------------------------------
(* The cycles.                                                             *)

\* A step that ends with samples of its own.
LEMMA SamplesEnd ==
    ASSUME SamplesInv, CarriedTyped', list' \in [Cycles -> Lists], label' \in [Cycles -> Labels],
           rev' \in [Cycles -> Nat], profiles' \subseteq Names, sample' \in [Names -> CycleOrNone],
           LabelledStored', Own(sample', label', Stored', profiles')
    PROVE  SamplesInv'
BY DEF SamplesInv, CatalogTyped, SampleIsOwn, Own

\* The ids gone leave the lists and the labels.
LEMMA CyclesGo ==
    ASSUME SamplesInv, NEW gone \in SUBSET Cycles,
           list' = [c \in Cycles |-> IF c \in gone THEN "gone" ELSE list[c]],
           label' = [c \in Cycles |-> IF c \in gone THEN None ELSE label[c]]
    PROVE  /\ list' \in [Cycles -> Lists] /\ label' \in [Cycles -> Labels]
           /\ Stored' = Stored \ gone /\ LabelledStored'
<1>1. list' \in [Cycles -> Lists]
  BY Context DEF Lists
<1>2. label' \in [Cycles -> Labels]
  BY Context DEF Labels
<1>3. Stored' = Stored \ gone
  BY <1>1, Context DEF Stored, Past, Others, Lists
<1>4. LabelledStored'
  BY <1>3, Context DEF LabelledStored
<1> QED
  BY <1>1, <1>2, <1>3, <1>4

LEMMA OneGoes ==
    ASSUME SamplesInv, NEW c \in Cycles, list' = [list EXCEPT ![c] = "gone"],
           label' = [label EXCEPT ![c] = None]
    PROVE  /\ list' = [d \in Cycles |-> IF d \in {c} THEN "gone" ELSE list[d]]
           /\ label' = [d \in Cycles |-> IF d \in {c} THEN None ELSE label[d]]
BY Context

LEMMA DeletesStep ==
    ASSUME SamplesInv, NEW j \in Coroutines, NEW c \in Stored, DeleteCycle(j, c) \/ DeleteOther(j, c)
    PROVE  SamplesInv'
<1> DEFINE gone == IF Emptied(label[c], [label EXCEPT ![c] = None]) THEN {label[c]} ELSE {}
<1>0. c \in Cycles /\ label[c] \in Labels /\ None \in Labels
  BY Context DEF Labels
<1>1. /\ list' = [list EXCEPT ![c] = "gone"] /\ label' = [label EXCEPT ![c] = None]
      /\ job' = job \/ Starts(j, Rebuilds({label[c]}, "done", None))
      /\ pending' = pending \/ pending' = [pending EXCEPT ![c] = None]
      /\ UNCHANGED <<rev, pass, tail>>
  BY DEF DeleteCycle, DeleteOther, edgeVars
<1>2. \/ sample' = Unsampled({c}) /\ profiles' = profiles
      \/ profiles' = profiles \ gone
         /\ sample' = [p \in Names |-> IF p \in gone THEN None ELSE Unsampled({c})[p]]
  BY DEF DeleteCycle, DeleteOther
<1> HIDE DEF gone
<1>3. CarriedTyped'
  <2>1. Rebuilds({label[c]}, "done", None) \in Jobs
    BY <1>0, RebuildsTyped DEF Thens, CycleOrNone
  <2>2. job' \in [Coroutines -> Jobs]
    BY <1>1, <2>1, Context, StartsTyped DEF CarriedTyped
  <2>3. pending' \in [Cycles -> Labels]
    BY <1>0, <1>1, Context DEF CarriedTyped
  <2> QED
    BY <1>1, <2>2, <2>3, Context DEF CarriedTyped
<1>4. /\ list' \in [Cycles -> Lists] /\ label' \in [Cycles -> Labels]
      /\ Stored' = Stored \ {c} /\ LabelledStored'
  <2>1. /\ list' = [d \in Cycles |-> IF d \in {c} THEN "gone" ELSE list[d]]
        /\ label' = [d \in Cycles |-> IF d \in {c} THEN None ELSE label[d]]
    BY <1>0, <1>1, OneGoes
  <2>2. {c} \in SUBSET Cycles
    BY <1>0
  <2> QED
    BY <2>1, <2>2, CyclesGo
<1>5. /\ sample' \in [Names -> CycleOrNone] /\ profiles' \subseteq Names
      /\ \A p \in Names : sample'[p] # None =>
            sample'[p] = sample[p] /\ sample[p] # c /\ (p \in profiles => p \in profiles')
  <2>1. Unsampled({c}) \in [Names -> CycleOrNone]
        /\ \A p \in Names : Unsampled({c})[p] # None => Unsampled({c})[p] = sample[p] /\ sample[p] # c
    BY Context DEF Unsampled, CycleOrNone
  <2>2. CASE sample' = Unsampled({c}) /\ profiles' = profiles
    BY <2>1, <2>2, Context
  <2>3. CASE profiles' = profiles \ gone
             /\ sample' = [p \in Names |-> IF p \in gone THEN None ELSE Unsampled({c})[p]]
    <3>1. sample' \in [Names -> CycleOrNone]
      BY <2>1, <2>3 DEF CycleOrNone
    <3> QED
      BY <2>1, <2>3, <3>1, Context
  <2> QED
    BY <1>2, <2>2, <2>3
<1>6. Own(sample', label', Stored', profiles')
  <2> SUFFICES ASSUME NEW p \in Names, sample'[p] # None
               PROVE  p \in profiles' /\ sample'[p] \in Stored' /\ label'[sample'[p]] = p
    BY DEF Own
  <2>1. /\ p \in profiles /\ sample[p] \in Stored /\ label[sample[p]] = p /\ sample[p] \in Cycles
        /\ sample'[p] = sample[p] /\ sample[p] # c
    BY <1>5, Context
  <2> QED
    BY <1>0, <1>1, <1>4, <1>5, <2>1, Context
<1>7. rev' \in [Cycles -> Nat]
  BY <1>1, Context
<1> QED
  BY <1>3, <1>4, <1>5, <1>6, <1>7, SamplesEnd

LEMMA AddReferenceStep ==
    ASSUME SamplesInv, NEW j \in Coroutines, NEW c \in Unused, NEW p \in Names, AddReference(j, c, p)
    PROVE  SamplesInv'
<1>1. /\ list' = [list EXCEPT ![c] = "reference"] /\ label' = [label EXCEPT ![c] = p]
      /\ profiles' = profiles \union {p} /\ Starts(j, Rebuilds({p}, "done", None))
      /\ UNCHANGED <<rev, sample, pending, pass, tail>>
  BY DEF AddReference, edgeVars
<1>2. c \in Cycles /\ c \notin Stored /\ p \in Labels
  BY Context DEF Labels
<1>3. CarriedTyped'
  <2>1. Rebuilds({p}, "done", None) \in Jobs
    BY <1>2, RebuildsTyped DEF Thens, CycleOrNone
  <2> QED
    BY <1>1, <2>1, Context, StartsTyped DEF CarriedTyped
<1>4. list' \in [Cycles -> Lists] /\ list'[c] = "reference"
      /\ \A d \in Cycles : d # c => list'[d] = list[d]
  BY <1>1, <1>2, Context DEF Lists
<1>5. label' \in [Cycles -> Labels] /\ label'[c] = p
      /\ \A d \in Cycles : d # c => label'[d] = label[d]
  BY <1>1, <1>2, Context
<1>6. Stored' = Stored \union {c}
  BY <1>2, <1>4 DEF Stored, Past, Others
<1>7. LabelledStored'
  BY <1>5, <1>6, Context DEF LabelledStored
<1>8. Own(sample', label', Stored', profiles')
  BY <1>1, <1>2, <1>5, <1>6, Context DEF Own
<1>9. rev' \in [Cycles -> Nat] /\ profiles' \subseteq Names /\ sample' \in [Names -> CycleOrNone]
  BY <1>1, Context
<1> QED
  BY <1>3, <1>4, <1>5, <1>7, <1>8, <1>9, SamplesEnd

LEMMA TrimStep ==
    ASSUME SamplesInv, NEW j \in Coroutines, NEW c \in Stored, Trim(j, c)
    PROVE  SamplesInv'
<1>1. /\ rev' = [rev EXCEPT ![c] = @ + 1]
      /\ job' = job \/ Starts(j, Rebuilds({label[c]}, "done", None))
      /\ UNCHANGED <<list, label, profiles, sample, pending, pass, tail>>
  BY DEF Trim, profileVars, edgeVars
<1>2. rev' \in [Cycles -> Nat]
  BY <1>1, Context
<1>3. Rebuilds({label[c]}, "done", None) \in Jobs
  BY Context, RebuildsTyped DEF Thens, CycleOrNone
<1>4. CarriedTyped'
  BY <1>1, <1>3, Context, StartsTyped DEF CarriedTyped
<1> QED
  BY <1>1, <1>2, <1>4, SamplesStay

LEMMA SplitStep ==
    ASSUME SamplesInv, NEW j \in Coroutines, NEW c \in Past, NEW d \in Unused, NEW e \in Unused,
           NEW labD \in profiles \union {None}, NEW labE \in profiles \union {None},
           Split(j, c, d, e, labD, labE)
    PROVE  SamplesInv'
<1> DEFINE lab == [label EXCEPT ![c] = None, ![d] = labD, ![e] = labE]
           kept == {x \in {d, e} : lab[x] = label[c]}
<1>1. /\ d # e /\ list' = [list EXCEPT ![c] = "gone", ![d] = "past", ![e] = "past"]
      /\ label' = lab
      /\ sample' = [p \in Names |->
                      IF sample[p] # c THEN sample[p]
                      ELSE IF p = label[c] /\ kept # {} THEN Pick(kept)
                      ELSE OwnSample(p, lab)]
      /\ Starts(j, [Rebuilds({label[c], labD, labE}, "unask", None) EXCEPT !.locks = TRUE])
      /\ UNCHANGED <<rev, profiles, pending, pass, tail>>
  BY DEF Split, edgeVars
<1>2. /\ c \in Cycles /\ d \in Cycles /\ e \in Cycles /\ c # d /\ c # e /\ d # e
      /\ c \in Stored /\ d \notin Stored /\ e \notin Stored
      /\ labD \in Labels /\ labE \in Labels /\ label[c] \in Labels /\ None \in Labels
  BY <1>1, Context DEF Labels
<1>3. CarriedTyped'
  <2> DEFINE r == Rebuilds({label[c], labD, labE}, "unask", None)
  <2>1. r \in Jobs
    BY <1>2, RebuildsTyped DEF Thens, CycleOrNone
  <2> HIDE DEF r
  <2>2. [r EXCEPT !.locks = TRUE] \in Jobs
    BY <2>1 DEF Jobs
  <2>3. Starts(j, [r EXCEPT !.locks = TRUE])
    BY <1>1 DEF r
  <2>4. job' \in [Coroutines -> Jobs]
    BY <2>2, <2>3, Context, StartsTyped
  <2> QED
    BY <1>1, <2>4, Context DEF CarriedTyped
<1>4. /\ list' \in [Cycles -> Lists] /\ list'[c] = "gone" /\ list'[d] = "past" /\ list'[e] = "past"
      /\ \A x \in Cycles \ {c, d, e} : list'[x] = list[x]
  BY <1>1, <1>2, Context DEF Lists
<1>5. /\ label' \in [Cycles -> Labels] /\ label'[c] = None
      /\ \A x \in Cycles \ {c, d, e} : label'[x] = label[x]
  BY <1>1, <1>2, Context
<1>6. Stored' = (Stored \ {c}) \union {d, e}
  BY <1>2, <1>4 DEF Stored, Past, Others
<1>7. LabelledStored'
  BY <1>5, <1>6, Context DEF LabelledStored
<1>8. ASSUME NEW p \in Names
      PROVE  /\ sample'[p] \in CycleOrNone
             /\ sample'[p] # None => p \in profiles /\ sample'[p] \in Stored' /\ label'[sample'[p]] = p
  <2>1. CASE sample[p] # c
    <3>1. sample'[p] = sample[p]
      BY <1>1, <2>1
    <3> QED
      BY <1>2, <1>5, <1>6, <2>1, <3>1, Context
  <2>2. CASE sample[p] = c
    <3>1. p \in profiles /\ label[c] = p
      BY <1>2, <2>2, Context
    <3>2. CASE kept # {}
      <4>1. sample'[p] = Pick(kept)
        BY <1>1, <2>2, <3>1, <3>2
      <4>2. Pick(kept) \in kept
        BY <3>2 DEF Pick
      <4> QED
        BY <1>1, <1>2, <1>6, <3>1, <4>1, <4>2 DEF CycleOrNone
    <3>3. CASE kept = {}
      <4>1. sample'[p] = OwnSample(p, label')
        BY <1>1, <2>2, <3>3
      <4> HIDE DEF lab, kept
      <4>2. sample'[p] # None => sample'[p] \in Cycles /\ label'[sample'[p]] = p
        BY <1>5, <4>1, OwnSampleFacts DEF CycleOrNone
      <4> QED
        BY <1>5, <1>7, <3>1, <4>1, <4>2, OwnSampleFacts, CatalogAssumption DEF LabelledStored
    <3> QED
      BY <3>2, <3>3
  <2> QED
    BY <2>1, <2>2
<1>9. sample' \in [Names -> CycleOrNone]
  <2>1. sample' = [p \in Names |-> sample'[p]]
    BY <1>1
  <2> QED
    BY <1>8, <2>1
<1> HIDE DEF lab, kept
<1>10. Own(sample', label', Stored', profiles') /\ profiles' \subseteq Names /\ rev' \in [Cycles -> Nat]
  BY <1>1, <1>8, Context DEF Own
<1> QED
  BY <1>3, <1>4, <1>5, <1>7, <1>9, <1>10, SamplesEnd

LEMMA MergeStep ==
    ASSUME SamplesInv, NEW j \in Coroutines, NEW c \in Past, NEW d \in Past, NEW new \in Unused,
           NEW p \in profiles \union {None}, Merge(j, c, d, new, p)
    PROVE  SamplesInv'
<1> DEFINE consumed == {c} \union ({d} \ Blank)
           lab == [x \in Cycles |-> IF x = new THEN p ELSE IF x \in consumed THEN None ELSE label[x]]
           moved == [n \in Names |-> IF sample[n] \in consumed THEN new ELSE sample[n]]
           stored == (Stored \ consumed) \union {new}
           ps == {n \in profiles : moved[n] = new}
<1>1. /\ list' = [x \in Cycles |-> IF x = new THEN "past" ELSE IF x \in consumed THEN "gone" ELSE list[x]]
      /\ label' = lab
      /\ sample' = HealAll(ps, moved, lab, stored)
      /\ pending' = PrunedFeedback((Past \ consumed) \union {new})
      /\ Starts(j, [Rebuilds({label[c], label[d], p}, "done", None) EXCEPT !.waits = TRUE, !.locks = TRUE])
      /\ UNCHANGED <<rev, profiles, pass, tail>>
  BY DEF Merge, edgeVars
<1>2. /\ c \in Cycles /\ d \in Cycles /\ new \in Cycles /\ new \notin Stored
      /\ consumed \subseteq Stored /\ consumed \subseteq Cycles /\ new \notin consumed
      /\ p \in Labels /\ label[c] \in Labels /\ label[d] \in Labels /\ None \in Labels
  BY Context DEF Labels
<1>3. CarriedTyped'
  <2> DEFINE r == Rebuilds({label[c], label[d], p}, "done", None)
  <2>1. r \in Jobs
    BY <1>2, RebuildsTyped DEF Thens, CycleOrNone
  <2> HIDE DEF r
  <2>2. [r EXCEPT !.waits = TRUE, !.locks = TRUE] \in Jobs
    BY <2>1 DEF Jobs
  <2>3. Starts(j, [r EXCEPT !.waits = TRUE, !.locks = TRUE])
    BY <1>1 DEF r
  <2>4. job' \in [Coroutines -> Jobs]
    BY <2>2, <2>3, Context, StartsTyped
  <2>5. pending' \in [Cycles -> Labels]
    BY <1>1, <1>2, Context DEF PrunedFeedback, CarriedTyped
  <2> QED
    BY <1>1, <2>4, <2>5, Context DEF CarriedTyped
<1>4. lab \in [Cycles -> Labels] /\ lab[new] = p
      /\ \A x \in Cycles : x # new => lab[x] = IF x \in consumed THEN None ELSE label[x]
  BY <1>2, Context
<1>5. moved \in [Names -> CycleOrNone]
      /\ \A n \in Names : moved[n] = IF sample[n] \in consumed THEN new ELSE sample[n]
  BY <1>2, Context DEF CycleOrNone
<1>6. list' \in [Cycles -> Lists] /\ list'[new] = "past"
      /\ \A x \in Cycles : x # new => list'[x] = IF x \in consumed THEN "gone" ELSE list[x]
  BY <1>1, <1>2, Context DEF Lists
<1>7. stored \in SUBSET Cycles
  BY <1>2, Context
<1> HIDE DEF consumed, lab, moved
<1>8. Stored' = stored
  BY <1>2, <1>6 DEF Stored, Past, Others
<1>9. \A x \in Cycles : lab[x] # None => x \in stored
  BY <1>4, Context
<1>10. ASSUME NEW n \in Names, moved[n] # None
       PROVE  n \in profiles /\ moved[n] \in stored /\ (lab[moved[n]] = n \/ n \in ps \intersect profiles)
  <2>1. CASE sample[n] \in consumed
    <3>1. n \in profiles /\ moved[n] = new
      BY <1>2, <1>5, <2>1, Context
    <3> QED
      BY <3>1
  <2>2. CASE sample[n] \notin consumed
    <3>1. /\ moved[n] = sample[n] /\ n \in profiles /\ sample[n] \in Stored /\ label[sample[n]] = n
          /\ sample[n] \in Cycles
      BY <1>5, <1>10, <2>2, Context
    <3> QED
      BY <1>2, <1>4, <2>2, <3>1
  <2> QED
    BY <2>1, <2>2
<1> HIDE DEF stored, ps
<1>11. sample' \in [Names -> CycleOrNone] /\ Own(sample', lab, stored, profiles)
  BY <1>1, <1>4, <1>5, <1>7, <1>9, <1>10, Healing
<1>12. LabelledStored'
  BY <1>1, <1>8, <1>9 DEF LabelledStored
<1>13. profiles' \subseteq Names /\ rev' \in [Cycles -> Nat]
  BY <1>1, Context
<1> QED
  BY <1>1, <1>3, <1>4, <1>6, <1>8, <1>11, <1>12, <1>13, SamplesEnd

-----------------------------------------------------------------------------
(* The end of a cycle, and what follows the rebuilds.                      *)

LEMMA TailAddStep ==
    ASSUME SamplesInv, NEW j \in Coroutines, NEW c \in Unused, TailAdd(j, c)
    PROVE  SamplesInv'
<1>1. /\ list' = [list EXCEPT ![c] = "past"] /\ label' = [label EXCEPT ![c] = tail.label]
      /\ tail' = NoTail
      /\ Starts(j, [Rebuilds({tail.label}, "ask", c) EXCEPT !.best = tail.best,
                                                            !.verdict = (tail.label # None)])
      /\ UNCHANGED <<rev, profiles, sample, pending, pass>>
  BY DEF TailAdd, profileVars
<1>2. c \in Cycles /\ c \notin Stored /\ tail.label \in Labels /\ tail.best \in Labels /\ label[c] = None
  BY Context DEF CarriedTyped, Tails
<1>3. CarriedTyped'
  <2> DEFINE r == Rebuilds({tail.label}, "ask", c)
             verdict == tail.label # None
  <2>1. r \in Jobs
    BY <1>2, RebuildsTyped DEF Thens, CycleOrNone
  <2>2. verdict \in BOOLEAN
    OBVIOUS
  <2> HIDE DEF r, verdict
  <2>3. [r EXCEPT !.best = tail.best, !.verdict = verdict] \in Jobs
    BY <1>2, <2>1, <2>2 DEF Jobs
  <2>4. Starts(j, [r EXCEPT !.best = tail.best, !.verdict = verdict])
    BY <1>1 DEF r, verdict
  <2>5. job' \in [Coroutines -> Jobs]
    BY <2>3, <2>4, Context, StartsTyped
  <2> QED
    BY <1>1, <2>5, Context, IdleTyped DEF CarriedTyped
<1>4. list' \in [Cycles -> Lists] /\ list'[c] = "past"
      /\ \A d \in Cycles : d # c => list'[d] = list[d]
  BY <1>1, <1>2, Context DEF Lists
<1>5. label' \in [Cycles -> Labels] /\ \A d \in Cycles : d # c => label'[d] = label[d]
  BY <1>1, <1>2, Context
<1>6. Stored' = Stored \union {c}
  BY <1>2, <1>4 DEF Stored, Past, Others
<1>7. LabelledStored'
  BY <1>5, <1>6, Context DEF LabelledStored
<1>8. Own(sample', label', Stored', profiles')
  BY <1>1, <1>2, <1>5, <1>6, Context DEF Own
<1>9. rev' \in [Cycles -> Nat] /\ profiles' \subseteq Names /\ sample' \in [Names -> CycleOrNone]
  BY <1>1, Context
<1> QED
  BY <1>3, <1>4, <1>5, <1>7, <1>8, <1>9, SamplesEnd

\* A label given late goes to a cycle that has none, so no profile samples it.
LEMMA TailAskStep ==
    ASSUME SamplesInv, NEW j \in Coroutines, NEW how, TailAsk(j, how)
    PROVE  SamplesInv'
<1> DEFINE c == job[j].cyc
           detected == IF label[c] # None THEN label[c] ELSE job[j].best
           labels == how = "label" /\ c \in Past
<1>1. /\ how # "nothing" => detected # None
      /\ pending' = IF how = "ask" THEN [pending EXCEPT ![c] = detected] ELSE pending
      /\ label' = IF labels THEN [label EXCEPT ![c] = detected] ELSE label
      /\ job' = [job EXCEPT ![j] = Rebuilds(IF labels THEN {detected} ELSE {}, "done", None)]
      /\ UNCHANGED <<list, rev, profiles, sample, pass, tail>>
  BY DEF TailAsk, profileVars, edgeVars
<1>2. c \in CycleOrNone /\ job[j].best \in Labels
  BY Context, JobFacts
<1>3. c \in Cycles => detected \in Labels
  BY <1>2, Context
<1>4. labels => c \in Stored /\ c \in Cycles
  BY Context
<1> HIDE DEF c
<1>5. CarriedTyped'
  <2>1. (IF labels THEN {detected} ELSE {}) \in SUBSET Labels
    BY <1>3, <1>4
  <2> HIDE DEF labels, detected
  <2> DEFINE names == IF labels THEN {detected} ELSE {}
             r == Rebuilds(names, "done", None)
  <2>2. r \in Jobs
    <3> HIDE DEF names
    <3> QED
      BY <2>1, RebuildsTyped DEF Thens, CycleOrNone, names
  <2>a. job' = [job EXCEPT ![j] = r]
    BY <1>1
  <2> HIDE DEF r
  <2>3. job' \in [Coroutines -> Jobs]
    BY <2>a, <2>2, Context, JobSet
  <2>4. pending' \in [Cycles -> Labels]
    <3>1. pending \in [Cycles -> Labels]
      BY Context DEF CarriedTyped
    <3>2. pending' = pending \/ pending' = [pending EXCEPT ![c] = detected]
      BY <1>1
    <3> QED
      BY <1>3, <3>1, <3>2
  <2> QED
    BY <1>1, <2>3, <2>4, Context DEF CarriedTyped
<1>6. rev' \in [Cycles -> Nat]
  BY <1>1, Context
<1>7. CASE ~labels
  BY <1>1, <1>5, <1>6, <1>7, SamplesStay
<1>8. CASE labels /\ label[c] # None
  <2>1. label' = label
    BY <1>1, <1>4, <1>8, Context
  <2> QED
    BY <1>1, <1>5, <1>6, <2>1, SamplesStay
<1>9. CASE labels /\ label[c] = None
  <2>1. label' = [label EXCEPT ![c] = detected] /\ c \in Stored /\ c \in Cycles /\ detected \in Labels
    BY <1>1, <1>3, <1>4, <1>9
  <2> HIDE DEF detected, labels
  <2>2. /\ label' \in [Cycles -> Labels] /\ LabelledStored'
        /\ \A d \in Cycles : d # c => label'[d] = label[d]
    BY <1>1, <2>1, LabelOne
  <2>3. Stored' = Stored
    BY <1>1, StoredStays
  <2>4. Own(sample', label', Stored', profiles')
    BY <1>1, <1>9, <2>2, <2>3, Context DEF Own
  <2>5. list' \in [Cycles -> Lists] /\ profiles' \subseteq Names /\ sample' \in [Names -> CycleOrNone]
    BY <1>1, Context
  <2> QED
    BY <1>5, <1>6, <2>2, <2>4, <2>5, SamplesEnd
<1> QED
  BY <1>7, <1>8, <1>9

\* What a coroutine does once its rebuilds are through.
LEMMA AfterStep ==
    ASSUME SamplesInv, NEW j \in Coroutines, Unask(j) \/ Resolve(j) \/ Prune(j)
    PROVE  SamplesInv'
<1>1. /\ job' = [job EXCEPT ![j] = IdleJob]
      /\ UNCHANGED <<list, label, rev, profiles, sample, pass, tail>>
  BY DEF Unask, Resolve, Prune, cycleVars, profileVars, edgeVars
<1>2. pending' \in [Cycles -> Labels]
  BY Context DEF Unask, Resolve, Prune, PrunedFeedback, CarriedTyped, Labels
<1>3. job' \in [Coroutines -> Jobs]
  BY <1>1, Context, IdleTyped, JobSet
<1>4. CarriedTyped' /\ rev' \in [Cycles -> Nat]
  BY <1>1, <1>2, <1>3, Context DEF CarriedTyped
<1> QED
  BY <1>1, <1>4, SamplesStay

\* The profiles whose sample is no stored cycle go.
LEMMA CleanedStep ==
    ASSUME SamplesInv, Cleaned, UNCHANGED <<list, label, rev>>, CarriedTyped'
    PROVE  SamplesInv'
<1>1. Dropped(Dangling(sample, Stored))
  BY DEF Cleaned
<1>2. label' \in [Cycles -> Labels] /\ rev' \in [Cycles -> Nat]
      /\ \A q \in Names : sample[q] # None => label'[sample[q]] = q
  BY Context
<1>3. LabelledStored'
  BY Context, StoredStays DEF LabelledStored
<1> QED
  BY <1>1, <1>2, <1>3, DroppedStep

LEMMA TidyStep ==
    ASSUME SamplesInv, NEW j \in Coroutines, Tidy(j) \/ Nightly(j)
    PROVE  SamplesInv'
<1>1. Cleaned /\ UNCHANGED <<list, label, rev, pending, pass, tail>>
  BY DEF Tidy, Nightly, cycleVars, edgeVars
<1>2. CASE Tidy(j)
  <2> DEFINE then == IF job[j].cyc = None THEN "done" ELSE "resolve"
             r == [job[j] EXCEPT !.then = then]
  <2>1. then \in Thens /\ job[j] \in Jobs
    BY Context, JobFacts DEF Thens
  <2>2. job' = [job EXCEPT ![j] = r]
    BY <1>2 DEF Tidy
  <2> HIDE DEF then
  <2>3. r \in Jobs
    BY <2>1 DEF Jobs
  <2> HIDE DEF r
  <2>4. job' \in [Coroutines -> Jobs]
    BY <2>2, <2>3, Context, JobSet
  <2>5. CarriedTyped'
    BY <1>1, <2>4, Context DEF CarriedTyped
  <2> QED
    BY <1>1, <2>5, CleanedStep
<1>3. CASE Nightly(j)
  <2> DEFINE r == Rebuilds(profiles', "prune", None)
  <2>1. profiles' \in SUBSET Labels
    BY <1>1, Context DEF Cleaned, Dropped, Labels
  <2>2. r \in Jobs
    BY <2>1, RebuildsTyped DEF Thens, CycleOrNone
  <2>3. job' = [job EXCEPT ![j] = r]
    BY <1>3 DEF Nightly
  <2> HIDE DEF r
  <2>4. job' \in [Coroutines -> Jobs]
    BY <2>2, <2>3, Context, JobSet
  <2>5. CarriedTyped'
    BY <1>1, <2>4, Context DEF CarriedTyped
  <2> QED
    BY <1>1, <2>5, CleanedStep
<1> QED
  BY <1>2, <1>3

LEMMA TailVerdictStep ==
    ASSUME SamplesInv, NEW best \in profiles \union {None}, NEW lab \in profiles \union {None},
           NEW hand \in BOOLEAN, TailVerdict(best, lab, hand)
    PROVE  SamplesInv'
<1>1. /\ tail' = [open |-> TRUE, best |-> best, label |-> lab, hand |-> hand]
      /\ UNCHANGED <<list, label, rev, profiles, sample, job, pending, pass>>
  BY DEF TailVerdict, cycleVars, profileVars
<1>2. best \in Labels /\ lab \in Labels
  BY Context DEF Labels
<1>3. tail' \in Tails
  BY <1>1, <1>2 DEF Tails
<1>4. CarriedTyped' /\ rev' \in [Cycles -> Nat]
  BY <1>1, <1>3, Context DEF CarriedTyped
<1> QED
  BY <1>1, <1>4, SamplesStay

-----------------------------------------------------------------------------
(* The auto-label pass.                                                    *)

LEMMA StartPassStep ==
    ASSUME SamplesInv, NEW kind \in {"panel", "nightly"}, StartPass(kind)
    PROVE  SamplesInv'
<1> DEFINE todo == {c \in Cycles : list[c] \in {"past", "backfill"} /\ label[c] = None}
<1>1. /\ pass' = [IdlePass EXCEPT !.kind = kind, !.todo = todo]
      /\ UNCHANGED <<list, label, rev, job, pending, tail>>
      /\ UNCHANGED profileVars \/ Cleaned
  BY DEF StartPass, cycleVars
<1>2. todo \in SUBSET Cycles
  OBVIOUS
<1> HIDE DEF todo
<1>3. pass' \in Passes
  BY <1>1, <1>2, IdleTyped DEF Passes
<1>4. CarriedTyped' /\ rev' \in [Cycles -> Nat]
  BY <1>1, <1>3, Context DEF CarriedTyped
<1>5. CASE UNCHANGED profileVars
  BY <1>1, <1>4, <1>5, SamplesStay DEF profileVars
<1>6. CASE Cleaned
  BY <1>1, <1>4, <1>6, CleanedStep
<1> QED
  BY <1>1, <1>5, <1>6

LEMMA PassMatchStep ==
    ASSUME SamplesInv, NEW c \in pass.todo, NEW best \in profiles \union {None}, PassMatch(c, best)
    PROVE  SamplesInv'
<1> DEFINE cyc == IF best = None THEN None ELSE c
           todo == pass.todo \ {c}
<1>1. /\ pass' = [pass EXCEPT !.todo = todo, !.best = best, !.cyc = cyc]
      /\ UNCHANGED <<list, label, rev, profiles, sample, job, pending, tail>>
  BY DEF PassMatch, cycleVars, profileVars
<1>2. pass \in Passes /\ best \in Labels
  BY Context DEF CarriedTyped, Labels
<1>3. cyc \in CycleOrNone /\ todo \in SUBSET Cycles
  BY <1>2 DEF Passes, CycleOrNone
<1> HIDE DEF cyc, todo
<1>4. pass' \in Passes
  BY <1>1, <1>2, <1>3 DEF Passes
<1>5. CarriedTyped' /\ rev' \in [Cycles -> Nat]
  BY <1>1, <1>4, Context DEF CarriedTyped
<1> QED
  BY <1>1, <1>5, SamplesStay

LEMMA PassApplyStep ==
    ASSUME SamplesInv, PassApply
    PROVE  SamplesInv'
<1> DEFINE c == pass.cyc
           best == pass.best
           touched == IF list[c] = "backfill" THEN RelabelTouches(c, best) ELSE Touched(label[c], best)
           all == pass.touched \union touched
<1>1. /\ c # None
      /\ pass' = [pass EXCEPT !.cyc = None, !.best = None, !.touched = all]
      /\ UNCHANGED <<list, rev, job, pending, tail>>
  BY DEF PassApply
<1>2. \/ UNCHANGED <<label, profiles, sample>>
      \/ c \in Stored /\ label' = [label EXCEPT ![c] = best]
         /\ sample' = HealAll({label[c]}, sample, label', Stored) /\ profiles' = profiles
      \/ c \in Stored /\ Relabelled(c, best)
  BY DEF PassApply, profileVars
<1>3. pass \in Passes /\ best \in Labels /\ None \in Labels /\ None \in CycleOrNone
      /\ pass.touched \subseteq Names /\ c \in CycleOrNone
  BY Context DEF CarriedTyped, Labels, CycleOrNone, Passes
<1>4. c \in Cycles
  BY <1>1, <1>3 DEF CycleOrNone
<1> HIDE DEF c, best
<1>5. all \in SUBSET Names
  <2>1. Touched(label[c], best) \subseteq Names
    BY <1>3, <1>4, Context DEF Touched, Labels
  <2> QED
    BY <1>3, <2>1 DEF RelabelTouches
<1> HIDE DEF touched, all
<1>6. pass' \in Passes
  BY <1>1, <1>3, <1>5 DEF Passes
<1>7. CarriedTyped' /\ rev' \in [Cycles -> Nat]
  BY <1>1, <1>6, Context DEF CarriedTyped
<1>8. CASE UNCHANGED <<label, profiles, sample>>
  BY <1>1, <1>7, <1>8, SamplesStay
<1>9. CASE c \in Stored /\ label' = [label EXCEPT ![c] = best]
           /\ sample' = HealAll({label[c]}, sample, label', Stored) /\ profiles' = profiles
  <2>1. label' \in [Cycles -> Labels] /\ LabelledStored'
    BY <1>1, <1>3, <1>9, LabelOne
  <2>2. list' = list /\ profiles \subseteq profiles'
    BY <1>1, <1>9
  <2>3. \A q \in Names : sample[q] # None =>
              /\ q \in profiles' /\ sample[q] \in Stored
              /\ label'[sample[q]] = q \/ (q = label[c] /\ q # best /\ q \in profiles)
    BY <1>3, <1>9, <2>2, RelabelLeaves
  <2>4. \A q \in Names : sample[q] # None =>
              /\ q \in profiles' /\ sample[q] \in Stored
              /\ label'[sample[q]] = q \/ q \in {label[c]} \intersect profiles
    BY <2>3
  <2>5. sample \in [Names -> CycleOrNone] /\ profiles' \subseteq Names
    BY <1>9, Context
  <2> QED
    BY <1>1, <1>7, <1>9, <2>1, <2>4, <2>5, HealStep
<1>10. CASE c \in Stored /\ Relabelled(c, best)
  BY <1>1, <1>3, <1>7, <1>10, RelabelledStep
<1> QED
  BY <1>2, <1>8, <1>9, <1>10

LEMMA PassAbortStep ==
    ASSUME SamplesInv, PassAbort
    PROVE  SamplesInv'
<1>1. pass' = IdlePass /\ UNCHANGED <<list, label, rev, profiles, sample, job, pending, tail>>
  BY DEF PassAbort, cycleVars, profileVars
<1>2. CarriedTyped' /\ rev' \in [Cycles -> Nat]
  BY <1>1, Context, IdleTyped DEF CarriedTyped
<1> QED
  BY <1>1, <1>2, SamplesStay

LEMMA PassEndStep ==
    ASSUME SamplesInv, NEW j \in Coroutines, PassEnd(j)
    PROVE  SamplesInv'
<1> DEFINE then == IF pass.kind = "nightly" THEN "nightly"
                   ELSE IF pass.touched = {} THEN "done" ELSE "tidy"
           locks == pass.kind = "panel"
           r == Rebuilds(pass.touched, then, None)
           s == [r EXCEPT !.locks = locks]
<1>1. /\ Starts(j, Rested(s)) /\ pass' = IdlePass
      /\ UNCHANGED <<list, label, rev, profiles, sample, pending, tail>>
  BY DEF PassEnd, cycleVars, profileVars
<1>2. then \in Thens /\ locks \in BOOLEAN /\ pass.touched \in SUBSET Labels /\ None \in CycleOrNone
  BY Context DEF Thens, CarriedTyped, Passes, Labels, CycleOrNone
<1> HIDE DEF then, locks
<1>3. r \in Jobs
  BY <1>2, RebuildsTyped
<1> HIDE DEF r
<1>4. s \in Jobs
  BY <1>2, <1>3 DEF Jobs
<1> HIDE DEF s
<1>5. job' \in [Coroutines -> Jobs]
  BY <1>1, <1>4, Context, RestedTyped, StartsTyped
<1>6. CarriedTyped' /\ rev' \in [Cycles -> Nat]
  BY <1>1, <1>5, Context, IdleTyped DEF CarriedTyped
<1> QED
  BY <1>1, <1>6, SamplesStay

-----------------------------------------------------------------------------
(* Groups, and what is left.                                               *)

LEMMA GroupsStep ==
    ASSUME SamplesInv,
           \/ ReadGroups
           \/ \E g \in Groups, ps \in SUBSET profiles : SetGroup(g, ps)
           \/ \E g, h \in Groups : RenameGroup(g, h)
           \/ \E g \in Groups : DeleteGroup(g)
    PROVE  SamplesInv'
<1>1. UNCHANGED <<list, label, rev, profiles, sample, job, pending, pass, tail>>
  BY DEF ReadGroups, SetGroup, RenameGroup, DeleteGroup, cycleVars, profileVars, edgeVars
<1>2. CarriedTyped' /\ rev' \in [Cycles -> Nat]
  BY <1>1, Context DEF CarriedTyped
<1> QED
  BY <1>1, <1>2, SamplesStay

LEMMA RebuildAllStep ==
    ASSUME SamplesInv, NEW j \in Coroutines, RebuildAll(j)
    PROVE  SamplesInv'
<1>1. /\ Starts(j, Rebuilds(profiles, "done", None))
      /\ UNCHANGED <<list, label, rev, profiles, sample, pending, pass, tail>>
  BY DEF RebuildAll, cycleVars, profileVars, edgeVars
<1>2. profiles \in SUBSET Labels
  BY Context DEF Labels
<1>3. Rebuilds(profiles, "done", None) \in Jobs
  BY <1>2, RebuildsTyped DEF Thens, CycleOrNone
<1>4. CarriedTyped' /\ rev' \in [Cycles -> Nat]
  BY <1>1, <1>3, Context, StartsTyped DEF CarriedTyped
<1> QED
  BY <1>1, <1>4, SamplesStay

LEMMA ClearAllStep ==
    ASSUME SamplesInv, ClearAll
    PROVE  SamplesInv'
<1>1. /\ list' = [c \in Cycles |-> IF c \in Stored THEN "gone" ELSE list[c]]
      /\ label' = [c \in Cycles |-> None] /\ Dropped(profiles)
      /\ pending' = [c \in Cycles |-> None]
      /\ UNCHANGED <<rev, job, pass, tail>>
  BY DEF ClearAll, edgeVars
<1>2. CarriedTyped' /\ rev' \in [Cycles -> Nat]
  BY <1>1, Context DEF CarriedTyped, Labels
<1>3. list' \in [Cycles -> Lists] /\ label' \in [Cycles -> Labels]
  BY <1>1, Context DEF Lists, Labels
<1>4. LabelledStored'
  BY <1>1 DEF LabelledStored
<1>5. profiles' = {} /\ sample' = [q \in Names |-> None]
  BY <1>1, Context DEF Dropped
<1>6. sample' \in [Names -> CycleOrNone] /\ profiles' \subseteq Names
      /\ Own(sample', label', Stored', profiles')
  BY <1>5 DEF CycleOrNone, Own
<1> QED
  BY <1>2, <1>3, <1>4, <1>6, SamplesEnd

-----------------------------------------------------------------------------
LEMMA CatalogStart == CatalogInit => SamplesInv
<1> SUFFICES ASSUME CatalogInit PROVE SamplesInv
  OBVIOUS
<1>1. /\ list = StartList /\ label = StartLabel /\ rev = [c \in Cycles |-> 0] /\ profiles = StartNames
      /\ sample = [p \in Names |-> OwnSample(p, label)]
      /\ job = [j \in Coroutines |-> IdleJob] /\ pending = [c \in Cycles |-> None]
      /\ pass = IdlePass /\ tail = NoTail
  BY DEF CatalogInit
<1>2. CarriedTyped
  BY <1>1, IdleTyped DEF CarriedTyped, Labels
<1>3. /\ list \in [Cycles -> Lists] /\ label \in [Cycles -> Labels] /\ rev \in [Cycles -> Nat]
      /\ profiles \subseteq Names /\ label \in [Cycles -> StartNames \union {None}]
  BY <1>1, CatalogAssumption DEF Lists, Labels
<1>4. LabelledStored
  BY <1>1, <1>3, CatalogAssumption DEF LabelledStored, Stored, Past, Others
<1>5. ASSUME NEW p \in Names
      PROVE  /\ sample[p] \in CycleOrNone
             /\ sample[p] # None => p \in profiles /\ sample[p] \in Stored /\ label[sample[p]] = p
  <2>1. /\ sample[p] \in CycleOrNone /\ (sample[p] # None => label[sample[p]] = p)
    BY <1>1, <1>3, OwnSampleFacts
  <2>2. sample[p] # None => sample[p] \in Cycles /\ label[sample[p]] # None
    BY <2>1, CatalogAssumption DEF CycleOrNone
  <2>3. sample[p] # None => p \in profiles
    BY <1>1, <1>3, <2>1, <2>2
  <2> QED
    BY <1>4, <2>1, <2>2, <2>3 DEF LabelledStored
<1>6. sample \in [Names -> CycleOrNone]
  BY <1>1, <1>5
<1> QED
  BY <1>2, <1>3, <1>4, <1>5, <1>6 DEF SamplesInv, CatalogTyped, SampleIsOwn

LEMMA CatalogStep == SamplesInv /\ [CatalogNext]_catalogVars => SamplesInv'
<1> SUFFICES ASSUME SamplesInv, [CatalogNext]_catalogVars
             PROVE  SamplesInv'
  OBVIOUS
<1>1. \A j \in Coroutines : SaveDone(j) \/ DiscardBuild(j) \/ WriteNone(j) \/ WriteBuild(j) => SamplesInv'
  BY BuildEndsStep
<1>2. \A j \in Coroutines : \A n \in job[j].left :
         SkipBuild(j, n) \/ EmptyBuild(j, n) \/ BeginBuild(j, n) => SamplesInv'
  BY BuildsStep
<1>3. \A j \in Coroutines :
         Unask(j) \/ Resolve(j) \/ Tidy(j) \/ Nightly(j) \/ Prune(j) \/ PassEnd(j) => SamplesInv'
  BY AfterStep, TidyStep, PassEndStep
<1>4. \A j \in Coroutines, how \in {"nothing", "ask", "label"} : TailAsk(j, how) => SamplesInv'
  BY TailAskStep
<1>5. \A j \in Coroutines, c \in Stored, p \in Names : CreateProfile(j, c, p) => SamplesInv'
  BY CreateProfileStep
<1>6. \A j \in Coroutines, c \in Stored \union {None}, p \in Names :
         CreateStandalone(j, p, c) => SamplesInv'
  BY CreateStandaloneStep
<1>7. \A j \in Coroutines, c \in Unused, p \in Names : AddReference(j, c, p) => SamplesInv'
  BY AddReferenceStep
<1>8. \A p \in profiles, q \in Names : Rename(p, q) => SamplesInv'
  BY RenameStep
<1>9. \A p \in profiles, unlabel \in BOOLEAN : DeleteProfile(p, unlabel) => SamplesInv'
  BY DeleteProfileStep
<1>10. \A j \in Coroutines : RebuildAll(j) => SamplesInv'
  BY RebuildAllStep
<1>11. \A j \in Coroutines, c \in Stored, p \in profiles \union {None} :
          Assign(j, c, p) \/ AssignOther(j, c, p) => SamplesInv'
  BY AssignStep, AssignOtherStep
<1>12. \A j \in Coroutines, c \in Stored : DeleteCycle(j, c) \/ DeleteOther(j, c) \/ Trim(j, c) => SamplesInv'
  BY DeletesStep, TrimStep
<1>13. \A c \in {x \in Cycles : pending[x] # None} :
          (\/ Dismiss(c)
           \/ \E j \in Coroutines : Confirm(j, c) \/ \E p \in profiles : Correct(j, c, p)) => SamplesInv'
  BY AnswersStep
<1>14. \A j \in Coroutines, c \in Past, d, e \in Unused, m, n \in profiles \union {None} :
          Split(j, c, d, e, m, n) => SamplesInv'
  BY SplitStep
<1>15. \A j \in Coroutines, c, d \in Past, new \in Unused, p \in profiles \union {None} :
          Merge(j, c, d, new, p) => SamplesInv'
  BY MergeStep
<1>16. \A best, lab \in profiles \union {None}, hand \in BOOLEAN : TailVerdict(best, lab, hand) => SamplesInv'
  BY TailVerdictStep
<1>17. \A j \in Coroutines, c \in Unused : TailAdd(j, c) => SamplesInv'
  BY TailAddStep
<1>18. /\ \A kind \in {"panel", "nightly"} : StartPass(kind) => SamplesInv'
       /\ \A c \in pass.todo, best \in profiles \union {None} : PassMatch(c, best) => SamplesInv'
       /\ PassApply \/ PassAbort => SamplesInv'
  BY StartPassStep, PassMatchStep, PassApplyStep, PassAbortStep
<1>19. /\ \A g \in Groups, ps \in SUBSET profiles : SetGroup(g, ps) => SamplesInv'
       /\ \A g, h \in Groups : RenameGroup(g, h) => SamplesInv'
       /\ \A g \in Groups : DeleteGroup(g) => SamplesInv'
       /\ ReadGroups \/ ClearAll => SamplesInv'
  BY GroupsStep, ClearAllStep
<1>20. CASE UNCHANGED catalogVars
  <2>1. CarriedTyped' /\ rev' \in [Cycles -> Nat]
        /\ UNCHANGED <<list, label, profiles, sample>>
    BY <1>20, Context DEF catalogVars, CarriedTyped
  <2> QED
    BY <2>1, SamplesStay
<1> QED
  BY <1>1, <1>2, <1>3, <1>4, <1>5, <1>6, <1>7, <1>8, <1>9, <1>10, <1>11, <1>12, <1>13, <1>14, <1>15,
     <1>16, <1>17, <1>18, <1>19, <1>20 DEF CatalogNext

\* In every order of edits, deletions, splits, merges, renames, clearings and
\* builds that end late (profile_store.py), a profile's sample is one of its own
\* stored cycles.
THEOREM SamplesAreOwn == CatalogSpec => []SampleIsOwn
<1>1. CatalogInit => SamplesInv
  BY CatalogStart
<1>2. SamplesInv /\ [CatalogNext]_catalogVars => SamplesInv'
  BY CatalogStep
<1>3. SamplesInv => SampleIsOwn
  BY DEF SamplesInv
<1> QED
  BY <1>1, <1>2, <1>3, PTL DEF CatalogSpec

-----------------------------------------------------------------------------
(***************************************************************************)
(* The envelopes.                                                          *)
(***************************************************************************)
\* The newest build of p is under way.
Building(j, p) == job[j].name = p /\ job[j].newest

\* What still has to rebuild p.
Due(p) ==
    \/ \E j \in Coroutines : p \in job[j].left
    \/ p \in lost
    \/ pass.kind # "idle" /\ p \in pass.touched

\* A pass that has cycles to match is one under way.
PassOpen == pass.todo # {} \/ pass.cyc # None => pass.kind # "idle"

EnvelopesTyped ==
    /\ env = [p \in Names |-> env[p]] /\ memo = [p \in Names |-> memo[p]]
    /\ \A p \in Names : env[p].obj = 0 => env[p].from = {}
    /\ PassOpen

\* A memo whose envelope is still there describes it, whatever name that has by now.
MemosDescribe ==
    \A p \in Names : memo[p].set =>
        /\ memo[p].env # 0
        /\ \A q \in Names : memo[p].env = env[q].obj => env[q].from = ShapeOf(memo[p].key)

\* A name has one newest build, and no memo while that is under way.
BuildsAlone ==
    \A p \in Names, j \in Coroutines : Building(j, p) =>
        ~memo[p].set /\ \A k \in Coroutines : Building(k, p) => k = j

\* A build whose evidence has moved is followed by another.
BuildsOfNow ==
    \A p \in profiles, j \in Coroutines : Building(j, p) => job[j].key = Key(p) \/ Due(p)

EnvelopesOfNow ==
    \A p \in profiles :
        Due(p) \/ (\E j \in Coroutines : Building(j, p)) \/ env[p].from = ShapeOf(Key(p))

FreshInv ==
    EnvelopesTyped /\ MemosDescribe /\ BuildsAlone /\ BuildsOfNow /\ EnvelopesOfNow

\* What is named, and what may name it.
LEMMA NameFacts ==
    ASSUME SamplesInv
    PROVE  /\ profiles \subseteq Names /\ None \notin Names
           /\ Names \subseteq Labels /\ None \in Labels
           /\ \A p \in Labels : p # None => p \in Names
           /\ \A c \in Cycles : label[c] \in Labels /\ pending[c] \in Labels
           /\ \A j \in Coroutines :
                 job[j].left \subseteq Names /\ job[j].name \in Labels /\ job[j].best \in Labels
           /\ pass.touched \subseteq Names /\ pass.best \in Labels
           /\ tail.best \in Labels /\ tail.label \in Labels
<1>1. /\ profiles \subseteq Names /\ None \notin Names
      /\ \A c \in Cycles : label[c] \in Labels /\ pending[c] \in Labels
      /\ pass \in Passes /\ tail \in Tails
  BY Context DEF CarriedTyped
<1>2. \A j \in Coroutines :
         job[j].left \subseteq Names /\ job[j].name \in Labels /\ job[j].best \in Labels
  BY Context, JobFacts DEF Jobs
<1>3. pass.touched \subseteq Names /\ pass.best \in Labels
  BY <1>1 DEF Passes
<1>4. tail.best \in Labels /\ tail.label \in Labels
  BY <1>1 DEF Tails
<1> QED
  BY <1>1, <1>2, <1>3, <1>4 DEF Labels

-----------------------------------------------------------------------------
\* Of the steps that neither begin nor end a build.

BuildsStay ==
    \A j \in Coroutines :
        /\ job'[j].name = job[j].name
        /\ job[j].name # None => job'[j].newest = job[j].newest /\ job'[j].key = job[j].key

\* Profile p has what o had, and nobody else builds it.
KeptAs(o, p) ==
    /\ Key(p)' = Key(o) /\ env'[p].from = env[o].from /\ (Due(o) => Due(p)')
    /\ o = p \/ \A j \in Coroutines : ~Building(j, o) /\ ~Building(j, p)

\* Any step of these: each profile's rebuild is owed, or it goes on from one there was.
LEMMA EditStep ==
    ASSUME SamplesInv, FreshInv, BuildsStay, memo' = memo, profiles' \subseteq Names,
           env' = [p \in Names |-> env'[p]],
           \A p \in Names : env'[p] = NoEnv \/ \E q \in Names : env'[p] = env[q],
           PassOpen',
           \A p \in profiles' : Due(p)' \/ \E o \in profiles : KeptAs(o, p)
    PROVE  FreshInv'
<1>1. None \notin Names /\ profiles \subseteq Names
  BY Context
<1>2. \A p \in Names, j \in Coroutines :
         /\ Building(j, p)' <=> Building(j, p)
         /\ Building(j, p) => job'[j].key = job[j].key
  BY <1>1 DEF BuildsStay, Building
<1>3. EnvelopesTyped'
  BY DEF FreshInv, EnvelopesTyped, NoEnv
<1>4. MemosDescribe'
  BY DEF FreshInv, MemosDescribe, NoEnv, ShapeOf
<1>5. BuildsAlone'
  BY <1>2 DEF FreshInv, BuildsAlone
<1>6. ASSUME NEW p \in profiles', ~Due(p)'
      PROVE  /\ \A j \in Coroutines : Building(j, p)' => job'[j].key = Key(p)'
             /\ (\E j \in Coroutines : Building(j, p)') \/ env'[p].from = ShapeOf(Key(p)')
  <2>1. PICK o \in profiles : KeptAs(o, p)
    BY <1>6
  <2>2. Key(p)' = Key(o) /\ env'[p].from = env[o].from /\ ~Due(o)
    BY <1>6, <2>1 DEF KeptAs
  <2>3. /\ \A j \in Coroutines : Building(j, o) => job[j].key = Key(o)
        /\ (\E j \in Coroutines : Building(j, o)) \/ env[o].from = ShapeOf(Key(o))
    BY <2>2 DEF FreshInv, BuildsOfNow, EnvelopesOfNow
  <2>4. CASE o = p
    BY <1>1, <1>2, <2>2, <2>3, <2>4
  <2>5. CASE \A j \in Coroutines : ~Building(j, o) /\ ~Building(j, p)
    BY <1>1, <1>2, <2>2, <2>3, <2>5
  <2> QED
    BY <2>1, <2>4, <2>5 DEF KeptAs
<1>7. BuildsOfNow' /\ EnvelopesOfNow'
  BY <1>6 DEF BuildsOfNow, EnvelopesOfNow
<1> QED
  BY <1>3, <1>4, <1>5, <1>7 DEF FreshInv

\* The envelopes of the names gone go.
EnvLoses(gone) == env' = [p \in Names |-> IF p \in gone THEN NoEnv ELSE env[p]]

\* An edit that leaves the other envelopes alone.
LEMMA EditKeeps ==
    ASSUME SamplesInv, FreshInv, BuildsStay, memo' = memo, profiles' \subseteq Names, NEW gone,
           EnvLoses(gone),
           PassOpen', \A p \in profiles : Due(p) => Due(p)',
           \A p \in profiles' : Due(p)' \/ (p \in profiles /\ p \notin gone /\ Key(p)' = Key(p))
    PROVE  FreshInv'
<1>1. /\ env' = [p \in Names |-> env'[p]]
      /\ \A p \in Names : env'[p] = NoEnv \/ \E q \in Names : env'[p] = env[q]
  BY DEF EnvLoses
<1>2. \A p \in profiles' : Due(p)' \/ \E o \in profiles : KeptAs(o, p)
  BY DEF KeptAs, EnvLoses
<1> QED
  BY <1>1, <1>2, EditStep

LEMMA EnvSame ==
    ASSUME FreshInv, env' = env
    PROVE  EnvLoses({})
BY DEF EnvLoses, FreshInv, EnvelopesTyped

\* A coroutine that is not in a build, and has none left, goes on with r.
LEMMA JobGoesOn ==
    ASSUME SamplesInv, NEW j \in Coroutines, NEW r \in Jobs,
           job' = [job EXCEPT ![j] = r], job[j].left = {}, job[j].name = None, r.name = None
    PROVE  /\ BuildsStay
           /\ \A k \in Coroutines : job[k].left \subseteq job'[k].left
           /\ \A p \in r.left : Due(p)'
<1>1. /\ job'[j] = r /\ \A k \in Coroutines : k # j => job'[k] = job[k]
  BY Context DEF CarriedTyped
<1>2. BuildsStay
  BY <1>1 DEF BuildsStay
<1> QED
  BY <1>1, <1>2 DEF Due

\* No coroutine goes on.
LEMMA JobsRest ==
    ASSUME job' = job
    PROVE  /\ BuildsStay
           /\ \A k \in Coroutines : job[k].left \subseteq job'[k].left
BY DEF BuildsStay

\* What is owed stays owed.
LEMMA DueStays ==
    ASSUME \A k \in Coroutines : job[k].left \subseteq job'[k].left,
           lost \subseteq lost', pass' = pass
    PROVE  \A p : Due(p) => Due(p)'
BY DEF Due

\* The pass stays.
LEMMA PassRests ==
    ASSUME FreshInv, pass' = pass
    PROVE  PassOpen'
BY DEF FreshInv, EnvelopesTyped, PassOpen

\* What the coroutines begin with.
LEMMA RebuildsFacts ==
    ASSUME NEW names \in SUBSET Labels, NEW then \in Thens, NEW c \in CycleOrNone
    PROVE  /\ Rebuilds(names, then, c) \in Jobs
           /\ \A n : n \in Rebuilds(names, then, c).left <=> n \in names /\ n # None
           /\ None \notin names => Rebuilds(names, then, c).left = names
           /\ Rebuilds(names, then, c).name = None
BY RebuildsTyped DEF Rebuilds, IdleJob

\* A coroutine that is over leaves nothing to rebuild.
LEMMA RestedNames ==
    ASSUME NEW r \in Jobs
    PROVE  /\ Rested(r).left = r.left /\ Rested(r).name = r.name
           /\ Rested(r) \in {r, IdleJob}
           /\ r.name # None => Rested(r) = r
BY DEF Rested, IdleJob

\* A name whose cycles and their traces stay.
LEMMA KeyStays ==
    ASSUME SamplesInv, NEW p \in Names,
           \A c \in Cycles : /\ label'[c] = p <=> label[c] = p
                             /\ label[c] = p => rev'[c] = rev[c]
    PROVE  Key(p)' = Key(p)
<1>1. OwnOf(p, label') = OwnOf(p, label) /\ OwnOf(p, label) \subseteq Cycles
  BY DEF OwnOf
<1>2. \A c \in OwnOf(p, label) : label[c] = p /\ rev'[c] = rev[c]
  BY DEF OwnOf
<1> QED
  BY <1>1, <1>2 DEF Key

\* One cycle moves to another name.
LEMMA KeyOfOthers ==
    ASSUME SamplesInv, NEW c \in Cycles, NEW q \in Labels, label' = [label EXCEPT ![c] = q], rev' = rev,
           NEW p \in Names, p # label[c], p # q
    PROVE  Key(p)' = Key(p)
<1>1. \A d \in Cycles : label'[d] = IF d = c THEN q ELSE label[d]
  BY Context
<1> QED
  BY <1>1, KeyStays

\* An edit that ends with coroutine j going on with r, which rebuilds what the edit changed.
LEMMA EditAndRebuild ==
    ASSUME SamplesInv, FreshInv, NEW j \in Coroutines, NEW r \in Jobs,
           job' = [job EXCEPT ![j] = r], job[j].left = {}, job[j].name = None, r.name = None,
           profiles' \subseteq Names, UNCHANGED <<memo, lost, pass>>, NEW gone,
           EnvLoses(gone),
           \A p \in profiles' \ r.left : p \in profiles /\ p \notin gone /\ Key(p)' = Key(p)
    PROVE  FreshInv'
<1>1. /\ BuildsStay
      /\ \A k \in Coroutines : job[k].left \subseteq job'[k].left
      /\ \A p \in r.left : Due(p)'
  BY JobGoesOn
<1>2. PassOpen'
  BY PassRests
<1>3. \A p \in profiles : Due(p) => Due(p)'
  BY <1>1, DueStays
<1> QED
  BY <1>1, <1>2, <1>3, EditKeeps

\* An edit that starts coroutine j.
LEMMA EditAndStart ==
    ASSUME SamplesInv, FreshInv, NEW j \in Coroutines, NEW r \in Jobs, Starts(j, r),
           r.name = None, profiles' \subseteq Names, UNCHANGED <<memo, lost, pass>>, NEW gone,
           EnvLoses(gone),
           \A p \in profiles' \ r.left : p \in profiles /\ p \notin gone /\ Key(p)' = Key(p)
    PROVE  FreshInv'
<1>1. job[j].left = {} /\ job[j].name = None /\ job' = [job EXCEPT ![j] = r]
  BY DEF Starts, Free, IdleJob
<1> QED
  BY <1>1, EditAndRebuild

\* One that starts none.
LEMMA EditOnly ==
    ASSUME SamplesInv, FreshInv, job' = job,
           profiles' \subseteq Names, UNCHANGED <<memo, lost, pass>>, NEW gone,
           EnvLoses(gone),
           \A p \in profiles' : p \in profiles /\ p \notin gone /\ Key(p)' = Key(p)
    PROVE  FreshInv'
<1>1. /\ BuildsStay
      /\ \A k \in Coroutines : job[k].left \subseteq job'[k].left
  BY JobsRest
<1>2. PassOpen'
  BY PassRests
<1>3. \A p \in profiles : Due(p) => Due(p)'
  BY <1>1, DueStays
<1> QED
  BY <1>1, <1>2, <1>3, EditKeeps

\* A stored cycle takes the name q.
LEMMA LabelMoves ==
    ASSUME SamplesInv, NEW c \in Cycles, NEW q \in Labels, label' = [label EXCEPT ![c] = q], rev' = rev
    PROVE  /\ \A p \in Names : p \notin {label[c], q} => Key(p)' = Key(p)
           /\ label[c] = q => \A p \in Names : Key(p)' = Key(p)
<1>1. \A d \in Cycles : label'[d] = IF d = c THEN q ELSE label[d]
  BY Context
<1>2. \A p \in Names : p \notin {label[c], q} => Key(p)' = Key(p)
  BY KeyOfOthers
<1>3. label[c] = q => \A p \in Names : Key(p)' = Key(p)
  BY <1>1, KeyStays
<1> QED
  BY <1>2, <1>3

LEMMA CreateProfileFresh ==
    ASSUME SamplesInv, FreshInv, NEW j \in Coroutines, NEW c \in Stored, NEW p \in Names,
           CreateProfile(j, c, p)
    PROVE  FreshInv'
<1> DEFINE names == Touched(label[c], p)
           r == Rebuilds(names, "resolve", c)
<1>1. /\ label' = [label EXCEPT ![c] = p] /\ profiles' = profiles \union {p} /\ Starts(j, r)
      /\ UNCHANGED <<rev, env, memo, pass, lost>>
  BY DEF CreateProfile, edgeVars, envVars
<1>2. c \in Cycles /\ label[c] \in Labels /\ p \in Labels /\ None \notin Names
  BY Context, NameFacts
<1>3. names \subseteq Labels /\ None \notin names
  BY <1>2 DEF Touched, Labels
<1>4. r \in Jobs /\ r.left = names /\ r.name = None
  <2>1. "resolve" \in Thens /\ c \in CycleOrNone
    BY <1>2 DEF Thens, CycleOrNone
  <2> HIDE DEF names
  <2> QED
    BY <1>3, <2>1, RebuildsFacts
<1>5. \A q \in Names : q \notin {label[c], p} => Key(q)' = Key(q)
  BY <1>1, <1>2, LabelMoves
<1>6. profiles' \subseteq Names
  BY <1>1, NameFacts
<1>7. \A q \in profiles' \ names : q \in profiles /\ q \notin {} /\ Key(q)' = Key(q)
  BY <1>1, <1>2, <1>5, NameFacts DEF Touched
<1> HIDE DEF r, names
<1> QED
  BY <1>1, <1>4, <1>6, <1>7, EnvSame, EditAndStart

LEMMA CreateStandaloneFresh ==
    ASSUME SamplesInv, FreshInv, NEW j \in Coroutines, NEW c \in Stored \union {None}, NEW p \in Names,
           CreateStandalone(j, p, c)
    PROVE  FreshInv'
<1> DEFINE names == {p}
           r == Rebuilds(names, "done", None)
<1>1. /\ label' = IF c # None /\ label[c] = None THEN [label EXCEPT ![c] = p] ELSE label
      /\ profiles' = profiles \union {p} /\ Starts(j, r)
      /\ UNCHANGED <<rev, env, memo, pass, lost>>
  BY DEF CreateStandalone, edgeVars, envVars
<1>2. (c # None => c \in Cycles) /\ None \notin Names /\ p \in Labels
  BY Context, NameFacts
<1>3. names \in SUBSET Labels /\ None \notin names
  BY <1>2
<1> HIDE DEF names
<1>4. r \in Jobs /\ r.left = names /\ r.name = None
  BY <1>3, RebuildsFacts DEF Thens, CycleOrNone
<1>5. \A q \in Names : q # p => Key(q)' = Key(q)
  <2>1. CASE c # None /\ label[c] = None
    BY <1>1, <1>2, <2>1, LabelMoves
  <2>2. CASE ~(c # None /\ label[c] = None)
    BY <1>1, <2>2, KeyStays
  <2> QED
    BY <2>1, <2>2
<1>6. profiles' \subseteq Names
  BY <1>1, NameFacts
<1>7. \A q \in profiles' \ names : q \in profiles /\ q \notin {} /\ Key(q)' = Key(q)
  BY <1>1, <1>5, NameFacts DEF names
<1> HIDE DEF r
<1> QED
  BY <1>1, <1>4, <1>6, <1>7, EnvSame, EditAndStart

LEMMA RenameFresh ==
    ASSUME SamplesInv, FreshInv, NEW p \in profiles, NEW q \in Names, Rename(p, q)
    PROVE  FreshInv'
<1> DEFINE owed == Owed(p) \/ p \in lost \union pass.touched \/ Inherits(p, q)
<1>1. /\ q \notin profiles /\ profiles' = (profiles \ {p}) \union {q}
      /\ env' = IF env[p].obj # 0 THEN [env EXCEPT ![q] = env[p], ![p] = NoEnv] ELSE env
      /\ label' = [c \in Cycles |-> IF label[c] = p THEN q ELSE label[c]]
      /\ lost' = IF owed THEN (lost \ {p}) \union {q} ELSE lost \ {p, q}
      /\ UNCHANGED <<rev, memo, job, pass>>
  BY DEF Rename
<1>2. p \in Names /\ p # q /\ None \notin Names
  BY <1>1, Context
<1>3. /\ \A o \in Names \ {p, q} : env'[o] = env[o]
      /\ env' = [o \in Names |-> env'[o]]
      /\ \A o \in Names : env'[o] = NoEnv \/ \E x \in Names : env'[o] = env[x]
  <2>1. env = [o \in Names |-> env[o]]
    BY DEF FreshInv, EnvelopesTyped
  <2>2. CASE env[p].obj # 0
    BY <1>1, <1>2, <2>1, <2>2
  <2>3. CASE env[p].obj = 0
    BY <1>1, <2>1, <2>3
  <2> QED
    BY <2>2, <2>3
<1>4. profiles' \subseteq Names
  BY <1>1, NameFacts
<1>5. BuildsStay /\ PassOpen'
  BY <1>1 DEF BuildsStay, FreshInv, EnvelopesTyped, PassOpen
<1>6. ASSUME NEW o \in profiles', o # q PROVE o \in profiles /\ KeptAs(o, o)
  <2>1. o \in profiles /\ o \in Names /\ o # p
    BY <1>1, <1>6, Context
  <2>2. \A c \in Cycles : label'[c] = o <=> label[c] = o
    BY <1>1, <1>6, <2>1
  <2>3. Key(o)' = Key(o)
    BY <1>1, <2>1, <2>2, KeyStays
  <2> HIDE DEF owed
  <2>4. Due(o) => Due(o)'
    BY <1>1, <1>6, <2>1 DEF Due
  <2> QED
    BY <1>3, <1>6, <2>1, <2>3, <2>4 DEF KeptAs
<1>7. CASE owed
  <2>1. Due(q)'
    BY <1>1, <1>7 DEF Due
  <2>2. \A o \in profiles' : Due(o)' \/ \E x \in profiles : KeptAs(x, o)
    BY <1>6, <2>1
  <2> QED
    BY <1>1, <1>3, <1>4, <1>5, <2>2, EditStep
<1>8. CASE ~owed
  <2>1. /\ ~Due(p) /\ \A j \in Coroutines : ~Building(j, p) /\ ~Building(j, q)
        /\ OwnOf(q, label) = {} /\ (env[p].obj = 0 => env[q].obj = 0)
    BY <1>8 DEF Due, Building, Owed, Inherits
  <2>2. env'[q].from = env[p].from
    <3>1. /\ env = [o \in Names |-> env[o]] /\ (env[p].obj = 0 => env[p].from = {})
          /\ env[q].obj = 0 => env[q].from = {}
      BY <1>2 DEF FreshInv, EnvelopesTyped
    <3>2. CASE env[p].obj # 0
      BY <1>1, <1>2, <3>1, <3>2
    <3>3. CASE env[p].obj = 0
      BY <1>1, <2>1, <3>1, <3>3
    <3> QED
      BY <3>2, <3>3
  <2>3. Key(q)' = Key(p)
    <3>1. \A c \in Cycles : label[c] # q
      BY <2>1 DEF OwnOf
    <3>2. \A c \in Cycles : label'[c] = q <=> label[c] = p
      BY <1>1, <3>1
    <3>3. OwnOf(q, label') = OwnOf(p, label)
      BY <3>2 DEF OwnOf
    <3> QED
      BY <1>1, <3>3 DEF Key
  <2>4. KeptAs(p, q)
    BY <2>1, <2>2, <2>3 DEF KeptAs
  <2>5. \A o \in profiles' : Due(o)' \/ \E x \in profiles : KeptAs(x, o)
    BY <1>6, <2>4
  <2> QED
    BY <1>1, <1>3, <1>4, <1>5, <2>5, EditStep
<1> QED
  BY <1>7, <1>8

LEMMA DeleteProfileFresh ==
    ASSUME SamplesInv, FreshInv, NEW p \in profiles, NEW unlabel \in BOOLEAN, DeleteProfile(p, unlabel)
    PROVE  FreshInv'
<1>1. /\ profiles' = profiles \ {p} /\ env' = [env EXCEPT ![p] = NoEnv]
      /\ label' = [c \in Cycles |-> IF unlabel /\ label[c] = p THEN None ELSE label[c]]
      /\ UNCHANGED <<rev, memo, job, pass, lost>>
  BY DEF DeleteProfile, Dropped, edgeVars
<1>2. EnvLoses({p})
  BY <1>1, Context DEF FreshInv, EnvelopesTyped, EnvLoses
<1>3. profiles' \subseteq Names
  BY <1>1, NameFacts
<1>4. \A o \in profiles' : o \in profiles /\ o \notin {p} /\ Key(o)' = Key(o)
  <2> SUFFICES ASSUME NEW o \in profiles' PROVE o \in profiles /\ o \notin {p} /\ Key(o)' = Key(o)
    OBVIOUS
  <2>1. o \in profiles /\ o # p /\ o \in Names /\ o # None
    BY <1>1, Context
  <2>2. \A c \in Cycles : label'[c] = o <=> label[c] = o
    BY <1>1, <2>1
  <2> QED
    BY <1>1, <2>1, <2>2, KeyStays
<1> QED
  BY <1>1, <1>2, <1>3, <1>4, EditOnly

LEMMA RebuildAllFresh ==
    ASSUME SamplesInv, FreshInv, NEW j \in Coroutines, RebuildAll(j)
    PROVE  FreshInv'
<1> DEFINE r == Rebuilds(profiles, "done", None)
<1>1. Starts(j, r) /\ UNCHANGED <<label, rev, profiles, env, memo, pass, lost>>
  BY DEF RebuildAll, cycleVars, profileVars, envVars, edgeVars
<1>2. "done" \in Thens /\ None \in CycleOrNone /\ profiles \in SUBSET Labels /\ None \notin profiles
  BY Context DEF Thens, CycleOrNone, Labels
<1>3. r \in Jobs /\ r.left = profiles /\ r.name = None
  BY <1>2, RebuildsFacts
<1>4. profiles' \subseteq Names
  BY <1>1, NameFacts
<1> HIDE DEF r
<1> QED
  BY <1>1, <1>3, <1>4, EnvSame, EditAndStart

\* What the coroutines may carry.
LEMMA Literals ==
    /\ Thens = {"done", "ask", "unask", "resolve", "tidy", "nightly", "prune"}
    /\ None \in CycleOrNone /\ Cycles \subseteq CycleOrNone
    /\ None \in Labels /\ Names \subseteq Labels /\ None \notin Names
BY CatalogAssumption DEF Thens, CycleOrNone, Labels

LEMMA AssignFresh ==
    ASSUME SamplesInv, FreshInv, NEW j \in Coroutines, NEW c \in Stored, NEW p \in profiles \union {None},
           Assign(j, c, p)
    PROVE  FreshInv'
<1> DEFINE names == Touched(label[c], p)
           r == Rebuilds(names, "tidy", c)
<1>1. /\ label' = [label EXCEPT ![c] = p] /\ Starts(j, r)
      /\ UNCHANGED <<rev, profiles, env, memo, pass, lost>>
  BY DEF Assign, edgeVars, envVars
<1>2. c \in Cycles /\ label[c] \in Labels /\ p \in Labels /\ None \notin Names
  BY Context, NameFacts
<1>3. names \in SUBSET Labels /\ None \notin names
  BY <1>2 DEF Touched
<1>4. \A q : q \in names <=> q \in {label[c], p} /\ q # None
  BY DEF Touched
<1> HIDE DEF names
<1>5. r \in Jobs /\ r.left = names /\ r.name = None
  <2>1. "tidy" \in Thens /\ c \in CycleOrNone
    BY <1>2 DEF Thens, CycleOrNone
  <2> QED
    BY <1>3, <2>1, RebuildsFacts
<1>6. \A q \in Names : q \notin {label[c], p} => Key(q)' = Key(q)
  BY <1>1, <1>2, LabelMoves
<1>7. profiles' \subseteq Names
  BY <1>1, NameFacts
<1>8. \A q \in profiles' \ names : q \in profiles /\ q \notin {} /\ Key(q)' = Key(q)
  BY <1>1, <1>2, <1>4, <1>6, Context
<1> HIDE DEF r
<1> QED
  BY <1>1, <1>5, <1>7, <1>8, EnvSame, EditAndStart

\* What a relabel of a backfilled cycle or a reference leaves alone.
LEMMA RelabelledLeaves ==
    ASSUME SamplesInv, FreshInv, NEW c \in Stored, NEW p \in Labels, Relabelled(c, p),
           UNCHANGED <<rev>>
    PROVE  /\ profiles' \subseteq profiles
           /\ RelabelTouches(c, p) \subseteq Touched(label[c], p)
           /\ \E gone : /\ EnvLoses(gone)
                        /\ \A q \in profiles' \ RelabelTouches(c, p) :
                              q \in profiles /\ q \notin gone /\ Key(q)' = Key(q)
<1>1. label' = [label EXCEPT ![c] = p] /\ c \in Cycles /\ label[c] \in Labels
  BY Context, NameFacts DEF Relabelled
<1>2. /\ \A q \in Names : q \notin {label[c], p} => Key(q)' = Key(q)
      /\ label[c] = p => \A q \in Names : Key(q)' = Key(q)
  BY <1>1, LabelMoves
<1>3. RelabelTouches(c, p) = {n \in {label[c], p} \ {None} : n = p \/ ~Emptied(n, label')}
  BY <1>1 DEF RelabelTouches, Touched
<1>4. profiles \subseteq Names /\ None \notin Names
  BY Context
<1>5. CASE label[c] # p /\ Emptied(label[c], label')
  <2>1. /\ profiles' = profiles \ {label[c]} /\ env' = [env EXCEPT ![label[c]] = NoEnv]
        /\ label[c] # None
    BY <1>1, <1>5 DEF Relabelled, Dropped, Emptied
  <2>2. EnvLoses({label[c]})
    BY <1>1, <2>1, NameFacts DEF FreshInv, EnvelopesTyped, EnvLoses
  <2>3. \A q \in profiles' \ RelabelTouches(c, p) :
           q \in profiles /\ q \notin {label[c]} /\ Key(q)' = Key(q)
    BY <1>2, <1>3, <1>4, <2>1
  <2> QED
    BY <1>2, <1>3, <2>1, <2>2, <2>3 DEF Touched
<1>6. CASE ~(label[c] # p /\ Emptied(label[c], label'))
  <2>1. profiles' = profiles /\ env' = env
    BY <1>1, <1>6 DEF Relabelled
  <2>2. \A q \in profiles' \ RelabelTouches(c, p) :
           q \in profiles /\ q \notin {} /\ Key(q)' = Key(q)
    BY <1>2, <1>3, <1>4, <1>6, <2>1
  <2> QED
    BY <1>2, <1>3, <2>1, <2>2, EnvSame DEF Touched
<1> QED
  BY <1>5, <1>6

LEMMA AssignOtherFresh ==
    ASSUME SamplesInv, FreshInv, NEW j \in Coroutines, NEW c \in Stored, NEW p \in profiles \union {None},
           AssignOther(j, c, p)
    PROVE  FreshInv'
<1> DEFINE names == RelabelTouches(c, p)
           r == Rebuilds(names, "resolve", c)
<1>1. /\ Relabelled(c, p) /\ Starts(j, r)
      /\ UNCHANGED <<rev, memo, pass, lost>>
  BY DEF AssignOther, edgeVars
<1>2. c \in Cycles /\ label[c] \in Labels /\ p \in Labels
  BY Context, NameFacts
<1>3. /\ profiles' \subseteq profiles
      /\ names \subseteq Touched(label[c], p)
      /\ \E gone : /\ EnvLoses(gone)
                   /\ \A q \in profiles' \ names : q \in profiles /\ q \notin gone /\ Key(q)' = Key(q)
  BY <1>1, <1>2, RelabelledLeaves
<1>4. PICK gone : /\ EnvLoses(gone)
                  /\ \A q \in profiles' \ names : q \in profiles /\ q \notin gone /\ Key(q)' = Key(q)
  BY <1>3
<1> HIDE DEF names
<1>5. names \in SUBSET Labels /\ None \notin names
  BY <1>2, <1>3 DEF Touched
<1>6. r \in Jobs /\ r.left = names /\ r.name = None
  BY <1>2, <1>5, RebuildsFacts, Literals
<1>7. profiles' \subseteq Names
  BY <1>1, <1>3, NameFacts
<1> HIDE DEF r
<1> QED
  BY <1>1, <1>4, <1>6, <1>7, EditAndStart

LEMMA AnsweredFresh ==
    ASSUME SamplesInv, FreshInv, NEW j \in Coroutines, NEW c \in Cycles, NEW p \in Names,
           NEW detected \in Labels, Answered(j, c, p, detected)
    PROVE  FreshInv'
<1> DEFINE names == {p, detected} \union (IF c \in Past THEN {label[c]} ELSE {})
           r == Rebuilds(names, "done", None)
<1>1. /\ label' = IF c \in Past THEN [label EXCEPT ![c] = p] ELSE label
      /\ Starts(j, r) /\ UNCHANGED <<rev, profiles, env, memo, pass, lost>>
  BY DEF Answered, edgeVars, envVars
<1>2. p \in Labels /\ names \in SUBSET Labels
  BY NameFacts
<1>3. \A q \in Names \ names : Key(q)' = Key(q)
  <2>1. CASE c \in Past
    <3>1. label[c] \in names /\ p \in names /\ label' = [label EXCEPT ![c] = p]
      BY <1>1, <2>1
    <3> HIDE DEF names
    <3> QED
      BY <1>1, <1>2, <3>1, LabelMoves
  <2>2. CASE c \notin Past
    BY <1>1, <2>2, KeyStays
  <2> QED
    BY <2>1, <2>2
<1> HIDE DEF names
<1>4. /\ r \in Jobs /\ r.name = None
      /\ \A n : n \in r.left <=> n \in names /\ n # None
  <2>1. "done" \in Thens /\ None \in CycleOrNone
    BY DEF Thens, CycleOrNone
  <2> QED
    BY <1>2, <2>1, RebuildsFacts
<1>5. profiles' \subseteq Names
  BY <1>1, NameFacts
<1>6. \A q \in profiles' \ r.left : q \in profiles /\ q \notin {} /\ Key(q)' = Key(q)
  BY <1>1, <1>3, <1>4, Context
<1> HIDE DEF r
<1> QED
  BY <1>1, <1>4, <1>5, <1>6, EnvSame, EditAndStart

LEMMA AnswersFresh ==
    ASSUME SamplesInv, FreshInv, NEW c \in Cycles, pending[c] # None,
           \/ Dismiss(c)
           \/ \E j \in Coroutines : Confirm(j, c) \/ \E p \in profiles : Correct(j, c, p)
    PROVE  FreshInv'
<1>1. pending[c] \in Labels /\ None \in Labels
  BY NameFacts
<1>2. CASE Dismiss(c)
  <2>1. UNCHANGED <<label, rev, profiles, job, env, memo, pass, lost>>
    BY <1>2 DEF Dismiss, cycleVars, profileVars, envVars, edgeVars
  <2>2. profiles' \subseteq Names
    BY <2>1, NameFacts
  <2>3. \A q \in profiles' : q \in profiles /\ q \notin {} /\ Key(q)' = Key(q)
    BY <2>1, KeyStays, Context
  <2> QED
    BY <2>1, <2>2, <2>3, EnvSame, EditOnly
<1>3. ASSUME NEW j \in Coroutines, Confirm(j, c) PROVE FreshInv'
  <2>1. pending[c] \in Names
    BY <1>1, NameFacts
  <2> QED
    BY <1>1, <1>3, <2>1, AnsweredFresh DEF Confirm
<1>4. ASSUME NEW j \in Coroutines, NEW p \in profiles, Correct(j, c, p) PROVE FreshInv'
  <2>1. p \in Names
    BY NameFacts
  <2> QED
    BY <1>1, <1>4, <2>1, AnsweredFresh DEF Correct
<1> QED
  BY <1>2, <1>3, <1>4

LEMMA DeletesFresh ==
    ASSUME SamplesInv, FreshInv, NEW j \in Coroutines, NEW c \in Stored, DeleteCycle(j, c) \/ DeleteOther(j, c)
    PROVE  FreshInv'
<1> DEFINE gone == IF Emptied(label[c], [label EXCEPT ![c] = None]) THEN {label[c]} ELSE {}
           names == {label[c]}
           r == Rebuilds(names, "done", None)
<1>1. c \in Cycles /\ label[c] \in Labels /\ None \in Labels /\ profiles \subseteq Names /\ None \notin Names
  BY Context, NameFacts
<1>2. label' = [label EXCEPT ![c] = None] /\ UNCHANGED <<rev, memo, pass, lost>>
  BY DEF DeleteCycle, DeleteOther, edgeVars, envVars
<1>3. \A q \in Names : q # label[c] => Key(q)' = Key(q)
  <2>1. \A q \in Names : q \notin {label[c], None} => Key(q)' = Key(q)
    BY <1>1, <1>2, LabelMoves
  <2> QED
    BY <1>1, <2>1
<1>4. ASSUME NEW ps, profiles' = profiles \ ps, EnvLoses(ps), ps \subseteq {label[c]},
             \/ label[c] # None /\ Starts(j, r) /\ ps = {}
             \/ (label[c] = None \/ ps # {}) /\ job' = job
      PROVE  FreshInv'
  <2>1. profiles' \subseteq Names
    BY <1>4, NameFacts
  <2>2. CASE label[c] # None /\ Starts(j, r)
    <3>1. names \in SUBSET Labels /\ None \notin names
      BY <1>1, <2>2
    <3>2. \A q \in profiles' \ names : q \in profiles /\ q \notin ps /\ Key(q)' = Key(q)
      BY <1>1, <1>3, <1>4
    <3> HIDE DEF names
    <3>3. r \in Jobs /\ r.left = names /\ r.name = None
      BY <3>1, RebuildsFacts, Literals
    <3> HIDE DEF r
    <3> QED
      BY <1>2, <1>4, <2>1, <2>2, <3>2, <3>3, EditAndStart
  <2>3. CASE (label[c] = None \/ ps # {}) /\ job' = job
    <3>1. \A q \in profiles' : q \in profiles /\ q \notin ps /\ Key(q)' = Key(q)
      BY <1>1, <1>3, <1>4, <2>3
    <3> QED
      BY <1>2, <1>4, <2>1, <2>3, <3>1, EditOnly
  <2> QED
    BY <1>4, <2>2, <2>3
<1>5. CASE DeleteCycle(j, c)
  <2>1. profiles' = profiles \ {} /\ env' = env
        /\ IF label[c] # None THEN Starts(j, r) ELSE job' = job
    BY <1>5 DEF DeleteCycle, envVars
  <2> QED
    BY <1>4, <2>1, EnvSame
<1>6. CASE DeleteOther(j, c)
  <2>1. /\ profiles' = profiles \ gone /\ EnvLoses(gone) /\ gone \subseteq {label[c]}
        /\ IF label[c] # None /\ gone = {} THEN Starts(j, r) ELSE job' = job
    BY <1>6 DEF DeleteOther, EnvLoses
  <2> HIDE DEF gone, r
  <2> QED
    BY <1>4, <2>1
<1> QED
  BY <1>5, <1>6

LEMMA AddReferenceFresh ==
    ASSUME SamplesInv, FreshInv, NEW j \in Coroutines, NEW c \in Unused, NEW p \in Names, AddReference(j, c, p)
    PROVE  FreshInv'
<1> DEFINE names == {p}
           r == Rebuilds(names, "done", None)
<1>1. /\ label' = [label EXCEPT ![c] = p] /\ profiles' = profiles \union {p} /\ Starts(j, r)
      /\ UNCHANGED <<rev, env, memo, pass, lost>>
  BY DEF AddReference, edgeVars, envVars
<1>2. c \in Cycles /\ label[c] = None /\ None \notin Names /\ p \in Labels
  BY Context, NameFacts
<1>3. names \in SUBSET Labels /\ None \notin names
  BY <1>2
<1> HIDE DEF names
<1>4. r \in Jobs /\ r.left = names /\ r.name = None
  BY <1>3, RebuildsFacts, Literals
<1>5. \A q \in Names : q # p => Key(q)' = Key(q)
  BY <1>1, <1>2, LabelMoves
<1>6. profiles' \subseteq Names
  BY <1>1, NameFacts
<1>7. \A q \in profiles' \ names : q \in profiles /\ q \notin {} /\ Key(q)' = Key(q)
  BY <1>1, <1>5, NameFacts DEF names
<1> HIDE DEF r
<1> QED
  BY <1>1, <1>4, <1>6, <1>7, EnvSame, EditAndStart

LEMMA TrimFresh ==
    ASSUME SamplesInv, FreshInv, NEW j \in Coroutines, NEW c \in Stored, Trim(j, c)
    PROVE  FreshInv'
<1> DEFINE names == {label[c]}
           r == Rebuilds(names, "done", None)
<1>1. /\ rev' = [rev EXCEPT ![c] = @ + 1]
      /\ IF label[c] # None THEN Starts(j, r) ELSE job' = job
      /\ UNCHANGED <<label, profiles, env, memo, pass, lost>>
  BY DEF Trim, profileVars, envVars, edgeVars
<1>2. /\ c \in Cycles /\ label[c] \in Labels /\ profiles \subseteq Names /\ None \notin Names
      /\ rev \in [Cycles -> Nat]
  BY Context, NameFacts
<1>3. \A q \in Names : q # label[c] => Key(q)' = Key(q)
  BY <1>1, <1>2, KeyStays
<1>4. profiles' \subseteq Names
  BY <1>1, NameFacts
<1>5. CASE label[c] # None
  <2>1. names \in SUBSET Labels /\ None \notin names
    BY <1>2, <1>5
  <2>2. \A q \in profiles' \ names : q \in profiles /\ q \notin {} /\ Key(q)' = Key(q)
    BY <1>1, <1>2, <1>3
  <2> HIDE DEF names
  <2>3. r \in Jobs /\ r.left = names /\ r.name = None
    BY <2>1, RebuildsFacts, Literals
  <2>4. Starts(j, r)
    BY <1>1, <1>5
  <2> HIDE DEF r
  <2> QED
    BY <1>1, <1>4, <2>2, <2>3, <2>4, EnvSame, EditAndStart
<1>6. CASE label[c] = None
  <2>1. job' = job /\ \A q \in profiles' : q \in profiles /\ q \notin {} /\ Key(q)' = Key(q)
    BY <1>1, <1>2, <1>3, <1>6
  <2> QED
    BY <1>1, <1>4, <2>1, EnvSame, EditOnly
<1> QED
  BY <1>5, <1>6

\* A step that leaves the evidence and the envelopes alone.
LEMMA Quiet ==
    ASSUME SamplesInv, FreshInv, BuildsStay, profiles' \subseteq Names, PassOpen',
           UNCHANGED <<label, rev, env, memo>>, profiles' \subseteq profiles,
           \A p \in profiles : Due(p) => Due(p)'
    PROVE  FreshInv'
<1>1. \A p \in profiles' : Due(p)' \/ (p \in profiles /\ p \notin {} /\ Key(p)' = Key(p))
  BY Context, KeyStays
<1> QED
  BY <1>1, EnvSame, EditKeeps

LEMMA SplitFresh ==
    ASSUME SamplesInv, FreshInv, NEW j \in Coroutines, NEW c \in Past, NEW d \in Unused, NEW e \in Unused,
           NEW m \in profiles \union {None}, NEW n \in profiles \union {None}, Split(j, c, d, e, m, n)
    PROVE  FreshInv'
<1> DEFINE names == {label[c], m, n}
           b == Rebuilds(names, "unask", None)
           r == [b EXCEPT !.locks = TRUE]
<1>1. /\ label' = [label EXCEPT ![c] = None, ![d] = m, ![e] = n] /\ Starts(j, r) /\ d # e
      /\ UNCHANGED <<rev, profiles, env, memo, pass, lost>>
  BY DEF Split, edgeVars, envVars
<1>2. /\ {c, d, e} \subseteq Cycles /\ label[d] = None /\ label[e] = None /\ None \notin Names
      /\ c # d /\ c # e /\ {label[c], m, n} \subseteq Labels
  BY Context, NameFacts
<1>3. \A x \in Cycles : label'[x] = IF x = e THEN n ELSE IF x = d THEN m ELSE IF x = c THEN None ELSE label[x]
  BY <1>1, <1>2, Context
<1>4. names \in SUBSET Labels
  BY <1>2
<1>5. \A q \in Names \ names : Key(q)' = Key(q)
  BY <1>1, <1>2, <1>3, KeyStays
<1> HIDE DEF names
<1>6. /\ r \in Jobs /\ r.name = None
      /\ \A q : q \in r.left <=> q \in names /\ q # None
  <2>1. "unask" \in Thens /\ None \in CycleOrNone
    BY DEF Thens, CycleOrNone
  <2>2. /\ b \in Jobs /\ b.name = None
        /\ \A q : q \in b.left <=> q \in names /\ q # None
    BY <1>4, <2>1, RebuildsFacts
  <2> HIDE DEF b
  <2>3. r \in Jobs /\ (\A q : q \in r.left <=> q \in b.left) /\ r.name = b.name
    BY <2>2 DEF Jobs, r
  <2> HIDE DEF r
  <2> QED
    BY <2>2, <2>3
<1>7. profiles' \subseteq Names
  BY <1>1, NameFacts
<1>8. \A q \in profiles' \ r.left : q \in profiles /\ q \notin {} /\ Key(q)' = Key(q)
  BY <1>1, <1>2, <1>5, <1>6, Context
<1> HIDE DEF r
<1> QED
  BY <1>1, <1>6, <1>7, <1>8, EnvSame, EditAndStart

LEMMA MergeFresh ==
    ASSUME SamplesInv, FreshInv, NEW j \in Coroutines, NEW c \in Past, NEW d \in Past, NEW new \in Unused,
           NEW p \in profiles \union {None}, Merge(j, c, d, new, p)
    PROVE  FreshInv'
<1> DEFINE names == {label[c], label[d], p}
           b == Rebuilds(names, "done", None)
           r == [b EXCEPT !.waits = TRUE, !.locks = TRUE]
           consumed == {c} \union ({d} \ Blank)
<1>1. /\ label' = [x \in Cycles |-> IF x = new THEN p ELSE IF x \in consumed THEN None ELSE label[x]]
      /\ Starts(j, r) /\ UNCHANGED <<rev, profiles, env, memo, pass, lost>>
  BY DEF Merge, edgeVars, envVars
<1>2. /\ {c, d, new} \subseteq Cycles /\ label[new] = None /\ None \notin Names
      /\ {label[c], label[d], p} \subseteq Labels /\ consumed \subseteq {c, d}
  BY Context, NameFacts
<1>3. names \in SUBSET Labels
  BY <1>2
<1>4. \A q \in Names \ names : Key(q)' = Key(q)
  <2> SUFFICES ASSUME NEW q \in Names \ names PROVE Key(q)' = Key(q)
    OBVIOUS
  <2>1. q \notin {label[c], label[d], p, None}
    BY <1>2
  <2> HIDE DEF consumed
  <2>2. \A x \in Cycles : label'[x] = q <=> label[x] = q
    BY <1>1, <1>2, <2>1
  <2> QED
    BY <1>1, <2>2, KeyStays
<1> HIDE DEF names
<1>5. /\ r \in Jobs /\ r.name = None
      /\ \A q : q \in r.left <=> q \in names /\ q # None
  <2>1. "done" \in Thens /\ None \in CycleOrNone
    BY DEF Thens, CycleOrNone
  <2>2. /\ b \in Jobs /\ b.name = None
        /\ \A q : q \in b.left <=> q \in names /\ q # None
    BY <1>3, <2>1, RebuildsFacts
  <2> HIDE DEF b
  <2>3. r \in Jobs /\ (\A q : q \in r.left <=> q \in b.left) /\ r.name = b.name
    BY <2>2 DEF Jobs, r
  <2> HIDE DEF r
  <2> QED
    BY <2>2, <2>3
<1>6. profiles' \subseteq Names
  BY <1>1, NameFacts
<1>7. \A q \in profiles' \ r.left : q \in profiles /\ q \notin {} /\ Key(q)' = Key(q)
  BY <1>1, <1>4, <1>5, Context
<1> HIDE DEF r
<1> QED
  BY <1>1, <1>5, <1>6, <1>7, EnvSame, EditAndStart

-----------------------------------------------------------------------------
\* The end of a cycle.

LEMMA TailVerdictFresh ==
    ASSUME SamplesInv, FreshInv, NEW best \in profiles \union {None}, NEW lab \in profiles \union {None},
           NEW hand \in BOOLEAN, TailVerdict(best, lab, hand)
    PROVE  FreshInv'
<1>1. UNCHANGED <<label, rev, profiles, env, memo, job, pass, lost>>
  BY DEF TailVerdict, cycleVars, profileVars, envVars
<1>2. profiles' \subseteq Names
  BY <1>1, NameFacts
<1>3. BuildsStay /\ PassOpen' /\ \A p \in profiles : Due(p) => Due(p)'
  BY <1>1 DEF BuildsStay, FreshInv, EnvelopesTyped, PassOpen, Due
<1> QED
  BY <1>1, <1>2, <1>3, Quiet

LEMMA TailAddFresh ==
    ASSUME SamplesInv, FreshInv, NEW j \in Coroutines, NEW c \in Unused, TailAdd(j, c)
    PROVE  FreshInv'
<1> DEFINE names == {tail.label}
           b == Rebuilds(names, "ask", c)
           told == tail.label # None
           r == [b EXCEPT !.best = tail.best, !.verdict = told]
<1>1. /\ label' = [label EXCEPT ![c] = tail.label] /\ Starts(j, r)
      /\ UNCHANGED <<rev, profiles, env, memo, pass, lost>>
  BY DEF TailAdd, profileVars, envVars
<1>2. c \in Cycles /\ label[c] = None /\ None \notin Names /\ tail.label \in Labels /\ tail.best \in Labels
  BY Context, NameFacts
<1>3. names \in SUBSET Labels /\ told \in BOOLEAN
  BY <1>2
<1>4. \A q \in Names \ names : Key(q)' = Key(q)
  <2>1. \A q \in Names : q \notin {label[c], tail.label} => Key(q)' = Key(q)
    BY <1>1, <1>2, LabelMoves
  <2> QED
    BY <1>2, <2>1
<1> HIDE DEF names, told
<1>5. /\ r \in Jobs /\ r.name = None
      /\ \A q : q \in r.left <=> q \in names /\ q # None
  <2>1. "ask" \in Thens /\ c \in CycleOrNone
    BY <1>2 DEF Thens, CycleOrNone
  <2>2. /\ b \in Jobs /\ b.name = None
        /\ \A q : q \in b.left <=> q \in names /\ q # None
    BY <1>3, <2>1, RebuildsFacts
  <2> HIDE DEF b
  <2>3. r \in Jobs /\ (\A q : q \in r.left <=> q \in b.left) /\ r.name = b.name
    BY <1>2, <1>3, <2>2 DEF Jobs, r
  <2> HIDE DEF r
  <2> QED
    BY <2>2, <2>3
<1>6. profiles' \subseteq Names
  BY <1>1, NameFacts
<1>7. \A q \in profiles' \ r.left : q \in profiles /\ q \notin {} /\ Key(q)' = Key(q)
  BY <1>1, <1>4, <1>5, Context
<1> HIDE DEF r
<1> QED
  BY <1>1, <1>5, <1>6, <1>7, EnvSame, EditAndStart

-----------------------------------------------------------------------------
\* The coroutines' other steps.

\* What one goes on with that has neither a rebuild left nor a build.
LEMMA EndsFacts ==
    ASSUME NEW j \in Coroutines, NEW then, Ends(j, then)
    PROVE  job[j].left = {} /\ job[j].name = None
BY DEF Ends

LEMMA TailAskFresh ==
    ASSUME SamplesInv, FreshInv, NEW j \in Coroutines, NEW how \in {"nothing", "ask", "label"}, TailAsk(j, how)
    PROVE  FreshInv'
<1> DEFINE c == job[j].cyc
           detected == IF label[c] # None THEN label[c] ELSE job[j].best
           labels == how = "label" /\ c \in Past
           names == IF labels THEN {detected} ELSE {}
           r == Rebuilds(names, "done", None)
<1>1. /\ label' = IF labels THEN [label EXCEPT ![c] = detected] ELSE label
      /\ job' = [job EXCEPT ![j] = r] /\ Ends(j, "ask")
      /\ how # "nothing" => detected # None
      /\ UNCHANGED <<rev, profiles, env, memo, pass, lost>>
  BY DEF TailAsk, edgeVars, envVars, profileVars
<1>2. c \in CycleOrNone /\ None \notin Names
  BY Context, JobFacts
<1>3. ASSUME c \in Cycles PROVE detected \in Labels
  BY <1>3, NameFacts
<1>4. labels => c \in Cycles /\ detected # None
  BY <1>1, Context
<1>5. names \in SUBSET Labels /\ None \notin names
  BY <1>3, <1>4
<1>6. \A q \in Names \ names : Key(q)' = Key(q)
  <2>1. CASE labels
    <3>1. /\ detected \in Labels /\ c \in Cycles /\ label' = [label EXCEPT ![c] = detected]
          /\ label[c] \in {None, detected} /\ names = {detected}
      BY <1>1, <1>3, <1>4, <2>1
    <3> HIDE DEF detected, c, labels, names
    <3>2. \A q \in Names : q \notin {label[c], detected} => Key(q)' = Key(q)
      BY <1>1, <3>1, LabelMoves
    <3> QED
      BY <1>2, <3>1, <3>2
  <2>2. CASE ~labels
    <3>1. label' = label
      BY <1>1, <2>2
    <3> QED
      BY <1>1, <3>1, KeyStays
  <2> QED
    BY <2>1, <2>2
<1>7. profiles' \subseteq Names
  BY <1>1, NameFacts
<1> HIDE DEF names, c, detected, labels
<1>8. r \in Jobs /\ r.left = names /\ r.name = None
  <2>1. "done" \in Thens /\ None \in CycleOrNone
    BY DEF Thens, CycleOrNone
  <2> QED
    BY <1>5, <2>1, RebuildsFacts
<1>9. \A q \in profiles' \ r.left : q \in profiles /\ q \notin {} /\ Key(q)' = Key(q)
  BY <1>1, <1>6, <1>8, Context
<1> HIDE DEF r
<1> QED
  BY <1>1, <1>7, <1>8, <1>9, EndsFacts, EnvSame, EditAndRebuild

LEMMA UnaskFresh ==
    ASSUME SamplesInv, FreshInv, NEW j \in Coroutines, Unask(j) \/ Resolve(j)
    PROVE  FreshInv'
<1>1. /\ job' = [job EXCEPT ![j] = IdleJob] /\ job[j].left = {} /\ job[j].name = None
      /\ UNCHANGED <<label, rev, profiles, env, memo, pass, lost>>
  BY EndsFacts DEF Unask, Resolve, edgeVars, envVars, profileVars, cycleVars
<1>2. profiles' \subseteq Names
  BY <1>1, NameFacts
<1>3. \A q \in profiles' \ IdleJob.left : q \in profiles /\ q \notin {} /\ Key(q)' = Key(q)
  BY <1>1, KeyStays, Context
<1>4. IdleJob \in Jobs /\ IdleJob.name = None
  BY IdleTyped DEF IdleJob
<1> QED
  BY <1>1, <1>2, <1>3, <1>4, EnvSame, EditAndRebuild

LEMMA TidyFresh ==
    ASSUME SamplesInv, FreshInv, NEW j \in Coroutines, Tidy(j)
    PROVE  FreshInv'
<1> DEFINE next == IF job[j].cyc = None THEN "done" ELSE "resolve"
           r == [job[j] EXCEPT !.then = next]
<1>1. /\ job' = [job EXCEPT ![j] = r] /\ job[j].left = {} /\ job[j].name = None /\ profiles' \subseteq profiles
      /\ UNCHANGED <<label, rev, env, memo, pass, lost>>
  BY EndsFacts DEF Tidy, Cleaned, Dropped, edgeVars, envVars, cycleVars
<1>2. job[j] \in Jobs /\ next \in Thens
  BY Context DEF CarriedTyped, Thens
<1> HIDE DEF next
<1>3. r \in Jobs /\ r.name = None /\ \A q : q \notin r.left
  BY <1>1, <1>2 DEF Jobs
<1>4. profiles' \subseteq Names
  BY <1>1, NameFacts
<1>5. \A q \in profiles' \ r.left : q \in profiles /\ q \notin {} /\ Key(q)' = Key(q)
  BY <1>1, KeyStays, Context
<1> HIDE DEF r
<1> QED
  BY <1>1, <1>3, <1>4, <1>5, EnvSame, EditAndRebuild

LEMMA NightlyFresh ==
    ASSUME SamplesInv, FreshInv, NEW j \in Coroutines, Nightly(j)
    PROVE  FreshInv'
<1> DEFINE r == Rebuilds(profiles', "prune", None)
<1>1. /\ job' = [job EXCEPT ![j] = r] /\ job[j].left = {} /\ job[j].name = None /\ profiles' \subseteq profiles
      /\ UNCHANGED <<label, rev, env, memo, pass, lost>>
  BY EndsFacts DEF Nightly, Cleaned, Dropped, edgeVars, envVars, cycleVars
<1>2. profiles' \in SUBSET Labels /\ None \notin profiles' /\ "prune" \in Thens /\ None \in CycleOrNone
  BY <1>1, Context DEF Labels, Thens, CycleOrNone
<1>3. r \in Jobs /\ r.left = profiles' /\ r.name = None
  BY <1>2, RebuildsFacts
<1>4. profiles' \subseteq Names
  BY <1>1, NameFacts
<1>5. \A q \in profiles' \ r.left : q \in profiles /\ q \notin {} /\ Key(q)' = Key(q)
  BY <1>3
<1> HIDE DEF r
<1> QED
  BY <1>1, <1>3, <1>4, <1>5, EnvSame, EditAndRebuild

LEMMA PruneFresh ==
    ASSUME SamplesInv, FreshInv, NEW j \in Coroutines, Prune(j)
    PROVE  FreshInv'
<1>1. /\ job' = [job EXCEPT ![j] = IdleJob] /\ job[j].left = {} /\ job[j].name = None
      /\ env' = [p \in Names |-> IF p \in profiles THEN env[p] ELSE NoEnv]
      /\ UNCHANGED <<label, rev, profiles, memo, pass, lost>>
  BY EndsFacts DEF Prune, edgeVars, profileVars, cycleVars
<1>2. EnvLoses(Names \ profiles)
  BY <1>1 DEF EnvLoses
<1>3. profiles' \subseteq Names
  BY <1>1, NameFacts
<1>4. \A q \in profiles' \ IdleJob.left : q \in profiles /\ q \notin Names \ profiles /\ Key(q)' = Key(q)
  BY <1>1, KeyStays, Context
<1>5. IdleJob \in Jobs /\ IdleJob.name = None
  BY IdleTyped DEF IdleJob
<1> QED
  BY <1>1, <1>2, <1>3, <1>4, <1>5, EditAndRebuild

LEMMA ClearAllFresh ==
    ASSUME SamplesInv, FreshInv, ClearAll
    PROVE  FreshInv'
<1>1. /\ profiles' = {} /\ env' = [p \in Names |-> NoEnv] /\ UNCHANGED <<memo, job, pass, lost>>
  BY DEF ClearAll, Dropped, edgeVars
<1>2. EnvLoses(Names)
  BY <1>1 DEF EnvLoses
<1>3. profiles' \subseteq Names
  BY <1>1, NameFacts
<1> QED
  BY <1>1, <1>2, <1>3, EditOnly

\* A step that none of it sees.
LEMMA FreshStays ==
    ASSUME SamplesInv, FreshInv, UNCHANGED <<label, rev, profiles, env, memo, job, pass, lost>>
    PROVE  FreshInv'
<1>1. \A p : Due(p)' <=> Due(p)
  BY DEF Due
<1>2. \A p \in Names : Key(p)' = Key(p)
  BY DEF Key, OwnOf
<1>3. EnvelopesTyped' /\ MemosDescribe'
  BY DEF FreshInv, EnvelopesTyped, PassOpen, MemosDescribe, ShapeOf
<1>4. BuildsAlone'
  BY DEF FreshInv, BuildsAlone, Building
<1>5. BuildsOfNow' /\ EnvelopesOfNow'
  BY <1>1, <1>2, NameFacts DEF FreshInv, BuildsOfNow, EnvelopesOfNow, Building
<1> QED
  BY <1>3, <1>4, <1>5 DEF FreshInv

LEMMA GroupsFresh ==
    ASSUME SamplesInv, FreshInv,
           \/ ReadGroups
           \/ \E g \in Groups, ps \in SUBSET profiles : SetGroup(g, ps)
           \/ \E g, h \in Groups : RenameGroup(g, h)
           \/ \E g \in Groups : DeleteGroup(g)
    PROVE  FreshInv'
BY FreshStays DEF ReadGroups, SetGroup, RenameGroup, DeleteGroup, cycleVars, profileVars, envVars, edgeVars

-----------------------------------------------------------------------------
\* The auto-label pass.

LEMMA StartPassFresh ==
    ASSUME SamplesInv, FreshInv, NEW kind \in {"panel", "nightly"}, StartPass(kind)
    PROVE  FreshInv'
<1>1. /\ pass'.kind = kind /\ pass'.touched = {} /\ pass.kind = "idle" /\ profiles' \subseteq profiles
      /\ UNCHANGED <<label, rev, env, memo, job, lost>>
  BY DEF StartPass, IdlePass, Cleaned, Dropped, cycleVars, profileVars, envVars
<1>2. profiles' \subseteq Names
  BY <1>1, NameFacts
<1>3. BuildsStay /\ PassOpen' /\ \A p \in profiles : Due(p) => Due(p)'
  BY <1>1 DEF BuildsStay, PassOpen, Due
<1> QED
  BY <1>1, <1>2, <1>3, Quiet

LEMMA PassMatchFresh ==
    ASSUME SamplesInv, FreshInv, NEW c \in pass.todo, NEW best \in profiles \union {None}, PassMatch(c, best)
    PROVE  FreshInv'
<1>1. /\ pass'.kind = pass.kind /\ pass'.touched = pass.touched
      /\ UNCHANGED <<label, rev, profiles, env, memo, job, lost>>
  <2>1. pass' = [pass EXCEPT !.todo = @ \ {c}, !.best = best, !.cyc = IF best = None THEN None ELSE c]
    BY DEF PassMatch
  <2>2. pass \in Passes
    BY Context DEF CarriedTyped
  <2> QED
    BY <2>1, <2>2 DEF Passes, PassMatch, cycleVars, profileVars, envVars
<1>2. profiles' \subseteq Names
  BY <1>1, NameFacts
<1>3. BuildsStay /\ PassOpen' /\ \A p \in profiles : Due(p) => Due(p)'
  BY <1>1 DEF BuildsStay, FreshInv, EnvelopesTyped, PassOpen, Due
<1> QED
  BY <1>1, <1>2, <1>3, Quiet

LEMMA PassAbortFresh ==
    ASSUME SamplesInv, FreshInv, PassAbort
    PROVE  FreshInv'
<1>1. /\ pass' = IdlePass /\ lost' = lost \union pass.touched
      /\ UNCHANGED <<label, rev, profiles, env, memo, job>>
  BY DEF PassAbort, cycleVars, profileVars, envVars
<1>2. profiles' \subseteq Names
  BY <1>1, NameFacts
<1>3. BuildsStay /\ PassOpen' /\ \A p \in profiles : Due(p) => Due(p)'
  BY <1>1 DEF BuildsStay, PassOpen, Due, IdlePass
<1> QED
  BY <1>1, <1>2, <1>3, Quiet

LEMMA PassEndFresh ==
    ASSUME SamplesInv, FreshInv, NEW j \in Coroutines, PassEnd(j)
    PROVE  FreshInv'
<1> DEFINE then == IF pass.kind = "nightly" THEN "nightly" ELSE IF pass.touched = {} THEN "done" ELSE "tidy"
           held == pass.kind = "panel"
           b == Rebuilds(pass.touched, then, None)
           s == [b EXCEPT !.locks = held]
           r == Rested(s)
<1>1. /\ pass' = IdlePass /\ Starts(j, r)
      /\ UNCHANGED <<label, rev, profiles, env, memo, lost>>
  BY DEF PassEnd, cycleVars, profileVars, envVars
<1>2. pass.touched \in SUBSET Labels /\ None \notin pass.touched
      /\ then \in Thens /\ None \in CycleOrNone /\ held \in BOOLEAN
  BY NameFacts, Context DEF Thens, CycleOrNone
<1> HIDE DEF then, held
<1>3. b \in Jobs /\ b.name = None /\ \A q : q \in b.left <=> q \in pass.touched
  BY <1>2, RebuildsFacts
<1> HIDE DEF b
<1>4. s \in Jobs /\ s.name = None /\ \A q : q \in s.left <=> q \in pass.touched
  BY <1>2, <1>3 DEF Jobs
<1> HIDE DEF s
<1>5. r \in Jobs /\ r.name = None /\ \A q : q \in r.left <=> q \in pass.touched
  BY <1>4, RestedNames, RestedTyped
<1> HIDE DEF r
<1>6. /\ BuildsStay
      /\ \A k \in Coroutines : job[k].left \subseteq job'[k].left
      /\ \A p \in r.left : Due(p)'
  <2>1. job[j].left = {} /\ job[j].name = None /\ job' = [job EXCEPT ![j] = r]
    BY <1>1 DEF Starts, Free, IdleJob
  <2> QED
    BY <1>5, <2>1, JobGoesOn
<1>7. profiles' \subseteq Names
  BY <1>1, NameFacts
<1>8. PassOpen' /\ \A p \in profiles : Due(p) => Due(p)'
  BY <1>1, <1>5, <1>6 DEF PassOpen, Due, IdlePass
<1> QED
  BY <1>1, <1>6, <1>7, <1>8, Quiet

LEMMA PassApplyFresh ==
    ASSUME SamplesInv, FreshInv, PassApply
    PROVE  FreshInv'
<1> DEFINE c == pass.cyc
           best == pass.best
           more == IF list[c] = "backfill" THEN RelabelTouches(c, best) ELSE Touched(label[c], best)
<1>1. /\ UNCHANGED <<rev, memo, job, lost>> /\ c # None
      /\ pass' = [pass EXCEPT !.cyc = None, !.best = None, !.touched = @ \union more]
      /\ \/ (c \notin Stored \/ label[c] = best) /\ UNCHANGED <<label, profiles, env>>
         \/ /\ c \in Stored
            /\ \/ label' = [label EXCEPT ![c] = best] /\ UNCHANGED <<profiles, env>> /\ list[c] # "backfill"
               \/ Relabelled(c, best)
  <2>1. /\ UNCHANGED <<rev, memo, job, lost>> /\ c # None
        /\ pass' = [pass EXCEPT !.cyc = None, !.best = None, !.touched = @ \union more]
    BY DEF PassApply
  <2>2. CASE c \notin Stored \/ label[c] = best
    BY <2>1, <2>2 DEF PassApply, profileVars
  <2>3. CASE ~(c \notin Stored \/ label[c] = best)
    <3>1. CASE list[c] = "past"
      BY <2>1, <2>3, <3>1 DEF PassApply
    <3>2. CASE list[c] # "past"
      BY <2>1, <2>3, <3>2 DEF PassApply
    <3> QED
      BY <3>1, <3>2
  <2> QED
    BY <2>2, <2>3
<1>2. c \in Cycles /\ best \in Labels /\ label[c] \in Labels /\ None \notin Names /\ pass \in Passes
  BY <1>1, Context, NameFacts DEF CarriedTyped, Passes, CycleOrNone
<1>3. RelabelTouches(c, best) \subseteq Touched(label[c], best)
      /\ RelabelTouches(c, best) \subseteq more
  <2>1. RelabelTouches(c, best) \subseteq Touched(label[c], best)
    BY DEF RelabelTouches
  <2> HIDE DEF c, best
  <2> QED
    BY <2>1
<1>4. \A n \in Touched(label[c], best) : list[c] # "backfill" => n \in more
  OBVIOUS
<1>5. /\ pass'.touched = pass.touched \union more /\ pass'.cyc = None
      /\ pass'.kind = pass.kind /\ pass'.todo = pass.todo /\ pass.kind # "idle"
  <2> HIDE DEF more
  <2>1. pass.kind # "idle"
    BY <1>1 DEF FreshInv, EnvelopesTyped, PassOpen
  <2> QED
    BY <1>1, <1>2, <2>1 DEF Passes
<1> HIDE DEF more
<1>6. BuildsStay /\ PassOpen'
  BY <1>1, <1>5 DEF BuildsStay, FreshInv, EnvelopesTyped, PassOpen
<1>7. (\A p \in profiles : Due(p) => Due(p)') /\ \A p \in more : Due(p)'
  BY <1>1, <1>5 DEF Due
<1>8. /\ profiles' \subseteq profiles
      /\ \E gone : /\ EnvLoses(gone)
                   /\ \A q \in profiles' \ more : q \in profiles /\ q \notin gone /\ Key(q)' = Key(q)
  <2>1. CASE UNCHANGED <<label, profiles, env>>
    <3>1. \A q \in profiles' \ more : q \in profiles /\ q \notin {} /\ Key(q)' = Key(q)
      BY <1>1, <2>1, Context, KeyStays
    <3> QED
      BY <2>1, <3>1, EnvSame
  <2>2. CASE c \in Stored /\ label' = [label EXCEPT ![c] = best] /\ UNCHANGED <<profiles, env>> /\ list[c] # "backfill"
    <3>1. \A q \in Names : q \notin {label[c], best} => Key(q)' = Key(q)
      <4> HIDE DEF c, best
      <4> QED
        BY <1>1, <1>2, <2>2, LabelMoves
    <3>2. \A q \in profiles' \ more : q \in profiles /\ q \notin {} /\ Key(q)' = Key(q)
      BY <1>2, <1>4, <2>2, <3>1, Context DEF Touched
    <3> QED
      BY <2>2, <3>2, EnvSame
  <2>3. CASE c \in Stored /\ Relabelled(c, best)
    <3> HIDE DEF c, best
    <3>1. /\ profiles' \subseteq profiles
          /\ \E gone : /\ EnvLoses(gone)
                       /\ \A q \in profiles' \ RelabelTouches(c, best) :
                             q \in profiles /\ q \notin gone /\ Key(q)' = Key(q)
      BY <1>1, <1>2, <2>3, RelabelledLeaves
    <3> QED
      BY <1>3, <3>1
  <2> QED
    BY <1>1, <2>1, <2>2, <2>3
<1>9. profiles' \subseteq Names
  BY <1>8, NameFacts
<1>10. PICK gone : /\ EnvLoses(gone)
                   /\ \A q \in profiles' \ more : q \in profiles /\ q \notin gone /\ Key(q)' = Key(q)
  BY <1>8
<1>11. \A q \in profiles' : Due(q)' \/ (q \in profiles /\ q \notin gone /\ Key(q)' = Key(q))
  BY <1>7, <1>10
<1> QED
  BY <1>1, <1>6, <1>7, <1>9, <1>10, <1>11, EditKeeps

-----------------------------------------------------------------------------
\* The builds.

LEMMA SaveDoneFresh ==
    ASSUME SamplesInv, FreshInv, NEW j \in Coroutines, SaveDone(j)
    PROVE  FreshInv'
<1> DEFINE s == [job[j] EXCEPT !.waits = FALSE]
           r == Rested(s)
<1>1. /\ job' = [job EXCEPT ![j] = r]
      /\ UNCHANGED <<label, rev, profiles, env, memo, pass, lost>>
  BY DEF SaveDone, cycleVars, profileVars, envVars, edgeVars
<1>2. job[j] \in Jobs /\ s \in Jobs
  BY Context, JobFacts
<1>3. /\ s.name = job[j].name /\ s.newest = job[j].newest /\ s.key = job[j].key
      /\ \A q : q \in s.left <=> q \in job[j].left
  BY <1>2 DEF Jobs
<1> HIDE DEF s
<1>4. /\ r.name = s.name /\ (s.name # None => r = s)
      /\ \A q : q \in r.left <=> q \in s.left
  BY <1>2, RestedNames
<1> HIDE DEF r
<1>5. job'[j] = r /\ \A k \in Coroutines : k # j => job'[k] = job[k]
  BY <1>1, Context DEF CarriedTyped
<1>6. BuildsStay
  BY <1>3, <1>4, <1>5 DEF BuildsStay
<1>7. \A k \in Coroutines : \A q : q \in job'[k].left <=> q \in job[k].left
  BY <1>3, <1>4, <1>5
<1>8. profiles' \subseteq Names /\ PassOpen'
  BY <1>1, NameFacts, PassRests
<1>9. \A p \in profiles : Due(p) => Due(p)'
  BY <1>1, <1>7 DEF Due
<1> QED
  BY <1>1, <1>6, <1>8, <1>9, Quiet

\* A step of the builds of one name n.
LEMMA StepOfBuilds ==
    ASSUME SamplesInv, FreshInv, NEW n \in Names, UNCHANGED <<label, rev, profiles, pass>>,
           env' = [p \in Names |-> env'[p]], memo' = [p \in Names |-> memo'[p]],
           env'[n].obj = 0 => env'[n].from = {},
           \A p \in Names : p # n => env'[p] = env[p] /\ (memo'[p].set => memo[p].set),
           MemosDescribe',
           \A p \in Names : p # n => (Due(p) => Due(p)'),
           \A p \in Names, k \in Coroutines : p # n =>
              (Building(k, p)' <=> Building(k, p)) /\ (Building(k, p) => job'[k].key = job[k].key),
           \A k \in Coroutines : Building(k, n)' =>
              /\ ~memo'[n].set /\ \A l \in Coroutines : Building(l, n)' => l = k
              /\ job'[k].key = Key(n) \/ Due(n)',
           n \in profiles => \/ Due(n)' \/ \E k \in Coroutines : Building(k, n)'
                             \/ env'[n].from = ShapeOf(Key(n))
    PROVE  FreshInv'
<1>1. profiles \subseteq Names
  BY NameFacts
<1>2. \A p \in Names : Key(p)' = Key(p)
  BY KeyStays
<1>3. EnvelopesTyped'
  BY <1>1 DEF FreshInv, EnvelopesTyped, PassOpen
<1>4. BuildsAlone'
  BY <1>1 DEF FreshInv, BuildsAlone
<1>5. BuildsOfNow'
  BY <1>1, <1>2 DEF FreshInv, BuildsOfNow
<1>6. EnvelopesOfNow'
  BY <1>1, <1>2 DEF FreshInv, EnvelopesOfNow, ShapeOf
<1> QED
  BY <1>3, <1>4, <1>5, <1>6 DEF FreshInv

\* What goes on after a build of n, or without one.
LEMMA TakenFacts ==
    ASSUME NEW r \in Jobs, NEW n \in Names
    PROVE  /\ Taken(r, n) \in Jobs /\ Taken(r, n).name = r.name
           /\ \A q : q \in Taken(r, n).left <=> q \in r.left /\ q # n
           /\ Rested(Taken(r, n)).name = r.name
           /\ \A q : q \in Rested(Taken(r, n)).left <=> q \in r.left /\ q # n
<1> DEFINE t == Taken(r, n)
<1>1. /\ t \in Jobs /\ t.name = r.name
      /\ \A q : q \in t.left <=> q \in r.left /\ q # n
  BY DEF Taken, Jobs
<1> HIDE DEF t
<1>2. /\ Rested(t).name = t.name
      /\ \A q : q \in Rested(t).left <=> q \in t.left
  BY <1>1, RestedNames
<1>3. /\ Rested(t).name = r.name
      /\ \A q : q \in Rested(t).left <=> q \in r.left /\ q # n
  BY <1>1, <1>2
<1> QED
  BY <1>1, <1>3 DEF t

\* The memo of a name whose inputs it has.
LEMMA MemoTells ==
    ASSUME FreshInv, NEW n \in Names, memo[n] = Inputs(n)
    PROVE  memo[n].set /\ env[n].from = ShapeOf(Key(n))
<1>1. memo[n].set /\ memo[n].env = env[n].obj /\ memo[n].key = Key(n)
  BY DEF Inputs
<1> QED
  BY <1>1 DEF FreshInv, MemosDescribe

LEMMA SkipBuildFresh ==
    ASSUME SamplesInv, FreshInv, NEW j \in Coroutines, NEW n \in job[j].left, SkipBuild(j, n)
    PROVE  FreshInv'
<1> DEFINE r == Rested(Taken(job[j], n))
<1>1. /\ job' = [job EXCEPT ![j] = r] /\ job[j].name = None /\ memo[n] = Inputs(n)
      /\ UNCHANGED <<label, rev, profiles, env, memo, pass, lost>>
  BY DEF SkipBuild, Starting, cycleVars, profileVars, envVars, edgeVars
<1>2. job[j] \in Jobs /\ n \in Names /\ None \notin Names
  BY Context, NameFacts, JobFacts
<1>3. /\ r.name = None
      /\ \A q : q \in r.left <=> q \in job[j].left /\ q # n
  BY <1>1, <1>2, TakenFacts
<1> HIDE DEF r
<1>4. job'[j] = r /\ \A k \in Coroutines : k # j => job'[k] = job[k]
  BY <1>1, Context DEF CarriedTyped
<1>5. \A p \in Names, k \in Coroutines :
         (Building(k, p)' <=> Building(k, p)) /\ (Building(k, p) => job'[k].key = job[k].key)
  BY <1>1, <1>2, <1>3, <1>4 DEF Building
<1>6. \A p \in Names : p # n => (Due(p) => Due(p)')
  BY <1>1, <1>3, <1>4 DEF Due
<1>7. memo[n].set /\ env[n].from = ShapeOf(Key(n))
  BY <1>1, <1>2, MemoTells
<1>8. \A k \in Coroutines : ~Building(k, n)
  BY <1>2, <1>7 DEF FreshInv, BuildsAlone
<1>9. /\ env' = [p \in Names |-> env'[p]] /\ memo' = [p \in Names |-> memo'[p]]
      /\ (env'[n].obj = 0 => env'[n].from = {})
      /\ MemosDescribe'
  BY <1>1, <1>2 DEF FreshInv, EnvelopesTyped, MemosDescribe, ShapeOf
<1> QED
  BY <1>1, <1>2, <1>5, <1>6, <1>7, <1>8, <1>9, StepOfBuilds

\* What a new build of n leaves of the coroutines that build it.
LEMMA SupersededFacts ==
    ASSUME SamplesInv, NEW n \in Names, NEW k \in Coroutines
    PROVE  /\ Superseded(n)[k] \in Jobs /\ Superseded(n)[k].name = job[k].name
           /\ Superseded(n)[k].key = job[k].key
           /\ \A q : q \in Superseded(n)[k].left <=> q \in job[k].left
           /\ job[k].name = n => ~Superseded(n)[k].newest
           /\ job[k].name # n => Superseded(n)[k] = job[k]
<1>1. job[k] \in Jobs
  BY Context, JobFacts
<1>2. Superseded(n)[k] = IF job[k].name = n THEN [job[k] EXCEPT !.newest = FALSE] ELSE job[k]
  BY DEF Superseded
<1>3. CASE job[k].name = n
  <2> DEFINE s == [job[k] EXCEPT !.newest = FALSE]
  <2>1. /\ s \in Jobs /\ s.name = job[k].name /\ s.key = job[k].key
        /\ ~s.newest /\ \A q : q \in s.left <=> q \in job[k].left
    BY <1>1 DEF Jobs
  <2>2. Superseded(n)[k] = s
    BY <1>2, <1>3
  <2> HIDE DEF s
  <2> QED
    BY <1>3, <2>1, <2>2
<1>4. CASE job[k].name # n
  <2>1. Superseded(n)[k] = job[k]
    BY <1>2, <1>4
  <2> QED
    BY <1>1, <1>4, <2>1
<1> QED
  BY <1>3, <1>4

\* The coroutines once j goes on with r and no other build of n is the newest.
LEMMA AfterSuperseding ==
    ASSUME SamplesInv, FreshInv, NEW n \in Names, NEW j \in Coroutines, NEW r \in Jobs,
           job' = [Superseded(n) EXCEPT ![j] = r], job[j].name = None,
           \A q : q \in r.left <=> q \in job[j].left /\ q # n, r.name \in {None, n}
    PROVE  /\ job'[j] = r
           /\ \A k \in Coroutines : k # j => ~Building(k, n)'
           /\ \A p \in Names, k \in Coroutines : p # n =>
                 (Building(k, p)' <=> Building(k, p)) /\ (Building(k, p) => job'[k].key = job[k].key)
           /\ \A k \in Coroutines : \A q : q # n /\ q \in job[k].left => q \in job'[k].left
<1>1. None \notin Names
  BY Context
<1>2. job'[j] = r /\ \A k \in Coroutines : k # j => job'[k] = Superseded(n)[k]
  BY DEF Superseded
<1>3. \A k \in Coroutines : k # j =>
         /\ job'[k].name = job[k].name /\ job'[k].key = job[k].key
         /\ \A q : q \in job'[k].left <=> q \in job[k].left
         /\ job[k].name = n => ~job'[k].newest
         /\ job[k].name # n => job'[k] = job[k]
  BY <1>2, SupersededFacts
<1>4. \A k \in Coroutines : k # j => ~Building(k, n)'
  BY <1>3 DEF Building
<1>5. \A p \in Names, k \in Coroutines : p # n =>
         (Building(k, p)' <=> Building(k, p)) /\ (Building(k, p) => job'[k].key = job[k].key)
  <2> SUFFICES ASSUME NEW p \in Names, NEW k \in Coroutines, p # n
               PROVE  (Building(k, p)' <=> Building(k, p)) /\ (Building(k, p) => job'[k].key = job[k].key)
    OBVIOUS
  <2>1. CASE k = j
    BY <1>1, <1>2, <2>1 DEF Building
  <2>2. CASE k # j
    BY <1>3, <2>2 DEF Building
  <2> QED
    BY <2>1, <2>2
<1> QED
  BY <1>2, <1>3, <1>4, <1>5

LEMMA EmptyBuildFresh ==
    ASSUME SamplesInv, FreshInv, NEW j \in Coroutines, NEW n \in job[j].left, EmptyBuild(j, n)
    PROVE  FreshInv'
<1> DEFINE u == Superseded(n)[j]
           r == Rested(Taken(u, n))
<1>1. /\ job' = [Superseded(n) EXCEPT ![j] = r] /\ job[j].name = None /\ Eligible(Key(n)) = {}
      /\ memo' = [memo EXCEPT ![n] = NoMemo] /\ env' = [env EXCEPT ![n] = NoEnv] /\ lost' = lost \ {n}
      /\ UNCHANGED <<label, rev, profiles, pass>>
  BY DEF EmptyBuild, Starting, cycleVars, profileVars, Superseded
<1>2. n \in Names /\ None \notin Names
  BY Context, NameFacts
<1>3. /\ u \in Jobs /\ u.name = None /\ \A q : q \in u.left <=> q \in job[j].left
  BY <1>1, <1>2, SupersededFacts
<1> HIDE DEF u
<1>4. /\ r \in Jobs /\ r.name = None
      /\ \A q : q \in r.left <=> q \in job[j].left /\ q # n
  BY <1>2, <1>3, TakenFacts, RestedTyped
<1> HIDE DEF r
<1>5. /\ job'[j] = r
      /\ \A k \in Coroutines : k # j => ~Building(k, n)'
      /\ \A p \in Names, k \in Coroutines : p # n =>
            (Building(k, p)' <=> Building(k, p)) /\ (Building(k, p) => job'[k].key = job[k].key)
      /\ \A k \in Coroutines : \A q : q # n /\ q \in job[k].left => q \in job'[k].left
  BY <1>1, <1>2, <1>4, AfterSuperseding
<1>6. \A k \in Coroutines : ~Building(k, n)'
  BY <1>2, <1>4, <1>5 DEF Building
<1>7. \A p \in Names : p # n => (Due(p) => Due(p)')
  BY <1>1, <1>5 DEF Due
<1>8. env'[n] = NoEnv /\ memo'[n] = NoMemo /\ (\A p \in Names : p # n => env'[p] = env[p] /\ memo'[p] = memo[p])
      /\ env' = [p \in Names |-> env'[p]] /\ memo' = [p \in Names |-> memo'[p]]
  BY <1>1, <1>2 DEF FreshInv, EnvelopesTyped
<1>9. MemosDescribe'
  BY <1>2, <1>8 DEF FreshInv, MemosDescribe, NoEnv, NoMemo, ShapeOf
<1>10. ShapeOf(Key(n)) = {}
  BY <1>1 DEF Eligible, ShapeOf
<1>11. env'[n].from = ShapeOf(Key(n)) /\ (env'[n].obj = 0 => env'[n].from = {})
  BY <1>8, <1>10 DEF NoEnv
<1>12. /\ \A p \in Names : p # n => env'[p] = env[p] /\ (memo'[p].set => memo[p].set)
       /\ env' = [p \in Names |-> env'[p]] /\ memo' = [p \in Names |-> memo'[p]]
  BY <1>8
<1>13. \A k \in Coroutines : Building(k, n)' =>
          /\ ~memo'[n].set /\ \A l \in Coroutines : Building(l, n)' => l = k
          /\ job'[k].key = Key(n) \/ Due(n)'
  BY <1>6
<1> QED
  BY <1>1, <1>2, <1>5, <1>7, <1>9, <1>11, <1>12, <1>13, StepOfBuilds

LEMMA BeginBuildFresh ==
    ASSUME SamplesInv, FreshInv, NEW j \in Coroutines, NEW n \in job[j].left, BeginBuild(j, n)
    PROVE  FreshInv'
<1> DEFINE u == Superseded(n)[j]
           t == Taken(u, n)
           known == n \in profiles
           key == Key(n)
           r == [t EXCEPT !.name = n, !.existed = known, !.key = key, !.newest = TRUE]
<1>1. /\ job' = [Superseded(n) EXCEPT ![j] = r] /\ job[j].name = None
      /\ memo' = [memo EXCEPT ![n] = NoMemo]
      /\ UNCHANGED <<label, rev, profiles, env, pass, lost>>
  BY DEF BeginBuild, Starting, cycleVars, profileVars, edgeVars, Superseded
<1>2. n \in Names /\ None \notin Names /\ n \in Labels
  BY Context, NameFacts DEF Labels
<1>3. /\ u \in Jobs /\ u.name = None /\ \A q : q \in u.left <=> q \in job[j].left
  BY <1>1, <1>2, SupersededFacts
<1> HIDE DEF u
<1>4. /\ t \in Jobs
      /\ \A q : q \in t.left <=> q \in job[j].left /\ q # n
  BY <1>2, <1>3, TakenFacts
<1>5. known \in BOOLEAN /\ key \in SUBSET (Cycles \X Nat) /\ key = Key(n)
  BY Context DEF Key, OwnOf
<1> HIDE DEF t, known, key
<1>6. /\ r \in Jobs /\ r.name = n /\ r.newest /\ r.key = key
      /\ \A q : q \in r.left <=> q \in job[j].left /\ q # n
  BY <1>2, <1>4, <1>5 DEF Jobs
<1> HIDE DEF r
<1>7. /\ job'[j] = r
      /\ \A k \in Coroutines : k # j => ~Building(k, n)'
      /\ \A p \in Names, k \in Coroutines : p # n =>
            (Building(k, p)' <=> Building(k, p)) /\ (Building(k, p) => job'[k].key = job[k].key)
      /\ \A k \in Coroutines : \A q : q # n /\ q \in job[k].left => q \in job'[k].left
  BY <1>1, <1>2, <1>6, AfterSuperseding
<1>8. Building(j, n)' /\ job'[j].key = Key(n)
  BY <1>5, <1>6, <1>7 DEF Building
<1>9. \A p \in Names : p # n => (Due(p) => Due(p)')
  BY <1>1, <1>7 DEF Due
<1>10. memo'[n] = NoMemo /\ (\A p \in Names : p # n => memo'[p] = memo[p])
       /\ env' = [p \in Names |-> env'[p]] /\ memo' = [p \in Names |-> memo'[p]]
       /\ (env'[n].obj = 0 => env'[n].from = {})
  BY <1>1, <1>2 DEF FreshInv, EnvelopesTyped
<1>11. MemosDescribe' /\ ~memo'[n].set
  BY <1>1, <1>2, <1>10 DEF FreshInv, MemosDescribe, NoMemo, ShapeOf
<1>12. \A k \in Coroutines : Building(k, n)' =>
         /\ ~memo'[n].set /\ \A l \in Coroutines : Building(l, n)' => l = k
         /\ job'[k].key = Key(n) \/ Due(n)'
  BY <1>7, <1>8, <1>11
<1> QED
  BY <1>1, <1>2, <1>7, <1>8, <1>9, <1>10, <1>11, <1>12, StepOfBuilds

-----------------------------------------------------------------------------
\* A build that ends.

\* What a coroutine leaves when its build ends.
LEMMA ResumedFacts ==
    ASSUME SamplesInv, FreshInv, NEW j \in Coroutines, job' = Resumed(j)
    PROVE  /\ job'[j].name = None
           /\ \A k \in Coroutines : k # j => job'[k] = job[k]
           /\ \A k \in Coroutines : \A q : q \in job'[k].left <=> q \in job[k].left
           /\ \A p \in Names, k \in Coroutines : k # j =>
                 (Building(k, p)' <=> Building(k, p)) /\ job'[k].key = job[k].key
           /\ \A p \in Names : ~Building(j, p)'
<1> DEFINE s == [job[j] EXCEPT !.name = None, !.existed = FALSE, !.key = {}, !.newest = FALSE]
           r == Rested(s)
<1>1. job' = [job EXCEPT ![j] = r]
  BY DEF Resumed
<1>2. job[j] \in Jobs /\ None \in Labels /\ None \notin Names
  BY Context, JobFacts, Literals
<1>3. s \in Jobs /\ s.name = None /\ \A q : q \in s.left <=> q \in job[j].left
  BY <1>2 DEF Jobs
<1> HIDE DEF s
<1>4. r.name = None /\ \A q : q \in r.left <=> q \in job[j].left
  BY <1>3, RestedNames
<1> HIDE DEF r
<1>5. job'[j] = r /\ \A k \in Coroutines : k # j => job'[k] = job[k]
  BY <1>1, Context DEF CarriedTyped
<1>6. \A p \in Names, k \in Coroutines : k # j =>
         (Building(k, p)' <=> Building(k, p)) /\ job'[k].key = job[k].key
  BY <1>5 DEF Building
<1>7. \A p \in Names : ~Building(j, p)'
  BY <1>2, <1>4, <1>5 DEF Building
<1> QED
  BY <1>4, <1>5, <1>6, <1>7

LEMMA DiscardBuildFresh ==
    ASSUME SamplesInv, FreshInv, NEW j \in Coroutines, DiscardBuild(j)
    PROVE  FreshInv'
<1> DEFINE n == job[j].name
<1>1. /\ job' = Resumed(j) /\ n # None
      /\ ~job[j].newest \/ n \notin profiles
      /\ UNCHANGED <<label, rev, profiles, env, memo, pass, lost>>
  BY DEF DiscardBuild, Obsolete, cycleVars, profileVars, envVars, edgeVars
<1>2. n \in Names
  BY <1>1, NameFacts
<1>3. /\ job'[j].name = None
      /\ \A k \in Coroutines : \A q : q \in job'[k].left <=> q \in job[k].left
      /\ \A p \in Names, k \in Coroutines : k # j =>
            (Building(k, p)' <=> Building(k, p)) /\ job'[k].key = job[k].key
      /\ \A p \in Names : ~Building(j, p)'
  BY <1>1, ResumedFacts
<1>4. \A p \in Names : Due(p)' <=> Due(p)
  BY <1>1, <1>3 DEF Due
<1>5. \A p \in profiles : ~Building(j, p)
  BY <1>1 DEF Building
<1>6. /\ env' = [p \in Names |-> env'[p]] /\ memo' = [p \in Names |-> memo'[p]]
      /\ (env'[n].obj = 0 => env'[n].from = {}) /\ MemosDescribe'
  BY <1>1, <1>2 DEF FreshInv, EnvelopesTyped, MemosDescribe, ShapeOf
<1> HIDE DEF n
<1>7. profiles \subseteq Names /\ \A p \in profiles : Key(p)' = Key(p)
  BY <1>1, Context, KeyStays
<1>8. EnvelopesTyped'
  BY <1>1, <1>6 DEF FreshInv, EnvelopesTyped, PassOpen
<1>9. BuildsAlone'
  BY <1>1, <1>3 DEF FreshInv, BuildsAlone
<1>10. BuildsOfNow'
  BY <1>1, <1>3, <1>4, <1>7 DEF FreshInv, BuildsOfNow
<1>11. EnvelopesOfNow'
  BY <1>1, <1>3, <1>4, <1>5, <1>7 DEF FreshInv, EnvelopesOfNow, ShapeOf
<1> QED
  BY <1>6, <1>8, <1>9, <1>10, <1>11 DEF FreshInv

\* A build of n that writes, with evidence that is Key(n) unless a rebuild is due.
LEMMA WriteFacts ==
    ASSUME SamplesInv, FreshInv, NEW j \in Coroutines, NEW n \in Names, job[j].name = n, ~Obsolete(j),
           job' = Resumed(j), lost' = StillLost(n, job[j].key),
           UNCHANGED <<label, rev, profiles, pass>>
    PROVE  /\ ~memo[n].set
           /\ \A k \in Coroutines : ~Building(k, n)'
           /\ \A p \in Names, k \in Coroutines : p # n =>
                 (Building(k, p)' <=> Building(k, p)) /\ (Building(k, p) => job'[k].key = job[k].key)
           /\ \A p \in Names : p # n => (Due(p) => Due(p)')
           /\ n \in profiles => job[j].key = Key(n) \/ Due(n)'
<1>1. Building(j, n)
  BY Context DEF Obsolete, Building
<1>2. /\ job'[j].name = None
      /\ \A k \in Coroutines : \A q : q \in job'[k].left <=> q \in job[k].left
      /\ \A p \in Names, k \in Coroutines : k # j =>
            (Building(k, p)' <=> Building(k, p)) /\ job'[k].key = job[k].key
      /\ \A p \in Names : ~Building(j, p)'
  BY ResumedFacts
<1>3. \A p \in Names : p # n => ~Building(j, p)
  BY DEF Building
<1>4. lost' = IF job[j].key = Key(n) THEN lost \ {n} ELSE lost
  BY DEF StillLost
<1>5. ~memo[n].set /\ \A k \in Coroutines : Building(k, n) => k = j
  BY <1>1 DEF FreshInv, BuildsAlone
<1>6. \A k \in Coroutines : ~Building(k, n)'
  BY <1>1, <1>2, <1>5
<1>7. \A p \in Names, k \in Coroutines : p # n =>
         (Building(k, p)' <=> Building(k, p)) /\ (Building(k, p) => job'[k].key = job[k].key)
  BY <1>2, <1>3
<1>8. \A p \in Names : p # n => (Due(p) => Due(p)')
  BY <1>2, <1>4 DEF Due
<1>9. n \in profiles => job[j].key = Key(n) \/ Due(n)'
  <2> SUFFICES ASSUME n \in profiles, job[j].key # Key(n) PROVE Due(n)'
    OBVIOUS
  <2>1. Due(n)
    BY <1>1 DEF FreshInv, BuildsOfNow
  <2> QED
    BY <1>2, <1>4, <2>1 DEF Due
<1> QED
  BY <1>1, <1>2, <1>5, <1>6, <1>7, <1>8, <1>9

LEMMA WriteNoneFresh ==
    ASSUME SamplesInv, FreshInv, NEW j \in Coroutines, WriteNone(j)
    PROVE  FreshInv'
<1>0. PICK n \in Names : job[j].name = n
  BY NameFacts DEF WriteNone
<1>1. /\ env' = [env EXCEPT ![n] = NoEnv] /\ ShapeOf(job[j].key) = {}
      /\ UNCHANGED <<label, rev, profiles, memo, pass>>
  BY <1>0 DEF WriteNone, cycleVars, profileVars
<1>2. /\ \A k \in Coroutines : ~Building(k, n)'
      /\ \A p \in Names, k \in Coroutines : p # n =>
            (Building(k, p)' <=> Building(k, p)) /\ (Building(k, p) => job'[k].key = job[k].key)
      /\ \A p \in Names : p # n => (Due(p) => Due(p)')
      /\ n \in profiles => job[j].key = Key(n) \/ Due(n)'
  <2>1. ~Obsolete(j) /\ job' = Resumed(j) /\ lost' = StillLost(n, job[j].key)
    BY <1>0 DEF WriteNone
  <2> QED
    BY <1>0, <1>1, <2>1, WriteFacts
<1>3. /\ env'[n] = NoEnv /\ env' = [p \in Names |-> env'[p]] /\ memo' = [p \in Names |-> memo'[p]]
      /\ \A p \in Names : p # n => env'[p] = env[p] /\ (memo'[p].set => memo[p].set)
  BY <1>1, <1>2 DEF FreshInv, EnvelopesTyped
<1>4. MemosDescribe'
  BY <1>1, <1>2, <1>3 DEF FreshInv, MemosDescribe, NoEnv, ShapeOf
<1>5. n \in profiles => Due(n)' \/ env'[n].from = ShapeOf(Key(n))
  BY <1>1, <1>2, <1>3 DEF NoEnv
<1>6. env'[n].obj = 0 => env'[n].from = {}
  BY <1>3 DEF NoEnv
<1>7. \A k \in Coroutines : Building(k, n)' =>
         /\ ~memo'[n].set /\ \A l \in Coroutines : Building(l, n)' => l = k
         /\ job'[k].key = Key(n) \/ Due(n)'
  BY <1>2
<1>8. /\ env' = [p \in Names |-> env'[p]] /\ memo' = [p \in Names |-> memo'[p]]
      /\ \A p \in Names : p # n => env'[p] = env[p] /\ (memo'[p].set => memo[p].set)
  BY <1>3
<1> QED
  BY <1>1, <1>2, <1>4, <1>5, <1>6, <1>7, <1>8, StepOfBuilds

\* There are more identities than envelopes and memos to have them.
LEMMA ImageSmall ==
    ASSUME IsFiniteSet(Names), NEW f, f = [p \in Names |-> f[p]]
    PROVE  LET T == {f[p] : p \in Names} IN IsFiniteSet(T) /\ Cardinality(T) <= Cardinality(Names)
<1> DEFINE T == {f[p] : p \in Names}
<1>1. f \in Surjection(Names, T)
  BY DEF Surjection
<1> HIDE DEF T
<1> QED
  BY <1>1, FS_Surjection DEF T

LEMMA NewIdentity ==
    ASSUME FreshInv
    PROVE  NewEnvObj # 0 /\ \A q \in Names : env[q].obj # NewEnvObj /\ memo[q].env # NewEnvObj
<1> DEFINE f == [p \in Names |-> env[p].obj]
           g == [p \in Names |-> memo[p].env]
           A == {f[p] : p \in Names}
           B == {g[p] : p \in Names}
           k == Cardinality(Names)
<1>1. IsFiniteSet(Names) /\ k \in Nat
  BY CatalogAssumption, FS_CardinalityType
<1>2. /\ IsFiniteSet(A) /\ Cardinality(A) <= k /\ IsFiniteSet(B) /\ Cardinality(B) <= k
  <2>1. f = [p \in Names |-> f[p]] /\ g = [p \in Names |-> g[p]]
    OBVIOUS
  <2> HIDE DEF f, g
  <2> QED
    BY <1>1, <2>1, ImageSmall
<1>3. \A q \in Names : env[q].obj \in A /\ memo[q].env \in B
  OBVIOUS
<1> HIDE DEF A, B
<1>4. IsFiniteSet(A \union B) /\ Cardinality(A \union B) <= 2 * k
  <2>1. /\ Cardinality(A) \in Nat /\ Cardinality(B) \in Nat /\ IsFiniteSet(A \cap B)
    BY <1>2, FS_CardinalityType, FS_Subset
  <2>2. Cardinality(A \cap B) \in Nat
    BY <2>1, FS_CardinalityType
  <2>3. IsFiniteSet(A \cup B) /\ Cardinality(A \cup B) = Cardinality(A) + Cardinality(B) - Cardinality(A \cap B)
    BY <1>2, FS_Union
  <2> HIDE DEF k
  <2> QED
    BY <1>1, <1>2, <2>1, <2>2, <2>3
<1>5. \E t \in Tokens : t \notin A \union B
  <2> SUFFICES ASSUME Tokens \subseteq A \union B PROVE FALSE
    OBVIOUS
  <2>1. Cardinality(Tokens) = 2 * k + 1
    <3>1. 1 \in Int /\ 2 * k + 1 \in Int /\ ~(1 > 2 * k + 1) /\ (2 * k + 1) - 1 + 1 = 2 * k + 1
      BY <1>1
    <3> QED
      BY <3>1, FS_Interval DEF Tokens
  <2>2. Cardinality(Tokens) <= Cardinality(A \union B)
    BY <1>4, FS_Subset
  <2>3. Cardinality(A \union B) \in Nat
    BY <1>4, FS_CardinalityType
  <2> HIDE DEF k
  <2> QED
    BY <1>1, <1>4, <2>1, <2>2, <2>3
<1>6. \E t \in Tokens : \A q \in Names : env[q].obj # t /\ memo[q].env # t
  BY <1>3, <1>5
<1>7. NewEnvObj \in Tokens /\ \A q \in Names : env[q].obj # NewEnvObj /\ memo[q].env # NewEnvObj
  BY <1>6 DEF NewEnvObj
<1> QED
  BY <1>7 DEF Tokens

LEMMA WriteBuildFresh ==
    ASSUME SamplesInv, FreshInv, NEW j \in Coroutines, WriteBuild(j)
    PROVE  FreshInv'
<1>0. PICK n \in Names : job[j].name = n
  BY NameFacts DEF WriteBuild
<1> DEFINE t == NewEnvObj
           e == [obj |-> t, from |-> ShapeOf(job[j].key)]
           m == [key |-> Key(n), env |-> env'[n].obj, prof |-> profObj[n], sample |-> sample'[n], set |-> TRUE]
<1>1. /\ env' = [env EXCEPT ![n] = e]
      /\ memo' = [p \in Names |-> IF p \notin profiles THEN NoMemo
                                  ELSE IF p = n /\ Remembered(n, job[j].key) THEN m ELSE memo[p]]
      /\ UNCHANGED <<label, rev, profiles, pass>>
  BY <1>0 DEF WriteBuild, cycleVars
<1>2. /\ ~memo[n].set
      /\ \A k \in Coroutines : ~Building(k, n)'
      /\ \A p \in Names, k \in Coroutines : p # n =>
            (Building(k, p)' <=> Building(k, p)) /\ (Building(k, p) => job'[k].key = job[k].key)
      /\ \A p \in Names : p # n => (Due(p) => Due(p)')
      /\ n \in profiles => job[j].key = Key(n) \/ Due(n)'
  <2>1. ~Obsolete(j) /\ job' = Resumed(j) /\ lost' = StillLost(n, job[j].key)
    BY <1>0 DEF WriteBuild
  <2> QED
    BY <1>0, <1>1, <2>1, WriteFacts
<1>3. t # 0 /\ \A q \in Names : env[q].obj # t /\ memo[q].env # t
  BY NewIdentity
<1>4. m.key = Key(n) /\ m.env = env'[n].obj
  OBVIOUS
<1>5. e.obj = t /\ e.from = ShapeOf(job[j].key)
  OBVIOUS
<1> HIDE DEF t, e, m
<1>6. /\ env'[n] = e /\ env' = [p \in Names |-> env'[p]] /\ memo' = [p \in Names |-> memo'[p]]
      /\ \A p \in Names : p # n => env'[p] = env[p]
  BY <1>1, <1>2 DEF FreshInv, EnvelopesTyped
<1>7. /\ \A p \in Names : memo'[p].set =>
            \/ p # n /\ memo'[p] = memo[p] /\ memo[p].set
            \/ p = n /\ job[j].key = Key(n) /\ memo'[n] = m
  BY <1>1, <1>2 DEF NoMemo, Remembered
<1>8. MemosDescribe'
  <2> SUFFICES ASSUME NEW p \in Names, memo'[p].set
               PROVE  /\ memo'[p].env # 0
                      /\ \A q \in Names : memo'[p].env = env'[q].obj => env'[q].from = ShapeOf(memo'[p].key)
    BY DEF MemosDescribe, ShapeOf
  <2>1. CASE p # n /\ memo'[p] = memo[p] /\ memo[p].set
    BY <1>3, <1>5, <1>6, <2>1 DEF FreshInv, MemosDescribe
  <2>2. CASE p = n /\ job[j].key = Key(n) /\ memo'[n] = m
    BY <1>2, <1>3, <1>4, <1>5, <1>6, <2>2
  <2> QED
    BY <1>7, <2>1, <2>2
<1>9. n \in profiles => Due(n)' \/ env'[n].from = ShapeOf(Key(n))
  BY <1>2, <1>5, <1>6
<1>10. env'[n].obj = 0 => env'[n].from = {}
  BY <1>3, <1>5, <1>6
<1>11. \A k \in Coroutines : Building(k, n)' =>
         /\ ~memo'[n].set /\ \A l \in Coroutines : Building(l, n)' => l = k
         /\ job'[k].key = Key(n) \/ Due(n)'
  BY <1>2
<1>12. /\ env' = [p \in Names |-> env'[p]] /\ memo' = [p \in Names |-> memo'[p]]
       /\ \A p \in Names : p # n => env'[p] = env[p] /\ (memo'[p].set => memo[p].set)
  BY <1>6, <1>7
<1> QED
  BY <1>1, <1>2, <1>8, <1>9, <1>10, <1>11, <1>12, StepOfBuilds

\* The envelopes of the initial catalogue.
LEMMA FreshStart == CatalogInit => FreshInv
<1> SUFFICES ASSUME CatalogInit PROVE FreshInv
  OBVIOUS
<1>1. /\ profiles = StartNames /\ StartNames \subseteq Names /\ None \notin Names /\ pass = IdlePass
      /\ memo = [p \in Names |-> NoMemo] /\ job = [j \in Coroutines |-> IdleJob]
      /\ env = [p \in Names |-> IF ShapeOf(Key(p)) = {} THEN NoEnv ELSE [obj |-> 1, from |-> ShapeOf(Key(p))]]
  BY CatalogAssumption DEF CatalogInit
<1>2. \A p \in Names : env[p].from = ShapeOf(Key(p)) /\ (env[p].obj = 0 => env[p].from = {})
  <2> SUFFICES ASSUME NEW p \in Names
               PROVE  env[p].from = ShapeOf(Key(p)) /\ (env[p].obj = 0 => env[p].from = {})
    OBVIOUS
  <2> DEFINE shape == ShapeOf(Key(p))
  <2>1. env[p] = IF shape = {} THEN NoEnv ELSE [obj |-> 1, from |-> shape]
    BY <1>1
  <2> HIDE DEF shape
  <2>2. env[p].from = shape /\ (env[p].obj = 0 => env[p].from = {})
    BY <2>1 DEF NoEnv
  <2> QED
    BY <2>2 DEF shape
<1>3. EnvelopesTyped
  BY <1>1, <1>2 DEF EnvelopesTyped, PassOpen, IdlePass
<1>4. MemosDescribe /\ BuildsAlone /\ BuildsOfNow
  BY <1>1 DEF MemosDescribe, NoMemo, BuildsAlone, BuildsOfNow, Building, IdleJob
<1>5. EnvelopesOfNow
  BY <1>1, <1>2 DEF EnvelopesOfNow
<1> QED
  BY <1>3, <1>4, <1>5 DEF FreshInv

\* Every step.
LEMMA FreshStep ==
    ASSUME SamplesInv, FreshInv, [CatalogNext]_catalogVars
    PROVE  FreshInv'
<1>0. Stored \subseteq Cycles /\ Past \subseteq Stored
  BY Context
<1>1. \A j \in Coroutines : SaveDone(j) \/ DiscardBuild(j) \/ WriteNone(j) \/ WriteBuild(j) => FreshInv'
  BY SaveDoneFresh, DiscardBuildFresh, WriteNoneFresh, WriteBuildFresh
<1>2. \A j \in Coroutines : \A n \in job[j].left :
         SkipBuild(j, n) \/ EmptyBuild(j, n) \/ BeginBuild(j, n) => FreshInv'
  BY SkipBuildFresh, EmptyBuildFresh, BeginBuildFresh
<1>3. \A j \in Coroutines :
         Unask(j) \/ Resolve(j) \/ Tidy(j) \/ Nightly(j) \/ Prune(j) \/ PassEnd(j) => FreshInv'
  BY UnaskFresh, TidyFresh, NightlyFresh, PruneFresh, PassEndFresh
<1>4. \A j \in Coroutines, how \in {"nothing", "ask", "label"} : TailAsk(j, how) => FreshInv'
  BY TailAskFresh
<1>5. \A j \in Coroutines, c \in Stored, p \in Names : CreateProfile(j, c, p) => FreshInv'
  BY CreateProfileFresh
<1>6. \A j \in Coroutines, c \in Stored \union {None}, p \in Names : CreateStandalone(j, p, c) => FreshInv'
  BY CreateStandaloneFresh
<1>7. \A j \in Coroutines, c \in Unused, p \in Names : AddReference(j, c, p) => FreshInv'
  BY AddReferenceFresh
<1>8. \A p \in profiles, q \in Names : Rename(p, q) => FreshInv'
  BY RenameFresh
<1>9. \A p \in profiles, unlabel \in BOOLEAN : DeleteProfile(p, unlabel) => FreshInv'
  BY DeleteProfileFresh
<1>10. \A j \in Coroutines : RebuildAll(j) => FreshInv'
  BY RebuildAllFresh
<1>11. \A j \in Coroutines, c \in Stored, p \in profiles \union {None} :
          Assign(j, c, p) \/ AssignOther(j, c, p) => FreshInv'
  BY AssignFresh, AssignOtherFresh
<1>12. \A j \in Coroutines, c \in Stored : DeleteCycle(j, c) \/ DeleteOther(j, c) \/ Trim(j, c) => FreshInv'
  BY DeletesFresh, TrimFresh
<1>13. \A c \in {x \in Cycles : pending[x] # None} :
          (\/ Dismiss(c)
           \/ \E j \in Coroutines : Confirm(j, c) \/ \E p \in profiles : Correct(j, c, p)) => FreshInv'
  BY AnswersFresh
<1>14. \A j \in Coroutines, c \in Past, d, e \in Unused, m, n \in profiles \union {None} :
          Split(j, c, d, e, m, n) => FreshInv'
  BY SplitFresh
<1>15. \A j \in Coroutines, c, d \in Past, new \in Unused, p \in profiles \union {None} :
          Merge(j, c, d, new, p) => FreshInv'
  BY MergeFresh
<1>16. \A best, lab \in profiles \union {None}, hand \in BOOLEAN : TailVerdict(best, lab, hand) => FreshInv'
  BY TailVerdictFresh
<1>17. \A j \in Coroutines, c \in Unused : TailAdd(j, c) => FreshInv'
  BY TailAddFresh
<1>18. /\ \A kind \in {"panel", "nightly"} : StartPass(kind) => FreshInv'
       /\ \A c \in pass.todo, best \in profiles \union {None} : PassMatch(c, best) => FreshInv'
       /\ PassApply \/ PassAbort => FreshInv'
  BY StartPassFresh, PassMatchFresh, PassApplyFresh, PassAbortFresh
<1>19. /\ \A g \in Groups, ps \in SUBSET profiles : SetGroup(g, ps) => FreshInv'
       /\ \A g, h \in Groups : RenameGroup(g, h) => FreshInv'
       /\ \A g \in Groups : DeleteGroup(g) => FreshInv'
       /\ ReadGroups \/ ClearAll => FreshInv'
  BY GroupsFresh, ClearAllFresh
<1>20. CASE UNCHANGED catalogVars
  BY <1>20, FreshStays DEF catalogVars
<1> QED
  BY <1>1, <1>2, <1>3, <1>4, <1>5, <1>6, <1>7, <1>8, <1>9, <1>10, <1>11, <1>12, <1>13, <1>14, <1>15,
     <1>16, <1>17, <1>18, <1>19, <1>20 DEF CatalogNext

\* What the invariant is for.
LEMMA FreshTells == SamplesInv /\ FreshInv => EnvelopeFresh
<1> SUFFICES ASSUME SamplesInv, FreshInv PROVE EnvelopeFresh
  OBVIOUS
<1>1. ASSUME NEW p \in profiles
      PROVE  \/ Owed(p) \/ p \in lost \/ env[p].from = ShapeOf(Key(p))
             \/ (pass.kind # "idle" /\ p \in pass.touched)
  BY <1>1 DEF FreshInv, EnvelopesOfNow, Due, Building, Owed
<1>2. \A p \in Names : memo[p] = Inputs(p) => env[p].from = ShapeOf(Key(p))
  BY MemoTells
<1> QED
  BY <1>1, <1>2 DEF EnvelopeFresh

\* However edits, renames to names used before and builds interleave
\* (profile_store.py), a profile's envelope is built from exactly the cycles it has
\* now or its rebuild is still to come, and no build is skipped that would change it.
THEOREM EnvelopesAreFresh == CatalogSpec => []EnvelopeFresh
<1>1. CatalogInit => SamplesInv /\ FreshInv
  BY CatalogStart, FreshStart
<1>2. SamplesInv /\ FreshInv /\ [CatalogNext]_catalogVars => (SamplesInv /\ FreshInv)'
  BY CatalogStep, FreshStep
<1>3. SamplesInv /\ FreshInv => EnvelopeFresh
  BY FreshTells
<1> QED
  BY <1>1, <1>2, <1>3, PTL DEF CatalogSpec
=============================================================================
