------------------------- MODULE StoreCatalog_proof --------------------------
(***************************************************************************)
(* Proofs about StoreCatalog: whatever reads, writes and other installs    *)
(* interleave, a read shows what the writes answered before it did.        *)
(*                                                                         *)
(* The inductive invariant says where an answer can come from: that each   *)
(* cached value, and what each fetch of the present generation was sent,   *)
(* is as new as what is owed; that a fetch of an earlier generation is as  *)
(* new as what its own readers are owed; and what the published builds     *)
(* hold of the device.                                                     *)
(***************************************************************************)
EXTENDS StoreCatalog, TLAPS

DeviceStatuses == {Absent, Pending, Approved}
Documents == [status : DeviceStatuses, confirms : Nat]
Caches == [badge : Documents \union {UncachedDoc}, list : DeviceStatuses \union {Uncached},
           index : 0..MaxIndexes \union {Uncached},
           delta : [1..MaxIndexes -> DeviceStatuses \union {Uncached}]]
Reads == [at : {"idle", "badge", "index", "query"}, sent : Documents, build : 0..MaxIndexes,
          flight : Readers \union {Nobody}, owed : Documents]
Writes == [at : {"idle", "created", "counted", "readback", "promote", "promoted"},
           sent : Documents]

StoreTypeOK ==
    /\ device \in [status : DeviceStatuses, confirms : Nat, born : 0..MaxIndexes]
    /\ indexes \in Seq(DeviceStatuses) /\ Len(indexes) \in 1..MaxIndexes
    /\ voted \in BOOLEAN
    /\ cache \in Caches
    /\ fresh \subseteq Readers \union {Writer}
    /\ promoted \in 0..MaxIndexes
    /\ reader \in [Readers -> Reads]
    /\ writer \in Writes
    /\ owed \in [status : DeviceStatuses, confirms : Nat, search : DeviceStatuses]
    /\ shown \subseteq [got : Documents, owed : Documents]

\* a is as new as b.
AsNew(a, b) == a.status >= b.status /\ a.confirms >= b.confirms

\* Only what the store holds is owed.
OwedIsStored == AsNew(device, owed) /\ device.status >= owed.search

\* A build after the device was created has it, and one after its promotion has it approved.
BuildsHold ==
    /\ device.born <= Len(indexes)
    /\ IF device.status = Absent THEN device.born = 0 /\ device.confirms = 0
       ELSE \A b \in 1..Len(indexes) : b > device.born => indexes[b] # Absent
    /\ promoted > 0 =>
           /\ device.status = Approved /\ device.born <= promoted /\ promoted <= Len(indexes)
           /\ \A b \in 1..Len(indexes) : b > promoted => indexes[b] = Approved
    /\ owed.search = Approved => promoted > 0

\* What the query for build b may have answered for a search to show need.
Suits(b, answer, need) ==
    IF b = NoIndex \/ device.born >= b THEN answer >= need ELSE answer = Absent

CacheHolds(c) ==
    /\ c.badge # UncachedDoc => AsNew(c.badge, owed)
    /\ c.index <= Len(indexes)
    /\ \A b \in 0..MaxIndexes :
           CachedFor(b, c) # Uncached => Suits(b, CachedFor(b, c), owed.search)

\* Of a read under way: its answer is as new as what its reader is owed, and one of this
\* generation as what a read that starts now is.
FlightHolds(r) ==
    LET q == reader[r] IN
    /\ q.at = "badge" =>
           AsNew(q.sent, q.owed) /\ AsNew(owed, q.owed) /\ (r \in fresh => AsNew(q.sent, owed))
    /\ q.at \in {"index", "query"} =>
           q.owed.status <= owed.search /\ q.owed.confirms = 0 /\ q.build <= Len(indexes)
    /\ q.at = "query" <=> q.flight # Nobody
    /\ q.flight # Nobody =>
           LET l == reader[q.flight] IN
           l.flight = q.flight /\ l.build = q.build /\ l.sent.status >= q.owed.status
    /\ q.flight = r /\ r \in fresh => q.sent.status >= owed.search

FlightsHold == \A r \in Readers : FlightHolds(r)

WriterHolds ==
    /\ writer.at \in {"created", "promote"} => device.status # Absent
    /\ writer.at \in {"counted", "readback"} => AsNew(device, writer.sent)
    /\ writer.at = "readback" /\ Writer \in fresh => AsNew(writer.sent, owed)
    /\ writer.at = "promoted" => device.status = Approved

StoreInv ==
    /\ StoreTypeOK /\ OwedIsStored /\ BuildsHold /\ CacheHolds(cache) /\ FlightsHold
    /\ WriterHolds /\ ReadsShowWrites

-----------------------------------------------------------------------------
\* The operators.

USE DEF Absent, Pending, Approved, Uncached, NoIndex, DeviceStatuses

\* The row a search shows is as new as what the answer of its query suits.
LEMMA RowSuits ==
    ASSUME StoreInv, NEW b \in 0..Len(indexes), NEW a \in DeviceStatuses,
           NEW need \in DeviceStatuses, need <= owed.search, Suits(b, a, need)
    PROVE  Row(b, a) \in DeviceStatuses /\ Row(b, a) >= need
<1>1. Len(indexes) \in Nat /\ promoted \in Nat /\ device.born \in Nat /\ b \in Nat
  BY StoreAssumption DEF StoreInv, StoreTypeOK
<1>2. CASE b = NoIndex
  BY <1>2 DEF Row, Suits
<1>3. CASE b # NoIndex
  <2> DEFINE row == IF a # Absent THEN a ELSE indexes[b]
  <2>1. b \in 1..Len(indexes) /\ indexes[b] \in DeviceStatuses
    BY <1>1, <1>3 DEF StoreInv, StoreTypeOK
  <2>2. need = Approved => promoted > 0
    BY DEF StoreInv, StoreTypeOK, BuildsHold
  <2>3. need # Absent => row # Absent
    BY <1>1, <1>3, <2>1 DEF StoreInv, StoreTypeOK, BuildsHold, Suits, OwedIsStored
  <2>4. need = Approved /\ b > promoted => row = Approved
    BY <1>1, <1>3, <2>1, <2>2 DEF StoreInv, StoreTypeOK, BuildsHold, Suits
  <2>5. Row(b, a) = IF row # Absent /\ promoted >= b THEN Approved ELSE row
    BY <1>3 DEF Row, Overrides
  <2> HIDE DEF row
  <2>6. row \in DeviceStatuses
    BY <2>1 DEF row
  <2> QED
    BY <1>1, <2>3, <2>4, <2>5, <2>6
<1> QED
  BY <1>2, <1>3

\* What a query answers of a document suits whatever the document is as new as.
LEMMA AnswerSuits ==
    ASSUME StoreInv, NEW b \in 0..MaxIndexes, NEW s \in Documents,
           NEW need \in DeviceStatuses, need <= s.status
    PROVE  Answer(b, s) \in DeviceStatuses /\ Suits(b, Answer(b, s), need)
BY DEF Answer, CreatedSince, Suits, Documents, StoreInv, StoreTypeOK

LEMMA SeenDocuments ==
    ASSUME NEW d, d.status \in DeviceStatuses, d.confirms \in Nat
    PROVE  Seen(d) \in Documents /\ AsNew(d, Seen(d)) /\ AsNew(Seen(d), d)
BY DEF Seen, Documents, AsNew

LEMMA UnseenDocument == Unseen \in Documents
BY DEF Unseen, Documents

LEMMA WithCaches ==
    ASSUME NEW c \in Caches, NEW b \in 0..MaxIndexes, NEW a \in DeviceStatuses \union {Uncached}
    PROVE  /\ With(c, b, a) \in Caches
           /\ With(c, b, a).badge = c.badge /\ With(c, b, a).index = c.index
           /\ \A d \in 0..MaxIndexes :
                  CachedFor(d, With(c, b, a)) = IF d = b THEN a ELSE CachedFor(d, c)
<1>1. CASE b = NoIndex
  BY <1>1, StoreAssumption DEF With, Caches, CachedFor
<1>2. CASE b # NoIndex
  <2>1. b \in 1..MaxIndexes
    BY <1>2, StoreAssumption
  <2> DEFINE delta == [c.delta EXCEPT ![b] = a]
  <2>2. /\ delta \in [1..MaxIndexes -> DeviceStatuses \union {Uncached}]
        /\ \A d \in 1..MaxIndexes : delta[d] = IF d = b THEN a ELSE c.delta[d]
    BY <2>1 DEF Caches
  <2>3. With(c, b, a) = [c EXCEPT !.delta = delta]
    BY <1>2 DEF With
  <2> HIDE DEF delta
  <2>4. \A d \in 0..MaxIndexes : d # NoIndex => d \in 1..MaxIndexes
    BY StoreAssumption
  <2> QED
    BY <1>2, <2>2, <2>3, <2>4 DEF Caches, CachedFor
<1> QED
  BY <1>1, <1>2

\* Filling or dropping one answer leaves what the others suit.
LEMMA WithHolds ==
    ASSUME NEW c \in Caches, CacheHolds(c), NEW b \in 0..MaxIndexes,
           NEW a \in DeviceStatuses \union {Uncached},
           a # Uncached => Suits(b, a, owed.search)
    PROVE  With(c, b, a) \in Caches /\ CacheHolds(With(c, b, a))
<1> DEFINE x == With(c, b, a)
<1>1. /\ x \in Caches /\ x.badge = c.badge /\ x.index = c.index
      /\ \A d \in 0..MaxIndexes : CachedFor(d, x) = IF d = b THEN a ELSE CachedFor(d, c)
  BY WithCaches, ZenonT(60)
<1> HIDE DEF x
<1>2. \A d \in 0..MaxIndexes : CachedFor(d, x) # Uncached => Suits(d, CachedFor(d, x), owed.search)
  BY <1>1 DEF CacheHolds
<1>3. CacheHolds(x)
  BY <1>1, <1>2 DEF CacheHolds
<1> QED
  BY <1>1, <1>3 DEF x

\* The published index may be read anew.
LEMMA IndexedHolds ==
    ASSUME NEW c \in Caches, CacheHolds(c), NEW n \in 0..MaxIndexes \union {Uncached},
           n <= Len(indexes)
    PROVE  [c EXCEPT !.index = n] \in Caches /\ CacheHolds([c EXCEPT !.index = n])
<1> DEFINE x == [c EXCEPT !.index = n]
<1>1. x \in Caches /\ x.badge = c.badge /\ x.index = n /\ x.list = c.list /\ x.delta = c.delta
  BY DEF Caches
<1> HIDE DEF x
<1>2. CacheHolds(x)
  BY <1>1 DEF CacheHolds, CachedFor
<1> QED
  BY <1>1, <1>2 DEF x

LEMMA InvalidatedCaches ==
    ASSUME StoreInv
    PROVE  /\ Invalidated \in Caches
           /\ Invalidated.badge = UncachedDoc /\ Invalidated.index = cache.index
           /\ \A b \in 0..MaxIndexes : CachedFor(b, Invalidated) = Uncached
<1> DEFINE delta == [b \in 1..MaxIndexes |-> Uncached]
<1>1. /\ delta \in [1..MaxIndexes -> DeviceStatuses \union {Uncached}]
      /\ \A b \in 1..MaxIndexes : delta[b] = Uncached
  OBVIOUS
<1>2. Invalidated = [cache EXCEPT !.badge = UncachedDoc, !.list = Uncached, !.delta = delta]
  BY DEF Invalidated
<1> HIDE DEF delta
<1>3. \A b \in 0..MaxIndexes : b # NoIndex => b \in 1..MaxIndexes
  BY StoreAssumption
<1> QED
  BY <1>1, <1>2, <1>3 DEF StoreInv, StoreTypeOK, Caches, CachedFor

\* The device is created, confirmed, approved.
DeviceStep ==
    \/ device' = device
    \/ /\ device.status = Absent
       /\ device' = [status |-> Pending, confirms |-> 0, born |-> Len(indexes)]
    \/ device.status # Absent /\ device' = [device EXCEPT !.confirms = @ + 1]
    \/ device.status # Absent /\ device' = [device EXCEPT !.status = Approved]

LEMMA DeviceOnlyGains ==
    ASSUME StoreInv, DeviceStep
    PROVE  /\ device' \in [status : DeviceStatuses, confirms : Nat, born : 0..MaxIndexes]
           /\ device'.status >= device.status /\ device'.confirms >= device.confirms
           /\ device' = device \/ device'.status # Absent
           /\ device'.born = IF device.status = Absent /\ device' # device
                             THEN Len(indexes) ELSE device.born
<1>1. device = [status |-> device.status, confirms |-> device.confirms, born |-> device.born]
  BY DEF StoreInv, StoreTypeOK
<1>2. CASE device' = device
  BY <1>2 DEF StoreInv, StoreTypeOK
<1>3. CASE /\ device.status = Absent
           /\ device' = [status |-> Pending, confirms |-> 0, born |-> Len(indexes)]
  <2>1. Len(indexes) \in 0..MaxIndexes
    BY StoreAssumption DEF StoreInv, StoreTypeOK
  <2>2. device.confirms = 0
    BY <1>3 DEF StoreInv, BuildsHold
  <2> QED
    BY <1>3, <2>1, <2>2
<1>4. CASE device.status # Absent /\ device' = [device EXCEPT !.confirms = @ + 1]
  BY <1>4 DEF StoreInv, StoreTypeOK
<1>5. CASE device.status # Absent /\ device' = [device EXCEPT !.status = Approved]
  BY <1>5 DEF StoreInv, StoreTypeOK
<1> QED
  BY <1>2, <1>3, <1>4, <1>5 DEF DeviceStep

LEMMA DeviceGains ==
    ASSUME StoreInv, DeviceStep, UNCHANGED <<indexes, cache, fresh, promoted, reader, owed>>
    PROVE  OwedIsStored' /\ BuildsHold' /\ CacheHolds(cache)' /\ FlightsHold'
<1>1. Len(indexes) \in Nat /\ promoted \in Nat /\ device.born \in Nat
  BY StoreAssumption DEF StoreInv, StoreTypeOK
<1>2. OwedIsStored'
  BY DeviceOnlyGains DEF StoreInv, StoreTypeOK, OwedIsStored, AsNew
<1>3. BuildsHold'
  BY <1>1, DeviceOnlyGains DEF StoreInv, StoreTypeOK, BuildsHold
<1>4. CacheHolds(cache)'
  <2>1. ASSUME NEW b \in 0..MaxIndexes, CachedFor(b, cache) # Uncached
        PROVE  Suits(b, CachedFor(b, cache), owed.search)'
    BY <1>1, <2>1, DeviceOnlyGains, SMTT(30)
       DEF StoreInv, StoreTypeOK, BuildsHold, OwedIsStored, CacheHolds, Suits, CachedFor
  <2> QED
    BY <2>1 DEF StoreInv, CacheHolds, AsNew, CachedFor
<1>5. FlightsHold'
  BY DEF StoreInv, FlightsHold, FlightHolds, AsNew
<1> QED
  BY <1>2, <1>3, <1>4, <1>5

\* What is owed grows to what the store holds, as the cache is invalidated.
LEMMA OwedGrows ==
    ASSUME StoreInv, owed' \in [status : DeviceStatuses, confirms : Nat, search : DeviceStatuses],
           AsNew(owed', owed), owed'.search >= owed.search,
           AsNew(device, owed'), device.status >= owed'.search,
           \/ promoted' = promoted /\ (owed'.search = Approved => promoted > 0)
           \/ promoted' = Len(indexes) /\ device.status = Approved,
           cache' = Invalidated, fresh' \subseteq {Writer},
           UNCHANGED <<device, indexes, reader>>
    PROVE  OwedIsStored' /\ BuildsHold' /\ CacheHolds(cache)' /\ FlightsHold'
<1>1. Len(indexes) \in Nat /\ promoted \in Nat /\ device.born \in Nat /\ Len(indexes) > 0
  BY StoreAssumption DEF StoreInv, StoreTypeOK
<1>2. OwedIsStored'
  BY DEF OwedIsStored, AsNew
<1>3. BuildsHold'
  BY <1>1 DEF StoreInv, StoreTypeOK, BuildsHold
<1>4. CacheHolds(cache)'
  BY InvalidatedCaches DEF StoreInv, CacheHolds, CachedFor
<1>5. FlightsHold'
  <2>1. \A r \in Readers : r \notin fresh'
    BY StoreAssumption
  <2>2. \A r \in Readers :
            reader[r].owed.status \in DeviceStatuses /\ reader[r].owed.confirms \in Nat
    BY DEF StoreInv, StoreTypeOK, Reads, Documents
  <2> QED
    BY <2>1, <2>2 DEF StoreInv, StoreTypeOK, FlightsHold, FlightHolds, AsNew
<1> QED
  BY <1>2, <1>3, <1>4, <1>5

-----------------------------------------------------------------------------
\* The writes and the others.

LEMMA OthersInv ==
    ASSUME StoreInv, OthersChange \/ IndexBuilt, shown' = {}
    PROVE  StoreInv'
<1>1. CASE OthersChange
  <2> USE DEF OthersChange, clientVars
  <2>1. DeviceStep
    BY <1>1 DEF DeviceStep
  <2>2. OwedIsStored' /\ BuildsHold' /\ CacheHolds(cache)' /\ FlightsHold'
    BY <1>1, <2>1, DeviceGains
  <2>3. StoreTypeOK'
    BY <1>1, <2>1, DeviceOnlyGains DEF StoreInv, StoreTypeOK
  <2>4. WriterHolds'
    BY <1>1, <2>1, <2>3, DeviceOnlyGains DEF StoreInv, StoreTypeOK, WriterHolds, AsNew, Writes, Documents
  <2> QED
    BY <2>2, <2>3, <2>4 DEF StoreInv, ReadsShowWrites
<1>2. CASE IndexBuilt
  <2> USE DEF IndexBuilt, clientVars
  <2>1. /\ Len(indexes) \in Nat /\ Len(indexes') = Len(indexes) + 1
        /\ indexes' \in Seq(DeviceStatuses) /\ Len(indexes') \in 1..MaxIndexes
        /\ \A b \in 1..Len(indexes') :
               indexes'[b] = IF b = Len(indexes) + 1 THEN device.status ELSE indexes[b]
    BY <1>2, StoreAssumption DEF StoreInv, StoreTypeOK
  <2>2. StoreTypeOK'
    BY <1>2, <2>1 DEF StoreInv, StoreTypeOK
  <2>3. BuildsHold'
    BY <1>2, <2>1, StoreAssumption DEF StoreInv, StoreTypeOK, BuildsHold
  <2>4. CacheHolds(cache)'
    BY <1>2, <2>1 DEF StoreInv, StoreTypeOK, CacheHolds, CachedFor, Suits, Caches
  <2>5. FlightsHold'
    <3>1. \A r \in Readers : reader[r].build \in 0..MaxIndexes
      BY DEF StoreInv, StoreTypeOK, Reads
    <3> QED
      BY <1>2, <2>1, <3>1, StoreAssumption DEF StoreInv, FlightsHold, FlightHolds
  <2> QED
    BY <1>2, <2>2, <2>3, <2>4, <2>5
       DEF StoreInv, OwedIsStored, WriterHolds, ReadsShowWrites
<1> QED
  BY <1>1, <1>2

LEMMA RefreshInv ==
    ASSUME StoreInv, Refresh, shown' = {}
    PROVE  StoreInv'
<1> USE DEF Refresh, remoteVars
<1>1. /\ owed' \in [status : DeviceStatuses, confirms : Nat, search : DeviceStatuses]
      /\ AsNew(owed', owed) /\ owed'.search >= owed.search
      /\ AsNew(device, owed') /\ device.status >= owed'.search
      /\ owed'.search = Approved => owed.search = Approved
  BY DEF StoreInv, StoreTypeOK, OwedIsStored, AsNew, Later
<1>2. OwedIsStored' /\ BuildsHold' /\ CacheHolds(cache)' /\ FlightsHold'
  BY <1>1, OwedGrows DEF StoreInv, BuildsHold
<1>3. StoreTypeOK'
  BY <1>1, InvalidatedCaches DEF StoreInv, StoreTypeOK
<1> QED
  BY <1>2, <1>3 DEF StoreInv, WriterHolds, ReadsShowWrites

LEMMA SharesInv ==
    ASSUME StoreInv, Shares \/ Confirms \/ OtherAnswered
    PROVE  StoreInv'
<1> USE DEF Begins, Goes, clientVars, remoteVars
<1>1. CASE Shares \/ Confirms
  <2>1. DeviceStep
    BY <1>1 DEF DeviceStep, Shares, Confirms
  <2>2. OwedIsStored' /\ BuildsHold' /\ CacheHolds(cache)' /\ FlightsHold'
    BY <1>1, <2>1, DeviceGains DEF Shares, Confirms
  <2>3. StoreTypeOK'
    <3>1. Seen(device') \in Documents /\ Unseen \in Documents
      <4>1. device' \in [status : DeviceStatuses, confirms : Nat, born : 0..MaxIndexes]
        BY <2>1, DeviceOnlyGains
      <4> QED
        BY <4>1, SeenDocuments, UnseenDocument
    <3>2. writer' = [at |-> "created", sent |-> Unseen]
          \/ writer' = [at |-> "counted", sent |-> Seen(device')]
      BY <1>1 DEF Shares, Confirms
    <3>3. writer' \in Writes
      BY <3>1, <3>2 DEF Writes
    <3>4. voted' \in BOOLEAN
      BY <1>1 DEF Shares, Confirms, StoreInv, StoreTypeOK
    <3> QED
      BY <1>1, <2>1, <3>3, <3>4, DeviceOnlyGains DEF StoreInv, StoreTypeOK, Shares, Confirms
  <2>4. WriterHolds'
    BY <1>1, <2>1, DeviceOnlyGains
       DEF StoreInv, StoreTypeOK, WriterHolds, AsNew, Shares, Confirms, Seen, Unseen
  <2> QED
    BY <1>1, <2>2, <2>3, <2>4 DEF StoreInv, ReadsShowWrites, Shares, Confirms
<1>2. CASE OtherAnswered
  <2> USE DEF OtherAnswered
  <2>1. OwedIsStored' /\ BuildsHold' /\ CacheHolds(cache)' /\ FlightsHold'
    BY <1>2, OwedGrows DEF StoreInv, StoreTypeOK, BuildsHold, OwedIsStored, AsNew
  <2>2. StoreTypeOK'
    BY <1>2, InvalidatedCaches DEF StoreInv, StoreTypeOK, Writes, Documents, Unseen
  <2> QED
    BY <1>2, <2>1, <2>2 DEF StoreInv, WriterHolds, ReadsShowWrites
<1> QED
  BY <1>1, <1>2

\* The steps of a write under way.
LEMMA ContinuesInv ==
    ASSUME StoreInv, Continues
    PROVE  StoreInv'
<1> USE DEF Goes, clientVars, remoteVars
<1>1. writer \in Writes /\ device.status \in DeviceStatuses /\ device.confirms \in Nat
  BY DEF StoreInv, StoreTypeOK
<1>2. CASE ShareAnswered
  <2> USE DEF ShareAnswered
  <2>1. /\ owed' \in [status : DeviceStatuses, confirms : Nat, search : DeviceStatuses]
        /\ AsNew(owed', owed) /\ owed'.search >= owed.search
        /\ AsNew(device, owed') /\ device.status >= owed'.search
        /\ owed'.search = Approved => owed.search = Approved
    <3>1. PICK st \in DeviceStatuses, se \in DeviceStatuses :
              /\ st = Later(owed.status, Pending) /\ se = Later(owed.search, Pending)
              /\ st >= owed.status /\ se >= owed.search /\ (se = Approved => owed.search = se)
              /\ device.status >= st /\ device.status >= se
      BY <1>2 DEF StoreInv, StoreTypeOK, OwedIsStored, WriterHolds, AsNew, Later
    <3>2. owed' = [owed EXCEPT !.status = st, !.search = se]
      BY <1>2, <3>1
    <3>3. /\ owed' \in [status : DeviceStatuses, confirms : Nat, search : DeviceStatuses]
          /\ owed'.status = st /\ owed'.confirms = owed.confirms /\ owed'.search = se
      BY <3>2 DEF StoreInv, StoreTypeOK
    <3>4. owed.confirms \in Nat /\ device.confirms >= owed.confirms
      BY DEF StoreInv, StoreTypeOK, OwedIsStored, AsNew
    <3> QED
      BY <3>1, <3>3, <3>4 DEF AsNew
  <2>2. OwedIsStored' /\ BuildsHold' /\ CacheHolds(cache)' /\ FlightsHold'
    BY <1>2, <2>1, OwedGrows DEF StoreInv, BuildsHold
  <2>3. StoreTypeOK'
    BY <1>2, <2>1, InvalidatedCaches, UnseenDocument DEF StoreInv, StoreTypeOK, Writes
  <2> QED
    BY <1>2, <2>2, <2>3 DEF StoreInv, WriterHolds, ReadsShowWrites
<1>3. CASE ConfirmAnswered
  <2> USE DEF ConfirmAnswered
  <2>1. /\ owed' \in [status : DeviceStatuses, confirms : Nat, search : DeviceStatuses]
        /\ AsNew(owed', owed) /\ owed'.search = owed.search
        /\ AsNew(device, owed')
    <3>1. writer.sent.status \in DeviceStatuses /\ writer.sent.confirms \in Nat
          /\ AsNew(device, writer.sent)
      BY <1>1, <1>3 DEF StoreInv, WriterHolds, Writes, Documents
    <3>2. PICK st \in DeviceStatuses, co \in Nat :
              /\ st = Later(owed.status, writer.sent.status)
              /\ co = Later(owed.confirms, writer.sent.confirms)
              /\ st >= owed.status /\ co >= owed.confirms
              /\ device.status >= st /\ device.confirms >= co
      BY <1>1, <3>1 DEF StoreInv, StoreTypeOK, OwedIsStored, AsNew, Later
    <3>3. owed' = [owed EXCEPT !.status = st, !.confirms = co]
      BY <1>3, <3>2
    <3> QED
      BY <3>2, <3>3 DEF StoreInv, StoreTypeOK, AsNew
  <2>2. OwedIsStored' /\ BuildsHold' /\ CacheHolds(cache)' /\ FlightsHold'
    <3>1. owed'.search >= owed.search /\ device.status >= owed'.search
      BY <2>1 DEF StoreInv, StoreTypeOK, OwedIsStored
    <3> QED
      BY <1>3, <2>1, <3>1, OwedGrows DEF StoreInv, BuildsHold
  <2>3. StoreTypeOK'
    BY <1>1, <1>3, <2>1, InvalidatedCaches, SeenDocuments DEF StoreInv, StoreTypeOK, Writes
  <2>4. AsNew(Seen(device), owed')
    BY <2>1 DEF AsNew, Seen
  <2>5. WriterHolds'
    BY <1>1, <1>3, <2>4, SeenDocuments DEF WriterHolds
  <2> QED
    BY <1>3, <2>2, <2>3, <2>5 DEF StoreInv, ReadsShowWrites
<1>4. CASE ReadBack
  <2> USE DEF ReadBack
  <2>1. Seen(device) \in Documents /\ writer.sent \in Documents
    BY <1>1, SeenDocuments DEF Writes
  <2>2. cache' = cache \/ /\ Writer \in fresh
                          /\ \E got \in {writer.sent, Seen(device)} :
                                 cache' = [cache EXCEPT !.badge = got]
    BY <1>4 DEF BadgeKept
  <2>3. cache' \in Caches /\ CacheHolds(cache')
    <3>1. CASE cache' = cache
      BY <3>1 DEF StoreInv, StoreTypeOK
    <3>2. ASSUME Writer \in fresh, NEW got \in {writer.sent, Seen(device)},
                 cache' = [cache EXCEPT !.badge = got]
          PROVE  cache' \in Caches /\ CacheHolds(cache')
      <4>1. AsNew(got, owed)
        BY <1>4, <3>2 DEF StoreInv, WriterHolds, OwedIsStored, AsNew, Seen
      <4> QED
        BY <2>1, <3>2, <4>1 DEF StoreInv, StoreTypeOK, Caches, CacheHolds, CachedFor
    <3> QED
      BY <2>2, <3>1, <3>2
  <2>4. /\ writer' \in Writes
        /\ writer'.at = "idle" \/ (writer'.at = "promote" /\ device.status # Absent)
    <3>1. \A got \in {writer.sent, Seen(device)} : got.status = Pending => device.status # Absent
      BY <1>1, <1>4 DEF StoreInv, WriterHolds, AsNew, Seen
    <3>2. PICK at \in {"idle", "promote"} :
              writer' = [at |-> at, sent |-> Unseen] /\ (at = "promote" => device.status # Absent)
      <4>1. CASE Goes("idle", Unseen)
        BY <4>1
      <4>2. ASSUME NEW got \in {writer.sent, Seen(device)},
                   Goes(IF got.status = Pending /\ got.confirms >= Enough THEN "promote" ELSE "idle",
                        Unseen)
            PROVE  \E at \in {"idle", "promote"} :
                       writer' = [at |-> at, sent |-> Unseen]
                       /\ (at = "promote" => device.status # Absent)
        BY <3>1, <4>2
      <4> QED
        BY <1>4, <4>1, <4>2
    <3>3. [at |-> at, sent |-> Unseen] \in Writes
      BY UnseenDocument DEF Writes
    <3>4. writer'.at = at /\ writer' \in Writes
      BY <3>2, <3>3
    <3>5. at = "idle" \/ (at = "promote" /\ device.status # Absent)
      BY <3>2
    <3> QED
      BY <3>4, <3>5
  <2>5. FlightsHold'
    <3>1. \A r \in Readers : r \in fresh' => r \in fresh
      BY <1>4
    <3> QED
      BY <1>4, <3>1 DEF StoreInv, FlightsHold, FlightHolds
  <2> QED
    BY <1>4, <2>3, <2>4, <2>5
       DEF StoreInv, StoreTypeOK, OwedIsStored, BuildsHold, CacheHolds, Suits, CachedFor,
           WriterHolds, ReadsShowWrites
<1>5. CASE Promotes
  <2> USE DEF Promotes
  <2>1. DeviceStep
    BY <1>5 DEF DeviceStep, StoreInv, WriterHolds
  <2>2. OwedIsStored' /\ BuildsHold' /\ CacheHolds(cache)' /\ FlightsHold'
    BY <1>5, <2>1, DeviceGains
  <2>3. device'.status = Approved
    BY <1>5 DEF StoreInv, StoreTypeOK
  <2> QED
    BY <1>5, <2>1, <2>2, <2>3, DeviceOnlyGains, UnseenDocument
       DEF StoreInv, StoreTypeOK, Writes, WriterHolds, ReadsShowWrites
<1>6. CASE PromoteAnswered
  <2> USE DEF PromoteAnswered
  <2>1. device.status = Approved
    BY <1>6 DEF StoreInv, WriterHolds
  <2>2. /\ owed' \in [status : DeviceStatuses, confirms : Nat, search : DeviceStatuses]
        /\ AsNew(owed', owed) /\ owed'.search >= owed.search
        /\ AsNew(device, owed') /\ device.status >= owed'.search
    <3>1. owed' = [status |-> Approved, confirms |-> owed.confirms, search |-> Approved]
      BY <1>6 DEF StoreInv, StoreTypeOK
    <3> QED
      BY <2>1, <3>1 DEF StoreInv, StoreTypeOK, OwedIsStored, AsNew
  <2>3. OwedIsStored' /\ BuildsHold' /\ CacheHolds(cache)' /\ FlightsHold'
    BY <1>6, <2>1, <2>2, OwedGrows
  <2>4. StoreTypeOK'
    BY <1>6, <2>2, InvalidatedCaches, UnseenDocument, StoreAssumption DEF StoreInv, StoreTypeOK, Writes
  <2> QED
    BY <1>6, <2>3, <2>4 DEF StoreInv, WriterHolds, ReadsShowWrites
<1>7. CASE Loses
  BY <1>7, UnseenDocument
     DEF Loses, StoreInv, StoreTypeOK, OwedIsStored, BuildsHold, CacheHolds, Suits, CachedFor,
         FlightsHold, FlightHolds, WriterHolds, ReadsShowWrites, Writes
<1> QED
  BY <1>2, <1>3, <1>4, <1>5, <1>6, <1>7 DEF Continues

-----------------------------------------------------------------------------
\* The reads.

\* A reader that joins nobody and that nobody has joined moves.
LEMMA ReaderMoves ==
    ASSUME StoreInv, NEW r \in Readers, reader[r].at # "query",
           NEW s \in Reads, reader' = [reader EXCEPT ![r] = s],
           \A q \in Readers : q # r => (q \in fresh' => q \in fresh),
           FlightHolds(r)', UNCHANGED <<indexes, owed>>
    PROVE  reader' \in [Readers -> Reads] /\ FlightsHold'
<1>1. reader' \in [Readers -> Reads] /\ \A q \in Readers : q # r => reader'[q] = reader[q]
  BY DEF StoreInv, StoreTypeOK
<1>2. ASSUME NEW q \in Readers, q # r
      PROVE  FlightHolds(q)'
  <2>1. reader[q].flight \in Readers \union {Nobody}
    BY DEF StoreInv, StoreTypeOK, Reads
  <2>2. FlightHolds(q) /\ FlightHolds(r)
    BY DEF StoreInv, FlightsHold
  <2>3. reader[q].flight # r
    BY <2>2, StoreAssumption DEF FlightHolds
  <2>4. reader[q].flight # Nobody => reader'[reader[q].flight] = reader[reader[q].flight]
    BY <1>1, <2>1, <2>3
  <2>5. reader'[q] = reader[q]
    BY <1>1, <1>2
  <2> QED
    BY <1>2, <2>2, <2>4, <2>5 DEF FlightHolds
<1> QED
  BY <1>1, <1>2 DEF FlightsHold

\* What is left of the invariant when the store, the debts and the writer stay.
LEMMA OnlyReads ==
    ASSUME StoreInv, UNCHANGED <<device, indexes, voted, promoted, writer, owed>>,
           cache' \in Caches, CacheHolds(cache'), reader' \in [Readers -> Reads], FlightsHold',
           fresh' \subseteq Readers \union {Writer}, Writer \in fresh' => Writer \in fresh,
           shown' \subseteq [got : Documents, owed : Documents], ReadsShowWrites'
    PROVE  StoreInv'
BY DEF StoreInv, StoreTypeOK, OwedIsStored, BuildsHold, CacheHolds, Suits, CachedFor, WriterHolds

LEMMA IdleHolds == IdleReader \in Reads /\ IdleReader.flight = Nobody /\ IdleReader.at = "idle"
BY StoreAssumption, UnseenDocument DEF IdleReader, Reads

LEMMA AskBadgeInv ==
    ASSUME StoreInv, NEW r \in Readers, AskBadge(r)
    PROVE  StoreInv'
<1> DEFINE o == [status |-> owed.status, confirms |-> owed.confirms]
<1> USE DEF remoteVars
<1>1. o \in Documents /\ AsNew(o, owed) /\ AsNew(owed, o)
  BY DEF Documents, AsNew, StoreInv, StoreTypeOK
<1>2. reader[r].at = "idle" /\ UNCHANGED <<device, indexes, voted, promoted, writer, owed>>
  BY DEF AskBadge, Asks
<1>3. CASE /\ cache.badge # UncachedDoc /\ shown' = {[got |-> cache.badge, owed |-> o]}
           /\ UNCHANGED <<cache, fresh, reader>>
  <2>1. cache.badge \in Documents /\ AsNew(cache.badge, o)
    BY <1>3 DEF StoreInv, StoreTypeOK, Caches, CacheHolds, AsNew
  <2>2. ReadsShowWrites' /\ shown' \subseteq [got : Documents, owed : Documents]
    BY <1>1, <1>3, <2>1 DEF ReadsShowWrites, AsNew
  <2>3. FlightsHold'
    BY <1>2, <1>3 DEF StoreInv, FlightsHold, FlightHolds
  <2> QED
    BY <1>2, <1>3, <2>2, <2>3, OnlyReads DEF StoreInv, StoreTypeOK
<1>4. CASE /\ cache' = [cache EXCEPT !.badge = UncachedDoc]
           /\ reader' = [reader EXCEPT ![r] =
                  [IdleReader EXCEPT !.at = "badge", !.sent = Seen(device), !.owed = o]]
           /\ fresh' = fresh \union {r} /\ shown' = {}
  <2> DEFINE s == [IdleReader EXCEPT !.at = "badge", !.sent = Seen(device), !.owed = o]
  <2>1. Seen(device) \in Documents /\ AsNew(Seen(device), owed) /\ AsNew(Seen(device), o)
    BY <1>1, SeenDocuments DEF StoreInv, StoreTypeOK, OwedIsStored, AsNew, Seen
  <2>2. /\ s \in Reads /\ s.at = "badge" /\ s.sent = Seen(device) /\ s.owed = o
        /\ s.flight = Nobody
    BY <1>1, <2>1, IdleHolds DEF Reads
  <2> HIDE DEF s, o
  <2>3. reader'[r] = s
    BY <1>4 DEF s, StoreInv, StoreTypeOK
  <2>4. FlightHolds(r)'
    BY <1>1, <1>2, <2>1, <2>2, <2>3, StoreAssumption DEF FlightHolds, o
  <2>5. reader' \in [Readers -> Reads] /\ FlightsHold'
    BY <1>2, <1>4, <2>2, <2>4, ReaderMoves DEF s
  <2>6. cache' \in Caches /\ CacheHolds(cache')
    BY <1>4 DEF StoreInv, StoreTypeOK, Caches, CacheHolds, CachedFor
  <2> QED
    BY <1>2, <1>4, <2>5, <2>6, OnlyReads, StoreAssumption DEF StoreInv, StoreTypeOK, ReadsShowWrites
<1> QED
  BY <1>3, <1>4 DEF AskBadge

LEMMA BadgeAnsweredInv ==
    ASSUME StoreInv, NEW r \in Readers, BadgeAnswered(r)
    PROVE  StoreInv'
<1> USE DEF remoteVars
<1>1. /\ reader[r].at = "badge" /\ fresh' = fresh \ {r}
      /\ reader' = [reader EXCEPT ![r] = IdleReader]
      /\ UNCHANGED <<device, indexes, voted, promoted, writer, owed>>
  BY DEF BadgeAnswered
<1>2. reader[r] \in Reads /\ FlightHolds(r)
  BY DEF StoreInv, StoreTypeOK, FlightsHold
<1>3. Seen(device) \in Documents /\ AsNew(Seen(device), owed) /\ AsNew(Seen(device), reader[r].owed)
  <2>1. AsNew(Seen(device), owed) /\ Seen(device) \in Documents
    BY SeenDocuments DEF StoreInv, StoreTypeOK, OwedIsStored, AsNew, Seen
  <2>2. AsNew(owed, reader[r].owed)
    BY <1>1, <1>2 DEF FlightHolds
  <2> QED
    BY <1>2, <2>1, <2>2 DEF AsNew, Reads, Documents, StoreInv, StoreTypeOK
<1>4. reader' \in [Readers -> Reads] /\ FlightsHold'
  <2>1. reader'[r] = IdleReader
    BY <1>1 DEF StoreInv, StoreTypeOK
  <2>2. FlightHolds(r)'
    BY <2>1, IdleHolds, StoreAssumption DEF FlightHolds
  <2> QED
    BY <1>1, <2>2, IdleHolds, ReaderMoves
<1>5. CASE shown' = {} /\ UNCHANGED cache
  BY <1>1, <1>4, <1>5, OnlyReads DEF StoreInv, StoreTypeOK, ReadsShowWrites
<1>6. ASSUME NEW got \in {reader[r].sent, Seen(device)},
             cache' = IF BadgeKept(r, got) THEN [cache EXCEPT !.badge = got] ELSE cache,
             shown' = {[got |-> got, owed |-> reader[r].owed]}
      PROVE  StoreInv'
  <2>1. got \in Documents /\ AsNew(got, reader[r].owed) /\ (r \in fresh => AsNew(got, owed))
    BY <1>1, <1>2, <1>3 DEF FlightHolds, Reads
  <2>2. ReadsShowWrites' /\ shown' \subseteq [got : Documents, owed : Documents]
    <3>1. reader[r].owed \in Documents
      BY <1>2 DEF Reads
    <3> QED
      BY <1>6, <2>1, <3>1 DEF ReadsShowWrites, AsNew
  <2>3. cache' = cache \/ (r \in fresh /\ cache' = [cache EXCEPT !.badge = got])
    BY <1>6 DEF BadgeKept
  <2>4. cache' \in Caches /\ CacheHolds(cache')
    BY <2>1, <2>3 DEF StoreInv, StoreTypeOK, Caches, CacheHolds, CachedFor
  <2> QED
    BY <1>1, <1>4, <2>2, <2>4, OnlyReads DEF StoreInv, StoreTypeOK
<1> QED
  BY <1>5, <1>6 DEF BadgeAnswered

\* What a search shows of build b, from an answer that suits what its reader is owed.
LEMMA ShownSuits ==
    ASSUME StoreInv, NEW b \in 0..Len(indexes), NEW a \in DeviceStatuses, NEW o \in Documents,
           o.status <= owed.search, o.confirms = 0, Suits(b, a, o.status)
    PROVE  /\ ShownRow(b, a, o) \in [got : Documents, owed : Documents]
           /\ AsNew(ShownRow(b, a, o).got, ShownRow(b, a, o).owed)
<1>1. o.status \in DeviceStatuses
  BY DEF Documents
<1>2. Row(b, a) \in DeviceStatuses /\ Row(b, a) >= o.status
  BY <1>1, RowSuits
<1> QED
  BY <1>2 DEF ShownRow, AsNew, Documents

LEMMA SearchInv ==
    ASSUME StoreInv, NEW r \in Readers, reader[r].at \in {"idle", "index"},
           NEW b \in 0..Len(indexes), NEW c \in Caches, CacheHolds(c),
           NEW o \in Documents, o.status <= owed.search, o.confirms = 0,
           UNCHANGED <<device, indexes, voted, promoted, writer, owed>>, SearchFrom(r, b, c, o)
    PROVE  StoreInv'
<1>1. /\ b \in 0..MaxIndexes /\ b <= Len(indexes)
      /\ o.status \in DeviceStatuses /\ owed.search \in DeviceStatuses
  BY StoreAssumption DEF StoreInv, StoreTypeOK, Documents
<1>2. CASE /\ CachedFor(b, c) # Uncached /\ cache' = c
           /\ shown' = {ShownRow(b, CachedFor(b, c), o)}
           /\ reader' = [reader EXCEPT ![r] = IdleReader] /\ fresh' = fresh \ {r}
  <2>1. CachedFor(b, c) \in DeviceStatuses /\ Suits(b, CachedFor(b, c), o.status)
    BY <1>1, <1>2, StoreAssumption DEF CacheHolds, Suits, CachedFor, Caches
  <2>2. ReadsShowWrites' /\ shown' \subseteq [got : Documents, owed : Documents]
    BY <1>2, <2>1, ShownSuits DEF ReadsShowWrites, AsNew
  <2>3. reader'[r] = IdleReader
    BY <1>2 DEF StoreInv, StoreTypeOK
  <2>4. FlightHolds(r)'
    BY <2>3, IdleHolds, StoreAssumption DEF FlightHolds
  <2>5. reader' \in [Readers -> Reads] /\ FlightsHold'
    BY <1>2, <2>4, IdleHolds, ReaderMoves
  <2> QED
    BY <1>2, <2>2, <2>5, OnlyReads DEF StoreInv, StoreTypeOK
<1>3. ASSUME NEW lead, lead = IF Leaders(b) # {} THEN CHOOSE q \in Leaders(b) : TRUE ELSE r,
             cache' = With(c, b, Uncached), shown' = {},
             reader' = [reader EXCEPT ![r] =
                 [at |-> "query", sent |-> IF lead = r THEN Seen(device) ELSE Unseen,
                  build |-> b, flight |-> lead, owed |-> o]],
             fresh' = IF lead = r THEN fresh \union {r} ELSE fresh \ {r}
      PROVE  StoreInv'
  <2>1. lead \in Leaders(b) \/ lead = r
    BY <1>3
  <2>2. r \notin Leaders(b)
    BY DEF Leaders
  <2>3. Seen(device) \in Documents /\ Seen(device).status >= owed.search
    BY SeenDocuments DEF StoreInv, StoreTypeOK, OwedIsStored, AsNew, Seen
  <2>4. PICK sent \in Documents :
            sent = IF lead = r THEN Seen(device) ELSE Unseen
    BY <2>3, UnseenDocument
  <2> DEFINE s == [at |-> "query", sent |-> sent, build |-> b, flight |-> lead, owed |-> o]
  <2>5. /\ s \in Reads /\ s.at = "query" /\ s.sent = sent /\ s.build = b
        /\ s.flight = lead /\ s.owed = o
    BY <1>1, <2>1 DEF Reads, Leaders
  <2>6. reader' = [reader EXCEPT ![r] = s]
    BY <1>3, <2>4
  <2> HIDE DEF s
  <2>7. reader'[r] = s /\ \A q \in Readers : q # r => reader'[q] = reader[q]
    BY <2>6 DEF StoreInv, StoreTypeOK
  <2>8. lead # Nobody /\ lead \in Readers
    BY <2>1, StoreAssumption DEF Leaders
  <2>9. FlightHolds(r)'
    <3>1. CASE lead = r
      <4>1. sent.status \in DeviceStatuses /\ sent.status >= owed.search
        BY <2>3, <2>4, <3>1 DEF Documents
      <4>2. sent.status >= o.status
        BY <1>1, <4>1
      <4> QED
        BY <1>1, <2>5, <2>7, <2>8, <3>1, <4>1, <4>2 DEF FlightHolds
    <3>2. CASE lead \in Leaders(b)
      <4>1. lead \in fresh /\ reader[lead].flight = lead /\ reader[lead].build = b
        BY <3>2 DEF Leaders
      <4>2. reader[lead].sent.status >= owed.search
        BY <2>8, <4>1 DEF StoreInv, FlightsHold, FlightHolds
      <4>3. reader[lead].sent.status \in DeviceStatuses /\ lead # r
        BY <2>2, <2>8, <3>2 DEF StoreInv, StoreTypeOK, Reads, Documents
      <4> QED
        BY <1>1, <2>5, <2>7, <2>8, <4>1, <4>2, <4>3 DEF FlightHolds
    <3> QED
      BY <2>1, <3>1, <3>2
  <2>10. reader' \in [Readers -> Reads] /\ FlightsHold'
    BY <1>3, <2>5, <2>6, <2>9, ReaderMoves
  <2>11. cache' \in Caches /\ CacheHolds(cache')
    BY <1>1, <1>3, WithHolds
  <2>12. fresh' \subseteq Readers \union {Writer} /\ (Writer \in fresh' => Writer \in fresh)
    BY <1>3, StoreAssumption DEF StoreInv, StoreTypeOK
  <2> QED
    BY <1>3, <2>10, <2>11, <2>12, OnlyReads DEF ReadsShowWrites
<1> QED
  BY <1>2, <1>3 DEF SearchFrom

LEMMA AskSearchInv ==
    ASSUME StoreInv, NEW r \in Readers, AskSearch(r)
    PROVE  StoreInv'
<1> DEFINE o == [status |-> owed.search, confirms |-> 0]
<1> USE DEF remoteVars
<1>1. o \in Documents /\ o.status <= owed.search /\ o.confirms = 0
  BY DEF Documents, StoreInv, StoreTypeOK
<1>2. reader[r].at = "idle" /\ UNCHANGED <<device, indexes, voted, promoted, writer, owed>>
  BY DEF AskSearch, Asks
<1>3. CASE cache.index # Uncached /\ SearchFrom(r, cache.index, cache, o)
  <2>1. cache.index \in 0..Len(indexes)
    BY <1>3, StoreAssumption DEF StoreInv, StoreTypeOK, Caches, CacheHolds
  <2> QED
    BY <1>1, <1>2, <1>3, <2>1, SearchInv DEF StoreInv, StoreTypeOK
<1>4. CASE /\ cache' = [cache EXCEPT !.index = Uncached]
           /\ reader' = [reader EXCEPT ![r] =
                  [IdleReader EXCEPT !.at = "index", !.build = Len(indexes), !.owed = o]]
           /\ fresh' = fresh \union {r} /\ shown' = {}
  <2> DEFINE s == [IdleReader EXCEPT !.at = "index", !.build = Len(indexes), !.owed = o]
  <2>1. Len(indexes) \in 0..MaxIndexes
    BY StoreAssumption DEF StoreInv, StoreTypeOK
  <2>2. /\ s \in Reads /\ s.at = "index" /\ s.build = Len(indexes) /\ s.owed = o
        /\ s.flight = Nobody
    BY <1>1, <2>1, IdleHolds DEF Reads
  <2> HIDE DEF s
  <2>3. reader'[r] = s
    BY <1>4 DEF s, StoreInv, StoreTypeOK
  <2>4. FlightHolds(r)'
    BY <1>1, <1>2, <2>1, <2>2, <2>3, StoreAssumption DEF FlightHolds
  <2>5. reader' \in [Readers -> Reads] /\ FlightsHold'
    BY <1>2, <1>4, <2>2, <2>4, ReaderMoves DEF s
  <2>6. cache' \in Caches /\ CacheHolds(cache')
    <3>1. Uncached <= Len(indexes) /\ cache \in Caches /\ CacheHolds(cache)
      BY StoreAssumption DEF StoreInv, StoreTypeOK
    <3> QED
      BY <1>4, <3>1, IndexedHolds
  <2> QED
    BY <1>2, <1>4, <2>5, <2>6, OnlyReads, StoreAssumption DEF StoreInv, StoreTypeOK, ReadsShowWrites
<1> QED
  BY <1>3, <1>4 DEF AskSearch

LEMMA IndexAnsweredInv ==
    ASSUME StoreInv, NEW r \in Readers, IndexAnswered(r)
    PROVE  StoreInv'
<1> USE DEF remoteVars
<1>1. PICK b \in {reader[r].build, Len(indexes), NoIndex} :
          SearchFrom(r, b, IF r \in fresh THEN [cache EXCEPT !.index = b] ELSE cache,
                     reader[r].owed)
  BY DEF IndexAnswered
<1>2. reader[r].at = "index" /\ UNCHANGED <<device, indexes, voted, promoted, writer, owed>>
  BY DEF IndexAnswered
<1>3. reader[r] \in Reads /\ FlightHolds(r)
  BY DEF StoreInv, StoreTypeOK, FlightsHold
<1>4. b \in 0..Len(indexes) /\ b \in 0..MaxIndexes
  BY <1>2, <1>3, StoreAssumption DEF StoreInv, StoreTypeOK, FlightHolds, Reads
<1>5. PICK c \in Caches :
          c = (IF r \in fresh THEN [cache EXCEPT !.index = b] ELSE cache) /\ CacheHolds(c)
  <2>1. [cache EXCEPT !.index = b] \in Caches /\ CacheHolds([cache EXCEPT !.index = b])
    BY <1>4, IndexedHolds DEF StoreInv, StoreTypeOK
  <2> QED
    BY <2>1 DEF StoreInv, StoreTypeOK
<1>6. /\ reader[r].owed \in Documents /\ reader[r].owed.status <= owed.search
      /\ reader[r].owed.confirms = 0
  BY <1>2, <1>3 DEF FlightHolds, Reads
<1> QED
  BY <1>1, <1>2, <1>4, <1>5, <1>6, SearchInv

LEMMA QueryAnsweredInv ==
    ASSUME StoreInv, NEW r \in Readers, QueryAnswered(r)
    PROVE  StoreInv'
<1> DEFINE b == reader[r].build
           waiting == {q \in Readers : reader[q].flight = r}
<1> USE DEF remoteVars
<1>1. /\ reader[r].at = "query" /\ reader[r].flight = r /\ fresh' = fresh \ {r}
      /\ reader' = [q \in Readers |-> IF q \in waiting THEN IdleReader ELSE reader[q]]
      /\ UNCHANGED <<device, indexes, voted, promoted, writer, owed>>
  BY DEF QueryAnswered
<1>2. reader \in [Readers -> Reads] /\ \A q \in Readers : reader[q] \in Reads /\ FlightHolds(q)
  BY DEF StoreInv, StoreTypeOK, FlightsHold
<1>3. b \in 0..Len(indexes) /\ b \in 0..MaxIndexes
  BY <1>1, <1>2, StoreAssumption DEF FlightHolds, Reads
<1>4. reader' \in [Readers -> Reads]
  BY <1>1, <1>2, IdleHolds
<1>5. FlightsHold'
  <2> SUFFICES ASSUME NEW q \in Readers PROVE FlightHolds(q)'
    BY DEF FlightsHold
  <2>1. CASE q \in waiting
    BY <1>1, <2>1, IdleHolds, StoreAssumption DEF FlightHolds
  <2>2. CASE q \notin waiting
    <3>1. reader'[q] = reader[q] /\ reader[q].flight # r
      BY <1>1, <2>2
    <3>2. ASSUME reader[q].flight # Nobody
          PROVE  reader'[reader[q].flight] = reader[reader[q].flight]
      BY <1>1, <1>2, <3>1, <3>2 DEF FlightHolds, Reads
    <3> QED
      BY <1>1, <1>2, <3>1, <3>2 DEF FlightHolds
  <2> QED
    BY <2>1, <2>2
<1> HIDE DEF b
<1>6. CASE shown' = {} /\ UNCHANGED cache
  BY <1>1, <1>4, <1>5, <1>6, OnlyReads DEF StoreInv, StoreTypeOK, ReadsShowWrites
<1>7. ASSUME NEW s \in {reader[r].sent, Seen(device)},
             cache' = QueryKept(b, r, Answer(b, s)),
             shown' = {ShownRow(b, Answer(b, s), reader[q].owed) : q \in waiting}
      PROVE  StoreInv'
  <2>1. Seen(device) \in Documents /\ Seen(device).status >= owed.search
    BY SeenDocuments DEF StoreInv, StoreTypeOK, OwedIsStored, AsNew, Seen
  <2>2. s \in Documents
    BY <1>2, <1>7, <2>1 DEF Reads
  <2>3. ASSUME NEW q \in waiting
        PROVE  /\ ShownRow(b, Answer(b, s), reader[q].owed) \in [got : Documents, owed : Documents]
               /\ AsNew(ShownRow(b, Answer(b, s), reader[q].owed).got,
                        ShownRow(b, Answer(b, s), reader[q].owed).owed)
    <3>1. /\ q \in Readers /\ reader[q].flight = r /\ r # Nobody /\ reader[q].at = "query"
          /\ reader[q].owed \in Documents
      BY <1>2, StoreAssumption DEF FlightHolds, Reads
    <3>2. /\ reader[q].owed.status <= owed.search /\ reader[q].owed.confirms = 0
          /\ reader[r].sent.status >= reader[q].owed.status
      BY <1>2, <3>1 DEF FlightHolds
    <3>3. reader[q].owed.status \in DeviceStatuses /\ s.status >= reader[q].owed.status
      BY <1>7, <2>1, <2>2, <3>1, <3>2 DEF Documents, StoreInv, StoreTypeOK
    <3>4. Answer(b, s) \in DeviceStatuses /\ Suits(b, Answer(b, s), reader[q].owed.status)
      BY <1>3, <2>2, <3>3, AnswerSuits DEF Documents
    <3> QED
      BY <1>3, <3>1, <3>2, <3>4, ShownSuits
  <2>4. ReadsShowWrites' /\ shown' \subseteq [got : Documents, owed : Documents]
    BY <1>7, <2>3 DEF ReadsShowWrites, AsNew
  <2>5. cache' \in Caches /\ CacheHolds(cache')
    <3>1. CASE r \notin fresh
      BY <1>7, <3>1 DEF QueryKept, StoreInv, StoreTypeOK
    <3>2. CASE r \in fresh
      <4>1. s.status >= owed.search /\ owed.search \in DeviceStatuses
        BY <1>1, <1>2, <1>7, <2>1, <3>2 DEF FlightHolds, StoreInv, StoreTypeOK
      <4>2. Answer(b, s) \in DeviceStatuses /\ Suits(b, Answer(b, s), owed.search)
        BY <1>3, <2>2, <4>1, AnswerSuits DEF Documents
      <4>3. cache' = With(cache, b, Answer(b, s)) /\ cache \in Caches /\ CacheHolds(cache)
        BY <1>7, <3>2 DEF QueryKept, StoreInv, StoreTypeOK
      <4> QED
        BY <1>3, <4>2, <4>3, WithHolds
    <3> QED
      BY <3>1, <3>2
  <2> QED
    BY <1>1, <1>4, <1>5, <2>4, <2>5, OnlyReads DEF StoreInv, StoreTypeOK
<1> QED
  BY <1>6, <1>7 DEF QueryAnswered, b

-----------------------------------------------------------------------------
LEMMA StoreStarts == StoreInit => StoreInv
<1> SUFFICES ASSUME StoreInit PROVE StoreInv
  OBVIOUS
<1> USE DEF StoreInit
<1>1. StoreTypeOK
  <2>1. indexes \in Seq(DeviceStatuses) /\ Len(indexes) \in 1..MaxIndexes
    BY StoreAssumption
  <2>2. cache \in Caches
    BY StoreAssumption DEF Caches
  <2>3. writer \in Writes /\ reader \in [Readers -> Reads]
    BY UnseenDocument, IdleHolds DEF IdleWriter, Writes
  <2>4. 0 \in 0..MaxIndexes
    BY StoreAssumption
  <2>5. device \in [status : DeviceStatuses, confirms : Nat, born : 0..MaxIndexes]
    BY <2>4
  <2>6. owed \in [status : DeviceStatuses, confirms : Nat, search : DeviceStatuses]
    OBVIOUS
  <2> QED
    BY <2>1, <2>2, <2>3, <2>4, <2>5, <2>6 DEF StoreTypeOK
<1>2. BuildsHold
  BY DEF BuildsHold
<1>3. CacheHolds(cache)
  <2>1. \A b \in 0..MaxIndexes : b = NoIndex \/ b \in 1..MaxIndexes
    BY StoreAssumption
  <2> QED
    BY <2>1, StoreAssumption DEF CacheHolds, CachedFor
<1>4. FlightsHold
  BY IdleHolds, StoreAssumption DEF FlightsHold, FlightHolds
<1> QED
  BY <1>1, <1>2, <1>3, <1>4
     DEF StoreInv, OwedIsStored, AsNew, WriterHolds, IdleWriter, ReadsShowWrites

LEMMA StoreInvariant == StoreSpec => []StoreInv
<1>1. StoreInv /\ [StoreNext]_storeVars => StoreInv'
  <2> SUFFICES ASSUME StoreInv, [StoreNext]_storeVars PROVE StoreInv'
    OBVIOUS
  <2>1. CASE (OthersChange \/ IndexBuilt) /\ shown' = {}
    BY <2>1, OthersInv
  <2>2. CASE Refresh /\ shown' = {}
    BY <2>2, RefreshInv
  <2>3. CASE Shares \/ Confirms \/ OtherAnswered
    BY <2>3, SharesInv
  <2>4. CASE Continues
    BY <2>4, ContinuesInv
  <2>5. ASSUME NEW r \in Readers, AskBadge(r) \/ AskSearch(r)
        PROVE  StoreInv'
    BY <2>5, AskBadgeInv, AskSearchInv
  <2>6. ASSUME NEW r \in Readers, ReadAnswered(r)
        PROVE  StoreInv'
    BY <2>6, BadgeAnsweredInv, IndexAnsweredInv, QueryAnsweredInv DEF ReadAnswered
  <2>7. CASE UNCHANGED storeVars
    BY <2>7 DEF storeVars, StoreInv, StoreTypeOK, OwedIsStored, BuildsHold, CacheHolds, Suits,
                CachedFor, FlightsHold, FlightHolds, WriterHolds, ReadsShowWrites
  <2> QED
    BY <2>1, <2>2, <2>3, <2>4, <2>5, <2>6, <2>7 DEF StoreNext
<1> QED
  BY <1>1, StoreStarts, PTL DEF StoreSpec

\* What the client keeps of the catalogue, and every read under way, is well formed, and the
\* builds it refers to exist (store_client.py: _read_cache, _status_overrides).
THEOREM StoreTyped == StoreSpec => []StoreTypeOK
<1>1. StoreInv => StoreTypeOK
  BY DEF StoreInv
<1> QED
  BY <1>1, StoreInvariant, PTL

\* A read that starts after this install's write was answered shows it, for any number of
\* readers, writes, other installs' changes and builds of the index (store_client.py: the
\* generation guard, the single flight, the dropped keys, the delta and the overrides).
THEOREM ReadsAreCurrent == StoreSpec => []ReadsShowWrites
<1>1. StoreInv => ReadsShowWrites
  BY DEF StoreInv
<1> QED
  BY <1>1, StoreInvariant, PTL
=============================================================================
