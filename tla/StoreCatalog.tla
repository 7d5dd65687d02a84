--------------------------- MODULE StoreCatalog -----------------------------
(***************************************************************************)
(* What an install shows of one device of the community catalogue          *)
(* (store_client.py, store.py): the cached reads every appliance shares,   *)
(* the published search index with the entries created since it was built, *)
(* and the writes that create and confirm the device, one at a time under  *)
(* write_lock.                                                             *)
(*                                                                         *)
(* The store and the site that builds the index are external, as are the   *)
(* other installs.  A read may answer with the document as it was when the *)
(* request was sent or as it is when the answer comes.  A cached read may  *)
(* be found expired, or evicted, whenever it is looked up.  Of a write the *)
(* request that the store refuses changes nothing and is left out.         *)
(***************************************************************************)
EXTENDS Integers, Sequences, FiniteSets

CONSTANTS
    Readers,      \* coroutines that read the catalogue
    Writer,       \* the coroutine that holds write_lock
    Nobody,       \* no reader
    Enough,       \* confirmThreshold
    MaxConfirms,  \* bound: confirmations of the device
    MaxIndexes,   \* bound: published builds of the index
    MaxReads,     \* bound: reads
    MaxWrites     \* bound: writes and refreshes

ASSUME StoreAssumption ==
    /\ Nobody \notin Readers /\ Writer \notin Readers
    /\ Enough \in Nat
    /\ MaxIndexes \in Nat \ {0}

VARIABLES
    device,     \* the device's document, with the builds published when it was created
    indexes,    \* the published builds: the status of the device in each
    voted,      \* this account has confirmed the device
    cache,      \* _read_cache
    fresh,      \* the fetches sent since the last invalidation
    promoted,   \* _status_overrides: the builds published at this client's promotion, or 0
    reader,     \* the reads under way
    writer,     \* the write under way: where it is, and what its request saw
    asked,      \* reads so far
    written,    \* writes and refreshes so far
    owed,       \* history: what a read that starts now must show
    shown       \* what the last step answered

storeVars == <<device, indexes, voted, cache, fresh, promoted, reader, writer,
               asked, written, owed, shown>>
remoteVars == <<device, indexes, voted>>
clientVars == <<cache, fresh, promoted>>

Absent == 0
Pending == 1
Approved == 2
Uncached == -1
NoIndex == 0      \* the index could not be read, remembered for a while

Seen(e) == [status |-> e.status, confirms |-> e.confirms]
Unseen == [status |-> Absent, confirms |-> 0]
UncachedDoc == [status |-> Uncached, confirms |-> 0]
Later(a, b) == IF a > b THEN a ELSE b

IdleReader == [at |-> "idle", sent |-> Unseen, build |-> NoIndex, flight |-> Nobody,
               owed |-> Unseen]
IdleWriter == [at |-> "idle", sent |-> Unseen]

StoreInit ==
    /\ device \in {[status |-> s, confirms |-> 0, born |-> 0] : s \in {Absent, Pending}}
    /\ indexes = <<device.status>>
    /\ voted = FALSE
    /\ cache = [badge |-> UncachedDoc, list |-> Uncached, index |-> Uncached,
                delta |-> [b \in 1..MaxIndexes |-> Uncached]]
    /\ fresh = {} /\ promoted = 0
    /\ reader = [r \in Readers |-> IdleReader]
    /\ writer = IdleWriter
    /\ owed = [status |-> Absent, confirms |-> 0, search |-> Absent]
    /\ asked = 0 /\ written = 0 /\ shown = {}

-----------------------------------------------------------------------------
\* The others.

\* Another install shares or confirms the device, or the store's people approve it.
OthersChange ==
    /\ \/ /\ device.status = Absent
          /\ device' = [status |-> Pending, confirms |-> 0, born |-> Len(indexes)]
       \/ /\ device.status # Absent /\ device.confirms < MaxConfirms
          /\ device' = [device EXCEPT !.confirms = @ + 1]
       \/ /\ device.status = Pending
          /\ device' = [device EXCEPT !.status = Approved]
    /\ UNCHANGED <<indexes, voted, clientVars, reader, writer, owed>>

IndexBuilt ==
    /\ Len(indexes) < MaxIndexes
    /\ indexes' = Append(indexes, device.status)
    /\ UNCHANGED <<device, voted, clientVars, reader, writer, owed>>

-----------------------------------------------------------------------------
\* The cache.

MutKeepsBadge == [cache EXCEPT !.list = Uncached, !.delta = [b \in 1..MaxIndexes |-> Uncached]]

\* _invalidate_catalog_cache: every catalogue read but the index.
Invalidated ==
    [cache EXCEPT !.badge = UncachedDoc, !.list = Uncached,
                  !.delta = [b \in 1..MaxIndexes |-> Uncached]]

\* refresh_catalog.  The index stays, so a search owes only that the device is there.
Refresh ==
    /\ written < MaxWrites /\ written' = written + 1
    /\ cache' = Invalidated /\ fresh' = {}
    /\ owed' = [status |-> device.status, confirms |-> device.confirms,
                search |-> Later(owed.search, IF device.status = Absent THEN Absent ELSE Pending)]
    /\ UNCHANGED <<remoteVars, promoted, reader, writer>>

-----------------------------------------------------------------------------
\* The badge of the settings: a point read of the device.

Asks(r) ==
    /\ reader[r].at = "idle"
    /\ asked < MaxReads /\ asked' = asked + 1

MutBadgeKept(c, got) == got.status # Absent

\* A miss is not cached, nor an answer to a request from before an invalidation.
BadgeKept(c, got) == c \in fresh /\ got.status # Absent

AskBadge(r) ==
    /\ Asks(r)
    /\ LET o == [status |-> owed.status, confirms |-> owed.confirms] IN
       \/ /\ cache.badge # UncachedDoc
          /\ shown' = {[got |-> cache.badge, owed |-> o]}
          /\ UNCHANGED <<cache, fresh, reader>>
       \/ /\ cache' = [cache EXCEPT !.badge = UncachedDoc]
          /\ reader' = [reader EXCEPT ![r] =
                 [IdleReader EXCEPT !.at = "badge", !.sent = Seen(device), !.owed = o]]
          /\ fresh' = fresh \union {r} /\ shown' = {}
    /\ UNCHANGED <<remoteVars, promoted, writer, owed>>

BadgeAnswered(r) ==
    /\ reader[r].at = "badge"
    /\ \/ \E got \in {reader[r].sent, Seen(device)} :
             /\ cache' = IF BadgeKept(r, got) THEN [cache EXCEPT !.badge = got] ELSE cache
             /\ shown' = {[got |-> got, owed |-> reader[r].owed]}
       \/ shown' = {} /\ UNCHANGED cache
    /\ reader' = [reader EXCEPT ![r] = IdleReader]
    /\ fresh' = fresh \ {r}
    /\ UNCHANGED <<remoteVars, promoted, writer, owed>>

-----------------------------------------------------------------------------
\* A search: the index and what was created since, or the list where there is no index.

\* What the delta of build b holds of a document seen as s.
CreatedSince(b, s) == IF device.born >= b THEN s.status ELSE Absent

Answer(b, s) == IF b = NoIndex THEN s.status ELSE CreatedSince(b, s)

CachedFor(b, c) == IF b = NoIndex THEN c.list ELSE c.delta[b]

With(c, b, answer) ==
    IF b = NoIndex THEN [c EXCEPT !.list = answer] ELSE [c EXCEPT !.delta[b] = answer]

MutOverrides(b, status) == status

\* A device this client promoted reads pending in the builds from before that.
Overrides(b, status) == IF status # Absent /\ promoted >= b THEN Approved ELSE status

\* The row of the device, from what the query for build b answered.
Row(b, answer) ==
    IF b = NoIndex THEN answer
    ELSE Overrides(b, IF answer # Absent THEN answer ELSE indexes[b])

ShownRow(b, answer, o) == [got |-> [status |-> Row(b, answer), confirms |-> 0], owed |-> o]

MutLeaders(b) ==
    {q \in Readers : reader[q].at = "query" /\ reader[q].build = b /\ reader[q].flight = q}

\* The query of this generation that a reader may join.
Leaders(b) ==
    {q \in Readers \intersect fresh :
        reader[q].at = "query" /\ reader[q].build = b /\ reader[q].flight = q}

\* The search of r goes on from build b with the cache as c.
SearchFrom(r, b, c, o) ==
    \/ /\ CachedFor(b, c) # Uncached
       /\ cache' = c
       /\ shown' = {ShownRow(b, CachedFor(b, c), o)}
       /\ reader' = [reader EXCEPT ![r] = IdleReader]
       /\ fresh' = fresh \ {r}
    \/ LET lead == IF Leaders(b) # {} THEN CHOOSE q \in Leaders(b) : TRUE ELSE r IN
       /\ cache' = With(c, b, Uncached)
       /\ shown' = {}
       /\ reader' = [reader EXCEPT ![r] =
              [at |-> "query", sent |-> IF lead = r THEN Seen(device) ELSE Unseen,
               build |-> b, flight |-> lead, owed |-> o]]
       /\ fresh' = IF lead = r THEN fresh \union {r} ELSE fresh \ {r}

AskSearch(r) ==
    /\ Asks(r)
    /\ LET o == [status |-> owed.search, confirms |-> 0] IN
       \/ cache.index # Uncached /\ SearchFrom(r, cache.index, cache, o)
       \/ /\ cache' = [cache EXCEPT !.index = Uncached]
          /\ reader' = [reader EXCEPT ![r] =
                 [IdleReader EXCEPT !.at = "index", !.build = Len(indexes), !.owed = o]]
          /\ fresh' = fresh \union {r} /\ shown' = {}
    /\ UNCHANGED <<remoteVars, promoted, writer, owed>>

\* The build published when the request was sent, or now, or none.
IndexAnswered(r) ==
    /\ reader[r].at = "index"
    /\ \E b \in {reader[r].build, Len(indexes), NoIndex} :
          SearchFrom(r, b, IF r \in fresh THEN [cache EXCEPT !.index = b] ELSE cache, reader[r].owed)
    /\ UNCHANGED <<remoteVars, promoted, writer, owed>>

MutQueryKept(b, r, answer) == With(cache, b, answer)

QueryKept(b, r, answer) == IF r \in fresh THEN With(cache, b, answer) ELSE cache

\* _fetch_and_cache: the query that r started answers everyone who joined it.  A
\* failure reads as nothing found, and is not cached.
QueryAnswered(r) ==
    /\ reader[r].at = "query" /\ reader[r].flight = r
    /\ LET b == reader[r].build
           waiting == {q \in Readers : reader[q].flight = r} IN
       /\ \/ \E s \in {reader[r].sent, Seen(device)} :
                /\ cache' = QueryKept(b, r, Answer(b, s))
                /\ shown' = {ShownRow(b, Answer(b, s), reader[q].owed) : q \in waiting}
          \/ shown' = {} /\ UNCHANGED cache
       /\ reader' = [q \in Readers |-> IF q \in waiting THEN IdleReader ELSE reader[q]]
    /\ fresh' = fresh \ {r}
    /\ UNCHANGED <<remoteVars, promoted, writer, owed>>

-----------------------------------------------------------------------------
\* The writes.

Goes(at, sent) == writer' = [at |-> at, sent |-> sent] /\ shown' = {}

Begins == writer = IdleWriter /\ written < MaxWrites /\ written' = written + 1

\* A share: the store creates the device, which nobody has shared, or the answer is that
\* it exists.
Shares ==
    /\ Begins
    /\ device.status = Absent
    /\ device' = [status |-> Pending, confirms |-> 0, born |-> Len(indexes)]
    /\ Goes("created", Unseen)
    /\ UNCHANGED <<indexes, voted, clientVars, reader, owed>>

ShareAnswered ==
    /\ writer.at = "created"
    /\ cache' = Invalidated /\ fresh' = {}
    /\ owed' = [owed EXCEPT !.status = Later(@, Pending), !.search = Later(@, Pending)]
    /\ Goes("idle", Unseen)
    /\ UNCHANGED <<remoteVars, promoted, reader>>

\* A new brand or a rating is answered: what they change is left out.
OtherAnswered ==
    /\ Begins
    /\ cache' = Invalidated /\ fresh' = {}
    /\ Goes("idle", Unseen)
    /\ UNCHANGED <<remoteVars, promoted, reader, owed>>

\* confirm_device: the store counts the confirmation, the first of this account.
Confirms ==
    /\ Begins
    /\ device.status # Absent
    /\ ~voted => device.confirms < MaxConfirms
    /\ device' = IF voted THEN device ELSE [device EXCEPT !.confirms = @ + 1]
    /\ voted' = TRUE
    /\ Goes("counted", Seen(device'))
    /\ UNCHANGED <<indexes, clientVars, reader, owed>>

\* It is answered, and the device is read back at once.
ConfirmAnswered ==
    /\ writer.at = "counted"
    /\ cache' = Invalidated /\ fresh' = {Writer}
    /\ owed' = [owed EXCEPT !.status = Later(@, writer.sent.status),
                            !.confirms = Later(@, writer.sent.confirms)]
    /\ Goes("readback", Seen(device))
    /\ UNCHANGED <<remoteVars, promoted, reader>>

\* With enough confirmations of a pending device the promotion follows.
ReadBack ==
    /\ writer.at = "readback"
    /\ \/ \E got \in {writer.sent, Seen(device)} :
             /\ cache' = IF BadgeKept(Writer, got) THEN [cache EXCEPT !.badge = got] ELSE cache
             /\ Goes(IF got.status = Pending /\ got.confirms >= Enough THEN "promote" ELSE "idle",
                     Unseen)
       \/ UNCHANGED cache /\ Goes("idle", Unseen)
    /\ fresh' = fresh \ {Writer}
    /\ UNCHANGED <<remoteVars, promoted, reader, owed>>

Promotes ==
    /\ writer.at = "promote"
    /\ device' = [device EXCEPT !.status = Approved]
    /\ Goes("promoted", Unseen)
    /\ UNCHANGED <<indexes, voted, clientVars, reader, owed>>

PromoteAnswered ==
    /\ writer.at = "promoted"
    /\ promoted' = Len(indexes)
    /\ cache' = Invalidated /\ fresh' = {}
    /\ owed' = [owed EXCEPT !.status = Approved, !.search = Approved]
    /\ Goes("idle", Unseen)
    /\ UNCHANGED <<remoteVars, reader>>

\* The answer is lost, or the promotion is refused.
Loses ==
    /\ writer.at \in {"created", "counted", "promote", "promoted"}
    /\ Goes("idle", Unseen)
    /\ UNCHANGED <<remoteVars, clientVars, reader, owed>>

-----------------------------------------------------------------------------
ReadAnswered(r) == BadgeAnswered(r) \/ IndexAnswered(r) \/ QueryAnswered(r)

Continues ==
    \/ ShareAnswered \/ ConfirmAnswered \/ ReadBack \/ Promotes \/ PromoteAnswered \/ Loses

StoreNext ==
    \/ (OthersChange \/ IndexBuilt) /\ shown' = {} /\ UNCHANGED <<asked, written>>
    \/ Refresh /\ shown' = {} /\ UNCHANGED asked
    \/ (Shares \/ Confirms \/ OtherAnswered) /\ UNCHANGED asked
    \/ Continues /\ UNCHANGED <<asked, written>>
    \/ \E r \in Readers : (AskBadge(r) \/ AskSearch(r)) /\ UNCHANGED written
    \/ \E r \in Readers : ReadAnswered(r) /\ UNCHANGED <<asked, written>>

StoreSpec == StoreInit /\ [][StoreNext]_storeVars

-----------------------------------------------------------------------------
\* A read that starts after this install's write was answered shows it, whatever was in
\* flight or cached by then: the badge its status and confirmations, a search its status,
\* from the index of any build; and after a refresh the badge is current and a search
\* finds the device (store_client.py: the generation guard, the single flight, the
\* dropped keys, the delta and the overrides).
ReadsShowWrites ==
    \A a \in shown : a.got.status >= a.owed.status /\ a.got.confirms >= a.owed.confirms
=============================================================================
