--------------------------- MODULE LookupService ---------------------------
(***************************************************************************)
(* The concurrent core of the plugin in mmdb mode: requests resolving      *)
(* addresses through the cache and the databases (Plugin.resolve,          *)
(* mmdbProvider.lookup), the watcher that swaps in new releases            *)
(* (mmdbProvider.watch, refreshChanged) and the teardown (close).          *)
(*                                                                         *)
(* They share the slice of readers, the readers themselves and the cache.  *)
(* p.mu protects the slice header only: lookup copies the header under the *)
(* read lock and then loads the elements without it, while refreshChanged  *)
(* overwrites elements of the same backing array under the write lock.  A  *)
(* load that races with an overwrite yields either reader, which is what   *)
(* the two orders of the steps LoadReader and SwapSlot give.               *)
(*                                                                         *)
(* Data.  Releases of a database file are numbered by the writes to it.  A *)
(* field's value is the database and the release it was read from.  Which  *)
(* addresses a database covers and which fields it carries are constants.  *)
(* A reader is identified by its database and its stamp (size and          *)
(* modification time): the watcher opens a file only when the stamp moved. *)
(***************************************************************************)
EXTENDS ResultCache, Sequences

CONSTANTS
    Requests,            \* requests that may be in flight
    Keys,                \* client addresses
    NumDatabases,        \* databases, numbered in their order of priority
    NumFields,           \* the fields the configuration asks for
    Covers,              \* <<database, address>> pairs with data
    Carries,             \* <<database, field>> pairs with a value
    SeekOnly,            \* provider.seekOnly: one read per field
    GraceCoversLookups,  \* no lookup holds a reader for 5 seconds
    IOFaults,            \* reads of an open database file may fail
    TeardownPossible,    \* the middleware's context may be cancelled
    MaxWrites            \* bound on the writes to one database file

Databases == 1..NumDatabases
Fields == 1..NumFields

ASSUME ServiceAssumption ==
    /\ NumDatabases \in Nat \ {0}
    /\ NumFields \in Nat
    /\ Keys # {}
    /\ MaxWrites \in Nat
    /\ Covers \subseteq Databases \X Keys
    /\ Carries \subseteq Databases \X Fields
    /\ {SeekOnly, GraceCoversLookups, IOFaults, TeardownPossible} \subseteq BOOLEAN

VARIABLES
    disk,      \* the database files
    array,     \* the backing array of p.readers
    dropped,   \* p.readers is nil
    writer,    \* who holds p.mu for writing: "none", "watch" or "close"
    open,      \* readers that hold their file or memory
    wpc,       \* where the watch goroutine is
    copy,      \* refreshChanged's `current`
    slot,      \* its loop variable over `current`
    seen,      \* the stamp OpenReader took before it read the file
    fresh,     \* its `replacements`, those not yet swapped in
    retired,   \* its `retired`
    sleeping,  \* readers with the goroutines that close them after 5 seconds
    cpc,       \* where the teardown goroutine is
    req        \* the requests

watchVars == <<wpc, copy, slot, seen, fresh, retired>>
providerVars == <<array, dropped, writer, open, sleeping>>
vars == <<cacheVars, disk, providerVars, watchVars, cpc, req>>

-----------------------------------------------------------------------------
Readers == [db : Databases, stamp : 0..MaxWrites, rel : 0..MaxWrites]
Values == [db : Databases, rel : 0..MaxWrites]
Empty == [x \in {} |-> x]

PartialFunctions(D, R) == UNION {[S -> R] : S \in SUBSET D}

IdleRequest ==
    [pc |-> "idle", key |-> CHOOSE k \in Keys : TRUE, pos |-> 1, recs |-> <<>>,
     field |-> 1, out |-> Empty, found |-> FALSE, err |-> FALSE,
     late |-> FALSE]

(* newMMDBProvider has opened every database, all of them readable. *)
Init ==
    /\ CacheInit
    /\ disk = [d \in Databases |-> [rel |-> 0, state |-> "good"]]
    /\ array = [d \in Databases |-> [db |-> d, stamp |-> 0, rel |-> 0]]
    /\ dropped = FALSE
    /\ writer = "none"
    /\ open = {array[d] : d \in Databases}
    /\ wpc = "wait"
    /\ copy = Empty /\ slot = 1 /\ seen = 0 /\ fresh = Empty
    /\ retired = {} /\ sleeping = {}
    /\ cpc = "up"
    /\ req = [p \in Requests |-> IdleRequest]

-----------------------------------------------------------------------------
(* The operator of the host overwrites a database file, completely or with
   something that is not (yet) a database, or removes it. *)
WriteFile(d) ==
    /\ disk[d].rel < MaxWrites
    /\ \E s \in {"good", "bad"} :
          disk' = [disk EXCEPT ![d] = [rel |-> @.rel + 1, state |-> s]]
    /\ UNCHANGED <<cacheVars, providerVars, watchVars, cpc, req>>

RemoveFile(d) ==
    /\ disk[d].rel < MaxWrites
    /\ disk' = [disk EXCEPT ![d].state = "missing"]
    /\ UNCHANGED <<cacheVars, providerVars, watchVars, cpc, req>>

-----------------------------------------------------------------------------
(* Plugin.resolve and mmdbProvider.lookup *)

InFlight(p) == req[p].pc \in {"snapshot", "load", "tree", "extract", "store"}

(* cache.get.  An entry that is there may have expired meanwhile. *)
GetCached(p, k) ==
    /\ req[p].pc = "idle"
    /\ \/ /\ Cached(k)
          /\ req' = [req EXCEPT ![p] =
                [IdleRequest EXCEPT !.pc = "answered", !.key = k,
                    !.out = EntryOf(k).fields, !.found = EntryOf(k).found,
                    !.late = EntryOf(k).late]]
       \/ req' = [req EXCEPT ![p] =
                [IdleRequest EXCEPT !.pc = "snapshot", !.key = k]]
    /\ UNCHANGED <<cacheVars, disk, providerVars, watchVars, cpc>>

TakeSnapshotOrRetry(p) ==  \* as a bug: a lookup that waits for readers to come
    /\ req[p].pc = "snapshot"
    /\ writer = "none"
    /\ req' = [req EXCEPT ![p].pc = IF dropped THEN "snapshot" ELSE "load"]
    /\ UNCHANGED <<cacheVars, disk, providerVars, watchVars, cpc>>

(* readers := p.readers.  After close() there is nothing to iterate over. *)
TakeSnapshot(p) ==
    /\ req[p].pc = "snapshot"
    /\ writer = "none"
    /\ req' = [req EXCEPT ![p].pc = IF dropped THEN "store" ELSE "load"]
    /\ UNCHANGED <<cacheVars, disk, providerVars, watchVars, cpc>>

(* The range loop loads the next element, with no lock held. *)
LoadReader(p) ==
    /\ req[p].pc = "load"
    /\ req' = [req EXCEPT ![p].pc = "tree",
                          ![p].recs = Append(@, [reader |-> array[req[p].pos],
                                                 state |-> "unread"])]
    /\ UNCHANGED <<cacheVars, disk, providerVars, watchVars, cpc>>

LastRecord(p) ==  \* as a bug: the priority of the databases reversed
    req[p].recs[Len(req[p].recs)]

InstalledRecord(p) ==  \* as a bug: a record that names a slot, not a reader
    [reader |-> array[req[p].pos], state |-> "unread"]

(* The reader the tree walk is in is the last of recs until it is judged. *)
CurrentRecord(p) ==
    IF req[p].pc = "tree" THEN req[p].recs[Len(req[p].recs)]
                          ELSE req[p].recs[req[p].pos]

(* A read of a reader fails once the reader is closed; in file mode a read
   of an open one may fail as well.  The tree is resident in either mode. *)
TreeReadable(reader) == reader \in open
RecordOutcomes(reader) ==
    IF reader \notin open THEN {FALSE}
    ELSE IF IOFaults THEN {TRUE, FALSE} ELSE {TRUE}

WalkTreeNoError(p) ==  \* as a bug: an error is taken for "not found"
    /\ req[p].pc = "tree"
    /\ LET r == req[p]
           reader == CurrentRecord(p).reader
           recs == IF TreeReadable(reader) /\ <<reader.db, r.key>> \in Covers
                   THEN r.recs ELSE SubSeq(r.recs, 1, Len(r.recs) - 1)
           last == r.pos = NumDatabases
       IN req' = [req EXCEPT ![p] =
             [r EXCEPT !.recs = recs,
                       !.found = recs # <<>>,
                       !.pos = IF last THEN 1 ELSE r.pos + 1,
                       !.pc = IF ~last THEN "load"
                              ELSE IF recs = <<>> \/ NumFields = 0
                              THEN "store" ELSE "extract"]]
    /\ UNCHANGED <<cacheVars, disk, providerVars, watchVars, cpc>>

(* LookupOffset: an error keeps the loop going, and a record is kept only
   for an address that is found.  The loop over, found and firstErr are
   settled and the fields are extracted from the records kept. *)
WalkTree(p) ==
    /\ req[p].pc = "tree"
    /\ LET r == req[p]
           reader == CurrentRecord(p).reader
           ok == TreeReadable(reader)
           recs == IF ok /\ <<reader.db, r.key>> \in Covers
                   THEN r.recs ELSE SubSeq(r.recs, 1, Len(r.recs) - 1)
           last == r.pos = NumDatabases
       IN req' = [req EXCEPT ![p] =
             [r EXCEPT !.recs = recs,
                       !.err = r.err \/ ~ok,
                       !.found = recs # <<>>,
                       !.pos = IF last THEN 1 ELSE r.pos + 1,
                       !.pc = IF ~last THEN "load"
                              ELSE IF recs = <<>> \/ NumFields = 0
                              THEN "store" ELSE "extract"]]
    /\ UNCHANGED <<cacheVars, disk, providerVars, watchVars, cpc>>

(* mmdbRecord.value: with seekOnly every field is a read of its own; without,
   the first read decodes the record or marks it failed.  A failed read is
   no value, and nothing more: the error goes no further. *)
ValueOutcomes(rec) ==
    IF SeekOnly \/ rec.state = "unread"
    THEN {[ok |-> ok,
           state |-> IF SeekOnly THEN "unread"
                     ELSE IF ok THEN "decoded" ELSE "failed"] :
             ok \in RecordOutcomes(rec.reader)}
    ELSE {[ok |-> rec.state = "decoded", state |-> rec.state]}

(* extractFields asks one record for one field.  A value ends the search for
   the field, and so does the last record. *)
ExtractValue(p) ==
    /\ req[p].pc = "extract"
    /\ LET r == req[p]
           reader == CurrentRecord(p).reader
       IN \E result \in ValueOutcomes(CurrentRecord(p)) :
             LET hit == result.ok /\ <<reader.db, r.field>> \in Carries
                 next == hit \/ r.pos = Len(r.recs)
                 value == [db |-> reader.db, rel |-> reader.rel]
             IN req' = [req EXCEPT ![p] =
                   [r EXCEPT
                      !.recs[r.pos].state = result.state,
                      !.out = IF hit
                              THEN [f \in DOMAIN @ \cup {r.field} |->
                                       IF f = r.field THEN value ELSE @[f]]
                              ELSE @,
                      !.pos = IF next THEN 1 ELSE @ + 1,
                      !.field = IF next THEN @ + 1 ELSE @,
                      !.pc = IF next /\ r.field = NumFields
                             THEN "store" ELSE @]]
    /\ UNCHANGED <<cacheVars, disk, providerVars, watchVars, cpc>>

(* The rest of resolve: an answer without an error is cached. *)
StoreResult(p) ==
    /\ req[p].pc = "store"
    /\ LET r == req[p]
       IN /\ IF r.err THEN UNCHANGED cacheVars
             ELSE CachePut(r.key, [fields |-> r.out, found |-> r.found,
                                   late |-> r.late])
          /\ req' = [req EXCEPT ![p] =
                [r EXCEPT !.pc = "answered", !.pos = 1, !.field = 1,
                          !.recs = <<>>]]
    /\ UNCHANGED <<disk, providerVars, watchVars, cpc>>

(* The request is over, answered or aborted by a panic. *)
FinishRequest(p) ==
    /\ req[p].pc \in {"answered", "aborted"}
    /\ req' = [req EXCEPT ![p] = IdleRequest]
    /\ UNCHANGED <<cacheVars, disk, providerVars, watchVars, cpc>>

(* Request p has loaded the reader and may still read from it. *)
Holds(p, reader) ==
    \E i \in DOMAIN req[p].recs : req[p].recs[i].reader = reader

(* Closing a reader sets fields to nil that a read in progress checks and
   then uses: a request that is inside such a read may panic, which net/http
   turns into an aborted request. *)
Reading(p, reader) ==
    /\ req[p].pc \in {"tree", "extract"}
    /\ CurrentRecord(p) = [reader |-> reader, state |-> "unread"]

KeepReader(reader) ==  \* as a bug: a Close that returns early
    UNCHANGED <<open, req>>

CloseReader(reader) ==
    /\ open' = open \ {reader}
    /\ \E hit \in SUBSET {p \in Requests : Reading(p, reader)} :
          req' = [p \in Requests |->
                     IF p \in hit
                     THEN [IdleRequest EXCEPT !.pc = "aborted",
                                              !.key = req[p].key]
                     ELSE req[p]]

-----------------------------------------------------------------------------
(* mmdbProvider.watch and refreshChanged: one goroutine *)

(* The ticker fires: refreshChanged copies the readers under the read lock. *)
TickRefresh ==
    /\ wpc = "wait"
    /\ writer = "none"
    /\ copy' = IF dropped THEN Empty ELSE array
    /\ slot' = 1
    /\ wpc' = IF dropped THEN "wait" ELSE "check"
    /\ UNCHANGED <<cacheVars, disk, providerVars, seen, fresh, retired, cpc, req>>

(* The select sees the cancelled context or the closed channel.  While the
   ticker is ready as well, select picks either case. *)
StopWatching ==
    /\ wpc = "wait"
    /\ cpc # "up"
    /\ wpc' = "stopped"
    /\ UNCHANGED <<cacheVars, disk, providerVars, copy, slot, seen, fresh,
                   retired, cpc, req>>

AdvanceTooFar(replacements) ==  \* as a bug: a loop of one turn too many
    /\ seen' = 0
    /\ IF slot <= NumDatabases
       THEN slot' = slot + 1 /\ wpc' = "check" /\ UNCHANGED copy
       ELSE /\ slot' = 1 /\ copy' = Empty
            /\ wpc' = IF DOMAIN replacements = {} THEN "wait" ELSE "lock"

(* The loop over the copied readers goes on; after the last one, nothing is
   left to do unless there are replacements. *)
AdvanceWith(replacements) ==
    /\ seen' = 0
    /\ IF slot < NumDatabases
       THEN slot' = slot + 1 /\ wpc' = "check" /\ UNCHANGED copy
       ELSE /\ slot' = 1 /\ copy' = Empty
            /\ wpc' = IF DOMAIN replacements = {} THEN "wait" ELSE "lock"

(* Reader.Changed: a file that cannot be examined has not changed. *)
Changed(reader) ==
    disk[reader.db].state # "missing" /\ disk[reader.db].rel # reader.stamp

CheckReader ==
    /\ wpc = "check"
    /\ IF Changed(copy[slot])
       THEN wpc' = "stat" /\ UNCHANGED <<slot, copy, seen>>
       ELSE AdvanceWith(fresh)
    /\ UNCHANGED <<cacheVars, disk, providerVars, fresh, retired, cpc, req>>

(* OpenReader examines the file first ... *)
StatFile ==
    /\ wpc = "stat"
    /\ IF disk[slot].state = "missing"
       THEN AdvanceWith(fresh)
       ELSE /\ wpc' = "read" /\ seen' = disk[slot].rel
            /\ UNCHANGED <<slot, copy>>
    /\ UNCHANGED <<cacheVars, disk, providerVars, fresh, retired, cpc, req>>

OpenedReadFirst(d, examined) ==  \* as a bug: read, and then examined
    [db |-> d, stamp |-> disk[d].rel, rel |-> examined]

(* The reader that OpenReader returns for a file it examined earlier. *)
Opened(d, examined) == [db |-> d, stamp |-> examined, rel |-> disk[d].rel]

(* ... and then reads it.  A file that is gone or is no database leaves the
   loaded reader in place. *)
ReadFile ==
    /\ wpc = "read"
    /\ IF disk[slot].state = "good"
       THEN LET reader == Opened(slot, seen)
                replacements == [i \in DOMAIN fresh \cup {slot} |->
                                    IF i = slot THEN reader ELSE fresh[i]]
            IN /\ fresh' = replacements
               /\ open' = open \cup {reader}
               /\ AdvanceWith(replacements)
       ELSE AdvanceWith(fresh) /\ UNCHANGED <<open, fresh>>
    /\ UNCHANGED <<cacheVars, disk, array, dropped, writer, sleeping, retired,
                   cpc, req>>

LockForSwap ==
    /\ wpc = "lock"
    /\ writer = "none"
    /\ writer' = "watch"
    /\ wpc' = "swap"
    /\ UNCHANGED <<cacheVars, disk, array, dropped, open, sleeping, copy, slot,
                   seen, fresh, retired, cpc, req>>

SwapSlotUnchecked(i) ==  \* as a bug: i < len(p.readers) left out
    /\ wpc = "swap"
    /\ i \in DOMAIN fresh
    /\ fresh' = [j \in DOMAIN fresh \ {i} |-> fresh[j]]
    /\ retired' = retired \cup {array[i]}
    /\ array' = [array EXCEPT ![i] = fresh[i]]
    /\ UNCHANGED <<cacheVars, disk, dropped, writer, open, sleeping, wpc, copy,
                   slot, seen, cpc, req>>

(* One turn of the loop over the replacements, in any order (they are a map).
   A provider that was closed meanwhile has no slot for them. *)
SwapSlot(i) ==
    /\ wpc = "swap"
    /\ i \in DOMAIN fresh
    /\ fresh' = [j \in DOMAIN fresh \ {i} |-> fresh[j]]
    /\ IF dropped
       THEN UNCHANGED <<array, retired>>
       ELSE /\ retired' = retired \cup {array[i]}
            /\ array' = [array EXCEPT ![i] = fresh[i]]
    /\ UNCHANGED <<cacheVars, disk, dropped, writer, open, sleeping, wpc, copy,
                   slot, seen, cpc, req>>

KeepLockAfterSwap ==  \* as a bug: a way out without the unlock
    /\ wpc = "swap"
    /\ DOMAIN fresh = {}
    /\ wpc' = "reset"
    /\ UNCHANGED <<cacheVars, disk, providerVars, copy, slot, seen, fresh,
                   retired, cpc, req>>

UnlockAfterSwap ==
    /\ wpc = "swap"
    /\ DOMAIN fresh = {}
    /\ writer' = "none"
    /\ wpc' = "reset"
    /\ UNCHANGED <<cacheVars, disk, array, dropped, open, sleeping, copy, slot,
                   seen, fresh, retired, cpc, req>>

(* p.cache.reset().  The lookups in flight are late from here on (history). *)
ResetCache ==
    /\ wpc = "reset"
    /\ CacheReset
    /\ wpc' = "retire"
    /\ req' = [p \in Requests |-> IF InFlight(p) THEN [req[p] EXCEPT !.late = TRUE]
                                                 ELSE req[p]]
    /\ UNCHANGED <<disk, providerVars, copy, slot, seen, fresh, retired, cpc>>

RetireSlots ==  \* as a bug: retiring what the slots hold by now
    /\ wpc = "retire"
    /\ sleeping' = sleeping \cup {array[reader.db] : reader \in retired}
    /\ retired' = {}
    /\ wpc' = "wait"
    /\ UNCHANGED <<cacheVars, disk, array, dropped, writer, open, copy, slot,
                   seen, fresh, cpc, req>>

(* go func(old []*Reader) { time.Sleep(5 * time.Second) ... }(retired) *)
RetireReaders ==
    /\ wpc = "retire"
    /\ sleeping' = sleeping \cup retired
    /\ retired' = {}
    /\ wpc' = "wait"
    /\ UNCHANGED <<cacheVars, disk, array, dropped, writer, open, copy, slot,
                   seen, fresh, cpc, req>>

CloseRetiredAtOnce(reader) ==  \* as a bug: no grace period
    /\ reader \in sleeping
    /\ sleeping' = sleeping \ {reader}
    /\ CloseReader(reader)
    /\ UNCHANGED <<cacheVars, disk, array, dropped, writer, watchVars, cpc>>

(* Such a goroutine wakes up and closes a reader. *)
CloseRetired(reader) ==
    /\ reader \in sleeping
    /\ GraceCoversLookups => \A p \in Requests : ~Holds(p, reader)
    /\ sleeping' = sleeping \ {reader}
    /\ CloseReader(reader)
    /\ UNCHANGED <<cacheVars, disk, array, dropped, writer, watchVars, cpc>>

-----------------------------------------------------------------------------
(* The teardown goroutine of New, and mmdbProvider.close *)

CancelContext ==
    /\ TeardownPossible
    /\ cpc = "up"
    /\ cpc' = "cancelled"
    /\ UNCHANGED <<cacheVars, disk, providerVars, watchVars, req>>

(* close(p.stop) tells the watcher nothing that the context has not. *)
LockForClose ==
    /\ cpc = "cancelled"
    /\ writer = "none"
    /\ writer' = "close"
    /\ cpc' = "closing"
    /\ UNCHANGED <<cacheVars, disk, array, dropped, open, sleeping, watchVars, req>>

(* The loop that closes the readers in use, with no grace period. *)
CloseInstalled(d) ==
    /\ cpc = "closing"
    /\ array[d] \in open
    /\ CloseReader(array[d])
    /\ UNCHANGED <<cacheVars, disk, array, dropped, writer, sleeping, watchVars, cpc>>

DropReaders ==
    /\ cpc = "closing"
    /\ \A d \in Databases : array[d] \notin open
    /\ dropped' = TRUE
    /\ writer' = "none"
    /\ cpc' = "down"
    /\ UNCHANGED <<cacheVars, disk, array, open, sleeping, watchVars, req>>

-----------------------------------------------------------------------------
RequestStep(p) ==
    \/ TakeSnapshot(p)
    \/ LoadReader(p)
    \/ WalkTree(p)
    \/ ExtractValue(p)
    \/ StoreResult(p)
    \/ FinishRequest(p)

RefreshStep ==
    \/ CheckReader
    \/ StatFile
    \/ ReadFile
    \/ LockForSwap
    \/ \E i \in Databases : SwapSlot(i)
    \/ UnlockAfterSwap
    \/ ResetCache
    \/ RetireReaders

WakeUps == \E reader \in sleeping : CloseRetired(reader)

CloseStep ==
    \/ LockForClose
    \/ \E d \in Databases : CloseInstalled(d)
    \/ DropReaders

FileStep == \E d \in Databases : WriteFile(d) \/ RemoveFile(d)

Next ==
    \/ FileStep
    \/ \E p \in Requests :
          \/ \E k \in Keys : GetCached(p, k)
          \/ RequestStep(p)
    \/ TickRefresh
    \/ StopWatching
    \/ RefreshStep
    \/ WakeUps
    \/ CancelContext
    \/ CloseStep

Spec == Init /\ [][Next]_vars

(* The scheduler runs every goroutine that can run, and a lock that is free
   again and again is handed to those that wait for it (sync.RWMutex).  The
   ticker keeps firing, and a select that finds a case ready again and again
   takes it in the end.  Nothing obliges files to change, requests to come or
   the context to be cancelled. *)
Fairness ==
    /\ \A p \in Requests : WF_vars(RequestStep(p)) /\ SF_vars(TakeSnapshot(p))
    /\ SF_vars(TickRefresh) /\ SF_vars(StopWatching)
    /\ WF_vars(RefreshStep) /\ SF_vars(LockForSwap)
    /\ WF_vars(WakeUps)
    /\ WF_vars(CloseStep) /\ SF_vars(LockForClose)

FairSpec == Spec /\ Fairness

-----------------------------------------------------------------------------
Records == [reader : Readers, state : {"unread", "decoded", "failed"}]
Results == PartialFunctions(Fields, Values)
Entries == [fields : Results, found : BOOLEAN, late : BOOLEAN]

(* Every variable keeps its type: the goroutines' program counters, the lock,
   and the readers, results and cache entries that pass between them. *)
TypeOK ==
    /\ current \in PartialFunctions(Keys, Entries)
    /\ previous \in PartialFunctions(Keys, Entries)
    /\ disk \in [Databases -> [rel : 0..MaxWrites,
                               state : {"good", "bad", "missing"}]]
    /\ array \in [Databases -> Readers]
    /\ dropped \in BOOLEAN
    /\ writer \in {"none", "watch", "close"}
    /\ open \subseteq Readers
    /\ wpc \in {"wait", "check", "stat", "read", "lock", "swap", "reset",
                "retire", "stopped"}
    /\ copy \in PartialFunctions(Databases, Readers)
    /\ slot \in Databases
    /\ seen \in 0..MaxWrites
    /\ fresh \in PartialFunctions(Databases, Readers)
    /\ retired \subseteq Readers /\ sleeping \subseteq Readers
    /\ cpc \in {"up", "cancelled", "closing", "down"}
    /\ \A p \in Requests :
          /\ req[p].pc \in {"idle", "snapshot", "load", "tree", "extract",
                            "store", "answered", "aborted"}
          /\ req[p].key \in Keys
          /\ req[p].pos \in Databases
          /\ req[p].recs \in Seq(Records) /\ Len(req[p].recs) <= NumDatabases
          /\ req[p].field \in 1..(NumFields + 1)
          /\ req[p].out \in Results
          /\ {req[p].found, req[p].err, req[p].late} \subseteq BOOLEAN

(* Until the teardown begins, no interleaving of refreshes and of the
   goroutines that close retired readers 5 seconds later leaves a closed
   reader where lookup finds it (provider.go 255-275). *)
InstalledOpen ==
    cpc \in {"up", "cancelled"} => \A d \in Databases : array[d] \in open

(* close() releases every reader in use, those included that a refresh racing
   with it has swapped in (provider.go 202-210 against 255-263). *)
DownReleasesInstalled ==
    cpc = "down" => \A d \in Databases : array[d] \notin open

(* A reload is invisible to the requests in flight: none of them fails or is
   aborted (README.md, "no failed requests"; provider.go 172-196, 267-275). *)
NoFailedRequests ==
    \A p \in Requests : /\ req[p].pc # "aborted"
                        /\ req[p].pc = "answered" => ~req[p].err

(* The databases that have data for an address, and what they carry. *)
Suppliers(k, f) ==
    {d \in Databases : <<d, k>> \in Covers /\ <<d, f>> \in Carries}

Complete(k, fields) ==
    DOMAIN fields = {f \in Fields : Suppliers(k, f) # {}}

(* Whatever is reloaded meanwhile, an answer has every field that some
   database has for the address, each from the first database that has it,
   and says "found" when any database covers the address (extractFields,
   provider.go 24-39, over the records of lookup). *)
LayeredAnswers ==
    \A p \in Requests : req[p].pc = "answered" =>
        LET k == req[p].key
            out == req[p].out
        IN /\ req[p].found = (\E d \in Databases : <<d, k>> \in Covers)
           /\ Complete(k, out)
           /\ \A f \in DOMAIN out : \A d \in Suppliers(k, f) : out[f].db <= d

(* The values an answer takes from one database are of one release of it,
   although the fields are read one by one while the array changes: the
   records keep the reader that the tree walk used (provider.go 188). *)
OneReleasePerDatabase ==
    \A p \in Requests : \A f, g \in DOMAIN req[p].out :
        req[p].out[f].db = req[p].out[g].db => req[p].out[f] = req[p].out[g]

(* A request is told that nothing is known of an address that a database
   covers, with no error to go with it, only once the teardown has taken the
   readers away: a reader that was closed under the request makes an error,
   which is not cached and which failOpen decides on (provider.go 172-196,
   208; plugin.go 347-377). *)
UnknownOnlyAfterClose ==
    \A p \in Requests :
        req[p].pc = "answered" /\ ~req[p].found /\ ~req[p].err
          /\ (\E d \in Databases : <<d, req[p].key>> \in Covers) => dropped

IsCurrent(entry) ==
    \A f \in DOMAIN entry.fields :
        entry.fields[f].rel = array[entry.fields[f].db].rel

(* Between refreshes the cache holds nothing from a replaced release, but for
   what lookups stored that were in flight when the cache was emptied: the
   reset comes after the swap and reaches both generations (provider.go
   255-265, cache.go 73-81). *)
CacheCurrentIfPrompt ==
    wpc = "wait" => \A k \in Keys :
        Cached(k) => EntryOf(k).late \/ IsCurrent(EntryOf(k))

-----------------------------------------------------------------------------
(* What the documentation says without the exception: after a refresh the
   reset has removed every stale answer (cache.go 71-72). *)
CacheCurrent ==
    wpc = "wait" => \A k \in Keys : Cached(k) => IsCurrent(EntryOf(k))

-----------------------------------------------------------------------------
(* Once its file stays as it is and is good, every database is in the end,
   unless there is a teardown, served in the release on disk: OpenReader
   examines the file before it reads it, so that a write in between is noticed
   the next time (mmdb.go 53-85, 130-136). *)
EventuallyCurrent ==
    \A d \in Databases :
        <>[](cpc = "up" /\ disk[d].state = "good" => array[d].rel = disk[d].rel)

(* Every request comes to an end, whatever the watcher and the teardown hold
   meanwhile (provider.go 173-175, 203-209, 255-263). *)
RequestsEnd == \A p \in Requests : req[p].pc # "idle" ~> req[p].pc = "idle"

(* After the context is cancelled the watch goroutine ends, although its
   ticker goes on firing (provider.go 220-229), and the teardown gets its
   lock. *)
TeardownEnds == cpc # "up" ~> (cpc = "down" /\ wpc = "stopped")

(* Readers that were replaced do not pile up: again and again, none is open
   that is older than the reader in use (provider.go 255-275). *)
RetiredClosed ==
    []<>(\A reader \in open : reader.stamp >= array[reader.db].stamp)
=============================================================================
