# A TLA+ model of the IPGeolocation plugin for Traefik

This directory holds a formal model of the plugin in `src/`: TLA+ modules, TLC
configurations that check them on small instances, and proofs that TLAPS
checks for every value of the constants. `PROJECT.json` maps every definition
to the lines it stands for.

## The system

The plugin is a Traefik middleware in Go, interpreted by Yaegi. For every HTTP
request it finds the client's address, looks the address up in MMDB files (or
through a REST API), tells the backend what it found in request headers, and
refuses the request if the access rules say so.

| Part | Source | State | Operations |
| --- | --- | --- | --- |
| Result cache | `cache.go` | two generations of entries, limits | `get`, `put`, `reset` |
| Database provider | `provider.go` | slice of readers, `stop` channel, RWMutex | `lookup`, `close` |
| Watcher | `provider.go` | its copy of the readers, replacements, retired readers | `watch`, `refreshChanged`, the delayed close |
| Reader | `mmdb.go`, `decode.go` | an open file or a buffer, the stamp (size, modification time) | `OpenReader`, `LookupOffset`, `Value`, `lookupRecordAt`, `Changed`, `Close` |
| Client address | `clientip.go` | none (configuration) | `clientIP` |
| Access rules | `rules.go` | none (compiled rule set) | `newRuleSet`, `requiredFields`, `evaluate` |
| Request pipeline | `plugin.go` | the request's headers | `ServeHTTP`, `resolve`, `applyHeaders`, `stripManagedHeaders`, `finish` |
| Configuration, startup | `plugin.go` | none | `New`, `withDefaults`, `buildHeaderMap`, `selectFields` |
| Search tree, decoder | `mmdb.go`, `decode.go` | none (bytes) | `LookupOffset`, `decode`, `seek`, `skip` |
| Fields | `fields.go` | none | `extract`, `format` |
| API provider | `provider.go` | HTTP client | `lookup` |
| Logger | `plugin.go` | none | printing |

They interact like this. Any number of request goroutines run `ServeHTTP`. They
share the cache and the provider with one watcher goroutine, with the goroutines
that close replaced readers after five seconds, and with the goroutine that waits
for Traefik to cancel the middleware's context and then closes the provider. The
provider's mutex protects the slice header only; its elements are read without it.

What makes this hard:

- `lookup` iterates over the backing array while a refresh overwrites it;
- a lookup that started before a reload ends after it, and then writes the cache;
- readers are closed on a timer, not when their last user is gone;
- teardown, refresh and lookups meet at any point;
- a file changes while it is examined, opened or read;
- reads fail in one database and not in another, and some errors go unreported;
- the cache rotates its generations under overwrites, and both ends of an
  entry's life are judged outside the lock;
- the rules see only the fields that somebody computed they would need;
- a client can write anything into its forwarding header and into the headers
  that the plugin uses;
- a database file may hold any tree and any data section, and two strategies read
  the same record;
- the API may answer late, with anything, or never, and charges for it;
- `New` has effects between its checks, and iterates over a Go map.

What each part has to guarantee:

- *cache*: bounded, does not forget recent entries, never answers with something
  expired or with something that a newer put or a reset has replaced;
- *provider*: readers in use are open, a reload is invisible to requests, no
  answer mixes releases of one database, priority of the databases, nothing
  stale after a reload, everything released in the end, no deadlock;
- *client address*: what the client writes does not decide, in the
  configurations meant for that;
- *rules and pipeline*: the fields looked up suffice, managed headers are
  authentic, `dryRun`, `failOpen` and `allowUnknown` hold on every path;
- *tree and decoder*: longest prefix match, agreement of seeking with decoding;
- *API provider*: caches answers and nothing else, costs no more than it must,
  keeps its key to itself, has the flags a database would have;
- *startup*: accepts sound configurations only, builds the header map they
  describe, and leaves nothing open or running when it fails or is cancelled, but
  for the databases when it refuses `refreshInterval` (`LateRefusal`).

## The modules

| Module | Models |
| --- | --- |
| `ResultCache` | the two generations and one operator per method of the cache |
| `LossyMemo` | the abstract cache: a map that may forget, but only newer values replace |
| `CacheClients` | the cache under any callers, with the steps outside its lock |
| `CacheProofs` | theorems about `CacheClients` |
| `LookupService` | requests, databases, watcher and teardown around the cache |
| `ProviderProofs` | theorems about `LookupService`: readers, requests, cache and reloads |
| `ClientIP` | `clientIP` behind a chain of proxies |
| `ClientIPProofs` | theorems about `ClientIP` |
| `AccessRules` | `newRuleSet`, `requiredFields`, `evaluate` as operators |
| `RequestPipeline` | `ServeHTTP` around the rules |
| `PipelineProofs` | theorems about `RequestPipeline` and the rules |
| `SearchTree` | `findIPv4Start` and the walk of `LookupOffset`, with longest prefix match as its reference |
| `FileFormat` | metadata, nodes, sizes, pointers and integers of the file, byte by byte |
| `DataSection` | `decode`, `skip`, `seek`, the sources they read from, and both strategies on top |
| `FieldCatalog` | `extract`, `extractFields`, `format`, `truthy`, `deriveAPIFlags` |
| `DatabaseRecord` | one lookup in one file: `SearchTree` composed with `DataSection` and `FieldCatalog` |
| `Recursion` | theorems about functions defined by recursion over the numbers |
| `DatabaseProofs` | theorems about `FileFormat`, `SearchTree`, `DataSection`, `FieldCatalog` and `DatabaseRecord` |
| `APIProvider` | `resolve` and `apiProvider.lookup` around the cache, against the REST service |
| `APIProofs` | theorems about `APIProvider` |
| `Startup` | `New`, `withDefaults`, `buildHeaderMap`, and the goroutines `New` starts |
| `StartupProofs` | theorems about `Startup` |
| `MCCacheClients`, `MCLookupService`, `MCClientIP`, `MCRequestPipeline`, `MCDatabaseRecord`, `MCAPIProvider`, `MCStartup` | the instances for TLC |

Definitions marked "as a bug" are variants of the definition that follows them.
Nothing uses them; putting one in the other's place breaks the property
`PROJECT.json` pairs it with, which shows that the property depends on that code.

### ResultCache and CacheClients

`current` and `previous` are the two maps; a nil `previous` and an empty one
answer alike. `put` fixes the expiry (`BuildEntry`) before it asks for the lock
(`StoreEntry`), and `get` reads under the lock (`ReadEntry`) and tests the expiry
after it (`JudgeEntry`). A value is the time it was produced. `since` is a history
variable: the puts of other keys since a key's own last put, counted up to
`MaxEntries + 1`.

`LossyMemo` says what a caller may rely on: a lookup shows the entry stored last,
or nothing. `CacheClients` implements it with the mapping `memo <- View`, where
`View` is what `get` would read. This is the check that rotation never brings
back an older entry from under a newer one.

### LookupService

Each goroutine is a program counter and the local variables its code keeps across
steps.

| Code | Actions |
| --- | --- |
| `resolve`, `lookup`, `extractFields`, `value` | `GetCached`, `TakeSnapshot`, `LoadReader`, `WalkTree`, `ExtractValue`, `StoreResult`, `FinishRequest` |
| `watch` | `TickRefresh`, `StopWatching` |
| `refreshChanged` and `OpenReader` | `TickRefresh`, `CheckReader`, `StatFile`, `ReadFile`, `LockForSwap`, `SwapSlot`, `UnlockAfterSwap`, `ResetCache`, `RetireReaders` |
| the goroutine of `refreshChanged` | `CloseRetired` |
| the goroutine of `New`, `close` | `CancelContext`, `LockForClose`, `CloseInstalled`, `DropReaders` |
| the job that replaces the files (external) | `WriteFile`, `RemoveFile` |

`array` is the backing array that the copied slice headers share. Its elements are
pointers, and a load that races with a store is taken to yield the old or the new
one, which the two orders of `LoadReader` and `SwapSlot` give. A release of a
file is a number; a reader knows the number it examined (`stamp`) and the one it
read (`rel`). A value is the database and the release it came from. Which
database covers which address and carries which field is constant. A field is
one read of a record, although `extract` may try several paths of it.

Closing a reader sets fields to nil that a read in progress has checked already.
Go leaves open what such a read does; the model lets the request go on (and find
the reader closed at its next read) or end in a panic, which net/http turns into
an aborted request.

`GraceCoversLookups` is the assumption behind the five seconds in
`refreshChanged`: no lookup holds a reader that long. The run `reload` makes it,
to say that reloads fail no request; so does `stale_cache`, whose violation is
there even so. The other runs do without.
`IOFaults` lets reads of an open file fail.

### ClientIP

The state is a request on its way through the operator's proxies. The client
writes any list into the forwarding header, and each proxy appends its peer. The
property is what `clientIP` returns at the plugin, after any number of hops.

### AccessRules and RequestPipeline

A text is a code and its spelling, because the rules normalize both sides. A
field's value is a text, a number or a flag. What is known of an address (`data`) is a
sequence of layers in the order of their priority: one for each database that has the
address, and within one for each further path that a field is read from; `<<>>` is an
unknown address. With every read successful a field is the first layer's that has it
(`Full`). But a database whose lookup fails is passed over, and so is a record or a
path that cannot be read, with an error in the first case and without one in the
second (`provider.go` 28-39, 97-116, 179-195). So `Resolve` returns any of the fields
asked for, each from any layer that has it, with or without an error: a lower
database may speak where a higher one failed, and say something else. That takes in all
that `LookupService` and the API provider, which has one layer, can answer. Headers are
modelled by who wrote them and from which field. One outcome, "refused", stands for the redirect and for
the status with its message.

### SearchTree, FileFormat, DataSection and FieldCatalog

The tree is any function from nodes to pairs of records, so it may share nodes,
have cycles or be too deep. One step is one turn of a loop: `FollowZeroBit` and
`FixIPv4Start` when the reader is opened, `StartWalk`, `WalkBit` and `JudgeRecord` in
`LookupOffset`. The reference, `LongestPrefixMatch`, says nothing of starting nodes:
an address is filed under its bits, an IPv4 address under those of `::a.b.c.d`, and
the result is the record to which the one prefix leads at which the tree ends.

`FileFormat` is arithmetic on bytes and is only proved about. Its `Encoded` operators
are what a writer of the format does (external).

In `DataSection` a cell stands for a control byte together with its type and size
bytes (`FileFormat` has those); a string has further cells for its contents, so that
reading may start in the middle of a value, run off the end, or straddle the end of
the window. A text is a sequence of words. The type "broken" is what `decode`
rejects and `skip` steps over.

The recursion of `decode`, `skip` and `seek` ends at `maxDecodeDepth`, and the model
counts down to it. `Decoder(src)[n]` is the function from offsets to what `decode`
answers there with `n` levels left: `DecodeOne` says what one call does, given the
function with a level less, and with no level left every value is an error. `decode` at a
depth has `LevelsAt(depth)` of them. `Skipper` and `Seeker` are made the same way from
`SkipOne` and `SeekOne`. A loop over the items of a map or an array is the `Run` of
offsets at which they start; one that ends early at an error goes on from `NoOffset`,
where nothing can be read. `format` renders a value from the texts of the values inside
it (`Texts`), as many levels as a record can have.

`DatabaseRecord` puts the lookup together: the tree
yields an offset, `ExtractRecord` extracts every field with the strategy the provider
chose, and `StrategiesAgree` compares it with all four ways to do it. Two limits of
the agreement are stated in it, because there the code differs: a record that cannot
be decoded whole yields nothing by decoding and something by seeking, and of a
repeated key decoding keeps the last value while seeking stops at the first.

### APIProvider

A request gets from the cache, calls, settles and stores. The answer to a call is any
status with any body (`ServeCall`), a broken connection (`BreakCall`) or a timeout
(`TimeOut`); a call whose caller is gone may be served and charged later (`orphans`,
`ServeOrphan`). An error's text is the set of forms of the API key that it repeats:
`redact` removes whole keys, `firstLine` may leave a part of one. Other
encodings of the key, and the limit of 1 MiB on the body, are not modelled. `said` is a history
variable, what the service has said about each address; so are the counters of
credits, misses, expired hits and failures. Expiry is a choice of `GetCached`. In
`MCAPIProvider` the payload is run through `deriveAPIFlags` and `extractFields` of
`FieldCatalog`, and compared with what the same catalogue makes of a database record.

### Startup

One action per group of checks between two effects of `New`. The headers option is
a set of entries, taken one by one in any order (`AddHeader`). A header name is its
spelling and its name without regard to case. A duration is unset, invalid or a
number of seconds; a blank one counts as unset, as `parseDuration` treats it.
`Sound` says what a configuration has to be, without the order of `New`'s checks.

## What is checked

| Run | Module | Shows |
| --- | --- | --- |
| `cache` | `MCCacheClients` | `Bounded`, `Retained`, `HitsAreYoung`, `ImplementsMemo` |
| `reload` | `MCLookupService` | `NoFailedRequests`, `LayeredAnswers` while both databases are reloaded |
| `provider` | `MCLookupService` | `InstalledOpen`, `DownReleasesInstalled`; liveness: `EventuallyCurrent`, `TeardownEnds` |
| `lifecycle` | `MCLookupService` | with failing reads and without the grace assumption: `TypeOK`, `OneReleasePerDatabase`, `CacheCurrentIfPrompt`, `UnknownOnlyAfterClose`, no deadlock; liveness: `RequestsEnd`, `RetiredClosed` |
| `client_ip` | `MCClientIP` | `WalkFindsClient`, `DepthFindsClient`, `DirectClientIsPeer` |
| `pipeline` | `MCRequestPipeline` | `DecidesOnAllData`, `ManagedHeadersAuthentic`, `DryRunRefusesNothing`, `StrictAllowList`, `RefusalIsSupported` |
| `record` | `MCDatabaseRecord` | `LongestPrefixMatch`, `StrategiesAgree`, `FlagsKeepMeaning` |
| `api` | `MCAPIProvider` | `CachedIsAnswer`, `CreditsBounded`, `KeyNeverRepeated`, `FlagsMatchDatabase`; liveness: `RequestsEnd` |
| `startup` | `MCStartup` | `FailureHoldsNothing`, `AcceptsTheSound`, `HeadersAsConfigured`; liveness: `CancelledEnds` |

Three runs look for a violation, and find one. Each states a sentence of the
documentation or of a comment that the code does not keep:

| Run | Sentence | What happens |
| --- | --- | --- |
| `stale_cache` | "so that stale answers cannot outlive the data they came from" (`cache.go:71`) | a lookup in flight stores its old answer after the reset; `CacheCurrentIfPrompt` shows that this is the only way |
| `fail_closed` | `failOpen: false`: "The request is blocked." (`OPTIONS.md:351`) | an error of one database is ignored when another supplied a field |
| `header_removal` | "An empty value removes a header the preset added." (`plugin.go:513`) | the preset writes `X-IPGeo-IP`, the entry deletes the canonical `X-Ipgeo-Ip`; `HeadersAsConfigured` shows that this header is the only one |

Other places where words and code part, seen while modelling and not made runs:

- "Errors are never cached" (`OPTIONS.md:402`): a failed read of a record is a missing
  field without an error (`provider.go:101`, `111`), and the answer is cached.
- "Release database handles when Traefik tears the middleware down" (`plugin.go:309`):
  a teardown in the middle of a refresh leaves the readers just opened to the
  garbage collector (`provider.go:255`). `New` does the same when it refuses
  `refreshInterval`, which it reads after opening the databases (`plugin.go:248`;
  `LateRefusal` in `Startup`).
- "delete any X-IPGeo-* headers always" (`OPTIONS.md:63`): only the headers of the
  configured map, and `X-IPGeo-Dry-Run`, are deleted (`plugin.go:397`).
- "ten thousand different visitors a day cost ten thousand credits no matter how many
  requests they make" (`OPTIONS.md:150`): requests that miss together, and calls that
  fail, cost one each. `CreditsBounded` has the exact bound.
- `apiInclude` is documented with the default `security` (`OPTIONS.md:145`);
  `CreateConfig` leaves it empty (`plugin.go:139`).
- The test that compares seeking with decoding (`mmdb_test.go:338`) builds its records
  without `seekOnly`, so that it compares decoding with itself.

### Bounds

- `cache`: two requests, three keys, `MaxEntries = 2`, `TTL = 1`, `MaxTime = 2`. Two
  requests are enough to reverse the order of two puts; three keys overflow a
  generation of two and rotate twice; the clock outruns the ttl.
- `reload`: two requests, two addresses, two databases (both cover one address, one
  covers the other), two fields (one in both), each file written once
  (`MaxWrites = 1`), one cache entry per generation. One write makes one swap per
  database, in either order.
- `provider`: two databases and two writes, so that a second refresh meets readers
  of the first that are still waiting to be closed. No requests: they change
  nothing that these properties read.
- `lifecycle`: one request, one database, two writes, so that a request can outlast
  two reloads, and a teardown at any point. Here and in `reload` records are decoded
  whole (`SeekOnly = FALSE`), as for a configuration with many fields; `stale_cache`
  reads per field. `ProviderProofs` covers both.
- `client_ip`: two clients, two proxies, up to `MaxForged = 2` forged entries
  (clients, proxies, junk) and `MaxHops = 3` hops. `ClientIPProofs` needs no bound.
- `pipeline`: fourteen rule sets (each kind of list with other spellings and the AS
  number 0, flags, the crawler exception, thresholds, with and without
  `allowUnknown`), two header maps, all switches, an unknown address, five addresses with one
  layer, one with two and one with three layers that contradict each other in
  country, AS number, flags, crawler mark and threat score.

- `record`: addresses of 3 bits, and IPv4 of 1, so that there are two zero bits to
  follow; all trees of two nodes, which have cycles, shared nodes, ends before, at
  and after the IPv4 subtree. All sections of four cells (`TailLength`) of an
  alphabet of ten, behind four beginnings that put them inside a map, below a
  nested one or behind a pointer; `MaxDepth = 3` and a window of three cells, so that
  records exceed both. `DatabaseProofs` needs no bound.
- `api`: two requests and two addresses, one that is called for three times
  (`MaxCalls`), once more than there are requests; a generation has room for both.
- `startup`: every combination of mode, key, up to two databases, refresh intervals
  (unset, 0, below and above a minute, negative, unreadable), status codes around
  both limits and durations; and five presets with up to two header entries out of
  five names and five values. Two entries are enough for every order to matter.

Symmetry is used for requests, keys and addresses, and never in a run with a
liveness property. Deadlock is checked where the system goes on: `cache`, `reload`,
`lifecycle`. It is not in `client_ip` and `pipeline`, where the chain ends or
the request is over, and not in `provider`, where without requests nothing is left
to do after the teardown. Nor is it in `record` and `startup`, where the lookup and `New`
end, nor in `api`, where the bound on calls may leave no request to make.

### Fairness

`FairSpec` of `LookupService` assumes that a goroutine that can run does run (weak
fairness of its steps); that `sync.RWMutex` hands a lock that is free again and
again to those that wait (strong fairness of `TakeSnapshot`, `LockForSwap`,
`LockForClose`: Go's RWMutex blocks new readers once a writer waits); that the
ticker goes on firing; and that `select` takes a case that is ready again and again
(strong fairness of `TickRefresh` and `StopWatching`: Go chooses at random). Files,
requests and the cancellation are obliged to nothing.

`FairSpec` of `APIProvider` assumes that a request that can go on does and that the
timer of `http.Client` fires. The service owes no answer. `FairSpec` of `Startup` assumes
that the goroutine in `New` and the two it starts are scheduled; the cancellation
need not come.

## What is proved

`tlapm` checks the proofs in eight modules, for any constants that satisfy the
modules' assumptions.

- `CacheProofs`: `TypeCorrect`, `CacheBounded`, `CacheRetains`, `CacheImplementsMemo`
  and `CacheHitsAreYoung`. `Bounded` is inductive with the types. `Retained` is not: a
  rotation drops the previous generation at once, so one has to know that what
  only the previous generation holds was followed by as many puts as the current
  one has entries (`RetainedInd`). A rotation happens at `MaxEntries` of them, and
  those keys have seen at least that many puts and now see one more. The
  refinement maps every step to a store, a wipe (a rotation combined with the
  store is a store that forgets) or a stutter.
- `ProviderProofs`, readers: `InstalledReadersOpen` and `TeardownReleases`. Neither is
  inductive. A reader that waits for its close must not be one in use, and one
  just opened must not be one that the teardown has closed. `ProviderInv` orders
  readers of a slot by their stamps: waiting ones are older than the one in use
  (`RetiredOlder`), replacements are newer (`ReplacementsNewer`), no stamp is ahead of
  the file (`StampsBounded`), the watcher's copy is what is installed while it
  works (`CopyCurrent`), and both writers exclude each other (`Mutex`).
- `ProviderProofs`, requests: `ServiceTypes`, `AnswersOfOneRelease` and
  `UnknownIsExcused`, for any interleaving, with failing reads and a teardown at any
  point. Each action has an effect lemma that says what it does to the one request
  that takes it (`Began`, `Loaded`, `Walked`, `Asked`, `Stored`), and everything after
  rests on those. `RequestInv` says that the readers a request has loaded are of
  different databases, in their order, whatever the array holds by now
  (`ReadersOrdered`); that its values are of those readers (`ValuesHeld`), so that two
  values of one database are of one reader; and that a covering database which the
  loop has passed has a record, unless there was an error (`NothingMissed`). The cache
  hands answers from one request to another, so both generations are in the
  invariant (`SoundEntry`).
- `ProviderProofs`, staleness: `CacheIsPrompt`. The property speaks of the time between
  refreshes. `PromptInv` covers all of the watcher's steps but the swap and the
  reset: there, readers, values and entries are of the releases in use or marked as
  late. The array changes in the swap only, and the reset re-establishes everything
  by emptying both generations and marking what is in flight.
- `ProviderProofs`, reloads: `ReloadsFailNoRequest` and `AnswersAreLayered`. Both assume
  `GraceCoversLookups` and no teardown, as the run `reload` does; without them a
  reader may be closed under a request, and the properties fail. The first does not
  need `~IOFaults`: a read of a record that fails is not an error of the lookup.
  `Undisturbed` says that a request's readers stay open, because one that waits for
  its close is closed when nobody holds it. With that, `LayerInv` says that the
  records are those of exactly the covering databases, that the fields before the
  one in turn are settled, each by its first supplier, and that no record before the
  one in turn carries it. The first record that does is then of the first supplier,
  because the records are in the databases' order (`HitIsFirst`).
- `ClientIPProofs`: `WalkIsSafe`, `DepthIsSafe` and `DirectIsSafe`, for chains and
  forged headers of any length. The invariant says that the header ends with the client followed by
  the proxies passed so far but the last, and that the last is the peer.
- `PipelineProofs`: `PipelineTypes`, `SelectedFieldsDecide`, `AllowListIsStrict`,
  `HeadersAreAuthentic`, `DryRunIsHarmless` and `RefusalsAreSupported`, for any rule sets,
  header maps and data.
  The properties speak of a request's end, so `PipelineInv` carries what its steps
  have established: how it got to the rules (`AtRules`), that their word was done
  (`RulesDecide`) or `failOpen`'s (`FailOpenDecides`), that each field is some
  layer's (`ResultFromData`), and that after the strip no managed header is the client's
  (`ManagedClean`). The rest is about `evaluate` alone: it depends on nothing but
  `requiredFields` (`EvaluateReadsRequired`), and with unknowns allowed it accepts any
  mixture of layers that it accepts one by one (`MixturePasses`).
  `RefusalIsSupported` is as much as the code keeps. It does not say that the full data
  would refuse the request as well: when the first database fails, the country that a
  second one has may be blocked where the first one's is not, and the request is
  refused on the second one's word. Nor does it hold for a crawler whose good-bot mark
  was lost, which is refused as a bot (`MarkKept`).

- `DatabaseProofs`, tree: `TreeTypeCorrect` and `LookupIsLongestPrefixMatch`, for any tree
  and addresses of any length. The invariant says, at every turn of either loop, that
  the bits consumed lead from the root to the current record (`Leads`); in the second
  loop these are the zero bits, as far as the first loop got, followed by the
  address's. The path is extended by one record per step. A first loop that stopped
  early did so at a record outside the tree, and then the second takes no turn.
- `DatabaseProofs`, bytes: `NodesInFile`, `NodeRoundTrip`, `SizeRoundTrip`,
  `PointerRoundTrip` and `SignedRoundTrip`: what a writer of the format encodes, the code
  reads back, at the edges between the encodings too; and all nodes of an accepted tree
  are in the file. They rest on one lemma about digits to the base 256.
- `Recursion` (lemmas only; it says nothing of the program, but the proofs about the
  decoder and the formatter rest on it): `RecursionDefines`. A recursive function of a number is what `CHOOSE` picks
  among those that satisfy its equation, so one has to show that there is one. The
  module does it once, for any first value and any step, by induction from the
  well-foundedness of the numbers; an instance of it per definition (`DecoderSteps`,
  `SkipperSteps`, `SeekerRun`, `WalkSteps`, `PartsSteps`, `TextsSteps`, `JoinedSteps`, ...) unfolds that
  definition by one step. The same induction, for sets of numbers, carries every proof
  about any number of levels, items, keys or words.
- `DatabaseProofs`, strategies: `FieldsAgree`, for any section, window, depth and
  catalogue, and `RecordOfLongestPrefix`. A window reads as the section (`WindowReads`),
  therefore decodes, skips and seeks as the section (`DecodeIs`, `SkipIs`, `SeekIs`). What
  can be decoded with some levels left is decoded to the same value with more
  (`DecKept`), and skipped to the same offset (`SkpFollows`): this is what lets `seek`,
  which spends its levels elsewhere than `decode`, be compared with it. `SeekFinds` is
  the induction over the levels: with the keys distinct, `seek` at any part of a path
  ends at an offset that decodes to what the rest of the path leads to in the decoded
  record, or finds nothing where that does not lead on. Null is sought as a value and
  resolved as a missing one; neither has a text, so fields agree (`NilText`).
  `RecordInv` says that the answer was extracted from the section at the offset the walk
  ended at.
- `DatabaseProofs`, flags: `FlagsAgree`, for any section, one that cannot be decoded or
  repeats keys included. Values have the content that their tag says (`ValuesSound`), and
  the texts of one value in both boolean formats are alike (`Alike`: both are flags or
  neither is, both are there or neither is), by induction over its nesting: lists are
  joined alike, because one with a separator in it is no flag (`JoinedAlike`), and of
  a map the same key is picked (`MapAlike`).
- `DatabaseProofs`, derived flags: `DerivedFlags` says what `deriveAPIFlags` may change in
  any answer, and `DerivedFlagsDecide` that the rules read a flag it adds as true.
- `APIProofs`: `APITypeCorrect`, `CacheHoldsAnswers`, `KeyStaysSecret` and
  `CreditsAreBounded`. The first three need that what requests still hold to store, and
  both generations, are answers (`SaidInv`). The bound on credits needs two counts
  (`CreditInv`): credits, calls given up and requests at their call are no more
  than the lookups that missed; and while an address is not cached, every miss of it has
  failed or is a request still between its call and its store. Once it is cached
  and nothing can evict it, no lookup misses it again.

- `StartupProofs`: `StartupTypes`, `FailureIsClean`, `SoundIsAccepted` and
  `HeadersFollowOptions`, for any configurations, catalogue and presets. `NewInv` says
  at each point of `New` which checks have passed (`Passed`), which databases are open
  and which goroutines run (`Resources`), and that a failure has its reason in the
  configuration or in a database that did not open (`Refused`). For the header map,
  `HeadersSoFar` says name by name that it is the preset's as long as no entry of that
  name was merged (`AsPreset`), and otherwise what one of the merged entries says
  (`AsEntry`); that holds for every order of the entries, and it counts the preset's
  `X-IPGeo-IP` as kept (`KeepsPresetIP`).

The assumptions are those on the constants: positive numbers where the code has
positive numbers, at least one address (`Keys # {}`), databases and fields within
their ranges (`ServiceAssumption`), configurations that have the fields of `Config`,
with presets of fields of the catalogue (`StartupAssumption`), a depth and a window that
are numbers (`SectionAssumption`), and sections of cells and definitions of fields
(`RecordAssumption`). TLC evaluates them in every run. `FlagsAgree` has a hypothesis of its
own, `ByteOrder`: `Before` is total and transitive on all texts, as the order that
`sort.Strings` uses is. It quantifies over all texts, which TLC cannot enumerate.

Only model-checked: the liveness properties (`EventuallyCurrent`, `TeardownEnds`,
`RequestsEnd`, `RetiredClosed`, `CancelledEnds`), since fairness and ENABLED are beyond
the prover; and `FlagsMatchDatabase`, which compares two answers of the service with
two records written out in `MCAPIProvider`. What it is an example of is proved:
`DerivedFlags` and `DerivedFlagsDecide` for any answer, `CacheHoldsAnswers` for the way
through the cache.

## Assumptions and limits

- A write to a database file changes its size or modification time. Two writes
  within the resolution of the clock that keep the size go unnoticed by `Changed`.
- Files are replaced by renaming, as `README.md:341` asks: an open reader goes on
  with the contents it opened. A file that is found half-written is "bad" and does
  not open; a corrupt file that opens is not modelled.
- The expiry of entries in `LookupService` is a choice of `GetCached` (an entry there
  may be a miss); their exact age is the subject of `CacheClients`.
- The pairing of the two parts of a cache hit (read, then judge) matters to
  `CacheClients` only; in `LookupService` a hit is one step.
- Country codes are not checked for their two letters, and reasons of refusals
  have no text.

- The data section has no corrupt control bytes other than "broken" cells, and a tree's
  records point into the data section or nowhere: a record between the tree and the
  section (in the sixteen separator bytes) is not modelled.
- The JSON of an API answer is parsable or not; numbers have no digits.

## Not modelled

- The table of the fields (`fields.go` 36-151) is data; the runs use catalogues of two
  and three fields with its shapes (several candidate paths, presence paths, kinds).
- `trimFloat` and `numeric` convert digits; the threshold comparison is in `AccessRules`.
- The search for the metadata marker and the conversion of metadata values
  (`lastIndexOfBytes`, `asUint` and the like); floats and integers of more than 32 bits.
- The textual forms of addresses and networks (`parseIP`, `parseCIDRs`, `isLocalIP`'s
  ranges): an entry is an address or unreadable.
- The logger, the status and message of a refusal, and the interpreter (Yaegi), whose
  deviations from Go the harness in `src/test/yaegi` covers.

## Plan

In order of weight for the system's behaviour.

1. `ResultCache`, `LossyMemo`, `CacheClients`, `CacheProofs`.
2. `LookupService` with its runs, `ProviderProofs`.
3. `ClientIP`, `ClientIPProofs`.
4. `AccessRules`, `RequestPipeline`, `PipelineProofs`.
5. `Startup` with the header map.
6. `SearchTree`, `FileFormat`, `DataSection`, `FieldCatalog`, `DatabaseRecord`.
7. `APIProvider`, `APIProofs`.
8. `StartupProofs`; the requests of `LookupService` in `ProviderProofs`.
9. `Recursion`, `DatabaseProofs`.

All of these are done: every safety property of the runs that speaks of more than one
instance has its theorem. What could follow is the search for the metadata marker and
the floats and wide integers in `FileFormat`, and the textual forms of addresses.
