# Verification of the Vanadium Go API (go.v23)

This directory holds TLA+ models of the parts of the repository that carry
state or non-trivial algorithms, the TLC configurations that model-check them,
and TLAPS proofs. Paths are relative to the repository root. `PROJECT.json` maps every definition to the
lines it models and lists the runs, the mutants that show that each property
can fail, the hazards and the theorems.

## 1. The system and its parts

The repository is the client-side API of Vanadium: contexts, RPC interfaces,
the VDL type and value system, the VOM wire format, security, naming, the
Syncbase client and the query engine. Many packages are interfaces only
(`rpc/model.go`, `flow`, `discovery`, `namespace`, `vtrace`): what implements
them lives in other repositories.

| part | state it keeps | operations | what is hard, and what makes it correct |
|---|---|---|---|
| `context` | tree of cancelStates with child registries, deadline timers | RootContext, WithCancel, WithRootCancel, WithDeadline, CancelFunc, timer callback | goroutines and timers cancel parts of the tree while others add to it, with no lock held over the walk. Nothing below a closed context stays open; errors are written once; registries do not leak |
| `vom` type stream | type→id map of the encoder; wire types, built types, error and flags of the decoder | encode, Start, Stop, processLoop, lookupType | several flows share one stream of type definitions; cyclic types; readers sleep until a type arrives. No unknown or half-built type; no lost wake-up |
| `vom` value codec | encoder and decoder stacks, type id and any-length tables | StartValue … FinishValue, NilValue, SkipValue, raw bytes | long call protocols; bytes written must be the bytes read |
| `vdl` pipe | shared stack, arguments, flags, `State` | encoder and decoder calls, Close | two goroutines hand control back and forth and access the state without the lock; either may fail anywhere |
| `vdl` types | hash-consed types under `typeReg` | TypeBuilder, reflection, registries | cyclic types, concurrent construction |
| `syncbase` streams | one RPC, `mu`, `finished`, `err` | Advance, Err, Cancel | `mu` is held over the blocking receive; Cancel comes from elsewhere |
| `syncbase` batches | batch handle, attempt counter | RunInBatch | conflicts, retries, lost answers: effects must happen at most once |
| `syncbase` conflict resolution | `conflictResolutionState`, schema version | EnforceSchema, the resolution goroutine, Close | messages of several rows over streams that break; Close at any time |
| query engine | prepared statements, result streams | Prepare, Exec, Advance, Cancel, Close | rewriting shared syntax trees; index ranges that must lose no row |
| `vom` single-shot | cache of type decoders | Encode, Decode | concurrent calls share the maps of a cached decoder but not its locks. No shared map is written; a call returns what a decoder of its own would |
| `security` | blessing roots, caches of verified chains and discharges | Bless, Union, WireBlessingsToNative, RemoteBlessingNames | goroutines verify chains with common prefixes through one cache that overflows; roots grow meanwhile. Exactly the valid chains are accepted, with the names they prove |
| `access`, `groups` | Permissions; nothing in `groups` | Add, Blacklist, Clear, Authorize, Match | patterns that name groups, groups that include each other, servers that fail between two questions. Access only where the list grants it |
| `model.go` | the factory, the current runtime and its stack | RegisterRuntimeFactory, Init, Shutdown | failure between two steps, repeated and concurrent shutdowns. A runtime that serves is the current one; nothing is left behind |
| `naming`, `glob`, `pattern`, `uniqueid`, `flow/message`, `syncbase/util` | none, or one counter | parsing, formatting, matching | conversions that must invert each other; edges of ranges and counters |
| `verror`, `i18n`, `rpc` invoker, generated stubs | immutable values, tables under one lock | | plain |

How they interact: `vom` encodes and decodes what `vdl` describes and takes its
types from the type stream; `vdl.Convert` runs a writer and a reader over the
pipe; every blocking call of `syncbase` is governed by a `context`; the
Syncbase service runs the query engine against its own datasource, and query
values arrive as `vom` raw bytes.

## 2. Modules

`A → B`: A extends or instantiates B.

```
MCContext → Context → CancelScope          ContextProofs → Context
MCVomTypeStream → VomTypeStream → VomTypeEncoder, VomTypeDecoder → VomWire
                                           VomTypeStreamProofs → VomTypeStream
MCVomCodec → VomCodec → VomEncoder, VomDecoder → VomFormat
MCVdlConvert → VdlConvert → VdlPipe        VdlVomQueryProofs → VdlPipe
MCSyncbaseStream → SyncbaseStream          SyncbaseStreamProofs → SyncbaseStream
MCSyncbaseBatch → SyncbaseBatch            SyncbaseBatchProofs → SyncbaseBatch
MCSyncbaseConflict → SyncbaseConflict      SyncbaseConflictProofs → SyncbaseConflict
MCQueryEngine → QueryEngine → QueryExec    VdlVomQueryProofs → QueryExec, StringRanges
                QueryEngine → QueryWhere → StringRanges
MCRuntimeInit → RuntimeInit                RuntimeInitProofs → RuntimeInit
MCVomSingleShot → VomSingleShot            VdlVomQueryProofs → VomSingleShot
MCAuthorization → Authorization → Blessings, Groups     AuthorizationProofs → Authorization
    Groups → AccessLists → BlessingPatterns             Blessings → BlessingPatterns
```

**Context** (context/context.go). A cancelState is an element of `CS`; `err`
and `children` are its fields, `parent` what its CancelFunc captured, `timer`
its deadline timer, `ctx` the linked list of the context. One action per
critical section of a cancelState's mutex: `NewState` is the constructors up to
`addChild`; `CancelFunc`, `TimerRemoves` are `removeChild`; `CancelSelf` and
`CancelChild` one `cancel` up to its unlock. The recursion of `cancel` is the
`stack` of the goroutine: a frame per level with the children it has left.
A fired timer runs in a goroutine of its own, named by its cancelState.
`CancelScope` is what the package promises without goroutines and registries:
a forest of scopes that close once, for a cause of their own or with their
parent's error.

**VomTypeEncoder, VomTypeDecoder, VomTypeStream** (vom/type_encoder.go,
type_decoder.go). A type is a name and the list `Refs` of the types it refers
to. The encoder's flows look for an id outside of `encMu` and assign and define under it
(the recursion of `encodeType` is a stack); the messages travel over the `wire` of
VomWire, which may be cut; `processLoop`, `Start`, `Stop`, `buildType` and the
waiting of `lookupType` on `buildCond` are the decoder's actions.

**VomFormat, VomEncoder, VomDecoder, VomCodec** (vom/encoder.go, encoder_fast.go,
decoder.go, decoder_util.go, decoder_fast_*.go, raw_bytes.go; vdl/reflect_writer.go,
reflect_reader.go, value_writer.go, value_reader.go). VomFormat is what both sides know:
types by id, which of them are `Compatible`, and the bytes of numbers and control
codes. On the wire numbers are below 256; bool, byte, uint16, int8 and int16 are
the kinds, so that a conversion between them may lose sign or precision
(`Fits`), and bytes may be read element by element from a list of other
numbers and into arrays of another length.
`enc` is the encoder81 (stack, buffer, tables of type ids and any lengths, flags),
`dec` the decoder81; each call of the vdl Encoder and Decoder interfaces is one
action, and a Decoder call leaves what it returns in `dec.ret`. The header of a
message is a record, its value real bytes. VomCodec makes the calls: `Writes`
and `Reads` are the sequences that the writers and readers of package vdl make
for a value, with what each call should return. The any lengths of the decoder
are a Go slice, with its array in `dec.heap`, because a RawBytes keeps a slice of it.

**VdlPipe, VdlConvert** (vdl/pipe.go, pipe_fast.go, value_writer.go,
value_reader.go). VdlPipe is the pipe as both goroutines call it: a blocking
call is a call and a resume action, `asleep` the goroutines inside `Cond.Wait`.
VdlConvert drives it with the calls of Value.VDLWrite (`Calls`, a sequence)
and the control of Value.VDLRead (a stack of values under construction), and
lets either side fail on its own. Calls out of protocol, such as those that find
the stack empty, close the pipe with an error as the code does; the theorems of
section 5 are about such callers too.

**SyncbaseStream** (scan_stream.go, result_stream.go, watch_stream.go, blob.go).
The five stream types share one scheme, modelled once; the watch stream's
skipped changes and the header row read by Exec are data of the stream. A result
stream takes the error of its receive before that of Finish (`Finish(recvErr)`).

**SyncbaseBatch** (batch.go). RunInBatch, including the deferred abort, against
a Syncbase with optimistic concurrency that may lose calls and answers. `fn` may
fail, also with ErrConcurrentBatch, and panic. Commit may be refused for a
conflict or for another reason, and Syncbase may then keep the batch or close
it, since nothing in the client says which; a BeginBatch whose answer is lost
may leave a batch that the client does not know of.

**SyncbaseConflict** (database.go). EnforceSchema with its checks of the schema,
updateSchemaMetadata with and without a stored schema (`NoExist`), the
resolution goroutine with its row by row messages, and Close.

**StringRanges, QueryWhere, QueryExec, QueryEngine** (query/...). StringRanges is the
order of strings and the arithmetic of ranges; QueryWhere the pure part of the
checker (rewriting of `like`, index ranges), of evaluation and of patterns;
QueryExec the statements, executions and streams of several clients. What a
where clause means enters QueryExec through constant operators (`Checked`,
`Scan`, `Accepted`, ...), which the configurations give the operators of QueryWhere and
QueryEngine: QueryWhere recurses over clauses, and QueryExec has to be
free of that to be proved about. QueryEngine says what the results must be. The
syntax tree of a prepared statement is `operators[id]`, because the operator
nodes are what an execution shares with it; `declared` is the tree with this
execution's parameters as they were meant, used only by the properties.

**RuntimeInit** (model.go). `runtimeFactory`, `runtimeStack` and `runtime` are
initState's fields, the latter two naming the call of Init they belong to. A
step is a critical section of `mu` or a call out of the package: the factory,
Runtime.Init and the runtime's shutdown may fail or take their time while others run.

**VomSingleShot** (vom/single_shot.go, type_decoder.go). Goroutines call
vom.Decode. `idToType[m]` and `idToWire[m]` are a pair of maps that a
TypeDecoder made; a decoder derived from a cached one has the same `m`, so
every read and write of the maps is a step of its own although each decoder
holds its own mutexes. `Alone(d)` says, without maps, cache or steps, when the
bytes d can be decoded: every type is defined once, what lies below a complete
message has arrived by then, and the value uses types that some complete
message covers. A definition may be one that vdl.TypeBuilder rejects (`Malformed`)
or use a reserved id. That readSingleType drops build errors below Version81
(type_decoder.go:126) has no effect: isAllowedVersion (misc.go:25) admits only Version81.

**BlessingPatterns, AccessLists, Groups, Blessings, Authorization** (security/,
security/access/, services/groups/). A name is the sequence of its components, a
pattern the same with what stands at its end. The digest of a certificate chain
is the chain, a signature the record of its signer, purpose and message; a key
may be bytes that do not parse (`BadKey`). AccessLists are the edits of a
Permissions and Includes; Groups is Match, with `Servers` giving the answers of
the groups' servers for a set of visited groups. A question to a server is the
groups visited, the group and the chunk asked about, and each question fails on
its own; one that is asked again within a Match fares as before, which leaves
out only mixtures of the answers that two sets of failures give. `Members` is
the least fixed point that says what groups mean: it is reached from nothing in
rounds that add the words which the entries spell, words being names of at most
`MaxLen` components. Blessings is how chains, discharges and names are made and
the validators of caveats. Authorization composes them into the serving of a
call: `Receive`, `VerifyCert` (one turn of the loop of validateCertificateChain)
and `CacheChain` are WireBlessingsToNative; `Recognize`, `ValidateCaveats` (one
caveat) and `CacheDischarges` (what was verified for it enters the cache)
RemoteBlessingNames; `Authorize`, `Prune` and `CheckIn` the authorizers of
`access` and `groups`; `AddToRoots` happens meanwhile, one root at a time. The
caches are the two global sigCaches, evicting any entries when they are full.

What is external, modelled by how the code uses it: the network below the type
stream, the RPC streams, Syncbase, the datasource (Scan is a snapshot of
the rows the ranges let through, in key order), the Runtime and its factory,
the BlessingRoots, and the servers of groups, which answer Relate by matching
each of their entries with the groups visited so far.

## 3. Runs

Each passing run explores its instance completely.

| run | instance | checks |
|---|---|---|
| `context` | 3 cancelStates, at most 2 with deadlines, 2 goroutines and the timers | `NoContextLost`, `QuietMeansClosed`; refinement of CancelScope, `ScopeSafety` without and `ScopeLiveness` with fairness |
| `vom_types` | types A = {B, A}, B = {A}; 2 flows, 2 possible loops, 2 Starts, 1 Stop | `NoTypeError`, `BuiltAreWhole`, `OneProcessLoop`, `LookupReturns` |
| `vom_codec` | 36 types, some 5,900 sessions of two messages, 4 ways to write and some 30 to read | `Decodes`, `ForwardedDecodes`, `NothingCarriedOver` |
| `vom_single_shot` | 3 goroutines, 3 calls, 11 byte strings whose type messages are equal, begin alike, are cyclic, incomplete, broken or malformed or missing | `SharedNotWritten`, `DecodesAlone` |
| `vdl_convert` | some 770 values up to depth 3 over all kinds, field 1 unknown to the destination | `OneRuns`, `SleepersAwaited`, `NoProtocolError`, `ConvertsWhole`, `BothEnd`, and absence of deadlock |
| `syncbase_stream` | a watch stream, a query, and a query that ends before its header row; 3 goroutines, 2 calls each | `FinishOnce`, `NilErrMeansAll`, `CancelStops`, `CancelReturns` |
| `syncbase_batch` | 2 writers, 1 reader, 2 attempts, 1 batch with lost calls | `AtMostOnce`, `ResultTellsOutcome`, `NoBatchLeft`, `RunInBatchReturns` |
| `syncbase_conflict` | 2 conflicts of 3 and 2 rows, 3 broken streams | `WholeConflicts`, `WholeResolutions`, `ConflictsResolved`, `CloseEnds` |
| `query` | 5 rows, some 140 statements, 2 clients that share one handle | `ResultsExact`, `DeleteExact`, `StreamsReleased` |
| `query_prepared` | `k like ?` with and without wildcards, executed up to 4 times | violated: an execution changes later ones |
| `runtime_init` | 3 goroutines, 3 Inits, each Shutdown called up to twice | `RuntimeUsable`, `QuietMeansClean` |
| `authorization` | 2 goroutines, 2 calls of 22 kinds, caches of 2 entries, 4 groups (one inside another, two that include each other) | `CacheSound`, `AcceptsExactly`, `NamesExact`, `AuthorizedExactly`, `PatternLaws` |

Why the bounds are enough to be interesting:

- *context*: three cancelStates give a grandparent, parent and child chain, two
  siblings below one parent, and a root next to a WithRootCancel child. Two
  goroutines and a timer are the smallest race of constructor, CancelFunc and
  deadline. The theorems of section 5 cover every size.
- *vom_types*: a self-reference and a mutual reference are the cycles that need the incomplete
  flag; two flows are needed for the race between `lookupTypeId` and the lock; two
  Starts with a Stop in between for the question whether two loops can run.
- *vom_codec*: a number from 128 on takes two bytes, so that counts and lengths
  differ, and bytes 224 and 225 look like control codes where they are data. Anys
  stand next to and inside each other in every kind of value; the second message
  meets what the first left behind.
- *vdl_convert*: the protocol state that outlives a call is the three byte flags
  and the stack; depth three nests every kind in every other next to a leaf.
- *syncbase_stream*: one goroutine in the receive, one cancelling, one
  finding the stream ended.
- *syncbase_batch*: a writer whose first attempt conflicts with the commit of
  the other has a second one, and ErrConcurrentBatch from `fn` takes it through
  the last; attempts are 2 instead of 3. The theorems cover every size.
- *syncbase_conflict*: the rows of the conflicts share a key, so that mixing them
  shows; the stream may break in every row of both directions and again on retry.
- *query*: seven bytes stand for 256: zero, newline, the wildcards, an escape,
  a letter and the largest byte, which exercises the carry of `afterPrefix`.
  Clauses are every comparison with three strings, the patterns, nil tests,
  functions, field against field, and all pairs of seven leaves under `and` and `or`.

- *vom_single_shot*: two calls race to fill the cache while a third reads from
  it; two sequences of messages begin alike, so that a key that is too short
  confuses them.
- *runtime_init*: one goroutine shuts an old runtime down, one initialises, one
  is refused or shuts down again. The theorems cover every size.
- *authorization*: chains of up to three certificates, with common prefixes and
  with alterations in every part a signature covers; a cache of two entries
  cannot hold one of them whole, so prefixes stay while their extensions go, and
  the reverse. A second call meets what the first left in the caches, or races
  with it. Names have up to three components, so that a group can end before,
  inside and after a name. `PatternLaws` compares Match with `Members` for 19
  patterns and 39 names when no question fails, those to one server, those to
  all, one that comes up inside of another, or some about one name only; the
  theorem is for all sets of failures.

`CHECK_DEADLOCK FALSE` is set where the system may stop: nobody has to create
contexts, call streams or send values for ever.

### Fairness

Weak fairness says that a goroutine that is ready runs, and that a timer that
is set fires; strong fairness is used only where goroutines compete for one
`sync.Mutex` (the readers of `lookupType`, the calls on a stream), since Go's
mutex lets a waiter in eventually. Nothing is assumed of applications or
servers, with one exception: in `syncbase_conflict` Syncbase serves a stream
that stays up and the application's resolver returns, without which no conflict
could be resolved.

## 4. Deviations

The run `query_prepared` shows a disagreement between code and comment, quoted in `findings` of
PROJECT.json: executions of one prepared statement share operator nodes that
the checker overwrites (`query_parser.go:1345`).

Further ones are stated as formulas or steps of the models without a run of their own:

- `VomTypeStream!DecodeAfterStopReturns`, violated as a PROPERTY of VomTypes.cfg:
  after Stop, processLoop exits without a Broadcast and a Decode that waits for
  a type sleeps for ever, although type_decoder.go:105 says that it will "return
  errors" (type_decoder.go:75).
- `VdlConvert!SkipFinish`: SkipValue of a composite value fails the conversion,
  although coder.go:69 says that it behaves as a full sequence of calls
  (pipe.go:428). `NoProtocolError` is violated with `Source <- ListField` and `Unknown = {0}`.
- `VomEncoder!NilValue` does not count the value it writes, and the entry after
  a nil in a map to any is encoded wrongly (encoder.go:220): `Decodes` is
  violated with `Sessions <- NilInMap`. The same holds for a typed nil;
  `vom_codec` has no nil before the last entry of such a map.
- `Context!ReportedDeadlineCancels`: a context from WithRootCancel still reports
  the deadline of the ancestor it is detached from (context.go:193).
- `SyncbaseStream!ErrReturns`: Err waits for the mutex that a blocked Advance
  holds, although it "does not block" (scan_stream.go:81).
- `SyncbaseStream!DroppedIsReleased`: Exec drops an open stream when the header
  cannot be decoded (database_batch.go:107).
- `SyncbaseBatch!Commit`: RunInBatch never aborts after a Commit that was called,
  whatever it returned (batch.go:60), and the TODO at batch.go:66-68 says of a failed
  Commit that "it may be desirable to retry the Commit() and/or to call Abort()".
  A batch whose Commit was refused stays open if Syncbase does not close it, and
  so does one of which the answer to BeginBatch was lost; `NoBatchLeft` leaves
  both out (`refused`, `lost`).
- `SyncbaseConflict!CloseWithoutStream` (with `CloseEarly`): Close calls a nil
  cancelFn when no resolution stream was started (database.go:59). The run
  `syncbase_conflict` starts the stream first.
- `SyncbaseConflict!CloseEnds` with `MaxEnforce = 2`: a second EnforceSchema
  forgets the first goroutine's cancelFn (database.go:194).
- `SyncbaseConflict!SchemaNeverOlder`: the version is checked in one RPC and set
  in another (database.go:230).
- `VomDecoder!skipValue`: a skipped any that is not nil leaves the index of its
  length unread (decoder_util.go:205); what `vom_codec` skips inside a value has none.
- `VomDecoder!decodeRaw`: a RawBytes shares its any lengths with the decoder
  (decoder_util.go:65). With `KeepRaws = TRUE` TLC finds `ForwardedDecodes` violated:
  the next message has overwritten them.
- `VomDecoder!ReadValue` on a FastRead map: it does not flip `IsMapKey` where
  StartValue does, so the second key of a top-level map from structs to scalars
  is read with the element's type (decoder_fast_read.go:161). The maps of
  `vom_codec` with struct keys and scalar elements have one entry.
- `StringRanges!computeStringFieldRangesForNotLike`: ranges for `not like` leave
  out all strings with the fixed prefix, also when the pattern says more
  (query_checker.go:347). `ResultsExact` is violated with
  `Statements <- NotLikeStatements`; the run `query` has no such pattern.
- `QueryExec!ExecLookup`: Exec of a statement that another client has closed
  follows a nil pointer (query.go:77).
- `QueryWhere!collectStringFieldRanges`: `k <> v.x`, `k < v.x` and `k > v.x`
  give empty ranges although the fields differ (query_checker.go:449); the run
  `query` compares fields with `=` only.
- `QueryWhere!MatchString`: a wildcard does not match a newline (pattern.go:38 says "any").
  The tables of the run `query` contain none.
- `RuntimeInit!Clear`: a Shutdown called a second time clears initState even when
  another Init has stored its runtime there (model.go:453), after which
  currentRuntime panics; `RuntimeUsable` asks for one call of each.
- `RuntimeInit!FactoryFails`: a factory that fails leaves `runtimeStack` set
  (model.go:435), so that every later Init is refused; `QuietMeansClean` admits it.
- `Groups!MatchName` returns for the pattern `...` that the whole name matched
  and no remainders (pattern.go:62), so that in a group the entry `...` does not
  stand for prefixes of a name: with `...` in a group, a pattern that goes on
  after the group misses names. The comment there, "Since we do not allow any
  components after security.AllPrincipals, returning exactMatch is sufficient",
  speaks of one pattern and not of the pattern that refers to the group.
  `GroupAssumption` excludes such entries.
- `AccessLists!MatchedBy` of a malformed pattern matches nothing, also in NotIn;
  `Groups!MatchName` approximates it, so that the same list blacklists everybody
  (pattern.go:70).
- `Authorization!AllBut`: a list with `...` in In next to a NotIn lets in a caller
  all of whose names are blacklisted: Includes drops the blacklisted names and
  finds that `...` matches what is left, also when nothing is (acl.go:20-28, and
  `includes` of services/groups). access/types.vdl:109-110 grants
  access to the blessings of In "unless blacklisted by an entry in NotIn", and the TODO at
  security/types.vdl:32-36 that such a list does not match the name. Enforceable
  refuses such lists (acl.go:85), but nothing makes a program ask it. `Allowed`
  says what the documents say; `AuthorizedExactly` does not claim it for these
  lists, and without the exception TLC finds it violated by the call of
  MCAuthorization whose only name such a list blacklists.
- An expiry caveat holds at its time (init.go:34, and "no later" in caveat.vdl),
  although caveat.go:222 says that it holds "before" it. The model follows the code.
- `VomFormat!compat`: the sets of types seen are shared by the fields of a struct,
  so a type that was met in one field ends the comparison in the next
  (compatible.go). Compatible is a filter, and an incompatible value fails later.

One comment of the repository that the models speak against: the TODO at
type_encoder.go:80-82, "There is still a known race condition where multiple
flows send types with a cycle, but the types are referenced in different
orders". `vom_types` has that case: one flow enters the cycle A = {B, A},
B = {A} at A, another at B. encodeType runs under `encMu`, so one flow writes the
definitions of the whole cycle; all but the last, that of the type it entered at,
are flagged incomplete, and buildType builds the cycle when the last arrives.
The other flow finds that its type has an id, either before it asks for the
lock or behind it, and writes nothing. Its value may get ahead of the
definition, and then its Decoder waits in lookupType. `NoTypeError` and
`BuiltAreWhole` hold in the run, and `TypeStreamNoTypeError` and
`TypesBuiltWhole` show it for any types and flows, so the TODO is out of date.

## 5. Theorems

`ContextProofs` proves, for any set of cancelStates and goroutines
(`ContextAssumption`: the names are distinct):

- `ContextTypes`, `NothingLost`, `RegistryOpen`, `ErrorsExplained`,
  `QuietClosed`: the invariants of the run and `ErrExplained`;
- `ErrNeverChanges`: a step property;
- `ImplementsScopes`: the safety part of the refinement of CancelScope.

They follow from one inductive invariant, `ContextInv`. `NoContextLost` alone
is not inductive: that the goroutine which took a child out of a registry will
still cancel it depends on what it has on its stack, which error it carries
and that nobody else is constructing the child. Its parts are: unallocated
states are blank (`FreeIsBlank`), lists name allocated states
(`ListsAllocated`), a constructor is alone with its state
(`ConstructorsApart`), timer goroutines run after the timer
(`TimerGoroutines`), every error being carried is the cause of its call or the parent's
error (`CarriedExplained`), and who is about to be cancelled is deregistered
(`Deregistered`). There is one lemma per action (`…Inv`), and `MarkInv` for the
critical section of `cancel` that CancelSelf and CancelChild share.
`ErrNeverChanges` and `ImplementsScopes` take one case per action from the
invariant: marking a state is `CloseOwn` or `CloseWithParent` by
`CarriedExplained`, a constructor is `Create`, CancelFunc and timer are `Ask`,
the rest stutters.

`VdlVomQueryProofs` proves `PipeExclusive` and `PipeWakeups` for `PipeSpec`, the
pipe between two goroutines that call it in any order and with any arguments,
in or out of protocol: they never run between calls at the same time once
decoding has started, and nobody sleeps when it is its own turn. The inductive
invariant `PipeInv` adds to the property whose turn every program location implies.

`RuntimeInitProofs` proves, for any goroutines and calls of Init
(`RuntimeAssumption`), `RuntimeStaysUsable` and `QuietRuntimeIsClean`. The
inductive invariant `RuntimeInv` says, besides the types: what a goroutine's
place implies about its call (`Places`), that Init and a Shutdown called once
are run by one goroutine (`OneEach`), which contexts are cancelled at each step
(`ContextsFollow`), that whatever is live or in initState belongs to a call in
progress or still to be shut down, except after a failed factory (`Owned`), and
that only one call is active as long as no Shutdown is called twice (`Exclusive`).
There is one lemma per action.

`AuthorizationProofs` proves, for any goroutines, calls, certificates and limit
of the cache (`AuthorizationAssumption`):

- `BlessedIsValid`: BlessSelf, and Bless of valid blessings, make valid blessings,
  for keys that parse;
- `CacheStaysSound`: the cache holds valid chains only;
- `ValidAccepted`: exactly the valid blessings are accepted.

`CacheSound` is not inductive: what `CacheChain` puts into the cache is valid
because of what the loop before it has seen. `ChainInv` adds, for every
goroutine in the loop, that the certificates behind `cert[g]` are valid, that
the chains before `ci[g]` are valid and of one key, and that at `CacheChain`
the whole chain is valid: the prefix that was found in the cache vouches for
the certificates in it, and stays valid when it is evicted before the chain
enters. That every prefix of a valid chain is valid (`ValidPrefix`) is what
lets the digests of a chain enter one by one.

- `NamesAreProved`: RemoteBlessingNames returns no name that the roots and the
  discharges do not prove, misses none that they proved when the call began,
  and only valid signatures enter the cache of discharges.

`NamesInv` adds to `ChainInv` that the cache of discharges is sound
(`DischargesSound`) and, per goroutine (`NamesOf`), that the chains waiting in
`pending` are recognized by roots that have only grown since the call began
(`Listed`), that the names validated so far are proved and the ones skipped were
not (`Good`, `Validating`), and that of the chain being validated the caveats
before `cv[g]` hold (`Upto`, `Going`): the roots grow and the cache changes
between two caveats, and what held still holds (`MoreRoots`). The heart is
`ValidatorsRight`: whatever sound cache the validators meet, they say that a
caveat is met exactly when it holds (`Holds`, which knows no cache), and the
keys they add to the cache are of signatures that were verified. It goes layer
by layer, from first-party caveats (`FirstPartyRight`) over the verification of
one discharge (`DischargeRight`) and the caveats in turn (`InTurnRight`) to
third-party ones (`ThirdPartyRight`). The assumptions on the data are Go's types
and that a call has one discharge per id, since RemoteDischarges is a map from
ids.

- `PatternsObeyLaws`: for any groups, entries and patterns (`GroupAssumption`,
  `PatternAssumption`), Match of services/groups finds no more than the groups
  mean with the hint Under and no less with Over, whatever questions fail, and
  exactly that when nothing was approximated; PrefixPatterns are the names that
  can be extended to match; enforceable lists stay below the roots;
- `AccessAsListed`: access is granted only to a call that its list lets in, or
  by a list with `...` next to a NotIn (`AllBut`, section 4), and refused for lack
  of permissions only when the list does not let it in or an answer was approximated.

The first is about operators. `MembersSpelled` shows that `Members` is a fixed
point: the rounds only ever add words (`SpelledByLarger`), there are finitely
many (`FiniteWord`), so some round adds none (`RoundsEnd`). `TokenSound`
compares one component of a pattern with the words it spells, `NameSound`
a whole pattern by induction on its components, and `ServersSound` all servers by induction on
the number of groups not yet visited. For these inductions `NatSetInduction`
takes a set where the library's theorems take an operator. The
second adds to `NamesInv` the inductive invariant `DecisionInv`: what `done`,
`blessings` and `apprxs` say of the patterns before `np[g]`. A name is pruned
or kept by answers that were given at different moments, with different questions
failing, so each answer is bounded on its own (`AskedOver`, `AskedUnder`), and the
invariant keeps what the bounds of all answers so far imply. `IncludesAllowed` is
the same for the lists of security/access, which have no groups and ask nobody;
`OpenAllowed` is what `...` in In implies.

`SyncbaseBatchProofs` proves, for any clients, attempts and losses,
`BatchTypeOK`, `RunInBatchAtMostOnce`, `RunInBatchResult` and
`RunInBatchCleansUp`. `AtMostOnce` is not inductive: a second attempt is
harmless only because the first one is known not to have committed. `BatchInv`
adds what each place of RunInBatch knows about its commits (`KnowsCommits`:
none before Commit has been called, and none once ErrConcurrentBatch came back)
and about the batch still open in Syncbase (`EndsBatch`). `RunInBatchCleansUp` says
that whatever stays open after an attempt is a batch of which a call was lost or
whose Commit was refused: a batch that is not to be committed is aborted on
every path, panics included. It assumes nothing of what Syncbase does after a refusal.

`SyncbaseStreamProofs` proves, for any goroutines, elements, header row and
calls, `StreamTypeOK`, `StreamFinishOnce`, `StreamNilErrMeansAll`,
`StreamStagesInOrder` and the step property `StreamCancelStops`. `StreamInv`
adds who may still call Finish (`FinishFlow`), what Exec has done of the stream
it returns (`Opening`), where a recorded status comes from (`StatusFlow`), and
that what was staged are the wanted ones of the elements received so far
(`Staged(received)`), which is stated with a monotone enumeration of their
positions so that one more element extends it. `StreamAssumption` says only
that elements are a sequence and `header` a flag.

`SyncbaseConflictProofs` proves `ConflictTypeOK`, `OnConflictWholeConflicts` and
`SyncbaseGetsWholeResolutions` for any conflicts, rows and number of broken
streams. Neither property is inductive: that `acc` is a whole conflict when the
resolver is called depends on what the stream has delivered and still holds.
`ConflictInv` describes the conversation of each goroutine with Syncbase
(`Conversation`): `Disconnected`, `Quiet`, or `Talking` about one conflict,
where the rows received and the rows on the way make up the conflict
(`Arriving`), the resolution has as many rows as the WriteSet (`Resolving`),
and the rows sent, on the way and still to send make up the resolution
(`Sending`, `Sent`). `FreshGoroutine` says that an unused goroutine is blank.
`ConflictAssumption` also says that 0 names no conflict and that every conflict
has a row that was written, without which Syncbase has no conflict to report.

`VdlVomQueryProofs` also proves, for any goroutines, calls and byte strings,
`SingleShotSharedNotWritten` (no data race on maps that TypeDecoders share) and
`SingleShotDecodesAlone`: whoever filled the maps, a call fails exactly when
its bytes alone cannot be decoded, and the types it returns are exactly those
that its own bytes define. `ShotInv` says that the
supply of maps suffices (`MapsSuffice`), that maps are written by their maker
only, until they are cached or it has returned (`Ownership`), that maps hold
what the messages of their cache key define (`Contents`) and that results come
from there (`Answer`). `Contents` has two halves: the two maps together hold the messages read
(`Holds`), and the built types are those below the complete messages among them
(`Built`). `BuildRight` keeps the second: what buildType builds and what was
built before are together the types below one more message, and it fails
exactly when one of those has not arrived. The types below one another are
least closed sets (`Reach`), so that inclusion either way is an instance of
`ReachLeast` or `ReachClosed`.

The same module proves for QueryExec, whatever where clauses mean and however
the datasource scans, refuses and fails: `EndedReleaseStreams` (no execution
ends with its stream open) and `DeletesCountRight` (`CountsRight`, the part of
`DeleteExact` that does not speak of clauses: a delete counts exactly the rows
that it removed, two deletes never count the same row, and limits are kept).
`QueryAssumption` says that limits and offsets are naturals. `ExecInv`
adds what an execution has at each place (`RunOK`): nothing before its scan
(`Unstarted`), afterwards only rows that are gone from the table and that the
datasource does not protect (`Within`). That nobody else counts a row follows
from the table, which has no row that somebody has deleted.

For StringRanges it proves, for all strings and any largest byte
(`MaxByteAssumption`), `LikeRangeExact`, `SingleValueExact`, `IntersectionExact` and
`MergeExact`: the ranges made for `like` and for `=`, the intersection and the
merging of ranges hold exactly the strings they should. These are the leaves
and the steps of the recursion of `collectStringFieldRanges`. `BelowIsFirstDigit` reads
strings as infinite sequences of digits, where order is a matter of the first
difference; from it the order is linear (`BelowIrreflexive`, `BelowTransitive`,
`BelowTotal`; the first difference exists by `LeastNat`), which is all that
intersection and merging need. For `like`, `AfterPrefixGrows` says which digits
afterPrefix leaves.

`VomTypeStreamProofs` proves `OneLoop`, `TypeStreamNoTypeError` and
`TypesBuiltWhole` for any finite set of types with any references between them
(`WireAssumption`), any flows, and any calls of Start and Stop. That the decoder can build a type when
a complete message for it arrives is a fact about the whole history of the
stream, so `TypeStreamInv` follows every message from `encodeType` to
`idToType`:

- the encoder: ids are handed out in sequence, one to a type (`Ids`), and each
  call on the stack of encodeType works on the current child of the call below
  it, with ids for the children before (`Stack`);
- every message, on the wire, in the loop's hands, in idToWire or in idToType,
  says what its type refers to (`Contents`), exists once and not yet for a type
  on the stack (`OneMessage`), and an assigned id was written or is pending
  (`Accounted`);
- what a complete message needs was written before it (`CompleteReady`). The
  lemma behind it is `CompleteIsReady`: the types below t that were written are
  closed under references, because what they refer to has an id and is not
  pending, so they are all of Walk(t);
- built types refer to built types (`BuiltClosed`), and a type that is written
  and not built is below a complete message under way or below the outermost
  call of encodeType, whose message will be complete (`Covered`);
- EOF is seen after everything else (`EofLast`).

`MakeTypeFinds` turns this into buildType's success: makeType visits only ids
that have arrived, and all unbuilt ones below the type. `Walk` and `MakeType` are least
closed sets, so neither side needs induction. Both theorems cover flows that enter a
cycle of types at different types, which the TODO at type_encoder.go:80-82
takes for a race (section 4).

Only model-checked:

- all liveness properties, which need fairness;
- VdlConvert (`NoProtocolError`, `ConvertsWhole`) and VomCodec (`Decodes`,
  `ForwardedDecodes`, `NothingCarriedOver`): what they compute is
  defined by recursion on trees or on byte strings, and the properties compare
  two such recursions. The RECURSIVE operators they need cost tlapm its SMT backend;
- `ResultsExact`, and of `DeleteExact` that the deleted rows are those the clause
  accepts: both rest on QueryWhere, which recurses over clauses (the theorems
  above cover what it does at each node with `like`, `=`, `and` and `or`), and
  `ResultsExact` does not hold for every statement (section 4).

## 6. Plan

1. **VdlTypeBuilder** (vdl/type_builder.go): validity checks, hash-consing,
   `containsKind` against the kinds reachable from a type.
2. The pure algorithms (naming, glob, uniqueid, flow/message, syncbase/util)
   checked against reference definitions.

## 7. Not modelled

Generated code (`*.vdl.go`), test corpora, interfaces without an
implementation, Go reflection (`rpc/reflect_invoker.go`; of `vdl/reflect_*.go` only the calls are modelled),
cryptography, the text of queries and error messages, and message
catalogues. Of `vom` and `vdl` values: floats and integers wider than 16 bits. Of `security`: SigningBlessings, RootBlessings, OverrideCaveatValidation
(which panics with its mutex held when called twice, blessings.go:379), disabling of the
signature caches, the authorizers of security/authorizer.go (which compare names or keys
without state), and discharges that depend on discharges more than twice. The RPC
system's fetching and indexing of discharges is external: a discharge is found by its own id.
Functions of model.go that only forward to the runtime are left out; two of
them read initState.runtime without the lock (model.go:254, 260).
`components` in PROJECT.json lists every part with its reason.

Of the repository's 180,000 lines of Go most are generated (`*.vdl.go`) and state no
behaviour of their own; some 38,000 lines are written by hand and are not tests, and the
map covers the ones that carry state or algorithms, as section 1 lists them.

## 8. Running

```
tlc -workers 2 -config Context.cfg MCContext
tlapm ContextProofs.tla
```
