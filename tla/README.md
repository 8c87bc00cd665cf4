# TLA+ models of the Sink Go SDK

The SDK (`src/`) is a client library for a record store behind gRPC.  These
modules model the parts of it whose correctness depends on order: what happens
when goroutines, timers, retries, deadlines and a server that fails half-way
interleave.  TLC checks them on small instances; TLAPS proves their safety properties for every
value of the constants that the named assumptions admit, the values of the code among
them.  The codec of the protocol messages is the exception: of it only the sizes are
proved.

## Inventory of the system

| Part | Source | State it keeps | Operations | What is hard |
|---|---|---|---|---|
| DNS refresh resolver | `dns_refresh.go` | one goroutine's underlying resolver and timer; channels `updates`, `hints` (one slot each), `stop`, `done`; a `sync.Once` | `Build`, `UpdateState`, `ResolveNow`, `refresh`, `Close` | callbacks of the old resolver racing with its replacement and with `Close`; a schedule that must not be lost; deadlock in `Close` |
| Record reads | `client.go` `Read`, `readOperationsWithRetry`; `results.go` | per call: batch, pending operations, attempts, results | split, send, decode, retry, merge, renumber | three numberings of one operation, partial answers, a shared retry budget, errors after partial success |
| Record mutations | `client.go` `Write`, `writeBatch`, `Delete`; `results.go`; `types.go` | per call: batch, programs of a request, results | validate, split, send, decode, renumber | effects on the server after the client gave up; batches that fail after others took effect |
| Scan | `native.go` `Scan`; the loop in `README.md` | per call: attempts, deadline; per application: saved cursor | validate, attempt, back off, check a page; process, save | retry without running the backend twice, deadline racing backoff, restarts, end of a traversal |
| Native single calls | `native.go` `Execute`, `NewBSONCommand`; `query.go` `Query`, `Count`; `CheckHealth` | none; per application: the next page | check, one attempt, check of the response | a command that runs after its caller gave up; page length against `HasMore`; a Dataset's command against another resource |
| Retry policy | `client.go` `normalizeRetryPolicy`, `nextBackoff`, `jitteredBackoff` | none | defaults, growth, jitter | numeric edges |
| Dataset | `dataset.go`, `dataset_native.go` | client, URI, encoding, program | thin layer over records and native calls | joining a call's error with the failures of its partial results |
| Client construction | `client.go` `Dial`, `New`, `Close` | connection ownership, limits | | |
| URI and key codec | `uri/`, keys and addresses of `types.go` | none | parse, format, append | two records of one name, one record of two names |
| Documents, programs, operations | `types.go`, `wire.go` | byte slices | make, copy, check, convert | slices the application still writes to; a digest that no longer fits |
| gRPC codec | `grpc_codec.go` | pooled buffers shared by the process | `Marshal`, `Unmarshal` | a buffer returned twice, too early or never |
| Generated code | `api/sink/v1` | none | `SizeVT`, `MarshalToSizedBufferVT`, `UnmarshalVT`, client stubs | three generated functions per message that must agree; bytes from newer or faulty peers |

A `Client` has no mutable state of its own: concurrent calls of `Read`, `Write`,
`Delete` and `Scan` share only the connection and, through the codec, the buffer
pool of the process.  One call is therefore the right unit for the record, scan and
native modules; the concurrency in them is between the client, the server and the
clock.  `CodecBuffers` is about several calls at once.  The resolver is the one place
where the SDK starts a goroutine.  The connection that `Dial` makes drives it: gRPC calls
`Build`, `ResolveNow` and `Close`, and receives the addresses through
`UpdateState`.

## Modules

| Module | Models |
|---|---|
| `AddressSource` | abstract: what a channel may rely on when it gets its addresses |
| `DNSRefresh` | `dns_refresh.go`, whole; implements `AddressSource` |
| `DNSRefreshProofs` | its invariants and the refinement, proved |
| `Results` | `results.go` and the index remapping of `client.go`, as operators |
| `RecordReads` | one call of `Client.Read` |
| `RecordMutations` | one call of `Client.Write` or `Client.Delete`, and the server's side of it |
| `ScanPages` | a traversal with `Client.Scan` |
| `ScanPagesProofs` | its invariants, proved |
| `RetryPolicy` | `RetryPolicy` and its arithmetic in `client.go`, as operators |
| `RetryBackoff` | the passing of time in the retry loops of `Read` and `Scan` |
| `ClientLifecycle` | `Dial`, `New`, `newClientConfig`, `Close` |
| `ClientsProofs` | the invariants of `RetryBackoff` and `ClientLifecycle`, proved |
| `BatchErrors` | `BatchError` and the joining of errors, as operators |
| `DatasetReads` | `Dataset.Read`, composed with `RecordReads` |
| `DatasetMutations` | `NewDataset`, `Create`, `Replace`, `Upsert`, `Merge`, composed with `RecordMutations` |
| `DatasetReadsProofs`, `DatasetMutationsProofs` | the invariants of the record modules and of the Dataset on top of them, proved |
| `NativeCalls` | `NewBSONCommand`, `Execute`, `Query`, `Count`, `CheckHealth`, and the Dataset's binding of commands |
| `ResourceURI` | package `uri`, keys and addresses of `types.go`, as operators, and the URIs an application holds |
| `ByteOwnership` | documents, programs, operations and their messages over shared byte slices |
| `NativeCallsProofs` | the invariants of `NativeCalls`, proved |
| `RecordValuesProofs` | the invariants of `ByteOwnership` and `ResourceURI`, and the sizes of `VTMarshal`, proved |
| `SinkMessages` | the message types of `sink.pb.go` |
| `Protowire` | the pieces that recur in the generated functions that write: numbers, varints, fields and their sizes |
| `ProtowireReader` | the pieces that recur in those that read: the loop of `UnmarshalVT`, `skip` |
| `VTMarshal`, `VTUnmarshal` | `SizeVT`, `MarshalToSizedBufferVT` and `UnmarshalVT` of every message |
| `MessageCodec` | a message marshalled, sent as it is or in another form, and unmarshalled |
| `UnaryCalls` | abstract: what a client stub promises |
| `CodecBuffers` | `vtProtoCodec` with the pool and the transport; implements `UnaryCalls` |
| `CodecBuffersProofs` | its invariant and the refinement, proved |
| `MC...` | the root modules of the runs |

`MCDatasetReads` and `MCDatasetMutations` run the record modules both directly and
through a Dataset.  `MCClients` runs `ClientLifecycle` and `RetryBackoff`,
`MCRecordValues` runs `ByteOwnership` and `ResourceURI`: two specifications without
common state, each explored while the other is in its initial state, so that no
interleaving without meaning is counted.

Operators whose comment begins with *Faulty variant* are deliberate mistakes: each
replaces the definition after it to show that a property fails when the code is
wrong in that way.  No specification uses them.

### DNSRefresh

`pc` is where `Build` and then `refresh` stand.  Each `case` of the `select` is an
action, guarded by its channel; when several are ready any may be taken, as in Go.
The timer case has three steps, because `underlying.Close()` blocks until the
watcher has left its callbacks and other goroutines run meanwhile: `SelectTimer`,
`Drain`, then `Rebuild` or `RebuildError`.  Likewise `SelectStop` and `Exit` are the
deferred calls.  The underlying resolver is gRPC code; its watcher is modelled from
what this file relies on: it looks up, calls `UpdateState` (`UpdateAccepted` or
`UpdateRejected`, then `SendUpdate` for the token), rests until a hint, pauses, and
ends after it was cancelled when it next waits.  Time is abstract: an armed timer may
fire at any later moment.  `closer` and `once` are the callers of `Close` and the
`sync.Once`.

`AddressSource` is what the channel may rely on, without goroutines and timers: one
resolver delivers at a time, it is replaced only after it has delivered, and none
delivers after `Close`.  `DNSRefresh` implements it with the running watchers as
sources.  A literal address, for which gRPC's own resolver is used, starts none.

Checked: `CloseIsFinal`, `FirstLookupKept`, `RefreshScheduled` (invariants),
`OneSourceAtATime` (the refinement of `AddressSource`), `CloseReturns`,
`AddressesRefreshed` (liveness); `SoleResolver` is proved only.  Two resolver
identities (reused once closed) and two callers of `Close` are enough: the goroutine
only ever holds one resolver, so a second one makes any overlap visible, and a second
caller every order of two calls.

Fairness: timers fire, calls return, goroutines run (weak fairness); a `select` case
that is ready again and again is taken eventually, since Go draws among ready cases
at random (strong fairness for `stop`, for the timer, and for the cancellation that
the watcher selects on).  Nothing is assumed about DNS: lookups may fail for ever.
The run does not check deadlock, because a closed or literal resolver really stops.

Finding (`dns_lookup_interrupted`): the comment in `refresh` says that slow lookups
keep their resolver.  `FirstLookupKept` holds, and is proved, for the first lookup
of a resolver.  A lookup that a hint starts later runs under the timer of the
earlier update, and the timer closes it.

### Results

A Go slice is a function on `0..n-1`.  `ReadDecodable`, `WriteDecodable` and
`DeleteDecodable` are the checks that `decode...Response` makes, `Decoded` is the slice it
returns.  A wire result carries, for
checking only, the operation `of` that the server really answers.

### RecordReads

`Call` and `Reject` are the validation, `Attempt` the body of the retry loop in its
five outcomes, `BackoffElapses` and `BackoffCancelled` are `waitForBackoff`.  A
response is any slice of wire results of the right length or one too short, in any
order, with repeated or out-of-range indexes and malformed bodies among them.
`pending` is the list of batch indexes that the next request carries; after a partial
response only retryable operations stay in it, so that a position in the request, an
index in the batch and an index in the call are three different numbers.

Checked: `ResultsAligned`, `RetryBudget`, `PrefixReturned`, `SettledNotResent`,
`ReadReturns`, in the run of `DatasetReads`.  Three addresses in batches of two give a full and a short batch; two
is the smallest batch whose pending list can be narrowed to its second operation; with
three attempts a list is narrowed and an attempt still follows.  Fairness: an RPC ends
and a backoff passes.  Deadlock is not checked, since the call ends.

Finding (`reads_hidden`): `SuccessesReturned` states what `OperationError` and
the SDK's README say of a batch.  It fails: when the retry of one record fails as a
whole, the records of its batch that were already read are not returned.

### RecordMutations

The server decides the operations of a request one by one (`ServerDecides`), also
after the client's RPC has failed, and applies accepted ones later
(`ServerApplies`), at least once: an accepted operation may stay in the backlog and be
applied again, which is all that the SDK's README promises of the server.  `sent` counts
the requests that carried an operation, `effect` are the operations that took effect.  One
request is one call of the generated stub; what gRPC does to deliver it is below the SDK.
A response states the decisions, or is garbled; the server is trusted not to misstate one.  With
`CompletionReturnAfterAccepted` it accepts, otherwise it applies, as the protocol file
defines the modes; either way it may turn an operation down.

Checked: `SentOnce`, `RejectedWithoutEffect`, `ResultsTruthful`, `DoubtConfined`,
`ProgramsDeclared`, in the run of `DatasetMutations`.  Three operations in batches of two put an operation
before, in and after a failed batch; two programs let a batch, and two batches, use the
same and different ones.

### ScanPages

`cursor` is the request's cursor, `saved` what the application persisted.  Documents
`1..Total` are served in order; a page may be short, too long, without documents, with
a cursor that is too large or a document that does not validate.  `Restart` lets the
application stop anywhere, also inside a page.  `BackoffElapses` may be taken after
the deadline, because `select` is free to; the check before the next attempt then stops
the call.  That check (`CheckContext`) and the send (`StartAttempt`) are two steps, since
the deadline may pass between them; `late` counts the requests that went out all the same.
The data set is constant: what the SDK's README says about concurrent
changes is a property of the server.

Checked: `BackendOnce`, `NothingSkipped`, `ReplayOnlyAfterRestart`,
`OneLateAttempt`, `ScanFinishes`; `CursorUsable` is proved only.  `OneLateAttempt` is as
much as the code can promise: one request may slip out behind the deadline, and no retry
follows it.  Three documents and pages of at most two make a traversal of two pages or more; two attempts make the last one a retry; the limits of
100 and 1000 are constants of value 1 and 2, so that both the default and the limit
are reached.  `ScanFinishes` assumes strong fairness for the check before an attempt, for the
server executing and for a good page: a server that fails for ever ends no traversal.

### RetryPolicy and RetryBackoff

Durations are integers; the two `float64` fields count in units of `1/Scale`, or are
`NaN`, which compares false with everything.  `Accepted` and `WithDefaults` are
`normalizeRetryPolicy`, which checks some conditions before and some after the defaults
are in place.  `NextBackoffs` and `JitteredBackoffs` are sets of possible results: the
second because of `rand`, the first because converting NaN to a `Duration` depends on
the machine.  Rounding of `float64` is left out, truncation is not.

Checked: `BackoffBounded`, `WaitBounded`.  The instance has 1,440 policies: refused, zero
and ordinary values of each field, a cap below the default start, a multiplier of 1.5
whose product is truncated, and NaN.  Both properties are about policies without NaN.
`NormalizeSettled` and `BackoffMonotone` are proved only.

Finding (`retry_without_backoff`): a `Multiplier` that is NaN passes all checks, and the
retries after the first then do not wait.  `RetriesSpaced` states, for the default
jitter, that they do.

### ClientLifecycle

`rpc` is the connection a client uses, `connection` the one it owns and closes; `maker`
and `closer` record who opened and closed a connection.  `Dial` is one action, because
its connection is known to nobody else before it returns.  Call options, credentials and
the precedence of dial options are gRPC's.

Checked: `NoLeak`, `OwnershipKept`, `ClientsUsable`.  The last one discharges what the
record, scan, retry and resolver modules assume of their constants: batches of at least
one operation, at least one attempt, time for a scan, an interval for refreshes.  Two
clients share a connection or do not; a third connection leaves room for a failed `Dial`.

### BatchErrors, DatasetReads and DatasetMutations

These extend `RecordReads` and `RecordMutations`: the client's call runs inside the
Dataset's, with all its retries, batches and server behaviour.  `err` is the error the
method returned, with the error of the call and the failures of the `BatchError` kept
apart, as `errors.Is` and `errors.As` can.  A key or a record can be encoded or not; what
the encodings are is not modelled.  Create, Replace and Upsert differ in a write mode
that only the server interprets.

`ClientRead` and `ClientMutation` are the same calls made by an application without a
Dataset, so that one run covers both.

Checked: `NilMeansRead` (reads), `NilMeansTaken`, `FailuresPreserved` (mutations).  They
relate what the caller is told to what the server decided; `FailuresPreserved` includes
that a record that cannot be encoded is reported and leaves no effect.  Bounds as for the
record modules.  Deadlock is not checked in these two runs, since the call ends.

### NativeCalls

An application makes one call after another; between the pages of a traversal with
`Query` it runs other commands.  `Call` is the checks of a call in the order of the code,
with `Bindable` and `Bound` in front when a Dataset makes it, and one send.  A request in
flight may run (`ServerRuns`) or be lost, before or after the stub has returned an error.
Commands are the classes that `toProto` tells apart.  `Dataset.Scan` is the same binding
in front of the `Scan` of `ScanPages`.  Health checks and `Raw()` use gRPC's own codec.

Checked: `RunOnceAsGiven`, `ReturnTruthful`, `PagesComplete`.  Three documents in pages of
one, two or three make the last page short, full, or the only one; `MaxUint32` is 7, which
no page number of such a traversal exceeds.  A server that ends a traversal early (a short
page without `HasMore`) cannot be noticed by a client, and is not among the answers.

### ResourceURI

Text is a sequence of byte codes and every conversion is carried out: escaping,
unescaping, base64 with its strict mode, decimal integers, splitting.  `Parse`, `New`,
`FormatKey`, `ParseKey`, `AppendKey` are the functions of package `uri`; `MakeRecord`
builds an address from a resource and a key, `TakeAddress` takes one from text: any of
the texts `Offered`, or a respelling of an address made before.  UTF-8 is complete, from
one byte to four.  Scaled down in the run: an `int64` key has two bytes (`IntBytes`; eight
in the code), and the keys include both ends of that range and numbers whose bytes differ;
the length limits.

Checked: `KeyIdentity`, `OneSpelling`.  Both compare two addresses, so two at a time are
enough.  The keys use the same few bytes in every type, among them the separators.

### ByteOwnership

A slice is a model value with contents in `bytes`; `app` are the slices the application
holds and may write to at any time (`AppWrites`).  A constructor copies or keeps a slice
as its code does, an accessor hands out a copy, an operation shares the slices of its
document and program, a message has copies.  `was` is a history variable: the contents a
document was made from.  A digest is the contents digested.

Checked: `ValuesKept`.  Five slices: the application's, a document's and a program's, and
two for a message or for an older document and program still in an operation.

### SinkMessages, Protowire, VTMarshal, VTUnmarshal and MessageCodec

The generated code repeats a few patterns in every function; `Protowire` (writing) and
`ProtowireReader` (reading) have each of them once, and `VTMarshal` and `VTUnmarshal` say which fields each message has, with which tag,
wire type and treatment.  Size, encoder and decoder are three translations of three
functions: nothing in the model makes them agree.  A number is the sequence of its
base-128 digits, so that 32 and 64 bits keep their width and sign extension is visible.
The length of a field has at most five digits: gRPC sends no longer messages.
`SinkMessages` has the set of all values of each struct (pointers may be nil, also in a
list); `MessagesAssumption` says that the messages of a run are among them.
All errors of `UnmarshalVT` are one value, because the caller drops the message whatever
the error is.  `MessageCodec` marshals a message, lets the peer send it as it is, with
fields of a newer schema, cut, with a byte changed, or joined with another message, and
unmarshals what arrives.

Checked: `RoundTrip`, `ForwardCompatible`, `ReencodeStable`.  The messages of
`MCMessageCodec` set every field of every type, and leave every field at its default;
numbers have one, two, five and ten bytes.  Not among them: a oneof that is set to a nil
message.  For it the generated `SizeVT` announces three bytes and the encoder writes two,
but `wire.go` builds each oneof with a message in it.

### CodecBuffers and UnaryCalls

`UnaryCalls` treats messages as values: the peer hears what was asked, the caller is told
what was answered, and keeps it.  `CodecBuffers` has the buffers.  `GetBuffer`, `FillBack`,
`FillFront`, `MarshalFails`, `MarshalMissized`, `HandOver` and `MarshalSmall` are the
paths of `Marshal`; `UnmarshalNotVT`, `MaterializeOne`, `MaterializeTwo`,
`Decode` and `FreeFlat` are those of `Unmarshal`.  The
transport (external) keeps a reference while another attempt is possible, queues the
request, writes it later, possibly after the call has ended, and delivers a reply in one
or two buffers.  A buffer in the pool holds junk, since anyone may be writing to it.
A buffer has two cells, so that it can be half written.  That a `Marshal` may fail or fill
less than it announced is the interface of the codec; `MessageCodec` shows that the
generated code does neither.

Checked: `EachBufferOnce` and the refinement `CallsByValue`, which is `UnaryCalls!Spec`
under a mapping that reads messages from the cells.  A buffer that is returned early shows
as junk heard by the peer or kept by the caller.  Two calls make a buffer move from one to
the other; five buffers let both hold all they can.

## Runs

| Run | Asks | Result | Distinct states |
|---|---|---|---|
| `dns_refresh` | one resolver at a time, nothing after `Close`, `Close` returns, refreshes go on | passes | about 7,800 |
| `dns_lookup_interrupted` | are slow lookups kept? | violates `LookupNotInterrupted` | |
| `scan_pages` | does a traversal process everything, and run the backend once per answer? | passes | about 6,400 |
| `reads` | do results fit their operations, through retries, batches and a Dataset? | passes | about 18,600 |
| `reads_hidden` | are successes returned beside failures? | violates `SuccessesReturned` | |
| `mutations` | is what the caller learns what the server did, and was each operation sent once? | passes | about 168,000 |
| `clients` | are connections closed by their owners, limits usable, waits bounded? | passes | about 12,100, up to symmetry of clients and connections |
| `retry_without_backoff` | do retries wait? | violates `RetriesSpaced` | |
| `record_values` | has each record one name, and each value its bytes? | passes | about 83,000, up to symmetry of slices |
| `message_codec` | do size, encoder and decoder agree, also on foreign bytes? | passes | about 80,800 |
| `codec_buffers` | do calls behave as if messages were values? | passes | about 89,600, up to symmetry of buffers and calls |
| `native_calls` | is a command run once, as given, and truthfully reported? | passes | about 5,800 |

Fairness is assumed in `dns_refresh`, `scan_pages` and `reads` (weak fairness of `Attempt`
and `BackoffElapses`: an RPC ends, a timer fires), as said above.  The other runs check
safety only; nothing in those parts of the code waits for anything but gRPC.

## Proofs

`DNSRefreshProofs` proves type correctness, the four safety invariants of the
resolver and the refinement `OneSourceAtATime` for any set of resolver identities and
callers, assuming only that `None` is not a resolver.  None of the four is inductive by itself.  `IInv` adds where the
watcher and the goroutine must stand: no watcher runs after the wait of `closing`, no
token is left after `Drain`, a token or a running timer belongs to the resolver in
hand, and `done` is closed only after the exit.  One lemma per group of actions
(`RefreshIInv`, `WatcherIInv`, `CallsIInv`) shows that it is preserved.  For the
refinement `RetiredForReason` says why the goroutine may be ending a resolver: the
resolver has delivered, or `stop` is closed.  Then a `Build` is a `Start`
(`BuildStarts`), an accepted update a `Deliver` (`UpdateDelivers`), the end of a watcher
a `Retire` (`ExitRetires`), the first `Close` begins and ends the closing
(`CloseCloses`), and nothing else shows (`OthersHidden`).

`ScanPagesProofs` proves the four invariants and the action property of a traversal
for any data, retry policy, batch limits and number of restarts.  Its invariant
describes a *frontier*: the saved cursor, or the last document processed of the page in
hand.  Everything up to it has been processed, everything beyond it only in earlier
runs.  `AttemptInv` says that the backend has not run in a call that is about to try
again, and `PageInv` that a page in hand continues the saved cursor.  For `OneLateAttempt`
it says that a late request leaves a context that is done for good, so that no check is
passed after it: a call past the check has sent none late.

`ClientsProofs` proves, for every set of policies and all defaults that are themselves
acceptable, type correctness, the three invariants and the action property of the retry
loop, and for any number of clients and connections the three invariants of
`ClientLifecycle`.  The two share `NormalizedPolicy`, what `normalizeRetryPolicy`
guarantees of the policy it returns, and `FixedPoint`, that it accepts that policy again;
the first is the loop's assumption, both are what `ClientsUsable` says of a client.  For
the loop the invariant adds where the attempt count stands (`AttemptInv`) and the bound of
a single delay (`DelayInv`); the arithmetic is in `NextBackoffRange` and `JitterRange`.
For the clients `OwnerInv` adds that a connection nobody opened is absent and that the
connection a client owns was dialled: without
it `Close` could close a connection of the caller's.

`DatasetMutationsProofs` proves the five invariants of `RecordMutations` and the two of
`DatasetMutations` for any number of operations, any batch size, any programs, and a server
that works at any time, also after the call has failed.  `OperationInv` gives each operation
its life: on its way at most once and only while its batch may be out, then decided once and
for all, with the effects that follow from the decision.  `Answers` says what a result in
the caller's hands states of it.  `EveryIndexAnswered` is the pigeonhole argument behind
`validateResultIndex`: indexes in range and never repeated leave no operation without an
answer.  `DeclaredOnce` shows that the first merge that uses a program, and no other,
declares it, from the least element of the set of its users (`LeastNatural`).

`DatasetReadsProofs` proves the three invariants and the action property of `RecordReads`
and the invariant of `DatasetReads`, for any number of addresses, batch size and attempts.
`BatchInv` says that the pending list has no repetition and that every operation of the
batch is either in it, unanswered or failed retryably, or settled; `SentInv` that all
pending operations have been sent equally often, that nothing behind the batch was sent and
that no budget is exceeded.  `DecodedAnswers`, `RenumberAnswers`, `MergeAnswers` and
`FinishedResults` follow an answer through the three numberings; `InOrderComplete` shows that
narrowing the list loses none of the operations to be retried.

In both modules `DatasetIsClient` shows that a Dataset does to its client only what an
application could do itself (`DatasetSpec => Spec`), so that the theorems about `Spec` hold
for the runs, which check `DatasetSpec`; the theorems about the Dataset's error add
`StepInv`, which ties the error to the call it came from.

`CodecBuffersProofs` proves `EachBufferOnce` and the refinement `CallsByValue` for any
finite set of calls, any buffers and any messages.  The invariant has four parts: what a
call has at each of its steps (`CallInv`); where a buffer is, in the pool, with the one call
that fills it, or referenced (`PlaceInv`); that its references are as many as its holders
(`CountInv`); and that its cells are what its users put there (`DataInv`).  The last part is
what the refinement needs and is preserved only because of the others: `Exclusive` and
`HeldCounted` show that nobody else uses a buffer which a step writes to or returns.
`QuietStep`, `RefStep` and `FreeStep` reduce each action to its own call.  In the refinement
`Values` shows that neither what the peer heard nor what the caller has depends on a buffer
any more; then each action is one step of `UnaryCalls` (`InvokeAsks`, `WriteHears`,
`ReceiveAnswers`, `DecodeTells`, `ErrorFails`, `FinishCloses`) or does not show
(`BuffersDoNotShow`).  Assumed (`ThingsApart`): messages, marks and buffers are different
things.

`NativeCallsProofs` proves all three properties of native calls for any commands, any
number of documents and any page size.  `CallsInv` says that the store has run the command
of the call or that a request may be on its way, never both, and that an answer means that
it ran; binding is shown to change nothing that was given (`BoundKeeps`).  `LoopInv` says
where the traversal stands: what was seen are exactly the documents before the next page.
`OnlyThePage` is the heart of it: of all that the server may answer, only the page that was
asked for passes the checks of `Query`.  Assumed: page sizes within the limit, other page
numbers and sizes outside of it, and commands with the fields of `Command`.

`RecordValuesProofs` proves `ValuesKept` for any number of slices and any contents.  Its
invariant adds that no slice of a document, a program, an operation or a message is one of
the application's; `ValuesUntouched` shows that a step that writes only to other slices
keeps every value.

It also proves `KeyIdentity` and `OneSpelling` for all stores, paths, keys and texts that
are made of bytes, whatever text is offered as an address (`Offered` may be all of them),
any length limits and integer keys of any number of bytes, eight included
(`InputsAssumption`, `IntWidth`; `ErrorAssumption` says that `Error` is no text, number or
key).  The argument is that every conversion has an inverse.  `UnescapeEscape`: unescaping
undoes escaping.  `DecodeEncode`: decoding undoes base64, for each of the three lengths of
a last group.  `ParseFormatInt` is the same for decimal integers, `SignedUnsigned` for the
bytes of an integer in two's complement, `SplitJoin` and `JoinSplit`
for segments.  From these `KeyRoundTrip` shows that a segment names one key, its type
included; `ParseNew` that an accepted URI is the text that `New` makes of what was read in
it, hence the only spelling; and `NewParse` that no separator in a segment is lost or
gained.  The invariant `URIInv` says that every address in hand is what `Parse` makes of its
own text, whichever way it was come by, and that an address made from a resource and a key
is what `AppendKey` makes of them: without it two addresses could not be compared.

It also proves `SizesAgree`: for every message of every RPC, `MarshalToSizedBufferVT` writes
as many bytes as `SizeVT` counts.  These are two functions that are generated separately,
and the codec relies on both: one gives the size of the pooled buffer, the other fills it
from the end.  The proof follows the structure of the messages.  `Fits(b, n)` says that b is
a byte string of length n; it is kept when pieces are put one after the other (`FitsCat`),
there is one lemma per kind of field (a varint of any width, a sign-extended enum, the two
loops over a repeated field) and one per message type, each citing those of the messages
inside it.  It is half of what `RoundTrip` checks.

The lemmas about texts and loops are inductions over their length.  The induction theorems of the library take an
operator as a parameter, which no installed prover instantiates; they are replaced by
set-valued ones that follow from the existence of a least element (`WFMin`).  A recursive
function over a sequence is shown to exist once and for all (`ScanExists`), and
its values are then characterised position by position.

Not every theorem is also a run property: type correctness, `SoleResolver`,
`CursorUsable`, `NormalizeSettled`, `BackoffMonotone`, `SizesAgree` and the inverses just
named are proved, which is more than a run would show.

Only model-checked: the liveness properties (`CloseReturns`, `AddressesRefreshed`,
`ReadReturns`, `ScanFinishes`), which rest on fairness; and `RoundTrip`,
`ForwardCompatible` and `ReencodeStable` of the protocol messages, but for the sizes.
`ProtowireReader` decodes by operators that are declared RECURSIVE, one message type inside
another, which the prover does not support.

## Plan

1. `ProtowireReader` with recursive functions in place of recursive operators, and on it
   the lemma that a varint that was encoded is decoded to its number and its length.
2. From that, that `UnmarshalVT` reads what was written, one message type at a time: the
   rest of `RoundTrip`.

## Not modelled

Of the generated code: descriptors, reflection and accessors of `sink.pb.go`, which keep no
state and have no control to model; the server stubs, which the SDK does not use;
`MarshalVT` and `MarshalToVT`, which the codec does not call.  Further: JSON and BSON syntax
(a document is valid or not); the text of errors; message size limits and TLS, which gRPC
enforces; load balancing, which is gRPC configuration; the tests and scripts.
