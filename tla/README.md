# QDF in TLA+

TLA+ models of the Go serialization library in this repository, the TLC
configurations that check them on small instances, and TLAPS proofs of what the
core of the library promises for every instance.

QDF writes a value as a *message*: a five-byte header and a body of tagged
values. What makes it hard to get right is not the tags but the state that two
ends keep apart and in step: the Dense string codec, shape ids, the delta bases
of struct fields, the frames of a stream, the registry of delta baselines, the
encoders that a pool passes from one caller to the next; and, in the columnar
half, the choices a writer makes from estimates and a reader has to undo from the
bytes alone, while both reuse scratch from column to column. That is what is
modelled.

    tlc -workers 2 -config MCDenseStream.cfg MCDenseStream
    tlapm DenseStreamProofs.tla

## Inventory

| part | state it keeps | operations | hard behaviour | what makes it correct |
|---|---|---|---|---|
| Dense string codec (`encoder.go`, `state.go`, `decoder_read.go`, `wire.go`) | intern table, `lastID`, pair predictor, MRU ring, LRU chain (decoder), PreIntern cache | WriteString, WriteBytes, WriteStringInline, PreIntern, ApplyOpts, Reset, resetForReuse, Take; the string reads | two ends rebuild the same tables from six forms; ids cached across messages; caps | tables in lockstep; nothing but what was written is read |
| Field front-delta (`strdelta.go`, `fieldscope.go`) | a base, a cached id and a gate per field; a base per wire field (decoder) | writeStringField, readStringBytes | base moved on every path of both ends, gate known to one end only | bases in step; a cached id names the base |
| Shapes and delta trials (`encoder.go`, `map_shape.go`, `delta_keyed.go`, `delta_columnar.go`) | shape counter, ids bound to types and key sets | StructShape, key-set shapes, the keyed and the columnar "never larger" trial | a candidate body is written and thrown away | ids and tables as if the discarded body had never been |
| Streams (`stream.go`) | buffer, header flags, broken flags, the window and its cursor | Encode, Flush, Close, Reset; Decode, Reset, Close | short reads and writes, failures between any two bytes, retries | no byte lost or repeated, messages once and in order, accepted messages arrive |
| Encoder and decoder pools (`qdf.go`, `qdf_generic.go`, `qdf_direct.go`, `fsst_dict.go`) | idle encoders and decoders, their buffers, size hint and settings | Marshal*, AppendMarshal*, MarshalDirect, AppendMarshalDirect, AppendDiff; Unmarshal* | buffers that belong to the caller, to the pool or change hands; settings of the last caller; panics | a returned slice never changes; a call works under its own settings |
| Baseline registry (`delta_baseline.go`) | fingerprint to weak pointer, under an RWMutex | Register, Apply, Len | the collector and other goroutines between lookup, clone, patch and store | a live baseline stays resolvable; baselines are never written; Apply returns the target |
| Delta patches (`delta*.go`) | none between calls but the encoder's | Diff, AppendDiff, Apply | trials of three bodies for one slice; in place, may fail half-way; patches lost, repeated, late | Apply(base, Diff(base, target)) = target; any other base refused |
| Reflect engine (`reflect_encode.go`, `reflect_desc.go`) | descriptor cache (`sync.Map`) | descOf, encode and decode of every kind | concurrent construction of recursive descriptors | what is visible is complete; one fingerprint per type |
| Columnar codec (`columnar*.go`, `nullable_col.go`, `colcodegen.go`) | plans in a scratch, shape tables, one pooled string slice | probe, partial plans, transpose, hybrid and pure containers, all the readers | never-larger trials, nesting, reuse of scratch | rows survive, whatever container they took |
| QPack packers (`qpack*.go`, `stralpha.go`, `internal/bitpack`) | Chimp's window, FSST's table, `deltaScratch` | pick, pack, read, skip a column | widths, boundaries, wrap-around, roll-back | lossless; reading and skipping stop together; never larger; the price is kept |
| Zone maps and queries (`qpack_zonechunk.go`, `query*.go`) | none | chunk bounds, pruning, predicates | bounds off by one, nulls under Not | the rows of a full scan |
| Batch handles (`batch*.go`) | slabs, epochs, row memory | UnmarshalBatch, Release | handles outlive what they point to; memory reused | a batch resolves to its rows until it is released |
| Arenas, buffers (`arena.go`, `internal/bumparena`, `internal/internarena`, `internal/bufpool`) | chunks, size classes | Get, Reset | bytes reused | not modelled |
| Skip (`decoder_skip.go`) | the decoder's | SkipValue | must move the tables as reading does | lockstep after a skip |
| Entropy coders, lossy vectors, generators, benchmarks | - | - | arithmetic, floating point, code printing | not modelled |

How they interact: the reflect engine, generated code and the delta code all
write through one `Encoder`, and so through one set of Dense tables; a stream
keeps that encoder across messages, the pool passes it from caller to caller;
the baseline registry calls Diff's counterpart under a base it looked up. Go
calls are synchronous: concurrency comes from goroutines that share a pool or a
registry, from the garbage collector, and from the two ends of a wire.

`PROJECT.json` lists the hazards line by line and the properties that watch each.

## Modules

| module | what it is | checked by |
|---|---|---|
| `DenseCodec` | the tables of `encState`/`decState`, the forms of the wire, what every write and read does to them | (operators) |
| `ValueQueue` | abstract: a lossless FIFO of values | refined by `DenseStream`, `FieldDelta`, `ShapeTrials` |
| `DenseStream` | one encoder and one decoder of strings, message after message | `MCDenseStream` |
| `FieldDelta` | struct fields on top of `DenseCodec` | `MCFieldDelta` |
| `ShapeTrials` | shapes and the trials of a delta patch on top of `DenseCodec` | `MCShapeTrials` |
| `MessageStreams` | abstract: streams of messages, one after the other | refined by `Stream` |
| `Stream` | StreamEncoder, StreamDecoder, the writer and the reader | `MCStream` |
| `BaselineRegistry` | registry, heap, callers, collector | `MCBaselineRegistry` |
| `EncoderPool` | encoders, buffers, callers | `MCEncoderPool` |
| `DescCache` | `descOf`: goroutines, contexts, the cache | `MCDescCache` |
| `BitPack`, `IntPack`, `IntUnpack`, `BlockPack`, `FloatPack`, `StrPack` | packers, pickers, readers and skips of integer, float and string columns | (operators) |
| `PackedColumns` | one encoder and one decoder of such columns, one after the other | `MCPackedColumns` |
| `ColumnPlan`, `ZoneQuery`, `ColumnCodec`, `ColumnDecode`, `BatchDecode` | which container a slice gets; zone chunks and predicates; writing; reading; batches | (operators) |
| `Columnar` | a message of slices, its writer, its readers and a pool of slabs | `MCColumnar` |
| `DeltaValues`, `DeltaDiff`, `DeltaApply` | values, equality and fingerprint; the differ and its sizes; the applier | (operators) |
| `Replication` | producer, network, consumer | `MCReplication` |
| `DenseCodecProofs`, `DenseStreamProofs`, `FieldDeltaProofs`, `ShapeTrialsProofs`, `StreamProofs`, `EncoderPoolProofs`, `DescCacheProofs`, `BaselineRegistryProofs` | theorems about the module named | TLAPS |

The modules are layered, not flat: `DenseStream`, `FieldDelta` and `ShapeTrials`
extend `DenseCodec`, so one definition of a write and of a read is used by all;
`Stream` relies on what `DenseStream` shows (a body decodes where the decoder has
seen what the encoder had) and models the dense state as a counter. `Columnar`
keeps a number in one unit whatever packs it, because `PackedColumns` shows that
it comes back; `Replication` ships columns and strings whole, because
`PackedColumns` and `ShapeTrials` show what becomes of them; `BaselineRegistry`
takes Apply as one step, which `Replication` shows to be exact.

### DenseCodec and DenseStream

A table record is the state both ends mirror: `values` (id to string), `lastID`,
`pairPred` (the id that last followed each id), the MRU ring and its head. `StringForm` and
`AfterString` are WriteString: inline, intern, or, for a known id, the cheapest
of repeat, pair, MTF rank and plain reference (`emitStateRef`); `ReadValue`,
`AfterRead` and `LruAfterRead` are `readStringBytesRaw`. The encoder looks up
ring and table, the decoder walks its LRU chain: `LruMoveToFront` relinks it case
by case as `lruMoveToFront` does. An item on the wire is its form; it carries, as
history, the value written and the tables before it, which is what the
refinement and the inductive invariant speak of.

Strings are model values and a set says which are too short to be interned;
sizes count only where the code compares them (one-byte or two-byte references).

### FieldDelta

A string is a stem and a tail, so "long common prefix" is "equal stems". The
encoder's field state is base, cached id and gate (`muted`, `seen`, `wins`), the
decoder's is one base per wire field. `WriteField` is `writeStringField` with every
path through it. The alphabet packer, off by default, is left out.

### ShapeTrials

Shape ids of generated structs, reflected structs and string-keyed maps, and
`diffKeyedSlice` and `diffColumnar`: both write two bodies, drop one and restore
what they restore. A patch body is in line and is read whole.

### Stream

A byte is a cell saying which byte of which message it is. A call that does I/O
is several steps, one per `Write` or `Read`; each may be short, fail, or end. The
history variables `accepted` and `got` are what Encode accepted and Decode
returned, and `unsent` what a Reset left unwritten, with the header if none was out.

`MessageStreams` is what the two ends promise together, with no byte in it: messages are
posted, leave the writer in order, and are taken; the end is told only where all that
have left are taken. `Delivery` is that `Stream` implements it. A message has left when
none of its bytes is in the encoder's buffer or in `unsent` (`Departed`). Encode is a
post, a `Write` lets the messages leave whose last byte it takes, a `Decode` that
returns a value takes one, io.EOF is the end, Resets go on to the next stream; everything
else, every failure included, is a stutter.

### BaselineRegistry

A heap of objects with a content; `Collect` takes any that no caller and no
running call holds and clears the weak pointers to it at once, as the runtime
does. `Apply` is the steps its locking allows others between: look up, resolve,
prune (with the second look under the write lock), clone, patch, store. Callers
may change a registered value in place and drop it at any time.

### EncoderPool

A slice is a backing array and a length; `append` writes in place while the
capacity lasts. A message is a header and units of body, each written by a step of
its own so that goroutines interleave; a call fails or panics before any of them.
At the end the entropy pass packs the body in place, and the buffer is handed
over, cloned or returned as the entry point does. Arrays nobody refers to are
collected and those that remain are named by who refers to them, which keeps the
state space finite. The pool is bounded to one idle encoder.

### DescCache

A descriptor is named by its type, the goroutine and the context that made it; it
is finished when it has its parts and its `encode`. The steps of a call are its uses of
the cache: the first load, a load for each type a frame of `fillDesc` asks for,
`LoadOrStore` for each type of the context in any order (the order of a Go map), the
last load. A kind that cannot be encoded fails the build and drops the context. Column
plan and schema fingerprint are taken from what the parts have at that moment.

### PackedColumns and the packers

A word is real arithmetic modulo a small power of two: `BitPack` packs by words and by
bytes, reads by a sliding window and by lanes. `IntPack` prices raw, FOR, delta-FOR, RLE,
dictionary and PFOR and picks as `qpack.go` does; `IntUnpack` reads and skips;
`BlockPack` writes a column whole and in blocks and keeps the shorter; `FloatPack` has
Gorilla, Chimp (with its stamped window and the wrap of its epoch), ALP and ALP-RD, whose
XOR attempts are written, measured and cut off again; `StrPack` the string blocks in the
order `nullable_col.go` tries them. A float is its bit pattern; decimal mantissas are
exact. The buffer is a sequence of units with a length in bytes each, so that prices
and sizes are compared as the code compares them. `ReadSlice`, `ReadStringColumn` and
`SkipSlice` take the next column; `SelectRows` decodes only the blocks of a block column
that hold the rows a query kept. The symbols of FSST are chosen by the environment:
training is not modelled, using a table is.

### Columnar

A type is a sequence of named fields, a row a sequence of values. `ColumnPlan` is
`columnarSelect`: the probe on a sample, the whole plan, a partial plan in the scratch
of the encoder, or rows. `ColumnCodec` writes the pure and hybrid containers, their
shapes, the lengths of columns when the index is on, optional columns, and strings in
a block or one by one through the intern table; `ColumnDecode` reads into a type by
name, into maps, by column, through a query, or past; `BatchDecode` into slabs.
`ZoneQuery` is the predicate tree with its simplification, its three-valued
evaluation over masks, and the zones that bounds rule out. Batches and other
reads of one message are separate calls.

### Replication

`DiffValue` returns the body of a patch as the differ builds it: the changed fields of
a struct, the positional, keyed and columnar bodies of a slice with the sizes by which
one is kept, maps walked in either of two orders, whole replacement. `ApplyValue` reads
a body into the value it is given, and may stop half-way. The fingerprint is the
sequence of what is hashed, so two values collide only where the code hashes the same
bytes. A patch stays in the network until it is lost.

## Runs

| run | expects | what it shows |
|---|---|---|
| `dense` | pass | types; every item in flight readable in step; decoder in lockstep, also across Skip; cached ids valid; the MRU ring a prefix of the LRU chain; lossless FIFO |
| `field_delta` | pass | bases and cached ids in step, lossless |
| `shape_trials` | pass | shape ids and tables in step after any trial, lossless |
| `stream` | pass | conservation of bytes, a channel of messages (`MessageStreams`), clean end, delivery in the end |
| `registry` | pass | the newest baseline stays resolvable, entries keep their content, Apply returns the target |
| `pools` | pass | messages and returned slices intact, own settings, pooled buffers not shared |
| `descriptors` | pass | what can be loaded is finished all the way down, one fingerprint per type, every call returns |
| `codecs` | pass | columns come back, reading and skipping stop together, no codec is larger than the plain form or than its price |
| `columns` | pass | rows come back from every container and reader, queries are exact, tables in step, nothing left between slices, batches intact |
| `delta` | pass | a patch on a copy of its base makes its target, on anything else it is refused and changes nothing |
| `index_skip` | violation of `Lossless` | the column index passes over strings that later columns refer to |
| `query_strings` | violation of `QueryExact` | two string columns kept for a query share one slice |

The violation runs are disagreements of the code with its own comments and docs,
quoted in `PROJECT.json` under `findings`. The passing runs exclude the triggers of these
and of the observations below by a named constant or by the messages of the MC
module: `TakeWithIdentities`, `SkipsAfterReference`, `StandaloneStructs`, `NonStringKeys`,
`DeclareInChain` are FALSE; `MCColumnar` keeps strings too short to be referred to where
there is a column index and asks no query that keeps two string columns;
`MCReplication` lists its exclusions at its head. So the passing runs say: apart from
these, it holds.

### Bounds, and why they are enough

- Dense: four strings that intern and one that does not; a table of four; a ring
  of two, so emissions fall out of it; ids of which the first two take one byte, so
  each of the reference forms wins somewhere; six writes in a message, two items in
  flight. Every id comparison, every ring wrap and the cap occur. The proofs remove
  the bounds.
- FieldDelta: two fields, two strings that share a stem, one with another, one too
  short; a table of three, so the cap is hit; a gate that mutes after two
  misses and re-arms after two (`ProbeN`, `RearmN`); five writes.
- ShapeTrials: two strings, one shape of each kind, bodies of at most two
  entries, three declarations, every reference two bytes long so that the pair and
  MTF forms are used.
- Stream: a message with a one-byte and one with a two-byte prefix, a header of
  two bytes, a flush threshold a pair of frames passes; two streams one after the
  other, of at most two and one messages. A byte can be the last of each read and
  write at every place.
- Registry: three objects, two contents, two goroutines in Apply, three patches
  (forward, back, without a base fingerprint). Two calls and a third object for a
  caller suffice for any entry to be dead, replaced or changed between two steps.
- DescCache: two goroutines, two contexts each, a type that contains itself through a
  slice, entered at either end, and a struct that fails after it has built both. That
  makes every overlap of two builds of one cycle, and a build over a cache that
  holds part of it.
- Columns of `codecs`: a byte has 3 bits and a word 4 bytes, so columns cross every
  width; chunks of 3, blocks of 8 with windows of 4, 4 distinct values, an epoch that
  wraps at 3, a scratch left dirty. Columns are listed by the codec they make the
  cheapest, with one value at an edge moved each way; sequels are columns that
  meet a window, table or scratch another has left. Longest column 27.
- `columns`: columnar from 4 rows with a sample of 3, zones of 2 rows, models of one
  byte, strings interned from 2 characters and blocks from 2 rows; every setting of
  index, zone maps, FSST gate and blocks; at most three slices in a message, so that a
  plan, a shape and a string declared by one meet the next two; two levels of nesting;
  two slabs and two batches, so a slab is reused while the other is held. 10 and 30
  percent are the code's.
- `delta`: integers modulo 4, so differences wrap; columns from 4 rows (16 in the code),
  indexes of one byte below 2 (128); four types, each with five to seven values, every
  pair of which meets; three versions and two patches in flight, enough for a
  patch to be repeated, late, or made from a version that was skipped.
- Pools: two goroutines, one that makes every kind of call and keeps what it
  gets, one that encodes large messages and drops them; messages of two and three
  units against an initial buffer of 1 and a threshold of 2, so both the clone and
  the hand-over, growth of an own buffer and of a dst, and the hinted allocation
  occur. `maxPooledBuf` is never exceeded by an idle encoder here: past the
  threshold buffers are handed over.

`Stream`, `Columnar`, `PackedColumns` and `DescCache` are checked without
deadlock: two closed ends, a message that is read and released, and goroutines that
have opened all their contexts have nothing to do.

### Fairness

`Stream` and `DescCache` have liveness. For streams: the caller flushes again after
a failed Flush and calls Decode again while it can (WF on Flush and Decode), and
the writer and the reader do not fail for ever (SF on a Write and a Read that
moves bytes). The code retries nothing on its own, so without the first an
accepted message stays in the buffer, and without the second nothing can arrive.
`Parse` is WF: it is the running call itself. Encode, Reset and Close carry no
fairness. In `DescCache` the steps of a goroutine inside `descOf` are WF: it takes no
lock and waits for nobody; no fairness says that anybody calls. The other modules
promise safety only.

## Proofs

Seven components are proved about, each for every value of its constants that
satisfies the assumptions named in its module: any strings, types, goroutines,
messages, sizes, caps and bounds. Every property below that a run checks is shown
by the run on a small instance and by the theorem for all. What is in brackets, and
`NoReadFails` (`[]~failed`), no run lists as a property of its own.

| module | theorem | property of the run | further assumption |
|---|---|---|---|
| `DenseStreamProofs` | `TypeCorrect` | `TypeOK` | |
| | `InvariantHolds` | (`IInv`) | A |
| | `WireStaysInStep` | `WireInStep` | A |
| | `TablesStayInLockstep` | `Lockstep` | A |
| | `CachedIdsStayValid` | `CachedIdsValid` | A |
| | `NoReadFails` | | A |
| | `ImplementsQueue` | `Lossless`: a refinement of `ValueQueue!Spec` | A |
| | `ChainFollowsRing` | `LruChain` | |
| `FieldDeltaProofs` | `InvariantHolds` | (`IInv`) | B |
| | `TypesHold` | (`TypeOK`) | B |
| | `NoReadFails` | | B |
| | `BasesStayInLockstep` | `FieldLockstep` | B |
| | `RememberedIdsAreRight` | `BaseIdNamesBase` | B |
| | `FieldsLossless` | `Lossless`: a refinement of `ValueQueue!Spec` | B |
| `ShapeTrialsProofs` | `InvariantHolds` | (`IInv`) | C |
| | `TypesHold` | (`TypeOK`) | C |
| | `NoReadFails` | | C |
| | `ShapeIdsStayRight` | `ShapeIdsInStep` | C |
| | `TablesStayInStep` | `TablesInStep` | C |
| | `TrialsLossless` | `Lossless`: a refinement of `ValueQueue!Spec` | C |
| `StreamProofs` | `InvariantHolds` | (`IInv`) | |
| | `TypesHold` | (`TypeOK`) | |
| | `NoByteIsLost` | `Conservation` | |
| | `EndsAreClean` | `CleanEnd` | |
| | `ImplementsChannel` | `Delivery`: a refinement of `MessageStreams!Spec` | |
| `EncoderPoolProofs` | `InvariantHolds` | (`IInv`) | |
| | `TypesHold` | (`TypeOK`) | |
| | `MessagesAreTheirOwn` | `MessageIntact` | |
| | `ResultsKeepTheirBytes` | `ResultsIntact` | |
| | `CallsHaveTheirOwnSettings` | `OwnSettings` | |
| | `IdleBuffersAreNobodys` | `PoolOwnsItsBuffers` | |
| `DescCacheProofs` | `InvariantHolds` | (`IInv`) | |
| | `CachedGraphsAreComplete` | `GraphsComplete` | |
| | `OneSchemaPerType` | `SchemasAgree` | |
| `BaselineRegistryProofs` | `TypeCorrect` | `TypeOK` | |
| | `LatestIsFound` | `LatestStaysResolvable` | |
| | `BaselinesKeepContent` | `EntryNamesContent` | |
| | `ApplyYieldsTarget` | `ResultIsTarget` | |

- A: `TakeWithIdentities = FALSE`, `SkipsAfterReference = FALSE`
- B: `StandaloneStructs = FALSE`
- C: `DeclareInChain = FALSE`, `NonStringKeys = FALSE`

These are the constants that leave out a disagreement of the code with itself; with
the other value the theorem is false, as the observations below show.

### The arguments

**Dense strings.** `DenseCodecProofs` proves what each table operator does: types
(`EmitType`, `StateRefType`, `ReadType`, ...) and the four lemmas everything rests on,
`StateRefInStep`, `InternInStep`, `InlineInStep` and `StringInStep`: the form a
write picks is readable by tables that mirror the encoder's, yields the string
written, and reading it leaves tables that mirror the encoder's after the write.
`ReadInStep` transports that from the tables recorded in an item to the
decoder's own. `FieldDeltaProofs` and `ShapeTrialsProofs` use the same lemmas.

`Lockstep` alone is not inductive: it says nothing of the second item in flight.
`IInv` adds that every item in flight is in step with the tables recorded before it
and those recorded before the next (`WireInStep`), that cached ids name their
strings (`CachedIdsValid`, without which `WriteCached` emits a wrong reference),
that a message without strings has fresh tables (`Fresh`: options may change only
there), that an encoder outside Dense mode has empty tables (`PlainIsEmpty`), and
that the decoder has not failed. A write extends the chain of records at its end,
a read consumes it at its head; the refinement maps the queue to the values
recorded on the wire, a write to Send, a read to Receive, the rest to a stutter.

`LruChain` needs none of that: the decoder's links agree with its ring whatever it
reads. The invariant (`Chained`) is that there is a numbering of the ids, one for each
position, along which the links run (`Linked`), and that in front of the id of an
emission stand exactly the ids emitted after it (`ByRecency`). `LinkFresh` and
`LinkMoved` are `lruAddFresh` and `lruMoveToFront`, with the neighbours an unlinked id
leaves; `RecencyKept` is the push onto the ring. `NewerCount` turns "stand in front"
into the count that `LruChain` uses, and `WalkIs` follows the links of `lruIDAtRank`.

**Fields.** The encoder's gate and its remembered ids are not known to the decoder, so
what an item in flight promises is relative: `ItemStep` says what it does to a decoder
that has the encoder's tables and bases as they were before it. `BasesFollow` is the
point: a base that the encoder still has after an item is the value just written to that
field, or was there before; the encoder may drop a base, never invent one. So the decoder,
which keeps every value as a base, has each base the encoder uses.

**Trials.** A body that is tried and dropped leaves the wire as it was, so the invariant
speaks of what is on the wire alone: a decoder that reads the items in flight from where
it stands is given each value as it was written, and ends with the encoder's tables, its
count of shapes, and every bound id naming its shape (`InStep`, with the decoder's
stations as sequences). A trial has to restore what a reader of the kept body would have:
the count, the ids, `lastID`.

**Streams.** `Conserved`: the window, the pipe and what is not out, put end to end,
are the frames that the reader has not been given of what the writer accepted, from the
place its decoder is at (`Undelivered`), on the stream being read; and the same, from the
header on, on each stream to come. What is not out (`Behind`) is the encoder's buffer or,
of a stream that was reset, what was left of it: without that part nothing could be said
of the reader of an abandoned stream. `EncoderInStep` and `DecoderInStep` say which flags
go with which place; a decoder that is broken or closed is excused. The frames of a list
of messages are joined with FlattenSeq; `FlattenAppend` and `FlattenInFront` (a message
more behind, or in front) are by least counterexample, and each I/O step moves bytes
between the parts of the sum. `CleanEnd` is an action property and follows from `IInv`
before the step.

For the refinement a message has left when at least as many bytes are due behind it as
are not out. `FramesShrink` (the more messages a reader has, the fewer bytes are due)
makes that a beginning of the list (`GoneInOrder`). A frame or a header appended lets
nothing leave (`GoneMore`, `GoneHeaded`), nor does a Reset, which moves the buffer to
`unsent`. `BodyHasLeft` is the guard of Take: behind a whole body in the window are, by
`Conserved`, the frames after it, and what is not out is their end. `EndHasLeft` is that
of End: with window and pipe empty, all that is due is not out.

**Pools.** The argument is ownership. `Apart`: an array belongs to one goroutine (its
kept slice, or a slice of the call it is in), to the idle encoder, or to nobody.
`CallSound`: a call has written its message so far behind the bytes of its dst, under its own
settings, and in an array its goroutine keeps only if that is the dst it was given. A step
writes only arrays its goroutine owns, takes from the idle encoder or allocates
(`MayUse`), so the others' bytes stay; a collection renames arrays and nothing else.
Bytes after the length of a slice may be anything, which is why appends in place are harmless.

**Descriptors.** `GraphsComplete` speaks of everything a descriptor leads to, which no
single step can see. The invariant has the one-step form: a part of a descriptor is
finished or of the same context (`GraphsClosed`), the unfilled ones of a context are
those of its frames (`FramesUnfilled`), and what the cache holds or is about to get is
finished and filed under its type (`CacheFinished`, `AnswersCached`). The step to all that
can be reached is by least counterexample over the length of a path.

**Baselines.** The four invariants are not inductive alone: that a clone keeps what Apply
made of it until it is stored needs `ClonesArePrivate`; that New and Clone take no object
in use needs `UsedIsLive`; and both need to know which locals are set at which step
(`LocalsFit`). The argument for `LatestIsFound` is the second look under the write lock:
`Prune` and `Len` delete an entry only while it is dead, and an object that is `latest` is
not.

### What is only model-checked

- `EventuallyDelivered` of `Stream` and `CallsReturn` of `DescCache`: liveness under
  fairness, which needs ENABLED.
- `Columnar` and `Replication`, all properties: their modules are built on RECURSIVE
  operators (values, containers and predicates are nested), for which the prover has no
  backend.
- `PackedColumns`, all properties: they are about what a packer of a whole column
  computes and an unpacker makes of it. That is induction over data, one codec after
  the other: the theorems of the library that would give it take an operator as a parameter
  and cannot be instantiated here. Where a proof above needs an induction it is over a
  number, from the well-foundedness of `<` on the naturals (`Least`).

## Observations without a run

Each of these is shown by TLC with the configuration given (`tlc -config X.cfg M`), or
with the constants given put into it, or follows from the lines named.

- `MCDenseStream.cfg` with `TakeWithIdentities = TRUE`, `OptionSets <- Balanced` and
  `MaxInFlight = 1` (`Lossless`): Take resets the tables and keeps the ids that
  PreIntern cached (`encoder.go:721-729`); the first registered string of the next message
  is a reference to nothing. Against `encoder.go:59-61`.
- `MCDenseStream.cfg` with `SkipsAfterReference = TRUE` (`Lockstep`; `Lossless` with
  `OptionSets <- Balanced`, `MaxWrites = 7` and `MaxInFlight = 1` as well): Skip of an inline
  string keeps `lastID` (`decoder_skip.go:33-38`) where reading it drops it.
- `MCFieldDelta.cfg` with `StandaloneStructs = TRUE` (`Lossless`): a struct outside a
  slice moves only the decoder's delta base (`reflect_encode.go:1363`, against
  `decoder_read.go:271-274`).
- `MCShapeTrials.cfg` without SYMMETRY, with `NonStringKeys = TRUE`, `MaxBody = 1` and
  neither token shapes nor map shapes (`<- None`) (`Lossless`): a kept keyed body that
  touches no string inherits `lastID` from the dropped one (`delta_keyed.go:141`).
- `MCShapeTrials.cfg` without SYMMETRY, with `DeclareInChain = TRUE` (`Lossless`):
  StructShape keeps `lastID` where the decoder drops it (`encoder.go:1240`, against
  `encoder.go:1069-1073`).
- `MCEncoderPool.cfg` with `NThreads = 1`, `Keepers = {1}`, `Requests <- Alone`,
  `MaxPooledBuf = MaxHintedBuf = 8`, `RansMin = 8`, `MaxSlice = 2` and
  `PROPERTY HintFollowsDown`: the size hint of one large message never comes down
  (`qdf.go:540`, against `encbuf_hint_test.go:99-101`).
- `MCBaselineRegistry_processes.cfg` (`EvictedMeansDropped`): fingerprints are seeded
  per process (`delta.go:29`), so a baseline that is registered and held is answered with
  ErrBaselineEvicted in any other process (`delta_baseline.go:18-20`).
- `Scenarios <- HiddenScenarios` in `MCReplication.cfg` (`Exact`): `diffElemsPositional`
  compares elements by their memory, padding and unexported fields included, and writes
  an index for an element whose fields are equal, and no operation
  (`delta_diff.go:328`); against `delta_diff.go:504` and `:530`, "a padding-only diff
  yields a spurious opReplace, never wrong data".
- `Scenarios <- BytesScenarios` in `MCReplication.cfg` (`Exact`): a patch by columns takes
  a nil and an empty `[]byte` for the same (`delta_columnar.go:365`), which
  `docs/DELTA.md:201-203` tells apart.
- `Scenarios <- NamesScenarios` (`WrongBaseRefused`): strings are hashed without their
  lengths (`delta.go:333-334`), so neighbouring strings that trade a character have one
  fingerprint. Also a nil and an empty map inside a map.
- `GraphsEncodeAlike` in `MCDescCache.cfg`: the plan of a slice whose element is still
  being built is nil, so which of `Tree` and `[]Tree` is built first decides whether
  `[]Tree` has columns; two goroutines that enter at different ends publish one of
  each. `reflect_desc.go:151-152` says that both graphs encode alike, and
  `reflect_desc.go:191-196` that a child computed before a cycle closes is correct.
- UnmarshalColumns into maps ignores the names for row-major and hybrid payloads, and
  filters nested pure containers by the names of the root (`docs/GUIDE.md:800-802`).
- `qpack.go:283-291` says that passing over PFOR below a bound forfeits nothing; a column
  of one value with a few exceptions would be smaller in it. No value depends on it.
- `encoder.go:610-618`: ApplyOpts between two strings of one message changes the
  forms without a header that says so; the models allow it between messages.
- `state.go:845-852` says a rank in the ring is the rank in the LRU chain; with a
  repeated id in the ring it is not, and the decoder walks the ring as the encoder
  does, so nothing breaks.
- `decoder_read.go:383-389` and `strdelta.go:170` describe registration of delta
  values differently from `decoder_read.go:404-409`, which the model follows.
- `encoder.go:732` SetBuffer keeps the dense tables.
- `encoder.go:490-509` Reset keeps `denseOn`; applyOpts, which every entry point
  but the Direct ones calls next, sets it.
- `qdf.go:581` and `qdf_direct.go:37` say a buffer past the hand-over threshold
  would be dropped by putEnc; between 256 KiB and 16 MiB it would not.
- `batch.go:100`: a `Batch` is a value, and a copy released twice puts one slab into the
  pool twice; only the debug build's epoch tells.
- `delta_baseline.go:320`: a result of Apply with the content of a baseline the
  caller holds takes over that baseline's entry; when the result is dropped, the
  held baseline is no longer resolvable.
- `delta_baseline.go:298-313`: Apply looks up a weak pointer and resolves it after the
  unlock. When its object is collected in between, and another goroutine has registered a
  value with the same fingerprint by then, the second look under the lock sees a live entry,
  leaves it, and Apply answers ErrBaselineEvicted all the same; `delta_baseline.go:18-20`
  says that the baseline is not resolvable.

## Not modelled, and why

- Entropy coders (`internal/rans`, `tans`, training in `internal/fsst`): arithmetic on
  32-bit states and frequency tables, where a small instance says little and the
  repository has fuzz tests.
- Lossy vectors: floating point and its error bounds.
- The byte-plane codec of 16-bit columns (`qpack_plane16.go`) and OptStringAlphabet
  (`stralpha.go`), both variants of what is modelled; the alphabet and FSST prices in the
  probe of `ColumnPlan`.
- Plans that a reader makes from a message's shape for generated types, canonical
  form, interfaces, user marshalers, times inside deltas, the depth limit, values that
  alias one another.
- Generated map handlers (`maps_fast*.go`): one pattern printed for each key and value
  type, the semantics of which is that of the reflect engine's maps.
- Code generators print Go that calls the methods modelled here. Benchmarks and
  examples are not part of the library.
- Arenas, buffers: bump allocators whose contract (nobody holds the bytes after Reset)
  is the caller's.
- Hazards of the code that no property covers, beyond those listed in `PROJECT.json`:
  a panic in a user marshaler unwinds between the prefix reservation and the roll-back
  (`stream.go:84`); the window of a stream decoder is never compacted (`stream.go:187`)
  and strings may alias it (`stream.go:233`); 32-bit offsets of a growing slab
  (`batch_slab.go:48`); Arena.Reset under live strings (`arena.go:50`); size classes
  (`internal/bufpool/bufpool.go:72`); packed locations (`internal/internarena/arena.go:306`).

## Plan

1. Done: all components above, except those not modelled.
2. Done: proofs of every safety property of `DenseStream`, `FieldDelta`, `ShapeTrials`,
   `Stream`, `EncoderPool`, `DescCache` and `BaselineRegistry`.
3. Lemmas about the packers that declare nothing RECURSIVE (`BitPack`, `IntPack`): a value
   of a width comes back from its bits, bounds of widths and prices; and from those what
   can be had of `CursorInStep`.
4. `DecoderPool`: settings and aliases of pooled decoders (`qdf.go:654-753`).
