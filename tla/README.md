# A verification project for Glyd and glyd-store

Glyd is a lossless compressor (`src/src`) and glyd-store an object store built
on it (`src/glyd-store`): objects put under a name are kept as deltas against
the stored object they resemble, small ones together in packs, on a local
directory or in an S3 bucket. This directory holds TLA+ models of the parts
whose correctness is a matter of order, sharing and failure, of the codec's
algorithms with the inverse each of them must have, the TLC configurations that
check them, and proofs for TLAPS.

`PROJECT.json` lists the components, the runs, the source lines each definition
stands for, the hazards each property is aimed at, the disagreements found, and
for every property a mistake in the code that would break it (`mutants`; the
mistaken forms stand beside the definitions, named `Definition_mistake`).

## The system

| Part | State | Operations | Interacts with | What makes it correct |
|---|---|---|---|---|
| Store core (`glyd-store/src/lib.rs`) | entries (base, depth, family, pack, deletion), open pack, object cache | `put`, `get`, `delete`, `compact`, `lift`, `rebase`, `flush` | sends jobs to the writer, asks the table for candidates, writes the backend itself in `flush`, `lift`, `rebase`, `compact`, `delete` | what was put is read until it is deleted; chains end within `MAX_DEPTH`; `compact` takes nothing a live chain needs |
| Writer thread (same file) | channel of 2 jobs, `(done, failure)` under a mutex, condition variable | `send`, `wait_for`, `wait_all`, `drop`; the thread's loop | the store's thread, the backend, the index file | waited for means written; first failure stops all; no lost wakeup |
| Fingerprint table (same file) | mapped slots, count, header's count | `open`, `create`, `insert`, `lookup`, `grow`, `sync` | fed by `put`, asked by `candidates` | `HOLDERS` holders of each fingerprint, the lowest ids replaced, at most half full |
| Persistence (same file) | streams and `<id>.index` sidecars in the backend, lines of `index` | writes of every operation, `open_with`, `rebuild_with` | all of the above, after a kill | index and sidecars give back the entries; nothing indexed is lost |
| Names (same file) | `names`: latest id by name | `put_bytes`, `delete`, `open_with`, `id_of` | entries | the latest live object of the name |
| S3 backend (`glyd-store/src/s3.rs`) | region, credentials; per call: pieces, ETags, uploads | `request_with`, `write_parts`, `read` | up to `PART_THREADS` connections sharing region and credentials | retries end, uploads are whole or leave nothing, reads are of one version |
| Parallel streams (`src/src/lib.rs`) | counters, slots, flags, channels | `par_units`, `compress_stream`, `compress_max_stream`, `decode_units_to`, `stream_batches` | worker threads and the caller's sink | every unit to the sink in order, once; the call returns |
| `GlydWriter`, `GlydReader` (`src/src/streaming.rs`) | a block's buffer, cursor, end flag | `write`, `flush`, `finish`, `drop`; `read` | any `Write` or `Read` | what is read is what was written |
| Block formats (`format.rs`, `v7_format.rs`, `fallback.rs`) | entropy tables of the block before, offset history | encode, decode | entropy coders, finders | decoding is the inverse of encoding and refuses what it cannot decode |
| Encoders and decoder of coded blocks (`v7_encode.rs`, `v7_ultra.rs`, `v7_decode.rs`, `split.rs`, vectorised paths) | tables and trees of positions kept between blocks and inputs; the output under way | parse, price, code; walk, copy | finders, coders, tables of `lib.rs` | every match is of the text before it, in its window; a copy past its end harms nothing |
| Entropy coders (`bits.rs`, `tans.rs`, `huffman.rs`, `huff8.rs`, `weights/rans.rs`) | tables, bit accumulators | build, encode, decode | blocks, model files | tables sum to their size, codes are the best under their limit, decoding inverts encoding |
| Finders (`finder.rs`, `ldm.rs`, `dict.rs`) | hash tables carried over blocks, windows | find | encoders | matches lie in the window and match |
| Envelopes (`lib.rs`) | per call | levels, packs, deltas, cold units and their readers | blocks, threads | the reader tells each envelope from every other and gives back what was written |
| Record and shape modes (`record.rs`, `shape.rs`) | per call; a dictionary trained once | columns of a text, and back | envelopes | the text comes back whatever it holds |
| Containers (`deflate.rs`, `safetensors.rs`, `torchzip.rs`) | per call | open, close, content | deflate and the other engines, envelopes | the object comes back bit for bit |
| Deflate reproduced (`reflate/`) | zlib's window, chains and trees, the coder's range | parse, predict, correct, write | containers | the stream comes back bit for bit |
| Other engines (`rezstd/`, `resnappy.rs`, `parquet.rs`, `jpeg.rs`, `jpg/`, `weights/`, `cm.rs`) | per call | open, put back | containers, envelopes | the same |
| Command lines, C interfaces, bindings, vendored preflate-rs, benchmarks | none of their own | one call each | the libraries | |

What is hard to test here is in `hazards`: a put that returns before its object
is written, a failure that must stop jobs already queued, a condition variable
checked outside its lock, a kill between two of the three writes of an
operation, an id given out twice, deletions and compactions around shared
chains, a head at the depth cap stored again, region and credentials shared by
connections, the object overwritten while it is read in pieces; and in the
codec, state that outlives a call (a thread's tables, a table of positions not
cleared between blocks), three copies of one history, streams drawn in the same
order by two programs, copies past an end, arithmetic that slides or wraps.

## Modules

| Module | Models | Notes |
|---|---|---|
| `ObjectStore` | what a store promises | abstract: put, delete |
| `Store` | Store core | implements `ObjectStore` |
| `Store_proofs` | | theorems about `Store`, chains first |
| `Writer` | Writer thread | one step per critical section and per write |
| `Writer_proofs` | | theorems about `Writer` in `MCParts` |
| `Holders` | what the table promises | abstract |
| `FingerTable` | fingerprint table | implements `Holders` |
| `Durable` | persistence | every write a step, kill between any two |
| `Durable_proofs` | | theorems about `Durable` |
| `Names` | names | |
| `Parts_proofs` | | theorems about `Names` and `FingerTable` in `MCParts` |
| `OrderedSink` | what the parallel streams promise | abstract |
| `CompressStream`, `DecodeUnits`, `StreamBatches` | parallel streams | each implements `OrderedSink` |
| `MCStreams` | | the three, and `CompressStream` a second time as `compress_max_stream`: an initial state chooses one |
| `Streams_proofs` | | theorem about the four in `MCParts` |
| `S3Request`, `S3Upload`, `S3Download` | S3 backend | the service is external |
| `S3_proofs` | | theorems about the three in `MCParts` |
| `MCParts` | | an initial state chooses `Writer`, `FingerTable`, `Names`, one of S3's three or one of `MCStreams`' four |
| `SequenceCodes` | length and offset codes, repeat offsets | both encoders and the decoder's walk |
| `Tans` | `tans.rs` | one stream; tables and coding |
| `BlockTables` | entropy tables handed from block to block | encoder, stripes, units, a dictionary, a thread that keeps its tables |
| `GlydStream` | `GlydWriter`, `GlydReader` | over a file that fails |
| `MCCodec` | | an initial state chooses one of the four |
| `Codec_proofs` | | theorems about the four in `MCCodec` |
| `Envelopes` | the levels' envelopes and their readers | blocks, packs, deltas, record and cold units, early versions |
| `Records` | record mode | a column's encodings; the four shapes of a text |
| `Shape` | shape dictionaries | training, image, reader |
| `Containers`, `MCContainers` | `deflate.rs`, `safetensors.rs`, `torchzip.rs` | recipes and closing; what each format's walk claims; objects that grow |
| `MCFormats` | | a step picks a job for one of the five |
| `Deflate`, `Zlib`, `Reflate`, `RangeCoder` | `reflate/`, the binary coders | bits; codes and matcher; corrections; coders |
| `MCReflate` | | a text grows, and a stream for it; bits; frequencies; decisions |
| `MatchBytes`, `Finder`, `LongMatches`, `DoubleFast`, `Ultra` | the match finders and parses | the token levels, the long-distance pass, max, ultra |
| `CodedBlocks` | literals' codes, sections and copies of a coded block | |
| `MCFinders` | | a text grows, and any of the parses of it |

In the modules of pure operators (`Envelopes`, `Records`, `Containers`, `Reflate` and
the like) a helper without an entry in `map` stands within the lines of the
definition that uses it.

The store is cut where its questions part. `Store` has chains, deletion, packs
and the order of jobs but no failure: a job is written in one step. `Writer`
has the steps inside a job, the failures and the waits, and knows of an object
only which put it is. `Durable` has every write and the kill, and knows of
chains only the base. An id's content is everywhere the put it was given to,
so that an id used twice, or a stream under another object's id, shows.

### Store

`entries` is `Vec<Entry>`; `disk` what the backend holds by id: whose bytes a
stream decodes to, the base it was encoded against, a pack's members; `queue`
the jobs the writer has (`Job`), each written by `WriterStep`; `pending` the
open pack. Sizes and fingerprints only decide which base is taken, so `PutLarge`
takes any outcome: up to two candidates among the live large objects (those the
table can name), the head that `lift` may store again first, then a base under
the cap by `within_cap`, or none. `compact`, `rebase`, `delete` and `flush`
wait for the writer, so the queue is empty in them. The object cache holds the
bytes `fetch` decodes; it cannot differ from them while a read of the streams
is what was put, which is what `ImplementsObjectStore` says.

### Writer

The thread is `Recv`, three `Write`s and `Update`; the store's thread is
`Send`/`Sent`, `WaitFor`/`Check`/`Spurious`, and `Drop`/`Joined`. `Notified` is
`notify_all`. `wait_all` is `WaitFor(LastSent, _)`. A flush is its writes one by
one (`WritePack`, `Flushed`), any of which may fail (`FlushFails`): no failure
flag is set then, the lines already written stay, and the pack's id is given
again. The insertion of a put's fingerprints may fail too (`Table::insert`, whose
growth makes and maps a file), after the job is sent and before the entry is
there: the next put has the same id. `twice` and `cut` remember both; the properties except
an id sent twice (its first job ends the wait, and its stream may be read) and
the lines of a flush cut before its sidecar. One line stands for those of a
pack's members. Left out: after a failed flush its members' entries name, in
memory, a pack id that a later put may take, so that their reads fail until the
next flush succeeds.

### FingerTable

`insert` is the whole call, growth included. `Kill` is the process killed and the
store opened again: the slots of the mapped file stay, the count is the one last
synced, and the next id is the one after the last that the index has (`indexed`),
so that ids in the slots are given again, and the lowest id, which an insertion
replaces, need not be the oldest put: `Holders` promises the order of ids, no
more. A growth that fails leaves the table as it was and is not a step. The
history variable `lost` says that a kill has made the count low. The code sorts
the holders by id before it inserts them again, and the lookup's readers take
them so: `ById` gives each its place by its rank among the others, and
`Reinserted` the fresh table after each of them. A table's size is a power of
two; the model assumes of a new one only that it is even.

### Durable

An operation puts its writes in `todo` in the code's order; `write` does one;
`kill` drops the rest, and the memory, and either opens or rebuilds. `events`
remembers what a kill cut short; each property names the events it leaves out
and a stronger one without the exception is kept beside it (below).

### Streams

Workers take tasks from the counter of `par_units`. In `CompressStream` the
writer's check of its slot (`Look`), its going to sleep (`Sleep`) and a worker's
notification (`Notify`) are steps of their own because the code holds different
locks in them. `DecodeUnits` keeps the order's lock and the two flags apart, as
they are set one after the other. `StreamBatches` has both channels and either
side's early end.

### S3

`S3Request` splits a request where the region is read (`locate`, `sign`) and
where the answer acts on it; tokens lapse between any two steps, and credentials
may not be had at any attempt, which ends the request (`NoCredentials`). `S3Upload` and
`S3Download` take a request as answered, refused or given up, the service
having done it or not. A service that names no version (an empty ETag)
has a read take whatever is there, so `OneVersion` asks for one that does.

### The codec's coders

`SequenceCodes` carries the three copies the code has of the repeat-offset
history: `coder` (`Reps::code_for`), `parser` (the selects of the fast parser)
and `decoder` (`Reps::update`). A history is a state; that the next sequence
decodes, whichever it is, is the invariant, so blocks have no bound. The extra
bits are bits, cut at the 57 a word holds, and the finders' cap on far matches
is what keeps a sequence under them. `Tans` takes a table of 16 where the code
has 1024, with 8 symbols for its 64: in both, as `normalize` argues, the symbols
are at most twice the square root of the table. Its words are of 16 bits, and
wrap. In `GlydStream` the bytes written are numbered, a file
is the bytes of headers and payloads, and a failing call stores a part of its
block or nothing; a call of `write` is one step, with every block it fills.

`BlockTables` names a table by the attempt that made it and leaves its cost and
whether it covers a block to choice, so that every pattern of new, reused and
reset tables over three blocks occurs, in units, in stripes and with a
dictionary; a decoder is a thread with the tables its last call left.

### Envelopes, records, shapes, containers

An input here is tokens that stand for what a decision looks at (a gzip, a JPEG,
a line end, an image of records). What a trial finds (that an opened form is
smaller, that a JPEG shrinks, that record mode pays) is one choice for the whole
call. A decoder is modelled with every test of its guards, in the code's order,
because what could go wrong is one envelope taken for another or a count that
the writer allows and the reader does not.

`Records` keeps texts as characters, over a few letters: line ends keep the
values apart, so nothing coarser would do. Which encoding of a column is the
cheapest is a choice; each must come back. `Shape` trains on a sample as the
code does (frames by frequency, columns' types and seeds), and its LZ stage, the
identity as far as the image goes, is left out.

`Containers` has the walk of each format (gzip, zlib, tar, zip, PNG, PDF,
Parquet's and zstd's frames, safetensors and a checkpoint) as the run of tokens
it claims, and the segments, streams and cursors of closing. What
reproduces a run is outside: it gives a recipe or none, and a recipe closes only
the text it was made of.

### Deflate reproduced

Bits are bits: `Deflate` parses and writes blocks of all three kinds, codes and
headers included, with alphabets small enough that every string of 13 bits is
an input. `Zlib` is the matcher on a window that slides, the lazy, the fast and
the stored form; `Reflate` predicts, block by block, what that zlib would do and
keeps the differences as decisions; `RangeCoder` has the three binary coders.
Probabilities adapt in the code; here a decision has any of them, the same on
both sides. Left out: counts of 2^31 and more; how `detect` reads windowBits and
memLevel from a sample, which is a list of candidates here.

### Finders and blocks

Each parse runs over texts of two letters with every length of the code scaled
by about eight, so that windows are left, tables wrap, runs escape and far
matches are capped within 24 bytes. A hash is the least it can be, a few values
for all words, so that entries collide; a tag and a compare must catch it.
`Finder` is the token levels with the dense retry of a block, over a base too;
the average rate of matches that decides a block's way is a verdict.
`LongMatches` has chunks, gates and the cursor. `DoubleFast` keeps its tables
between blocks and a dictionary's between inputs. `Ultra` has the trees with
their undo, the dynamic program with the histories of its ways, and
`split_points`, with logarithms to a quarter of a bit and a step of one sequence;
the prices of the parse are given, two tables of them.

`CodedBlocks` writes a payload's sections as the encoder does, whichever of them
it codes, reuses or leaves raw, and reads them back with the decoder's guards;
then the copies, in groups, wild up to the margin, with what is past their ends
unknown. A checksum is any four bytes; a code stream's bytes under a table are
abstract, `Tans` being about them. A read past a stream's end, which the clamped
readers let be anything, is an error here. The framing is v9's; v8's wide one is
modelled in the payload only, v7's not at all.

## Runs

| Run | Shows | Bounds and why they are enough |
|---|---|---|
| `store` | chains stay within the cap, live objects readable through every order of puts, deletes, compactions, lifts, rebases; refinement of `ObjectStore` | cap 3, 5 entries, packs of 2, one job queued: a lift needs four entries in one chain and a fifth on it; 3 small objects make a full pack and an open one. The theorems below drop the bounds |
| `parts` | of the writer: waits mean written, index never ahead, first failure stops the rest, whatever write or insertion fails, every call returns; of the table: half full until a kill, no holder stranded, refinement of `Holders`; `id_of` is the latest live object; of S3: retries end in an answer, uploads and downloads whole or nothing; of the streams: every unit to the sink in order, once (refinement of `OrderedSink`), decoders return | 4 puts and flushes through a channel of 2 (full channel, one in the thread's hands, one waiting; an id sent a second time, a flush cut and one after it); fingerprints 3 and 7 collide at the end of a table of 4 and wrap, 4 inserts grow it from 2 slots, the lower of 2 holders replaced, kills anywhere, after which an id is given again; 4 entries, 2 names and one of a pack's form; 2 connections, 4 attempts as in the code, any of them without credentials, 4 pieces, one lapse, one overwrite; 2 workers on 4 units, 4 batches that use each buffer twice |
| `durable` | what opens and what rebuilds after a kill anywhere | 3 puts, 4 ids, one kill: a delta and its base, or a pack of two, and an id reused after the kill |
| `codec` | sequences, symbols, tables of blocks and files decode to what was coded | every bound of a code's range, a far offset, every history of 5 offsets; 3 histograms and 5 symbols, counts for all mixes of 8 absent, rare and frequent symbols; 3 blocks, two code streams and the literals: one block makes a table, one reuses it, one comes after a reset; 5 bytes in blocks of 2, 2 failing calls |
| `formats` | what every level writes, packs and deltas, comes back; texts and columns in record mode; objects under shape dictionaries; containers close exactly | inputs of 4 tokens in units of 2 and 3; texts of 5 pieces, a line or a field each; containers of 3 layers opened to a depth of 2, so that one stays closed; 9 tokens |
| `reflate` | any bits and any stream of three zlibs or another encoder open and close; codes are complete and no longer than allowed; matches are of the text; coders in step | bytes of 2 bits, window 8, chunks of 4: texts grown by 5 bytes from each seed leave the window, cross a chunk and end inside a byte, and so do streams of 4 tokens no zlib may have chosen; every string of 13 bits; frequencies that make codes past the limit of 3; counts coded up to 40; 5 decisions, of the likeliest and the rarest, make a carry run |
| `finders` | every parse replays to its input; blocks of every kind decode, at every distance from the end; codes are the best under their limit; trees stay sorted | texts to 24 bytes, grown 4 steps from 4 seeds; windows of 8 to 14, blocks of 8 to 14: three blocks, and a position that leaves the window. Copies of 12 at once for 32, groups of 2 for 8; literals of 4 symbols with codes to 2 bits; code lengths of every histogram of 6 symbols over 5 weights under a limit of 3, and of the rising ones under 4: there Huffman's own codes pass the limit, package-merge leaves its heaviest items out and makes packages of packages, and every prefix code within the limit is compared with |
| `durable_rebase`, `streams_wakeup`, `pack_count`, `records_sql`, `content` | a disagreement of the code with its own comments and tests (`findings`) | the smallest that show it |

Deadlock is not checked anywhere: every model stops by itself, at a bound or
because the call it models has returned. That nobody waits for ever is said by
`CallsReturn` and `DecodersEnd` instead.

### Fairness

`Writer` assumes weak fairness of the thread (it runs when it has a job or the
channel is closed) and of a call under way; none of the store making another
call, and none of spurious wakeups, which a platform need not give. The streams
assume weak fairness of each worker, of the writer thread and of the return
once all have ended: the threads are the operating system's, in a scope that
joins them. Again none of spurious wakeups: that is why the lost wakeup of
`compress_stream` is a hang, and the property says so only under fairness of
everything that does run. No fairness elsewhere.

### Counterexamples

Found while modelling. The first five are runs; each other one is seen by giving
the module named a configuration with the constants and the property of its row
(`SPECIFICATION Spec`, `CHECK_DEADLOCK FALSE`, model values for the rest).

| Module, constants | Property | What happens |
|---|---|---|
| run `durable_rebase` | `LargeAlwaysReadable` | kill inside `rebase` or `lift`: new stream, old index line; the object and all on its chain unreadable |
| run `streams_wakeup` | `CompressorsEnd` | `compress_stream` misses the last notification and hangs |
| run `pack_count` | `PacksComeBack` | a pack of very many objects of one length is refused by its reader |
| run `records_sql` | `RecordsComeBack` | line ends inside an SQL tuple's field: two values where there was one |
| run `content` | `ContentIsGunzip` | the content of a gzip lacks the members after one that does not open, with no error |
| `Durable`; MaxLen 3, MaxPuts 3, Jobs 3, MaxKills 2 | `SmallAlwaysReadable` | kill inside `flush` (`glyd-store/src/lib.rs:1234`): members listed, their pack not |
| the same | `AlwaysKeptByKill` (PROPERTY) | a deletion's line of an object lost to a kill deletes the object that gets its id |
| the same | `DeletionsRebuilt` | a deletion is undone by a rebuild |
| the same | `SidecarsHaveMembers` | a pack deleted by its id takes its members' lines out of its sidecar |
| `S3Request`; two threads, regions home and wrong, ATTEMPTS 4, MaxLapses 1 | `RedirectIsRetried` | two redirects at once: the second is returned as an answer |
| `Writer`; CHANNEL 2, MaxPuts 3 | `WaitedIsOwn` | a growth of the table that fails leaves a job without an entry; the next put has its id, and a read of it may get the other's stream |
| the same | `LinesHaveSidecars` | a flush that fails before its sidecar leaves lines in the index that a rebuild has not |
| `FingerTable`; HOLDERS 2, FirstCap 4, Hashes {0, 1, 3}, MaxIds 2, MaxInserts 6 | `AlwaysHalfFull` | kills between flushes leave the count low: the table fills up and a probe does not end |
| `Store`; MAX_DEPTH 3, PACK_OBJECTS 2, CHANNEL 1, MaxLen 4, MaxSmall 1, CONSTRAINT FewSmall | `CandidatesStored` | `within_cap` names a deleted, compacted head: a put fails |
| the same, MaxLen 3, MaxSmall 2 | `PacksFreed` (PROPERTY) | a pack whose members are all deleted is never removed |
| `Names`; three names, one of a pack's form, WriteFails TRUE, MaxLen 4 | `NameIsLive` | a put that is refused leaves its name at an id without an entry |
| the same | `LatestIsNamed` | deleting the latest object of a name hides the one before it, until the store is opened again |
| the same | `OpenedIsNamed` | a name that begins "pack of " is forgotten at the next open |
| `MCFormats` as in `MCFormatsCount.cfg`, with CountFactor 64 and PackLevels {"max", "cold"} | `PacksComeBack` | a pack at the cold level holds envelopes its reader does not take |
| `MCFormats` as there, PackLevels {"max"}, MaxText 4, Beyond {"repeats"} | `ShapeComesBack` | a frame with more values of one column than `count` in the reader allows for the image's length: refused |
| the same, MaxText 5, Beyond {"nul"} | `ShapeComesBack` | a line with a zero byte in it meets a frame, where the zero byte marks a value |
| the same, MaxText 5, Beyond {"wide"}, Word 256, MaxDigits 2 | `ShapeComesBack` | a number whose digits at its column's places pass the width of an integer |
| the same, MaxText 5, Beyond {}, MaxColumns 1 | `ShapeComesBack` | a sample of more columns than `MAX_COLUMNS`: training keeps a frame without its columns, and objects of it fail |

Comments that differ from the code, with no effect found:

- the extra bits of a match of at most `FAR_MATCH_CAP` (130) are given as 3
  (`v7_format.rs:28-30`, `v7_encode.rs:381-383`); `ML_BITS` gives 5 from 99 on.
  The bound argued for, 57 bits in all, holds all the same (18 + 5 + 26);
- `finder.rs` says of the dense parse that copies may overlap at any offset, but
  its matches are capped by their offset and no nearer than `MIN_OFFSET`;
- `v7_encode.rs:778` gives the window as 2^21; `LOCAL_WINDOW` is 2^23, still
  below the 2^24 the entries tell apart;
- `v7_ultra.rs` says that after the undo the trees are what they were. With a
  base they are not (the first pass's walks relink nodes of the base), and the
  undo takes the logged positions for consecutive, which skipped ones make
  untrue. What is left is sorted and points back (`TreesAreSorted`), so that only
  candidates are lost.

`reflate`'s `insert_to` and `commit` subtract the least match from the length of
texts that may be shorter: it wraps, without harm in a release build.

Further hazards, met while reading and seen in none of the runs: a put that the
writer refuses leaves a name (`glyd-store/src/lib.rs:1187`, the row `NameIsLive`
above); a deleted family's head as a base (`:863`, `CandidatesStored`); a kill
inside `Table::create` (`:154`); a torn index line, after which no open succeeds
(`:808`); `Drop`, which loses the error of its flush (`:1411`); names that look
like a pack's (`:615`, `OpenedIsNamed`); a damaged sidecar that a rebuild skips
(`:778`); the size of the object cache (`:1252`).

## Proofs

Every theorem is of the specification a run checks, for all values of the
constants its module's assumption allows; TLC evaluates the assumptions in the
runs. `PROJECT.json` lists the theorems (`theorems`). Each module has the same
parts: the conjuncts of the inductive invariant, a lemma for what each action
does to them, the invariance, then a short argument from the invariant to each
property. Each inductive invariant was checked by TLC on the run's instance
before it was proved.

`Store_proofs` is about `Store`, for every depth cap above 2, pack size,
channel and number of entries:

- `TypeCorrect`, `DepthsAlwaysDecrease`, `CapAlwaysHasNoVersions`,
  `LiveAlwaysReadable`, `LiveAlwaysInPack`: the invariants of the run `store`;
- `ChainsAlwaysShrink`: its action property;
- `Refines`: `Spec => Abstract!Spec`, the store implements `ObjectStore`.

Assumed are only the module's: `DepthAssumption` (lift puts a head at depth 2
or less, which must be under the cap), `PackAssumption`, `ChannelAssumption`,
`LenAssumption`, `NoneAssumption`.

`LiveReadable` is not inductive: `compact` must know that the bases of what it
keeps are kept, `lift` that nobody was stored against the head. The invariant
`IInv` is `Good` of the state, a conjunction of `Typed`, `Shape` (which kinds
point where), `Depths` (a base is earlier, large and strictly shallower; a root
is at 0), `Streams` (what is live is kept, on disk or queued; what is kept has
its base kept; a stream is the one its entry describes) and `Packs`. `Good` is
an operator of the five variables, so that a put, which lifts, chooses and adds
in one step, is proved in three (`LiftGood`, then the put's). A chain is a
recursive function; that it ends, is closed under bases and has at most
depth + 1 members is the first part of the module, by a least counterexample
among the ids (a set of naturals that is not empty has a least member), not by
the library's induction schemes.

`Durable_proofs` is about `Durable`, for every number of entries, of jobs under
way and of kills: `IndexStaysMemory` (with nothing under way, opening gives the
entries in memory), `KillKeepsIndexed` (a kill changes and loses nothing that
has its line), `OpensStayReadable` (opened at any moment, the store has what
it lists) and `SidecarsStayIndex` (with nothing under way, the store rebuilt from
the sidecars is the one opened from the index). All rest on `DurableInv`. Its first part, `Kept`, is what the lines of
the index and the lines of the writes still to be done, read in that order, say
of the entries.
`OfEntries`: each line is about an entry there is; `Newest`: a line under way is
its entry as it is now, and so is the last line of an id that has none under
way; `Deletions`: deleted in memory is what was never written or has a deletion;
`Written`: what has no line waits in the open pack or was lost by an earlier kill;
`Once`: outside a rebase a line under way is the first of its id, and the only
one; `Waiting`: the open pack holds small objects, each once and at its place;
`Reopens`: what has a deletion is deleted in memory.
`IndexIsMemory` speaks of the index alone when nothing is under way and cannot
survive the first write of an operation; the invariant speaks of both all the
time, so that a write moves a line from one to the other and a kill cuts the
second. The first two theorems leave out, as their properties do, what follows
the deletion of an object in the open pack that a kill then takes (the row
`AlwaysKeptByKill` above): only `Reopens` fails there.

The second part is about the streams. A stream is held when it is stored, or
under way with its object's line behind it (`Under`), and no write takes it
away. `LargeKept` gives a set of large objects held, with the base of each in
the set and every object in it that has a line or will have one, unless deleted in
memory too: `compact` takes the set's part that `Needed` covers, a kill its part
that has lines, and since a base's line comes before its delta's (`Based`), both
are closed under bases again. `SmallKept` says that of a small object with a
line its pack is an entry, held, with the object at its place, and has a line
too unless a flush is under way. What a kill undoes matters here: an object whose
deletion was not yet written comes back, so what the invariant keeps is what the
index says, not what is live in memory. `LargeKept` is given up once a rebase was
cut and `SmallKept` once a flush was, which is where the rows
`LargeAlwaysReadable` and `SmallAlwaysReadable` show them broken.

The third part is about the sidecars: `SidecarsStayIndex`, the store rebuilt from
them is the one in memory until the first kill, and after it has what is live in
the index. Its invariant `SideInv` (`SidecarInvariant`) is again about the writes
done and those under way. `AllAtHome`: what has a line has, stored or under way,
beside it (`Home`: its own id, or its pack's) a sidecar that says its entry; for a line
already in the index it is stored, outside a flush and a rebase, because a put
writes its sidecar before its line (`SidecarFirst`). `StoredLines` and
`DueSidecars`: a sidecar says no more than its own object's entry, the entries
of earlier small objects that have lines, and deletions that are in the index;
that is why the last line of an id, in the order of the sidecars' ids, is the
right one wherever another sidecar repeats it, and why a sidecar torn by a kill
is that of an object with no line yet or with a deletion. `Apart`: only small
objects are in packs. `FromStart`, until the first kill: no sidecar says more
than the index, and every deletion is in one. A kill undoes in memory a deletion
whose line was not written, so after it `AllAtHome` speaks of what has no
deletion. The exceptions of the property are those of the invariant: a pack
deleted by its id, whose sidecar then says the deletion alone, and a kill in
the two operations that write a sidecar after the lines, `flush` and `rebase`. The
text that `rebuild_with` reads is a recursion over the ids; that it has a
solution is shown by a least counterexample, and that it holds each line of each
sidecar in the order of their ids the same way (`TextOfSidecars`), since the
library's induction schemes cannot be instantiated here.
`DurableAssumption` says that `None`, the absence of an operation under way, is
none of the operations' names.

`Writer_proofs`: `WaitedObjectsAreWritten`, `IndexIsComplete` and
`FailureStopsTheRest`, for every channel and number of puts, whatever write or
insertion fails. The invariant: an id is sent again only while its entry is not
there (`Ids`); jobs in the channel and in hand follow each other in the order of
puts, an id twice only where it is said so (`InOrder`), and one not done with is
its entry's and not written off by `done` (`Awaited`); what a line needs is there
(`Lines`); what was sent, and what the store wrote itself, is there or to come, or
something failed (`Kept`); the writes of a job come in their order (`Ordered`);
and what either thread may rely on where it is, a flush between its writes too
(`Waits`).

`Streams_proofs`: `StreamsAreOrdered`, that `par_units`, `compress_stream`,
`compress_max_stream`, `decode_units_to` and `stream_batches` implement
`OrderedSink`, for every number of workers (at least one) and units. For
`decode_units_to` the invariant says that a unit taken is decoded or with a
worker, unless one failed, and that a unit whose turn it is is not left by the
worker that marked the last of them; for the compressors that what was handed on
is a prefix, whatever the slots hold.

`S3_proofs`: `OkMeansWhole`, `PartsAreGone`, `ReadsOneVersion`,
`RequestsEndInAnswers`, for every number of threads (at least one), pieces,
attempts and lapses. `OneVersion` is not inductive while a range is on its way; `RangesTaken` says
that each is still to take, with a thread, or there and of the first range's
version, unless one failed. `EndsInAnswer` counts: each attempt is a fault, the
one move of the region, or a token that lapsed, and each of those was older than
any the thread may still send (`TokensAreNewer`).
`None` is assumed to be no answer of the service.

`Parts_proofs`: of the names `NamesAreLatest`, for every set of names and number
of objects; a name's id is of the latest live object, kept through puts,
flushes, deletions and openings.

Of the fingerprint table `TableProbesSound` and `TableImplementsHolders` (the
table implements `Holders`), for every even size of a new table, every set of
fingerprints, number of holders a fingerprint keeps (at least one) and number of
insertions. The invariant `TableInv` says that the table is `Good` (each slot in
use is met by its fingerprint's probe with no empty slot on the way, `OnPath`;
none has more than `HOLDERS`), and, until a kill lost a part of it, that the count is that of the
slots in use and at most half of them (`Sound`). Nothing is assumed of the id
inserted, which a kill may have made any: the lookup's order takes it at its
`Position`, and the lowest leaves it (`FilledLookup`, `ReplacedLookup`).
Three arguments carry it: a probe is `(h + d) % C`, which meets every slot of a
round once (`ProbeOnce`, `ProbeAll`, from the uniqueness of remainders); the
holders in the order of their ids are a function of the holders alone, not of
the slots they stand in (`ArrangedOnce`), so that a lookup is not disturbed by
where growth puts them; and growth is followed insertion by insertion, with a
bijection from the slots inserted so far to the fresh table's (`Carries`), so
that none is replaced on the way and the count is exact again. The recursion of
`Reinserted` is shown to have a solution by a least counterexample.

`Codec_proofs`: `TablesInStep`, for every number of threads, code streams and
blocks, because a table's name says which block made it and the chain of tables
is the same on both sides (`Chained`, `InPace`), whatever thread decodes and
whatever calls failed on it before; `ReadsAreWritten`, for every size of blocks
and headers (a header has two bytes or more), calls and failures: the file is
always a stretch of whole blocks with at most a part of one at its end
(`Stores`), and the reader stands between blocks (`Reads`).
`SequencesAlwaysDecode`, for every set of lengths and of offsets a block of 2^18
bytes can have. The prover knows nothing of powers of two, so the proof carries
a table of them (`P2`) with its few laws; the codes' bases, a recursive function,
are shown to be their closed form (`BasesAre`), a code's field to be its value's
remainder, found bit by bit (`NextBit`, `FieldIs`), and the fields of a sequence
to be at most 57 bits: a length has up to 17, and an offset of more than 22 comes
with a match whose field is short (`SequencesFit`). The invariant is that the
histories of offsets are the same three on both sides (`InStepSequences`).

`TansAlwaysDecodes`, also of `Codec_proofs`, for every table of 2^4 to 2^15
states, every number of symbols m with m² at most four tables (64 with the code's
1024), every histogram of them and every run of symbols it has (`TansAssumption`).
Sums are read off their recursion by induction on the places (`Induct`, a least
counterexample). What rounding up gives too much is at most the most frequent
symbol's count less one (`Room`, `ScaledRoom`), so that `normalize`'s assertion
holds and no symbol present loses its place (`CountsFilled`). The spread's stride
is odd, has an inverse modulo the table (`OddInverse`), and so reaches each place
once (`OccurrenceIs`, `SpreadIs`): the places of a symbol are as many as its count,
by their cardinalities, and a place is found from its symbol and rank
(`PlaceFound`). A step of the encoder takes b or b - 1 bits, what is left is in
the symbol's range (`BitsTaken`), though the sum that chooses between the two
wraps (`Wrapped`), and the decoder's entry there gives the state before it
(`StepDecodes`). The encoder's pass, last symbol first, is solved (`PassIs`); the
invariant is that the decoder stands in the encoder's state before the symbols
already out, with what was written until then still to read (`Undoing`).

The parts instanced in `MCParts` and `MCCodec` share variables that an initial
state gives to one of them; `Spec` there is what the run checks, so its theorems
begin from `which` and use only the part's own actions.

## What stays with TLC

- Liveness (`CallsReturn`, `DecodersEnd`, `CompressorsEnd`): there is no proof
  of fairness here.
- What the codec's recursive definitions compute for every input (`Envelopes`,
  records, shapes, containers, deflate, finders, coded blocks): induction over
  data, which the installed provers cannot do. Where a recursion runs over numbers
  alone (the codes' bases, the sums and the pass of `Tans`, the table's growth) a
  least counterexample stands for it.

## What is not modelled

Reasons stand in `PROJECT.json` under each component. In short:

- of the store: writes are atomic (no torn line, no page cache lost with the
  power); the process is killed, the machine is not; one store per directory, one
  process at a time, as the code takes for granted; `LocalBackend`'s rename is
  one step; signing and parsing of S3's answers. A panic in a thread is not
  modelled;
- of the blocks: vectorised paths, which do what the scalar ones do and need
  tests on the processor; `split.rs` and `sparse_anchors`, which choose lengths
  and places that may be any; training of LZ dictionaries and their file;
- `weights/` with its rANS, and the header of safetensors past what places its
  tensors; `parquet.rs`, Thrift headers; `jpeg.rs` and `jpg/`, a model and a
  coder over coefficients, of which only the carry of the coder is here;
- `cm.rs`: both sides run one network over megabytes of state, and a small
  instance has nothing left of it; its coder and its envelopes are modelled;
- `rezstd/` and `resnappy.rs` are ports, right when they agree byte for byte with
  programs that are not in the repository; `preflate-rs` is vendored. A stream
  that they do not reproduce is kept, and that is modelled;
- command lines, C interfaces and bindings: one call each, no state.

## Plan

Done: `Store` with its proofs, `Writer`, `FingerTable`, `Durable`, `Names`, the
streams, S3; of the codec its coders, tables, files, envelopes, record and shape
modes, containers, deflate, finders and coded blocks.

To model next: `split` and `join` of `weights/kinds.rs` as inverse functions, the
states of `weights/rans.rs`, the Thrift reader of `parquet.rs`, `Table::create`
and `grow` write by write with the kill.

To prove next: single operators of the formats that recurse over numbers alone, as
lemmas beside their runs; the formats' invariants themselves are listed under
"What stays with TLC".
