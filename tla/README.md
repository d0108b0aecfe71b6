# RayVault: TLA+ models, checks and proofs

RayVault is a C library for RVP packages: files of optical time-domain
reflectometer traces. A client opens a package from a file or from memory; the
library parses its sections into tables, and a session answers queries, streams
waveforms through a cache, keeps a derived summary, and exports. The library is
single threaded. What is hard about it is not threads but *borrowing*: almost
every object holds pointers into storage that another call may release, reset
or evict, and a client may interleave the calls as it likes.

This directory has three groups of models. The *lifecycle* models are about
borrowing: the wave cache, the streams and cursors that share it, the arena,
the parser, and the life of a package and its session through reopen, reset,
migration, rebind, checkpoint and export. The *archive* models are about
content: what a builder writes, a decoder reads back, validation accepts,
repair changes, a merge keeps and a diff shows. The *query* models are about
answers: the index that is built out of an arena that may be full, and what
queries, filters and name searches return from it.

Paths below are relative to the repository: `internal/` stands for
`src/internal/`.

## Inventory

| Component | State it keeps | Operations | Correct when |
|---|---|---|---|
| Wave cache `internal/rv_cache.c` | entry array, count, LRU clock, generation | put, get, pin, unpin, evict, invalidate | count and array agree; a pinned entry is never evicted; it behaves as a bounded LRU map |
| Streams, cursors `internal/rv_stream.c` | window order and position; window id and wave position; one remembered pin each; generation at open | open, next window, next wave; seek, read, advance; close | no pin leaks; a slice shows its own block; a failed seek moves nothing; stale streams stay dry |
| Package `rayvault.c`, `internal/rv_package.h` | reader (backing buffer, directory, header), arena, parsed tables, flags, legacy flag | open file, open memory, reopen, reset, migrate, repair, validate, close | tables always belong to the current buffer and epoch, or the client was told |
| Session `rayvault.c`, `internal/rv_session_ops.c` | index, cache, derived summary | create, rebuild, warm, rebind, stats, queries, wave get, export, destroy | after a rebind nothing in it is older than the package |
| Derived summary, checkpoint `internal/rv_stats.c`, `rv_checkpoint.c` | counts and labels borrowed from the index | build, invalidate; capture, restore | counts agree with the tables they are shown with |
| Reader `internal/rv_reader.c`, `rv_format.c`, `rv_buf.c` | backing buffer, header, directory, path | open, reload, find section, verify CRC | no section outside the buffer |
| Parser `internal/rv_parser.c` | step index, phase, tables | init, step, run, reset | reaches DONE or ERROR; strict mode refuses what it should |
| Section decoders `internal/rv_section.c` | none | one decoder per section | rows lie in their section; what a writer wrote is read back |
| Arena `internal/rv_arena.c` | block, used, size, limit, epoch | init, alloc, calloc, strdup, grow, reset, mark, rewind, destroy | live allocations never overlap; no request that fits is refused; pointers stable until reset (its contract) |
| Index `internal/rv_index.c` | node arrays, direct id maps | build, clear, find, marker query | a ready index is whole and finds exactly the rows with the id |
| Name dictionary, string pool `internal/rv_dict.c`, `rv_stringpool.c` | hash table | build, lookup, intern | a lookup finds what was put |
| Normalise, validate, cross-reference, repair `internal/rv_normalize.c`, `rv_validate.c`, `rv_xref.c`, `rv_recover.c` | work on parsed tables | sort, clamp, check, drop links, recover SUMM | a valid package has no dead ends; a repair makes no check fail and is idempotent |
| Export, builder, merge, diff `internal/rv_export.c`, `rv_builder.c`, `rv_merge.c`, `rv_diff.c` | output buffer, builder tables | build image; add rows; merge; compare | a round trip keeps the tables; a merge keeps references; a diff of a merge shows what was merged |
| Query, filter, batch `internal/rv_query.c`, `rv_filter.c`, `rv_batch.c` | none | pure | agree with their definition |
| Plugins, notification, diagnostics, configuration, log | small tables | register, emit, add | bounded |
| Analytics, numerics, reports, text export | none | floating-point and formatting | not modelled |

How they interact. The *reader* owns the backing buffer. The *parser* fills
tables in the *arena*; WAVE rows point into the buffer. The *index* is in the
arena and points to table rows and names. The *cache* copies the sample
pointers of WAVE rows. The *derived summary* borrows labels through the index;
a *checkpoint* copies the summary with those borrowed labels. *Streams* and
*cursors* refer to index and cache and pin cache entries. Reopen, reset and
migration replace buffer or arena underneath; the session learns of it only
when the client rebinds. A session's notification callback is called when an
operation has done its work; the models take it not to call the library back.
Builders, merges and diffs touch packages only by reading their tables.

Hard behaviours: the interleaving of readers on one cache of a few entries;
a one-bit pin shared by readers; failure half way through reopen (after the
arena has been reset), parse or seek; a file that changes or vanishes between
two calls; snapshots (summary, checkpoint) older than the tables; counters that
wrap; an arena from which calls take and only a reset gives back; builders that
run out of memory half way through a merge; files torn by a short write or
damaged later; ids that collide after a merge. Time-outs, retries and messages
do not occur, nor does crash recovery:
nothing is persisted but what the client writes. `PROJECT.json` lists the
hazards with their lines.

## Modules

| Module | Models | Role |
|---|---|---|
| `WaveCacheOps` | `internal/rv_cache.c` | the cache calls as operators on a cache value, so that an API call can compose several |
| `WaveCache` | same | any sequence of cache calls |
| `LruCache` | what the cache promises | abstract bounded LRU map: no array, clock, counter or generation |
| `PackageIndex` | lookups of `internal/rv_index.c` | operators on the window and wave tables, and the ids no map holds |
| `WaveReaders` | `internal/rv_stream.c` and its wrappers in `rayvault.c`, `rv_wave_get`, `rv_session_warm_cache`, `rv_session_rebind` | composes the cache with streams, cursors and the session |
| `PackageSession` | lifecycle in `rayvault.c`, `internal/rv_session_ops.c`, `rv_checkpoint.c`, `rv_stats.c`, `rv_legacy.c`, reload of `rv_reader.c` | composes package, session, cache, checkpoint and the file |
| `Arena` | `internal/rv_arena.c` | bump allocator with growth and marks; malloc and realloc are its environment |
| `SectionDirectory` | `internal/rv_reader.c`, header and entries of `rv_format.c` | loading a directory, lookup, slices and checksums of sections, as operators |
| `Parser` | `internal/rv_parser.c` and the calls of `rayvault.c` that run it | one action per turn of the loop of `rv_parser_run` |
| `ParseContract` | what a parse promises | abstract: all sections or an error, in one step |
| `PackageTables` | rows and tables (`rv_parsed`), `internal/rv_normalize.c` | operators on parsed tables |
| `PackageImage` | layout of `internal/rv_export.c`, decoders of `internal/rv_section.c` | operators between tables and bytes |
| `Consistency` | `internal/rv_dict.c`, `rv_xref.c`, `rv_validate.c`, `rv_recover.c` | what validation checks and repair changes |
| `PackageBuilder` | `internal/rv_builder.c`, `rv_merge.c` | builder calls and merges on a builder value |
| `Archive` | the calls over them, `internal/rv_diff.c` | composes builder, images and two packages |
| `Doubling` | the loops of `internal/rv_section.c` and `rv_index.c` that double a size | a recursive function |
| `NameDict` | hash table of `internal/rv_section.c`, `rv_dict.c` | open addressing |
| `TableIndex` | `internal/rv_index.c` | the index while it is built, from an arena that may refuse |
| `Queries` | `internal/rv_index.c`, `rv_query.c`, `rv_filter.c` | queries as operators on an index |
| `SessionQueries` | their callers in `rayvault.c`, `internal/rv_session_ops.c` | composes index, queries, dictionary and arena |
| `MCWaveCache`, `MCWaveReaders`, `MCPackageSession`, `MCArena`, `MCParser`, `MCArchive`, `MCSessionQueries` | | instances for TLC |
| `WaveCacheOpsProofs`, `WaveCacheProofs`, `WaveReadersProofs`, `StorageProofs` (of `Arena` and `Parser`), `PackageSessionProofs`, `ArchiveProofs`, `SessionQueriesProofs`, `DataProofs` | | lemmas and theorems |

A definition after a comment "mutant" is a plausible bug in the definition that
follows it. No specification uses it; it documents which bug each property
catches.

### WaveCacheOps, WaveCache, LruCache

A cache value has the entry array (`slot`, `Free` for `in_use == 0`), `count`,
`tick` and `gen`. An entry has its block id, a view (samples, count, start,
step and window id, which the code always copies together), generation, tick
and pin flag. The array scans are kept: `Find` is the first match, `Victim` the
first smallest tick among entries in use and not pinned, a fill takes the first
free slot. `NextGen` is the `uint32_t` increment that skips 0, with `MaxGen` in
the place of `UINT32_MAX`. Out of the model: hits, misses and evictions
counters, which nothing reads, and wrap-around of the 64-bit LRU clock.

`ImplementsLru` maps the array to a partial map from blocks to views, the set
of held blocks and the order of last use, and says that every call is a step of
`LruCache`: same hits, views, victims and refusals.

### WaveReaders

`tables` is the parsed package with its index (a pure function of the tables);
`pin[r]` is `pinned_block` while `has_pin` is set; a stream has its window
order, position and generation at open; a cursor has the window id and wave
position of its last successful seek. `FillSlice` is
`rv_fill_slice_from_cache_or_block` in its order: get, or put and get; move the
pin; forced eviction; copy the slice through the entry pointer taken before the
eviction. `rv_session_warm_cache` takes one step per turn of its loop
(`warming`), during which no other call runs. Windows are sorted by id, as
`rv_normalize_parsed` leaves them; ids may be 0, missing or duplicated.
Left out: out-of-memory returns, and replacement of the package (that is
`PackageSession`).

### PackageSession

Buffers are numbered as they are allocated and the arena counts epochs, so a
pointer is modelled by the buffer or epoch it leads into. `package` has the
reader's buffer and header, the parsed tables with the buffer and epoch they
point into, and the legacy flag; `session` has the epoch of the tables its
index points into, its cache (views are buffer numbers) and summary. What is
read through a pointer into a reset arena is `Unknown` or any value. The
contents of a file are the size of its tables, its block ids, version, feature
bit, and whether all sections decode. `FileChanges` is the environment. `overdue`,
and the fields `at` and `trusted` of a checkpoint, are bookkeeping of the
client, not of the library: they record the protocol that
`tests/test_lifecycle.c` follows (after a reset or reopen, rebind without
retaining the cache; do not restore a checkpoint taken before). The code is free
to break it in the model; the properties say what holds for a client that keeps
it.

Left out: out-of-memory returns, arena growth (that is `Arena`), strict mode
(that is `Parser`), directories that break off behind a good header, repair,
and calls that only read.

### Arena

A pointer is a block number and an offset; a `realloc` fails, extends the block
where it is, or moves it to a new number. `live` holds what callers may still
use, with the length the arena counted and the length that was asked for;
`mark` holds the marks they may still rewind to. Both are bookkeeping of the
callers: a reset or a rewind takes away what lies behind it. Callers are
taken to rewind only to marks they still hold (nothing in the library itself
rewinds yet). `AlignUp` is what both
paths of `rv_align_up` compute, and the doubling loop of `rv_arena_grow` is
the least doubling that is large enough and within the limit, or else the limit.
The product of `rv_arena_calloc` is taken modulo `SizeMax + 1`. Additions of
offset and size are not: the limit keeps them far from `SIZE_MAX`. `peak` and
`grow_count` are written and never read.

### SectionDirectory, Parser, ParseContract

A file is what the code tells apart: whether the header is sound, the version,
the size, and a directory of sections with their tag, offset and length, whether
the CRC is absent, right or wrong, and whether the decoder accepts the payload.
The test of `rv_reader_load_directory` adds offset and length with wrap-around
(`OffsetMod` for 2^64); the test of `rv_slice_sub` does not. A load that fails
leaves the directory empty, or cut off behind the bad entry, as the code does.

`Parser` has one action per turn of the loop: the two header steps, one step per
section (`SectionStep`), and the last. A step passes over a missing section,
decodes it, or fails, in the order of the code's tests; the arena may refuse any
decoder but that of SUMM, which needs none. A failed open frees the package; a
failed reopen or reset leaves it with the sections decoded so far.
`rv_package_open` stands for both open calls. A table is named by the
directory entry it was decoded from. What follows a successful run in
`rv_package_finish_open` (normalisation, the legacy flag) belongs to
`PackageSession`, where a whole parse is one step.

`KeepsContract` hides the tables while the parser runs and says that each run is
then one step of `ParseContract`: all the sections of the reader's directory, or
an error that an acceptable package only gets for want of memory.

### PackageTables, PackageImage

A row has the fields that a check, a query or a merge looks at. Measurements
that are only tested against physical ranges are one Boolean `ok`; names are
members of `Name` with a length, because padding and the limit of 127
characters depend on it. `Normalize` is the insertion sort (equal ids keep
their order), the clamp of severities and the window of a lone wave.

An image is a `File` of `SectionDirectory` whose entries also hold the records
that lie at their offset. The writers add up lengths as the code does: header,
directory, bodies one after the other. The decoders use the count, the length
and the sizes of the records, and where the count says more than the section
holds, `Records` gives `Beyond`: so a test that is missing shows. Names and
waves, whose records say how long they are, are decoded by the walk over the
bytes that remain. The limits on counts and samples are parameters. Out of the
model: byte order, and memory refused to a decoder (that is `Parser`).

### Consistency, PackageBuilder, Archive

`Failures` is the set of checks of `rv_package_validate` that fail; only
whether it is empty is shown to the caller. Routes, windows and waves are looked
up in the index, which never finds id 0; instruments and calibrations by a
scan, which does. `Repair` is `rv_repair_package` with the options
`rv_package_repair` passes.

A builder call works on the builder, the number of allocations still granted,
and `ok`: every array doubles when it is full, and a refusal ends the call with
what was added before still there. `rv_builder_add_wave` adds a row as it is, one
without samples too, which a decoder accepts; `rv_builder_add_wave_copy`
(`AddWaveCopy`) refuses such a row and first allocates the copy. A merge uses the
latter, so it drops waves without samples. `MapName` swallows a refusal, as
`rv_merge_map_name` does. `MergeSide` goes table by table in the code's order,
with one operator per table; ids are added modulo `IdMod` (2^32).

In `Archive` a client has one builder, one file or buffer and two packages. A
write may be torn at the header, the directory or in the sections; a stored
image may decay in a count field or in bytes no row shows. An image carries the
rows it was written from and what it is a merge of: bookkeeping that lets the
properties speak of what the client wrote. Every call is a step; memory refused
to calls other than the builder's is in the other models.

### Doubling, NameDict, TableIndex, Queries, SessionQueries

`rv_idmap_put` grows the direct map by doubling and copies the old one. The
capacity it needs, `id + 1`, is taken modulo `IdMod` (2^32) as the `uint32_t` of
the code: for the id 2^32 - 1 it is 0, no map grows, the row is stored far outside
the map and the call succeeds. That is undefined behaviour. The model goes on
with the outcome in which nothing that is read later is hit (in the others the
process ends, or anything may follow), and the properties that rest on the
index have the premise `StoresHit`, that no row has this id. A lookup of
it is beyond every map and finds nothing, like one of 0 (`Unmapped`, in
`PackageIndex`). Old
maps, the index a rebuild replaces, the index a validation builds for itself
and the answers of queries all stay in the arena until a reset. `used` counts
those bytes; `grants` is how many allocations of a call the environment grants,
so both ways to fail (the limit, and memory) happen at every allocation of a
build. The arena here is a counter: where the block lies and how it grows is in
`Arena`. `Executed` gives every order that `qsort`, which is not stable, may
leave. The reference for the answers is written over the tables, without index,
in the properties (`Wanted`; for a search of near markers
the set itself).

`rv_name_find` returns the id of the row the search found, and `rv_name_lookup`
of that id the first row that has it. So `NamesAreFound` says that the lookup
yields the name again only if no other row has the id. Neither `rv_decode_snam` nor
validation looks for such a row.

Left out: date and range bounds of a span filter, buffers smaller than the
answer, and sessions that go on without a rebind after a reset
(`PackageSession`).

## Runs

| Run | Shows | Bounds |
|---|---|---|
| `wave_cache` | `CacheInvariant`, `PinnedStays`, refinement of `LruCache` | 4 blocks for 3 slots (so eviction, refusal and refresh all happen), 2 views, generations wrap at 2, clock to 5: enough to fill the cache, touch and evict. Blocks and views are symmetric |
| `wave_readers` | pins, refusals, slices, cursors, stale streams | 2 slots (the minimum `rv_cache_init` allows) and 2 readers: exactly the number at which reads are refused. A regular package, one with a missing block, a window id 0 and a duplicated block id, and one smaller than the cache. States that differ only in tick values with the same order are identified |
| `package_session` | `SettledSessionIsCurrent`, `RepliesAreCurrent`, `LegacyFlagIsTruthful`, `ReopenIsFreshOpen` | legacy, current, undecodable and unsupported files or none; 3 buffers and 3 epochs: open, fail or migrate, reopen or reset. One block id, present or absent, in a cache that it cannot fill: eviction is the business of the other two runs. Cache order and the last reply, which no action reads, are not part of a state's identity |
| `rebind_after_migration` | violates `RebindRefreshesViews` | one legacy file |
| `migration_mark` | violates `MigratedPackageIsMarked` | one legacy file |
| `exported_summary` | violates `ExportedSummAgrees` | two current files |
| `arena` | `AllocationsKeepApart`, `RequestsAreWhole`, `RefusedOnlyWhenFull` | smallest block 2, limits 1, 5 and 7 (not powers of two, one below the smallest block), requests of 0 to 5 bytes, `SizeMax` 11 so that 3 * 5 and 5 * 5 wrap; alignments of a pointer and of 3; two blocks, so one move; the epoch wraps at 2. Only the last reply is outside a state's identity |
| `arena_contract` | violates `PointersStayValid` | same |
| `parser` | `SectionsInsideFile`, `KeepsContract`, `ParseEnds` | whole files and files with SNAM, WAVE, NOTE or SUMM missing, misplaced (with and without wrap-around of the sum), corrupt or undecodable; repeated tags; reversed order; a bad entry amid good ones; no directory, unsupported headers, no file. One irregularity at a time is enough because each section is judged by itself |
| `archive` | the ten properties of `Archive` | two images by hand (or exported) and one merge of them, which is compared with its left side; one row besides those of `rv_builder_demo_span`, each broken in one way: no site name, no window, too severe, out of range, dangling links of two kinds, a doubled or zero window id, a wave without window, a wave without samples. A name longer than a builder keeps; limits of 2 markers and 2 samples so that what a builder writes may be refused; 9 allocations (too few for the rows of one span) or enough. Ids below 10, bias 10, ids modulo 64: sides stay apart. The two packages are symmetric; the last reply is not part of a state's identity |
| `merged_ids` | violates `MergedIdsAreDistinct` | four images: two by hand, their merge, and the merge of that with the second again |
| `session_queries` | `ReadyIndexIsWhole`, `ResetMakesRoom`, `AnswersMatchTables`, `QueryResultIsSound`, `NamesAreFound` | packages with ids so far apart that a map is regrown, with doubled and zero ids, empty, with an id beyond the largest map, with the largest id there is (127, ids modulo 128), and with too little room; an arena for one to three indexes; 4, 9 or enough allocations per call, so that a build fails in a table and a query at its buffers; names of which three share the last bucket, so that probing wraps and fails |

Deadlock is checked in every run. The library only acts when called, so only
`parser` assumes fairness: weak fairness of `rv_parser_step`, because
`rv_parser_run` is a loop that nothing suspends. No call is ever assumed to be
made.

### Where documentation and code disagree

- `docs/compatibility.md` sends clients that migrate to `rv_session_rebind`,
  which never parses again; only `rv_package_reset` refreshes the views
  (`rebind_after_migration`).
- Feature bit 0x100 is set in the tables after the migrated image has been
  written, so the image lacks it and the next parse loses it
  (`migration_mark`).
- The SUMM section of an export may count older tables than the ones beside it
  (`exported_summary`).
- `rv_arena.h` promises that pointers stay valid until the next reset, across
  later allocations; growth is a `realloc` that may move the block
  (`arena_contract`).
- `rv_merge.h` remaps ids "when collisions occur"; the code adds 100000 to all
  ids of the right side and looks for none, so merging a merge collides
  (`merged_ids`).
- Noted while modelling archives, without a run: `docs/architecture.md` says
  repair drops dangling links, and it drops only those from markers;
  `rv_xref.h` names checks of CLBR to INST and of all link ends, and only links
  from routes and to windows are checked. A merge biases references that are 0,
  which mean "none", into dangling ones, and loses the flags of waves and whole waves that
  have no samples (`internal/rv_merge.c:111`), to which their windows go on
  referring. An export
  never writes NOTE and drops the "repaired" flag; with `RV_EXPORT_COMPACT` and
  without waves it keeps the windows' references to them.
  `rv_builder_add_wave_copy` loses its copy if the array cannot grow, and
  `rv_builder_write_file` its first buffer. A session whose rebuild fails leaves
  a half-built index that an open stream would still walk
  (`internal/rv_stream.c:96`), which no model has: streams are in `WaveReaders`,
  whose index is whole. An id of 2^32 - 1 wraps the size its map needs
  (`internal/rv_index.c:21`): see `TableIndex` above.
- Noted, without a run: `rv_cache.h` says generations track "reopen / rebuild",
  but neither bumps the generation (only a rebind does);
  `docs/compatibility.md` says version 1 is accepted with
  `RV_OPEN_ALLOW_LEGACY`, and `rv_reader_load_directory` accepts it without;
  `docs/format.md` calls MARK, LINK and NOTE optional, but a strict parse
  refuses a package that lacks one, and no export writes NOTE; SUMM has a CRC in
  the directory that no parse verifies, and `RV_OPEN_SKIP_SUMM` has no effect.

## Proofs

All theorems hold for every capacity, block set, view set, number of
generations, (readers) every number of streams and cursors and every package,
(arena) all sizes and limits, (parser) every file and directory, (sessions)
every number of buffers and arena epochs, (archives) all rows, names, ids
and limits, and (queries) all tables, filters, plans, hashes and arena limits,
under the named assumptions of the modules and the premises the properties state.

`WaveCacheOpsProofs` has the lemmas. Its invariant `Good(c)` is the type of a
cache value with `CacheSound`: exact count, no block twice, distinct ticks
behind the clock, one generation. Distinctness is what makes it inductive: a
fill of a block already present, or two equal ticks, would break the exact
count and the choice of the victim. Refresh, hit, pin and unpin are all
instances of one "in place" update, proved once; then eviction and fill; then
the put as their composition.

`WaveCacheProofs`:

- `CacheAlwaysSound`, `TypeCorrect`, `PinsAreRespected` follow from `Good`.
- `CacheIsLru`: `WaveCache` implements `LruCache`; each call is matched with the
  abstract step that has the same reply.

`WaveReadersProofs` rests on the inductive invariant `IInv`: a good cache whose
entries are rows of the wave table, pins owned by readers, well-formed reader
positions, and the two facts about the last reply.

- `NoPinLeaks`: an entry is pinned only while a reader remembers it. The
  one-bit flag may be cleared early by another reader, never leaked.
- `RefusalNeedsStarvation`: a refused put means every slot is pinned; distinct
  blocks in the slots are pinned by distinct readers; hence at least as many
  pin holders as slots.
- `SlicesAreFaithful`: the entry was pinned before the forced eviction, so it
  is not the victim, and entries are rows of the table.
- `CursorsStayOnTheirWindow`, `AdvancesStepByRow` (unique window ids).
- `StaleStreamsNeverRead`: within the bound `gen < MaxGen` on rebinds, that is,
  fewer invalidations than the counter has values. After 2^32 - 1 of them the
  generation returns and a stream left open would read again.

`StorageProofs`, on the arena, rests on `ArenaInv`: the three invariants and
that no mark lies beyond
`used`. The marks are needed because a rewind to one of them must leave `used` below
the block's size; disjointness needs that every live region ends at or before
`used`. `GrowthMakesRoom` says what the doubling loop gives, with the least
element of a set of naturals from well-founded induction;
`TestedProductIsWhole` is the arithmetic of the overflow test.

- `ArenaStaysInOrder`, `AllocationsNeverOverlap`, `RequestsNeverWrap`: for all
  sizes, alignments, limits, and any choice of the environment at a `realloc`.
- `RefusalsAreDue`: a refused request had no aligned place below the limit. It
  rests on `AlignUpIsLeast` (no aligned place from `used` on lies before the one
  rounding up gives) and on `GrowthMakesRoom` (a block grown for what is within
  the limit holds it and is itself within the limit).

On the parser it rests on an invariant that says of a running parser: the tables
of the sections behind `step_index` are what the directory has of them, and
acceptable; the others are empty. `SectionOutcomes` states what a section step
can do.

- `ParserStaysInOrder`, `DecodersStayInside`: bounds of the counters; no bytes
  beyond the file.
- `ParserKeepsContract`: `Parser` implements `ParseContract`. The walk is a
  stutter; a failing step shows the prefix before it; the last step shows all.
- `RunsAreShort`: no call comes between the turns of a run, and each turn ends it
  or raises `step_index`, up to `LastStep`. That is the variant behind the
  liveness property `ParseEnds`; that a turn is always possible, and hence
  happens, is for TLC.

`PackageSessionProofs` rests on an invariant that says what is current when
nothing is overdue: unless the client has a package to refresh, its tables are
whole and lie in its present buffer and epoch (`FreshUnlessOverdue`); then a
session that is not overdue either has index, cache and summary from there; a
checkpoint taken in the present epoch counts the present tables
(`CheckpointsAge`), without which a restore would bring an old summary back; and
what the last reply showed is still true. Every call on a session is shown to
keep a current session current (`Keeps`), whatever it works through; every call
on the package either leaves it fresh or makes it overdue. The lemmas on the
cache come from `WaveCacheOpsProofs`; the cache is
assumed larger than the set of blocks, so that a read evicts nothing: eviction
is the matter of the other two models.

- `PackagesStayComplete`, `ProtocolRefreshes`, `LegacyFlagStaysTruthful`,
  `RepliesStayCurrent`, `ReopenMatchesFreshOpen`: for any files, however often
  they are opened, migrated, reset and reopened, with failures in between.

`ArchiveProofs` rests on four facts: the builder is typed and interns; a merge
that drops unlinked markers has the windows of those it added; every file is one
that was laid out by a writer, cut short, or damaged in a count or a checksum
(`FileIsSound`); every package is what opening such a file yields, or what a
repair makes of that, within the limits of the decoders (`PackageIsSound`),
which is needed for what an export of it writes to open again.

- `TablesStayTyped`, `BuilderInternsNames`, `MergeDropsUnlinked`: each builder
  call is followed through its folds (`AddNameKeeps` to `MergeSideKeeps`), a
  refusal at any allocation included. `MergeDropsUnlinked` needs that the windows of a
  side are added before its markers, and that no later call takes one away.
- `WritersAgreeWithDecoders`: sections lie one behind the other up to the end of
  the file (`WrittenIsLaidOut`), each is found by its tag and inside the file, a
  walk over records ends where their lengths add up to (`WalkMeasures`), and so
  each decoder yields the rows again exactly when they are within its limits
  (`LaidOutIsFaithful`).
- `HalfWrittenFilesAreRefused`: the last section of a file that was cut short
  ends behind the end of the file, or the header is gone (`TornIsSound`).
- `DecodersStayInside`: a count larger than what the section holds fails a
  decoder's test of sizes, or its walk (`CountIsCovered`).
- `ValidPackagesHaveNoDeadEnds`: the index finds some row for every id that
  occurs but 0 and 2^32 - 1 (`CellIsRow`), whichever of two rows with the same id
  it is.
- `RepairIsSafe`: the insertion sort keeps the rows and sorts them
  (`SortWindowsSorts`), a sorted table is left alone by a second sort, the
  compaction selects the attached links in order (`CompactLinksSelects`), and
  nothing a check looks up gets lost on the way (`MendedHelps`, `MendedIsDone`). It
  needs the part `Filled` of the invariant: in an open package no wave without a
  window is left for a lone window to fill, for every parse ends with a
  normalisation. So a repair fills in nothing, and
  in particular no window of an id that cannot be looked up
  (`NormalIsFilled`, `MendedResolves`).
- `MergeLosesNoReference`: each fold of a merge puts the images of its rows, in
  their order, behind what was there, and no later fold touches them
  (`MergeKeepsSides`), so every row of a side has its image in the builder, its
  id moved by the bias of the side (`Embedded`). Of the waves only those with
  samples have one (`WavesEmbedded`): a window's samples are the same as before, or
  its wave had none. The bias is injective on 32-bit
  ids (`BiasedIsInjective`), so with sides that stay apart a lookup with a moved
  id finds the image of the row the lookup found before, by the index
  (`CellMoves`) and by a scan (`ScanMoves`). Two conditions turned out to be
  needed that the runs with few ids never met: an id of the right side
  may become 0 or 2^32 - 1 under the bias, and the index then does not find its
  row (hence the second conjunct of `Apart`); and two markers with id 0 would show as changed
  in a diff (hence `Plain`).
- `DiffsTellMerges`: a second invariant, `MergesAreTrue`, follows a merge from
  the builder through the file into a package: the builder has the routes of
  both sides, of their markers with a window an image, and no other markers
  (`MergeMakesMerge`), a file of a merge is whole, for only the first image may
  decay, and the package has its rows, normalised. No severity of an open package
  is above the limit, so the normalisation of the merged rows changes
  nothing that a diff compares (`ClampKeepsTwin`).

`SessionQueriesProofs` rests on the inductive invariant `SessionInv`: types, the
arena within its limit, after a reset nothing but the parse in the arena, and a
ready index that is whole (`IsWhole`). The last, which is claimed of packages without the
id 2^32 - 1 (`StoresHit`), says more than
`ReadyIndexIsWhole`, which asks only for the ids that occur: `IsWhole` says of
every number what its map cell is, as `IsFilled` does of an index in the middle
of a build, when the first k rows of a table are in. Storing a row in a map,
grown or not, changes the cell of its id and no other (`PutWorks`, `AddNodeWorks`),
the fold over the rows of a table takes `IsFilled` from 0 to all
(`IndexTableWorks`), and filling one table leaves the others alone (`BuildWorks`).
A refusal anywhere ends in `ok = FALSE`, about which nothing is claimed but that
the arena stays within its limit.

- `SessionTypes`, `ReadyIndexWhole`, `RoomAfterReset`: from the invariant. The
  last needs that a session which is stale has nothing in the arena but the
  parse, so that its build is that of a first open.
- `AnswersFromTables`: a marker passes the tests on a whole index exactly if the
  tables say so (`PassesIsWanted`), given unique window ids; the instruments of a
  route are listed once each (`InstsListedOnce`); a search of near markers
  is a scan.
- `QueryResultsSound`: the answer is an arrangement of the accepted markers, cut
  off at the limit. That nothing is in it more often than in the table is shown by
  an injection of positions (`Embeds`, `EmbeddedIsSmaller`), for which neither the
  sort order nor its instability matters.
- `NamesFound`: after k insertions each of the first k names is met by its probes
  before any free bucket (`Hashed`), no position is in two buckets, and with fewer
  names than buckets one is free (`FreeBucket`), which every sequence of probes
  meets (`ProbesReach`). `BucketsSuffice` is the arithmetic of the table's size.
  An earlier form of `NamesAreFound` asked only that ids other than 0 be unique,
  as is enough for the index, and TLC agreed because no package of the run had
  two names with id 0. The proof did not go through, for two such names are a
  counterexample: the lookup of 0 finds the first. The property now has the
  condition that is needed and the run has such a package.

`DataProofs` has what these proofs need to know of data: `Min` and `Max` of sets
of naturals, induction along the positions of a sequence, and that a `FoldLeft`
runs through partial results that each follow from the one before. All of them
rest on one fact, that a set of naturals has a least member: induction is
over a set of numbers, and a fold is given by a function on pairs of a value
and a position, because no theorem with an operator as parameter can be applied.
Each fold of the models has one lemma that ties it to its run (`AddRowsRun` to
`CompactLinksRun`), and from there a proof goes position by position.

The inductive invariants were checked by TLC on the instances of the runs before
they were proved; of the one of `Archive`, the parts that TLC can evaluate.

Assumptions of the theorems, besides types: (`ViewAssumption`, `FitsAssumption`)
views are buffer numbers and the cache of a session is larger than the set of
blocks; (`BeyondAssumption`, `NoneAssumption`, `DistinctAssumption`) model values
are not data; (`ClipAssumption`, `ClipLengthAssumption`) a cut name is within the limit
and is not cut again; (`RowLimitAssumption`, `SampleLimitAssumption`) the limits of the
decoders are numbers; (`RowAssumption`, `WidthAssumption`) ids and references are `IdMod` wide, as
the `uint32_t` fields of the rows are; (`BiasAssumption`) the bias of a merge and
the first capacity are numbers; (`HashAssumption`) the hash is a number;
(`PackageAssumption`, `FilterAssumption`, `GrantsAssumption`) packages, filters,
plans and searches have their types, ids of packages are 32 bits wide, and one of
the grants is plenty; (`LimitAssumption`) the
default limit of a query is not 0 (it is 1024, `internal/rv_query.c:126`). TLC
evaluates all of them.

Only model-checked: the liveness property `ParseEnds`, because it needs fairness
and ENABLED. Every other property of a passing run is stated by a theorem.

## Not modelled

- Plugins, diagnostics, configuration, log: small fixed tables. Nothing in the
  library emits to the plugin registry, and nothing reads diagnostics but a
  client.
- `rv_stringpool.c` and `rv_footer.c`, which nothing in the library calls;
  `rv_batch.c`, a loop of open, validate, stats and close.
- Analytics, numerics, waveform processing: floating-point computations over
  samples without state, out of TLC's reach.
- Reports, text export, compatibility wrappers, CRC: formatting, one-line
  wrappers and a checksum.
- Memory refused to output buffers and decoders of an archive, and the
  accessors that copy one row out of a table.

## Plan

The models are complete as far as "Not modelled" says, and every property of a
passing run but the liveness property is proved. What would come next is the
session that goes on after a failed rebuild with streams still open, which joins
`SessionQueries` with `WaveReaders`.

Abstract specifications: `LruCache` and `ParseContract`. Not planned: analytics,
numerics, reports and text output.
