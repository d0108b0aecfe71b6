--------------------------- MODULE PackageSession ---------------------------
(***************************************************************************)
(* A package, the storage it borrows from, and one session on it           *)
(* (src/rayvault.c, rv_session_ops.c, rv_checkpoint.c, rv_stats.c,         *)
(* rv_legacy.c and the reload of rv_reader.c).  Parsed tables, index       *)
(* nodes, cache entries and derived summaries hold pointers, not copies:   *)
(* into the backing buffer for samples, into the arena for everything      *)
(* else.  The state records which buffer and which arena epoch each of     *)
(* them points into.                                                       *)
(*                                                                         *)
(* Left out: out-of-memory returns, growth of the arena (a block that      *)
(* realloc moves), RV_OPEN_STRICT, directories that break off after a good *)
(* header, and calls that only read.  Streams and cursors are in           *)
(* WaveReaders.                                                            *)
(***************************************************************************)
EXTENDS WaveCacheOps

CONSTANTS
  Image,    \* what the file may contain
  Missing,  \* the file cannot be opened
  Flags,    \* the sets of open flags: "legacy", "index", "warm"
  MaxLoads, \* bound: backing buffers allocated
  MaxEpoch, \* bound: arena epochs (a uint32_t that skips 0)
  None,     \* an object that does not exist, a summary that is not valid
  Unknown   \* where a pointer leads that was read from a reset arena

(* The contents of a backing buffer: the sizes of its tables (told apart   *)
(* by a number), its WAVE block ids, the header's major version and 0x100  *)
(* feature bit, whether every section decodes, whether a migration made it. *)
Contents ==
  [rows : Nat, blocks : SUBSET BlockId, major : 0 .. 3, marked : BOOLEAN, good : BOOLEAN,
   migrated : BOOLEAN]

Parsed == [rows : Nat, blocks : SUBSET BlockId, marked : BOOLEAN, whole : BOOLEAN,
           buf : 0 .. MaxLoads, epoch : 1 .. MaxEpoch]

Package == [flags : Flags, from_file : BOOLEAN, allow : BOOLEAN, buf : 0 .. MaxLoads,
            image : Contents, epoch : 1 .. MaxEpoch, legacy : BOOLEAN, parsed : Parsed]

Summary == [rows : Nat, labels : 0 .. MaxEpoch]

Session == [index : 0 .. MaxEpoch, cache : Cache, derived : Summary \cup {None}]

Checkpoint == [summary : Summary \cup {None}, at : 1 .. MaxEpoch, trusted : BOOLEAN]

ASSUME ImageAssumption == \A x \in Image : x \in Contents /\ ~x.migrated /\ x.major # 0
ASSUME LoadsAssumption == MaxLoads \in Nat /\ MaxEpoch \in Nat \ {0}
ASSUME ViewAssumption == View = 0 .. MaxLoads \cup {Unknown}
ASSUME FitsAssumption ==
  BlockId \subseteq Nat /\ IsFiniteSet(BlockId) /\ Cardinality(BlockId) < Capacity
ASSUME DistinctAssumption ==
  Missing \notin Contents /\ None \notin Package /\ None \notin Session

VARIABLES
  file,       \* what is at the package's path
  loads,      \* backing buffers allocated so far; a buffer is known by its number
  package,    \* rv_package
  session,    \* rv_session: index (epoch of the tables it points into, 0 if not ready), cache,
              \* derived
  checkpoint, \* rv_checkpoint: a copy of a derived summary
  overdue,    \* what the client still has to refresh: "package", "session"
  reply       \* the last call and what it showed

vars == <<file, loads, package, session, checkpoint, overdue, reply>>

Returns(name, ok) == reply' = [call |-> name, ok |-> ok]

Init ==
  /\ file \in Image \cup {Missing}
  /\ loads = 0
  /\ package = None /\ session = None /\ checkpoint = None
  /\ overdue = {}
  /\ reply = [call |-> "none", ok |-> TRUE]

(* The environment: another program replaces or removes the file.          *)
FileChanges ==
  /\ file' \in (Image \cup {Missing}) \ {file}
  /\ UNCHANGED <<loads, package, session, checkpoint, overdue, reply>>

-----------------------------------------------------------------------------
(***************************************************************************)
(* Packages.                                                               *)
(***************************************************************************)

(* rv_reader_load_directory rejects major versions other than 1 and 2.     *)
DirectoryLoads(x) == x \in Contents /\ x.major \in {1, 2}

(* A header without a directory: no section is found in it.                *)
NoDirectory(major, marked) ==
  [rows |-> 0, blocks |-> {}, major |-> major, marked |-> marked, good |-> TRUE,
   migrated |-> FALSE]

(* The reader after rv_reader_open_file of what is at the path.            *)
Opened(x) ==
  IF x = Missing THEN NoDirectory(0, FALSE)
  ELSE IF DirectoryLoads(x) THEN x
  ELSE NoDirectory(x.major, x.marked)

\* mutant: the parser is not cleared, so the feature bits add up
FinishOpenKeepingBits(p) ==
  [p EXCEPT !.parsed = [rows |-> p.image.rows, blocks |-> p.image.blocks,
                        marked |-> p.image.marked \/ (p.parsed # None /\ p.parsed.marked),
                        whole |-> p.image.good, buf |-> p.buf, epoch |-> p.epoch],
            !.legacy = IF p.image.good THEN p.image.major = 1 ELSE @]

(* rv_package_finish_open.  A parse that fails leaves the sections decoded *)
(* so far in place and the legacy flag as it was.                          *)
FinishOpen(p) ==
  [p EXCEPT !.parsed = [rows |-> p.image.rows, blocks |-> p.image.blocks,
                        marked |-> p.image.marked, whole |-> p.image.good,
                        buf |-> p.buf, epoch |-> p.epoch],
            !.legacy = IF p.image.good THEN p.image.major = 1 ELSE @]

Allocated(flags, from_file, x) ==
  [flags |-> flags, from_file |-> from_file, allow |-> "legacy" \in flags, buf |-> loads + 1,
   image |-> Opened(x), epoch |-> 1, legacy |-> FALSE, parsed |-> None]

Usable(x) == DirectoryLoads(x) /\ x.good

\* mutant: the package survives a failed open
OpenResultKept(flags, from_file, x) ==
  IF Usable(x) THEN FinishOpen(Allocated(flags, from_file, x)) ELSE Allocated(flags, from_file, x)

OpenResult(flags, from_file, x) ==
  IF Usable(x) THEN FinishOpen(Allocated(flags, from_file, x)) ELSE None

(* rv_package_open_file and rv_package_open_memory (of a client's buffer): *)
(* the package is discarded when the directory or the parse fails.         *)
Open(flags, from_file, x) ==
  /\ package = None /\ loads < MaxLoads
  /\ package' = OpenResult(flags, from_file, x)
  /\ loads' = IF x = Missing THEN loads ELSE loads + 1
  /\ overdue' = {}
  /\ Returns("open", Usable(x))
  /\ UNCHANGED <<file, session, checkpoint>>

rv_package_open_file(flags) == Open(flags, TRUE, file)
rv_package_open_memory(flags, x) == Open(flags, FALSE, x)

Unusable == IF session = None THEN {"package"} ELSE {"package", "session"}
Outdated == IF session = None THEN {} ELSE {"session"}

(* rv_reader_reload: the old buffer is released first; the path and flags  *)
(* survive a failure.                                                      *)
Reloaded(p) ==
  [p EXCEPT !.buf = IF file = Missing THEN 0 ELSE loads + 1, !.image = Opened(file)]

(* rv_package_reopen: the arena is reset before the file is read, so a     *)
(* failed reload leaves the old tables in a reset arena.  The session is   *)
(* not told.                                                               *)
rv_package_reopen ==
  /\ package # None /\ loads < MaxLoads /\ package.epoch < MaxEpoch
  /\ LET p == Reloaded([package EXCEPT !.epoch = @ + 1])
     IN  IF ~package.from_file
         THEN Returns("reopen", FALSE) /\ UNCHANGED <<loads, package, overdue>>
         ELSE /\ package' = IF DirectoryLoads(file) THEN FinishOpen(p) ELSE p
              /\ loads' = IF file = Missing THEN loads ELSE loads + 1
              /\ overdue' = IF Usable(file) THEN Outdated ELSE Unusable
              /\ Returns("reopen", Usable(file))
  /\ UNCHANGED <<file, session, checkpoint>>

(* rv_package_reset: parse the same buffer again into a reset arena.       *)
rv_package_reset ==
  /\ package # None /\ package.epoch < MaxEpoch
  /\ package' = FinishOpen([package EXCEPT !.epoch = @ + 1])
  /\ overdue' = IF package.image.good THEN Outdated ELSE Unusable
  /\ Returns("reset", package.image.good)
  /\ UNCHANGED <<file, loads, session, checkpoint>>

(* The tables lie in the arena as the parser left them.  Where a reset     *)
(* arena is read, their sizes are known and their rows are not.            *)
TablesAreLive == package.parsed.epoch = package.epoch
BlocksRead == IF TablesAreLive THEN {package.parsed.blocks} ELSE SUBSET BlockId

\* mutant: pkg->legacy is not cleared
MigratedKeepingLegacy(p, blocks) ==
  [p EXCEPT !.buf = loads + 1, !.allow = TRUE, !.parsed.marked = TRUE,
            !.image = [rows |-> p.parsed.rows, blocks |-> blocks, major |-> 2,
                       marked |-> p.parsed.marked, good |-> TRUE, migrated |-> TRUE]]

(* rv_legacy_migrate: export the tables to a version 2 image and swap it   *)
(* under them.  The image is written before the feature bit is set.        *)
Migrated(p, blocks) ==
  [p EXCEPT !.buf = loads + 1, !.allow = TRUE, !.parsed.marked = TRUE, !.legacy = FALSE,
            !.image = [rows |-> p.parsed.rows, blocks |-> blocks, major |-> 2,
                       marked |-> p.parsed.marked, good |-> TRUE, migrated |-> TRUE]]

rv_package_migrate_legacy ==
  /\ package # None /\ loads < MaxLoads
  /\ IF package.image.major = 1 \/ package.allow
     THEN /\ \E blocks \in BlocksRead : package' = Migrated(package, blocks)
          /\ loads' = loads + 1
          /\ overdue' = Unusable
          /\ Returns("migrate", TRUE)
     ELSE Returns("migrate", FALSE) /\ UNCHANGED <<loads, package, overdue>>
  /\ UNCHANGED <<file, session, checkpoint>>

(* A client closes a package after its sessions and checkpoints.           *)
rv_package_close ==
  /\ package # None /\ session = None /\ checkpoint = None
  /\ package' = None
  /\ overdue' = {}
  /\ Returns("close", TRUE)
  /\ UNCHANGED <<file, loads, session, checkpoint>>

-----------------------------------------------------------------------------
(***************************************************************************)
(* Sessions.                                                               *)
(***************************************************************************)

(* rv_session_ensure_index and rv_derived_summary_build: both do nothing   *)
(* when there is something already, whatever it points into.               *)
EnsureIndex(s) == IF s.index # 0 THEN s ELSE [s EXCEPT !.index = package.parsed.epoch]

Derive(s) == [s EXCEPT !.derived = [rows |-> package.parsed.rows, labels |-> s.index]]

EnsureDerived(s) == IF s.derived # None THEN s ELSE Derive(s)

(* Where the samples of the WAVE table lead.                               *)
Samples == IF TablesAreLive THEN package.parsed.buf ELSE Unknown

(* The loop of rv_session_warm_cache stops when the cache is full; here    *)
(* every block id fits.                                                    *)
Warmed(c, blocks) ==
  LET put[S \in SUBSET BlockId] ==
        IF S = {} THEN c
        ELSE LET b == CHOOSE x \in S : \A y \in S : x >= y
             IN  PutFromBlock(put[S \ {b}], b, Samples)
  IN  put[blocks]

WarmCache(s, blocks) ==
  EnsureDerived([EnsureIndex(s) EXCEPT !.cache = Warmed(s.cache, blocks)])

rv_session_create ==
  /\ package # None /\ session = None
  /\ LET new == [index |-> 0, cache |-> EmptyCache, derived |-> None]
         indexed == IF "index" \in package.flags THEN EnsureIndex(new) ELSE new
     IN  \E blocks \in BlocksRead :
           session' = IF "warm" \in package.flags THEN WarmCache(indexed, blocks) ELSE indexed
  /\ overdue' = overdue \ {"session"}
  /\ Returns("create", TRUE)
  /\ UNCHANGED <<file, loads, package, checkpoint>>

rv_session_destroy ==
  /\ session # None
  /\ session' = None
  /\ overdue' = overdue \ {"session"}
  /\ Returns("destroy", TRUE)
  /\ UNCHANGED <<file, loads, package, checkpoint>>

Update(name, s) ==
  /\ session' = s
  /\ Returns(name, TRUE)
  /\ UNCHANGED <<file, loads, package, checkpoint, overdue>>

rv_session_warm_cache ==
  session # None /\ \E blocks \in BlocksRead : Update("warm", WarmCache(session, blocks))

Rebuilt(s) == EnsureIndex([s EXCEPT !.index = 0])

rv_session_rebuild_index == session # None /\ Update("rebuild", Rebuilt(session))

\* mutant: a rebind keeps the derived summary
ReboundKeepingSummary(s, retain_cache) ==
  Rebuilt(IF retain_cache THEN s ELSE [s EXCEPT !.cache = Invalidate(@)])

\* mutant: a rebind keeps the cache
ReboundKeepingCache(s, retain_cache) ==
  Rebuilt(IF retain_cache THEN s ELSE [s EXCEPT !.derived = None])

Rebound(s, retain_cache) ==
  Rebuilt(IF retain_cache THEN s ELSE [s EXCEPT !.cache = Invalidate(@), !.derived = None])

rv_session_rebind(retain_cache) ==
  /\ session # None
  /\ session' = Rebound(session, retain_cache)
  /\ overdue' = IF retain_cache THEN overdue ELSE overdue \ {"session"}
  /\ Returns("rebind", TRUE)
  /\ UNCHANGED <<file, loads, package, checkpoint>>

(* rv_session_stats prefers the snapshot.                                  *)
Shown(s) == IF s.derived # None THEN s.derived.rows ELSE package.parsed.rows

rv_session_stats ==
  /\ session # None
  /\ reply' = [call |-> "stats", ok |-> TRUE, rows |-> package.parsed.rows, summ |-> Shown(session)]
  /\ UNCHANGED <<file, loads, package, session, checkpoint, overdue>>

(* The index and the tables it points into are in the arena as they were   *)
(* built.  Otherwise a lookup reads whatever a reset arena holds now, and  *)
(* may find the block or not.                                              *)
IndexIsLive(s) == s.index = package.epoch

rv_wave_get(b) ==
  /\ session # None
  /\ LET s == EnsureIndex(session)
         v == IF IndexIsLive(s) THEN Samples ELSE Unknown
     IN  \E found \in IF IndexIsLive(s) THEN {b \in package.parsed.blocks} ELSE BOOLEAN :
           LET c == s.cache
               loaded == IF Hit(c, b) THEN Get(c, b) ELSE Get(PutFromBlock(c, b, v), b)
           IN  IF found /\ (Hit(c, b) \/ PutSucceeds(c, b))
               THEN /\ session' = [s EXCEPT !.cache = loaded]
                    /\ reply' = [call |-> "wave", ok |-> TRUE,
                                 buf |-> loaded.slot[Find(loaded, b)].view]
               ELSE /\ session' = s
                    /\ Returns("wave", FALSE)
  /\ UNCHANGED <<file, loads, package, checkpoint, overdue>>

-----------------------------------------------------------------------------
(***************************************************************************)
(* Checkpoints and export.                                                 *)
(***************************************************************************)

(* The copy remembers nothing of the parse it was taken from; "at" is for  *)
(* the client, who knows when it took it.                                  *)
rv_checkpoint_create ==
  /\ session # None /\ checkpoint = None
  /\ session' = EnsureDerived(EnsureIndex(session))
  /\ checkpoint' = [summary |-> session'.derived, at |-> package.epoch, trusted |-> overdue = {}]
  /\ Returns("checkpoint", TRUE)
  /\ UNCHANGED <<file, loads, package, overdue>>

rv_checkpoint_restore ==
  /\ session # None /\ checkpoint # None
  /\ session' = [session EXCEPT !.derived = checkpoint.summary]
  /\ overdue' = IF checkpoint.trusted /\ checkpoint.at = package.epoch
                THEN overdue ELSE overdue \cup {"session"}
  /\ Returns("restore", TRUE)
  /\ UNCHANGED <<file, loads, package, checkpoint>>

rv_checkpoint_destroy ==
  /\ checkpoint # None
  /\ checkpoint' = None
  /\ Returns("forget", TRUE)
  /\ UNCHANGED <<file, loads, package, session, overdue>>

(* rv_export_build: the tables and their samples, and a SUMM section with  *)
(* the counts of the derived summary.                                      *)
Export(s) ==
  /\ session' = s
  /\ reply' = [call |-> "export", ok |-> TRUE, rows |-> package.parsed.rows,
               summ |-> Shown(s), buf |-> Samples]
  /\ UNCHANGED <<file, loads, package, checkpoint, overdue>>

rv_export_buffer == session # None /\ Export(EnsureDerived(EnsureIndex(session)))

rv_session_export_after_rebuild ==
  /\ session # None
  /\ LET kept == IF session.derived # None THEN session ELSE Derive(EnsureIndex(session))
     IN  Export(EnsureDerived(Rebuilt(kept)))

Next ==
  \/ FileChanges
  \/ \E flags \in Flags :
       rv_package_open_file(flags) \/ \E x \in Image : rv_package_open_memory(flags, x)
  \/ rv_package_reopen \/ rv_package_reset \/ rv_package_migrate_legacy \/ rv_package_close
  \/ rv_session_create \/ rv_session_destroy \/ rv_session_warm_cache \/ rv_session_rebuild_index
  \/ \E retain_cache \in BOOLEAN : rv_session_rebind(retain_cache)
  \/ rv_session_stats
  \/ \E b \in BlockId : rv_wave_get(b)
  \/ rv_checkpoint_create \/ rv_checkpoint_restore \/ rv_checkpoint_destroy
  \/ rv_export_buffer \/ rv_session_export_after_rebuild

Spec == Init /\ [][Next]_vars

-----------------------------------------------------------------------------
(* Every object is complete: an open package has parsed tables, its index  *)
(* was built in an epoch the arena has reached, and no session or          *)
(* checkpoint outlives it.                                                 *)
TypeOK ==
  /\ file \in Image \cup {Missing}
  /\ loads \in 0 .. MaxLoads
  /\ package # None => package \in Package /\ package.buf <= loads
  /\ session # None =>
       /\ package # None
       /\ session \in Session /\ session.index <= package.epoch /\ CacheSound(session.cache)
  /\ checkpoint # None => package # None /\ checkpoint \in Checkpoint
  /\ overdue \subseteq {"package", "session"}

(* The protocol of test_lifecycle.c (reset or reopen, then rebind without  *)
(* retaining the cache; no checkpoint from before the reset) is enough:    *)
(* nothing the session holds points into a released buffer or a reset      *)
(* arena, and its summary counts the current tables.                       *)
SettledSessionIsCurrent ==
  overdue = {} /\ session # None =>
    /\ package.parsed.whole /\ package.parsed.buf = package.buf
    /\ package.parsed.epoch = package.epoch
    /\ session.index \in {0, package.epoch}
    /\ \A i \in InUse(session.cache) : session.cache.slot[i].view = package.buf
    /\ session.derived # None => session.derived = [rows |-> package.parsed.rows,
                                                   labels |-> package.epoch]

(* Under the same protocol a client is shown only the current package: the *)
(* samples of a slice or an export lie in the current buffer, and counts   *)
(* agree with the tables.                                                  *)
RepliesAreCurrent ==
  [][overdue = {} /\ reply'.ok =>
       /\ reply'.call \in {"wave", "export"} => reply'.buf = package.buf
       /\ reply'.call \in {"stats", "export"} => reply'.summ = reply'.rows]_vars

(* The legacy flag follows the header through migrations, reopens of the   *)
(* old file and failed reloads, whenever the tables are those of the last  *)
(* open.                                                                   *)
LegacyFlagIsTruthful ==
  package # None /\ package.parsed.whole /\ package.parsed.epoch = package.epoch =>
    (package.legacy <=> package.image.major = 1)

(* A successful reopen leaves the package as a fresh open of the file      *)
(* would, whatever failed reopens, broken files, resets and migrations     *)
(* came before.  Only the epoch moves on, and the permission that a        *)
(* migration gave itself stays.                                            *)
ReopenIsFreshOpen ==
  [][reply'.call = "reopen" /\ reply'.ok /\ package'.epoch > package.epoch =>
       LET fresh == FinishOpen(Allocated(package.flags, TRUE, file))
       IN  package' = [fresh EXCEPT !.epoch = package'.epoch, !.parsed.epoch = package'.epoch,
                                    !.allow = package.allow]]_vars

-----------------------------------------------------------------------------
(***************************************************************************)
(* What the documentation says and the code does not do.                   *)
(***************************************************************************)

(* docs/compatibility.md: after a migration, parsed waveform views refer   *)
(* to prior storage only until the caller resets the package or rebinds    *)
(* the session.                                                            *)
RebindRefreshesViews ==
  reply.call = "rebind" /\ package.image.migrated => package.parsed.buf = package.buf

(* docs/compatibility.md: feature bit 0x100 marks a package that a legacy  *)
(* migration produced.                                                     *)
MigratedPackageIsMarked ==
  package # None /\ package.image.migrated => package.parsed.marked

(* docs/format.md: the counts of a SUMM section agree with the sizes of    *)
(* the tables.                                                             *)
ExportedSummAgrees == reply.call = "export" => reply.summ = reply.rows
=============================================================================
