------------------------------ MODULE Archive ------------------------------
(***************************************************************************)
(* A client that builds packages, writes them, opens them, repairs,        *)
(* validates, exports and migrates them, and merges and compares two:      *)
(* rv_builder.c, rv_merge.c, rv_diff.c, rv_export.c, rv_section.c,         *)
(* rv_validate.c, rv_xref.c, rv_recover.c and the calls of rayvault.c over *)
(* them.                                                                   *)
(*                                                                         *)
(* A call is one step.  Allocations of the builder may be refused;         *)
(* allocations of the other calls are left out (the arena is in Arena,     *)
(* Parser and SessionQueries).  Where samples lie and how old a summary is *)
(* is in PackageSession; here an export counts the tables it writes.       *)
(*                                                                         *)
(* A definition marked "mutant" is a plausible bug in the definition after *)
(* it; no specification uses it.                                           *)
(***************************************************************************)
EXTENDS PackageBuilder

CONSTANTS
  Side,       \* the packages a client has open at a time
  Span,       \* Span[n]: the arguments of rv_builder_demo_span for image n
  Row,        \* <<table, row>>: rows that a client adds
  Memory,     \* how many allocations of a builder call may be granted
  MergeOption,
  MaxName,    \* 127: the longest name a builder keeps
  MaxAdded,   \* bound: MaxAdded[n] rows are added by hand to the builder of image n
  MaxImages,  \* bound: images written
  None,       \* no builder, a package that is not open
  Nothing     \* an image of a builder that nothing was merged into

ASSUME SpanAssumption ==
  Span \in Seq([site : Name, far : Name, model : Name, serial : Name, label : Name,
                 samples : Nat \ {0}])
(* Ids and references to rows are 32 bits wide.                            *)
ASSUME RowAssumption ==
  \A r \in Row :
    /\ r[1] \in RowTables \ {"names"} /\ r[2] \in RowOf[r[1]]
    /\ \A field \in {"id", "route", "inst", "calib", "wave", "window", "from", "to", "target"} :
         field \in DOMAIN r[2] => r[2][field] < IdMod
ASSUME MemoryAssumption == Memory \subseteq Nat
ASSUME OptionAssumption ==
  MergeOption \subseteq [remap : BOOLEAN, drop_unlinked : BOOLEAN, notes : BOOLEAN]
ASSUME BoundAssumption ==
  MaxImages \in Nat /\ MaxAdded \in Seq(Nat) /\ Len(Span) = Len(MaxAdded) /\ Len(MaxAdded) <= MaxImages
ASSUME NoneAssumption == None \notin Seq(Name \cup Nat \cup {None})
ASSUME ClipLengthAssumption == \A s \in Name : NameLength[Clip[s]] <= MaxName

VARIABLES
  builder, \* the rv_builder of the client
  made,    \* bookkeeping of the client: rows added, and what was merged into the builder
  shelf,   \* the file or buffer the client has
  package, \* package[s]: its image, its parsed tables, RV_OPEN_ALLOW_LEGACY
  images,  \* images written so far
  reply    \* the last call and what it showed

vars == <<builder, made, shelf, package, images, reply>>

(* An image remembers, for its writer, the rows that were written, what    *)
(* became of it ("whole", "torn" or "decayed"), and what it is a merge of. *)
Written(image, rows, merged) ==
  [header |-> image.header, version |-> image.version, size |-> image.size,
   total |-> image.total, sections |-> image.sections, dir |-> image.dir,
   rows |-> rows, state |-> "whole", merged |-> merged]

BuilderRows(b) ==
  [names |-> b.names, routes |-> b.routes, insts |-> b.insts, calibs |-> b.calibs,
   windows |-> b.windows, waves |-> b.waves, marks |-> b.marks, links |-> b.links,
   notes |-> b.notes, summ |-> Counts(b)]

Returns(name, side, ok) == reply' = [call |-> name, side |-> side, ok |-> ok]

NotMade == [added |-> 0, merged |-> Nothing]

Init ==
  /\ builder = None /\ made = NotMade /\ shelf = NoFile
  /\ package = [s \in Side |-> None]
  /\ images = 0
  /\ reply = [call |-> "none"]

-----------------------------------------------------------------------------
(***************************************************************************)
(* The builder.  A client has one builder at a time, and destroys it       *)
(* before it opens what it wrote.  Bounds: the first Len(MaxAdded) images  *)
(* are filled by hand or exported, the others are merges; and a client who *)
(* has a damaged or an old package builds no second one.                   *)
(***************************************************************************)
Sound(f) == f.state = "whole" /\ f.version = 2

ByHand == builder # None /\ made.merged = Nothing /\ images < Len(MaxAdded)

rv_builder_init ==
  /\ builder = None /\ shelf = NoFile /\ images < MaxImages
  /\ \A s \in Side : package[s] # None => Sound(package[s].image)
  /\ builder' = EmptyBuilder /\ made' = NotMade
  /\ Returns("init", None, TRUE)
  /\ UNCHANGED <<shelf, package, images>>

rv_builder_destroy ==
  /\ builder # None
  /\ builder' = None /\ made' = NotMade
  /\ Returns("destroy", None, TRUE)
  /\ UNCHANGED <<shelf, package, images>>

(* The outcome of a call that worked on the builder.                       *)
Worked(name, w) ==
  /\ builder' = w.b
  /\ Returns(name, None, w.ok)
  /\ UNCHANGED <<shelf, package, images>>

rv_builder_demo_span(mem) ==
  /\ ByHand /\ builder.routes = << >>
  /\ LET s == Span[images + 1]
     IN  Worked("demo_span", DemoSpan(Working(builder, mem), s.site, s.far, s.model, s.serial,
                                      s.label, s.samples))
  /\ UNCHANGED made

(* rv_builder_add_route to rv_builder_add_note, with rv_builder_add_wave.  *)
rv_builder_add(r, mem) ==
  /\ ByHand /\ made.added < MaxAdded[images + 1]
  /\ made' = [made EXCEPT !.added = @ + 1]
  /\ Worked("add", AddRow(Working(builder, mem), r[1], r[2]))

rv_builder_add_wave_copy(r, mem) ==
  /\ ByHand /\ made.added < MaxAdded[images + 1] /\ r[1] = "waves"
  /\ made' = [made EXCEPT !.added = @ + 1]
  /\ Worked("add", AddWaveCopy(Working(builder, mem), r[2]))

rv_builder_set_version(v) ==
  /\ ByHand /\ images = 0
  /\ builder' = [builder EXCEPT !.version = v]
  /\ Returns("version", None, TRUE)
  /\ UNCHANGED <<made, shelf, package, images>>

(* rv_builder_serialize.                                                   *)
rv_builder_serialize ==
  /\ ByHand \/ (made.merged # Nothing /\ made.merged.ok)
  /\ shelf = NoFile /\ images < MaxImages
  /\ shelf' = Written(Serialize(builder), BuilderRows(builder), made.merged)
  /\ images' = images + 1
  /\ Returns("serialize", None, TRUE)
  /\ UNCHANGED <<builder, made, package>>

(* What is left of an image when only the first n bytes reach the file.    *)
TornAt(f, n) ==
  [f EXCEPT !.size = n, !.state = "torn",
            !.header = n >= FileHeaderSize + DirEntrySize * f.sections]

TornSizes(f) ==
  {0, FileHeaderSize, FileHeaderSize + DirEntrySize * f.sections, f.size \div 2, f.size - 1}

(* rv_builder_write_file, when fwrite comes short: it reports the error    *)
(* and leaves what it wrote.  (When it succeeds it is a serialize.)        *)
rv_builder_write_file ==
  /\ ByHand /\ shelf = NoFile
  /\ LET f == Written(Serialize(builder), BuilderRows(builder), made.merged)
     IN  \E n \in TornSizes(f) : shelf' = TornAt(f, n)
  /\ images' = images + 1
  /\ Returns("write", None, FALSE)
  /\ UNCHANGED <<builder, made, package>>

(* The environment: a count field of a stored image changes, or bytes that *)
(* no row of the model shows.                                              *)
DamagedCount(e) == {IF e.count = 0 THEN 0 ELSE e.count - 1, e.count, e.count + 1}

ImageDecays ==
  /\ shelf # NoFile /\ shelf.state = "whole" /\ images = 1
  /\ \E k \in DOMAIN shelf.dir : \E n \in DamagedCount(shelf.dir[k]) :
       shelf' = [shelf EXCEPT !.dir[k].count = n, !.dir[k].crc = "bad", !.state = "decayed"]
  /\ Returns("decay", None, TRUE)
  /\ UNCHANGED <<builder, made, package, images>>

-----------------------------------------------------------------------------
(***************************************************************************)
(* Packages.  They share nothing with a builder or a buffer, so a client   *)
(* changes one while it has neither, and closes one then or to make room.  *)
(***************************************************************************)
Idle == builder = None /\ shelf = NoFile

NoRoom == builder = None /\ \A s \in Side : package[s] # None

Opened(f) == [image |-> f, tables |-> FinishOpen(f), allow |-> FALSE]

\* mutant: sections are decoded wherever the directory says they are
OpensUnmeasured(f) ==
  /\ f # NoFile /\ HeaderIsSupported(f)
  /\ \A k \in DOMAIN f.dir : Decode(f.dir[k]) # Refused

OpenSucceeds(f) == Opens(f)

(* rv_package_open_memory or rv_package_open_file, whether there is a file *)
(* or not; the client then lets go of its buffer.                          *)
rv_package_open(s) ==
  /\ package[s] = None /\ builder = None
  /\ package' = [package EXCEPT ![s] = IF OpenSucceeds(shelf) THEN Opened(shelf) ELSE None]
  /\ shelf' = NoFile
  /\ Returns("open", s, OpenSucceeds(shelf))
  /\ UNCHANGED <<builder, made, images>>

rv_package_close(s) ==
  /\ package[s] # None /\ (Idle \/ NoRoom)
  /\ package' = [package EXCEPT ![s] = None]
  /\ Returns("close", s, TRUE)
  /\ UNCHANGED <<builder, made, shelf, images>>

(* rv_package_reset parses the backing buffer again.                       *)
rv_package_reset(s) ==
  /\ package[s] # None /\ Idle
  /\ package' = [package EXCEPT ![s].tables = FinishOpen(package[s].image)]
  /\ Returns("reset", s, TRUE)
  /\ UNCHANGED <<builder, made, shelf, images>>

(* Bound: a merged package is not repaired.                                *)
rv_package_repair(s) ==
  /\ package[s] # None /\ Idle /\ package[s].image.merged = Nothing
  /\ package' = [package EXCEPT ![s].tables = Repair(@)]
  /\ Returns("repair", s, TRUE)
  /\ UNCHANGED <<builder, made, shelf, images>>

rv_package_validate(s, strictness) ==
  /\ package[s] # None /\ Idle
  /\ Returns("validate", s, Failures(package[s].image, package[s].tables, strictness) = {})
  /\ UNCHANGED <<builder, made, shelf, package, images>>

(* What an export holds of the tables.                                     *)
ExportedRows(t, include) ==
  [t EXCEPT !.notes = << >>, !.waves = IF include THEN @ ELSE << >>, !.summ = Counts(t)]

ExportOf(t, include) ==
  Written(Export(t, Counts(t), include), ExportedRows(t, include), Nothing)

(* rv_export_buffer.                                                       *)
rv_export_buffer(s, include) ==
  /\ package[s] # None /\ Idle /\ images < Len(MaxAdded)
  /\ shelf' = ExportOf(package[s].tables, include)
  /\ images' = images + 1
  /\ Returns("export", s, TRUE)
  /\ UNCHANGED <<builder, made, package>>

(* rv_package_migrate_legacy swaps an export of the tables under them.     *)
rv_package_migrate_legacy(s) ==
  /\ package[s] # None /\ Idle /\ images < Len(MaxAdded)
  /\ LET allowed == package[s].image.version = 1 \/ package[s].allow
         f == ExportOf(package[s].tables, TRUE)
     IN  /\ package' = IF allowed
                       THEN [package EXCEPT ![s].image = f, ![s].allow = TRUE]
                       ELSE package
         /\ images' = IF allowed THEN images + 1 ELSE images
         /\ Returns("migrate", s, allowed)
  /\ UNCHANGED <<builder, made, shelf>>

-----------------------------------------------------------------------------
(***************************************************************************)
(* Two packages.                                                           *)
(***************************************************************************)

(* rv_merge_into_builder, into a new builder.                              *)
rv_merge_into_builder(l, r, opt, mem) ==
  /\ package[l] # None /\ package[r] # None
  /\ builder = EmptyBuilder /\ made = NotMade
  /\ LET w == Merge(Working(builder, mem), package[l].tables, package[r].tables, opt)
     IN  /\ Worked("merge", w)
         /\ made' = [made EXCEPT !.merged = [left |-> package[l].tables, right |-> package[r].tables,
                                             opt |-> opt, ok |-> w.ok]]

Distance(a, b) == IF a >= b THEN a - b ELSE b - a

(* rv_diff_find_marker: the first one with the id.                         *)
FindMark(t, id) ==
  LET found == RowsOf(t.marks, id) IN IF found = {} THEN 0 ELSE Min(found)

MarkChanged(m, n) ==
  Distance(m.loss, n.loss) > 1 \/ Distance(m.distance, n.distance) > 1 \/ m.severity # n.severity

(* rv_diff_packages: the ids of the entries of each kind.  Routes are      *)
(* looked up in the index, markers by a scan.                              *)
Diff(l, r) ==
  [routes_removed |-> {id \in Ids(l.routes) : FindRoute(r, id) = 0},
   routes_added   |-> {id \in Ids(r.routes) : FindRoute(l, id) = 0},
   marks_removed  |-> {id \in Ids(l.marks) : FindMark(r, id) = 0},
   marks_added    |-> {id \in Ids(r.marks) : FindMark(l, id) = 0},
   marks_changed  |-> {l.marks[i].id : i \in
                         {j \in DOMAIN l.marks :
                            LET k == FindMark(r, l.marks[j].id)
                            IN  k # 0 /\ MarkChanged(l.marks[j], r.marks[k])}}]

rv_diff_packages(l, r) ==
  /\ package[l] # None /\ package[r] # None /\ Idle
  /\ reply' = [call |-> "diff", left |-> l, right |-> r, ok |-> TRUE,
               report |-> Diff(package[l].tables, package[r].tables)]
  /\ UNCHANGED <<builder, made, shelf, package, images>>

Next ==
  \/ rv_builder_init \/ rv_builder_destroy
  \/ \E mem \in Memory :
       \/ rv_builder_demo_span(mem)
       \/ \E r \in Row : rv_builder_add(r, mem) \/ rv_builder_add_wave_copy(r, mem)
       \/ \E l, r \in Side, opt \in MergeOption : rv_merge_into_builder(l, r, opt, mem)
  \/ rv_builder_set_version(1)
  \/ rv_builder_serialize \/ rv_builder_write_file \/ ImageDecays
  \/ \E s \in Side :
       \/ rv_package_open(s) \/ rv_package_close(s) \/ rv_package_reset(s) \/ rv_package_repair(s)
       \/ \E strictness \in {0, 1} : rv_package_validate(s, strictness)
       \/ \E include \in BOOLEAN : rv_export_buffer(s, include)
       \/ rv_package_migrate_legacy(s)
  \/ \E l, r \in Side : rv_diff_packages(l, r)

Spec == Init /\ [][Next]_vars

-----------------------------------------------------------------------------
(***************************************************************************)
(* Properties.                                                             *)
(***************************************************************************)

(* The types of what a client holds: builder rows and parsed tables are as *)
(* PackageTables says, and a builder never holds a name that is longer     *)
(* than the 127 characters its record has room for (rv_builder_add_name).  *)
TypeOK ==
  /\ builder # None => /\ builder \in Builder
                       /\ \A i \in DOMAIN builder.names :
                            NameLength[builder.names[i].str] <= MaxName
  /\ \A s \in Side : package[s] # None => package[s].tables \in Tables
  /\ images \in 0 .. MaxImages

(* A builder interns its names: no two entries have the same id or, cut to *)
(* their limit, the same string, whatever was added, merged or refused     *)
(* room half way (rv_builder_add_name).                                    *)
NamesAreInterned ==
  builder # None =>
    \A i, j \in DOMAIN builder.names :
      builder.names[i].str = builder.names[j].str \/ builder.names[i].id = builder.names[j].id
        => i = j

(* A file that rv_builder_write_file left half written is never opened.    *)
TornFilesAreRefused == \A s \in Side : package[s] # None => package[s].image.state # "torn"

(* Whatever count a section claims, the rows of an open package lie in the *)
(* sections they were decoded from (rv_section.c).                         *)
NothingBeyondIsRead ==
  \A s \in Side : package[s] # None =>
    \A table \in RowTables : \A i \in DOMAIN package[s].tables[table] :
      package[s].tables[table][i] # Beyond

(* With drop_unlinked_markers a merge adds no marker whose window it does  *)
(* not add before, not even one that fails half way (rv_merge_side).       *)
MergedMarkersHaveWindows ==
  made.merged # Nothing /\ made.merged.opt.drop_unlinked =>
    \A i \in DOMAIN builder.marks : builder.marks[i].window \in Ids(builder.windows)

-----------------------------------------------------------------------------
(* What was written can be read if no section has more rows, and no wave   *)
(* more samples, than a decoder takes.                                     *)
Readable(f) ==
  /\ f.version \in 1 .. 2
  /\ \A k \in DOMAIN f.dir : f.dir[k].tag # "SUMM" => Len(f.dir[k].rows) <= MaxRows[f.dir[k].tag]
  /\ \A i \in DOMAIN f.rows.waves : f.rows.waves[i].samples <= MaxSamples

(* The two writers, rv_builder_serialize and rv_export_build, agree with   *)
(* the decoders on the layout: an undamaged image opens if and only if it  *)
(* is within the limits, and an open or a reset yields the rows that were  *)
(* written, normalised.                                                    *)
ImagesReadBack ==
  [][/\ reply'.call = "open" /\ shelf # NoFile /\ shelf.state = "whole" =>
          /\ reply'.ok <=> Readable(shelf)
          /\ reply'.ok => package'[reply'.side].tables = Normalize(shelf.rows)
     /\ reply'.call = "reset" =>
          LET f == package[reply'.side].image
          IN  f.state = "whole" => package'[reply'.side].tables = Normalize(f.rows)]_vars

(* The links that are not from a marker that is missing.                   *)
Attached(t) ==
  {i \in DOMAIN t.links : t.links[i].from_kind = 3 => t.links[i].from \in Ids(t.marks)}

(* A sequence has the rows of another at these positions, in order.        *)
Selects(rows, all, positions) ==
  \E at \in [DOMAIN rows -> positions] :
    /\ \A j, k \in DOMAIN rows : j < k => at[j] < at[k]
    /\ \A i \in positions : \E j \in DOMAIN rows : at[j] = i
    /\ \A j \in DOMAIN rows : rows[j] = all[at[j]]

(* rv_package_repair makes no check of rv_package_validate fail that did   *)
(* not fail before, and the summary counts agree afterwards; every link    *)
(* from a marker that is there stays, in order, and no other; and a second *)
(* repair changes nothing.                                                 *)
RepairOnlyHelps ==
  [][reply'.call = "repair" =>
       LET old == package[reply'.side]
           new == package'[reply'.side]
       IN  /\ Failures(new.image, new.tables, 1)
                \subseteq Failures(old.image, old.tables, 1) \ {"summ"}
           /\ Selects(new.tables.links, old.tables.links, Attached(old.tables))
           /\ Repair(new.tables) = new.tables]_vars

-----------------------------------------------------------------------------
(* What a client learns of a marker by following its references; None for  *)
(* a reference that leads nowhere.                                         *)
StringSeen(t, id) == LET k == FindName(t, id) IN IF k = 0 THEN None ELSE t.names[k].str

RouteSeen(t, id) ==
  LET k == FindRoute(t, id)
  IN  IF k = 0 THEN None ELSE <<StringSeen(t, t.routes[k].site), StringSeen(t, t.routes[k].far)>>

InstSeen(t, id) ==
  LET found == RowsOf(t.insts, id)
  IN  IF found = {} THEN None
      ELSE <<StringSeen(t, t.insts[Min(found)].model), t.insts[Min(found)].wavelength>>

SamplesSeen(t, id) ==
  LET k == FindWave(t, id) IN IF k = 0 THEN None ELSE <<t.waves[k].samples>>

Seen(t, m) ==
  LET k == FindWindow(t, m.window)
  IN  [label   |-> StringSeen(t, m.label),
       route   |-> IF k = 0 THEN None ELSE RouteSeen(t, t.windows[k].route),
       inst    |-> IF k = 0 THEN None ELSE InstSeen(t, t.windows[k].inst),
       samples |-> IF k = 0 THEN None ELSE SamplesSeen(t, t.windows[k].wave)]

(* A package that validates has no dead ends: through its window every     *)
(* marker leads to a route, an instrument and, if the window names one, a  *)
(* wave, and every wave that names a window leads to one, also when ids    *)
(* occur twice (rv_package_validate).                                      *)
ValidPackagesResolve ==
  [][reply'.call = "validate" /\ reply'.ok =>
       LET t == package[reply'.side].tables
       IN  /\ \A i \in DOMAIN t.marks :
                LET k == FindWindow(t, t.marks[i].window)
                    seen == Seen(t, t.marks[i])
                IN  /\ k # 0 /\ seen.route # None /\ seen.inst # None
                    /\ t.windows[k].wave # 0 => seen.samples # None
           /\ \A i \in DOMAIN t.waves :
                t.waves[i].window # 0 => FindWindow(t, t.waves[i].window) # 0]_vars

(* The ids of the two sides, as a merge writes them, stay apart, and none  *)
(* of the right side becomes one that no index finds.                      *)
Apart(m) ==
  \A table \in {"routes", "insts", "windows", "waves", "marks"} :
    /\ Ids(m.left[table]) \cap {Biased(id, RightBias(m.opt)) : id \in Ids(m.right[table])} = {}
    /\ \A id \in Ids(m.right[table]) \ Unmapped : Biased(id, RightBias(m.opt)) \notin Unmapped

KeptIn(b, t, bias) ==
  \A i \in DOMAIN t.marks : FindWindow(t, t.marks[i].window) # 0 =>
    \E j \in DOMAIN b.marks :
      /\ b.marks[j].id = Biased(t.marks[i].id, bias)
      /\ \A what \in {"label", "route", "inst"} :
           Seen(t, t.marks[i])[what] \in {None, Seen(b, b.marks[j])[what]}
      /\ Seen(t, t.marks[i])["samples"] \in {None, <<0>>, Seen(b, b.marks[j])["samples"]}

(* A merge that succeeds keeps what its sides said: every marker of either *)
(* side that has a window is there, with the id the bias gives it, and     *)
(* leads to the same label, route ends and instrument as before, and to    *)
(* the same samples unless its wave had none, for such a wave is dropped   *)
(* and the reference to it goes astray; all this if the ids of the sides   *)
(* stay apart and none wraps to one that is never found                    *)
(* (rv_merge_into_builder).                                                *)
MergeKeepsReferences ==
  [][reply'.call = "merge" /\ reply'.ok =>
       LET m == made'.merged
       IN  Apart(m) => /\ KeptIn(builder', m.left, 0)
                       /\ KeptIn(builder', m.right, RightBias(m.opt))]_vars

(* Nothing in a package is lost on the way through a merge: no marker id   *)
(* twice, none that the index cannot hold, no marker that would be         *)
(* dropped.                                                                *)
Plain(t) ==
  /\ Ids(t.routes) \cap Unmapped = {} /\ 0 \notin Ids(t.marks) /\ UniqueIds(t.marks)
  /\ \A i \in DOMAIN t.marks : t.marks[i].window \in Ids(t.windows)

(* A diff of a package with the merge it is the left side of, written and  *)
(* opened again, shows the right side as added and nothing else            *)
(* (rv_diff_packages after rv_merge_into_builder and                       *)
(* rv_builder_serialize).                                                  *)
DiffOfMerge ==
  [][reply'.call = "diff" =>
       LET l == package[reply'.left].tables
           m == package[reply'.right].image.merged
           moved(rows) == {Biased(id, RightBias(m.opt)) : id \in Ids(rows)}
       IN  m # Nothing =>
             (m.left = l /\ Plain(m.left) /\ Plain(m.right) /\ Apart(m) =>
                reply'.report = [routes_removed |-> {}, routes_added |-> moved(m.right.routes),
                                 marks_removed |-> {}, marks_added |-> moved(m.right.marks),
                                 marks_changed |-> {}])]_vars

(* rv_merge.h: a merge remaps "ids when collisions occur".  A merge with   *)
(* remap_colliding_ids of packages without double ids has none.            *)
MergedIdsAreDistinct ==
  made.merged # Nothing /\ made.merged.ok /\ made.merged.opt.remap =>
    \A table \in {"routes", "insts", "windows", "waves", "marks"} :
      UniqueIds(made.merged.left[table]) /\ UniqueIds(made.merged.right[table])
        => UniqueIds(builder[table])
=============================================================================
