--------------------------- MODULE PackageBuilder ---------------------------
(***************************************************************************)
(* The in-memory builder of packages (src/internal/rv_builder.c) and the   *)
(* merge of two packages into one (src/internal/rv_merge.c), as operators  *)
(* on a builder value.                                                     *)
(*                                                                         *)
(* A call works on a record: the builder b, the number of allocations mem  *)
(* that will still be granted, and ok, which a refused allocation makes    *)
(* FALSE.  Nothing is added once ok is FALSE, for the code returns at      *)
(* once; what was added before stays.  Who owns the samples of a wave      *)
(* matters to free only and is left out, as are the statistics of a merge. *)
(*                                                                         *)
(* A definition marked "mutant" is a plausible bug in the definition after *)
(* it; no specification uses it.                                           *)
(***************************************************************************)
EXTENDS Consistency

CONSTANTS
  Clip,          \* the first 127 characters of a string
  FirstCapacity, \* 8: the capacity of an array after its first growth
  IdBias         \* 100000: added to the ids of the right side of a merge

ASSUME ClipAssumption == Clip \in [Name -> Name] /\ \A s \in Name : Clip[Clip[s]] = Clip[s]
ASSUME BiasAssumption == IdBias \in Nat /\ FirstCapacity \in Nat \ {0}

Builder == [names : Seq(NameRow), routes : Seq(RouteRow), insts : Seq(InstRow),
            calibs : Seq(CalibRow), windows : Seq(WindowRow), waves : Seq(WaveRow),
            marks : Seq(MarkRow), links : Seq(LinkRow), notes : Seq(NoteRow),
            next : Nat, version : Nat]

(* rv_builder_init.                                                        *)
EmptyBuilder ==
  [names |-> << >>, routes |-> << >>, insts |-> << >>, calibs |-> << >>, windows |-> << >>,
   waves |-> << >>, marks |-> << >>, links |-> << >>, notes |-> << >>, next |-> 1, version |-> 2]

Working(b, mem) == [b |-> b, mem |-> mem, ok |-> TRUE]

(* An array of n rows is full: RV_BUILDER_GROW doubles its capacity.       *)
ArrayIsFull(n) == n = 0 \/ \E k \in 0 .. n : n = FirstCapacity * 2 ^ k

(* A growth that is refused leaves the array as it is.                     *)
AddRow(w, table, row) ==
  IF ~w.ok THEN w
  ELSE IF ArrayIsFull(Len(w.b[table])) /\ w.mem = 0 THEN [w EXCEPT !.ok = FALSE]
  ELSE [w EXCEPT !.b[table] = Append(@, row),
                 !.mem = IF ArrayIsFull(Len(w.b[table])) THEN @ - 1 ELSE @]

AddRows(w, table, rows) == FoldLeft(LAMBDA acc, row : AddRow(acc, table, row), w, rows)

(* One call after the other: rows is a sequence of <<table, row>>.         *)
AddEach(w, rows) == FoldLeft(LAMBDA acc, r : AddRow(acc, r[1], r[2]), w, rows)

\* mutant: an over-long name is not cut
AddNameWhole(w, str) ==
  LET found == {i \in DOMAIN w.b.names : w.b.names[i].str = str}
      added == AddRow(w, "names", [id |-> w.b.next, str |-> str])
  IN  IF ~w.ok THEN [w |-> w, id |-> 0]
      ELSE IF found # {} THEN [w |-> w, id |-> w.b.names[Min(found)].id]
      ELSE IF ~added.ok THEN [w |-> added, id |-> 0]
      ELSE [w |-> [added EXCEPT !.b.next = @ + 1], id |-> w.b.next]

\* mutant: an over-long name is looked up before it is cut
AddNameUncut(w, str) ==
  LET found == {i \in DOMAIN w.b.names : w.b.names[i].str = str}
      added == AddRow(w, "names", [id |-> w.b.next, str |-> Clip[str]])
  IN  IF ~w.ok THEN [w |-> w, id |-> 0]
      ELSE IF found # {} THEN [w |-> w, id |-> w.b.names[Min(found)].id]
      ELSE IF ~added.ok THEN [w |-> added, id |-> 0]
      ELSE [w |-> [added EXCEPT !.b.next = @ + 1], id |-> w.b.next]

(* rv_builder_add_name: the id of the string, added if it is new.          *)
AddName(w, str) ==
  LET s == Clip[str]
      found == {i \in DOMAIN w.b.names : w.b.names[i].str = s}
      added == AddRow(w, "names", [id |-> w.b.next, str |-> s])
  IN  IF ~w.ok THEN [w |-> w, id |-> 0]
      ELSE IF found # {} THEN [w |-> w, id |-> w.b.names[Min(found)].id]
      ELSE IF ~added.ok THEN [w |-> added, id |-> 0]
      ELSE [w |-> [added EXCEPT !.b.next = @ + 1], id |-> w.b.next]

(* One name after the other, and their ids.                                *)
AddNames(w, strings) ==
  FoldLeft(LAMBDA acc, str : LET n == AddName(acc.w, str) IN [w |-> n.w, ids |-> Append(acc.ids, n.id)],
           [w |-> w, ids |-> << >>], strings)

(* rv_builder_add_wave_copy refuses a wave without samples, and copies the *)
(* samples first.  rv_builder_add_wave does neither: it is an AddRow.      *)
AddWaveCopy(w, row) ==
  IF ~w.ok \/ row.samples = 0 \/ w.mem = 0 THEN [w EXCEPT !.ok = FALSE]
  ELSE AddRow([w EXCEPT !.mem = @ - 1], "waves", row)

-----------------------------------------------------------------------------
(* rv_builder_demo_span: one row of everything but notes.  Its own buffer  *)
(* of samples is the first allocation after the window.                    *)
DemoSpan(w, site, far, model, serial, label, samples) ==
  LET names == AddNames(w, <<site, far, model, serial, label>>)
      id == names.ids
      window == AddEach(names.w,
        <<<<"routes", [id |-> 1, site |-> id[1], far |-> id[2], ok |-> TRUE]>>,
          <<"insts", [id |-> 1, model |-> id[3], serial |-> id[4], wavelength |-> 1550]>>,
          <<"calibs", [id |-> 1, inst |-> 1]>>,
          <<"windows", [id |-> 1, route |-> 1, inst |-> 1, calib |-> 1, wave |-> 1,
                        ok |-> TRUE]>>>>)
      buffer == IF window.mem = 0 THEN [window EXCEPT !.ok = FALSE]
                ELSE [window EXCEPT !.mem = @ - 1]
      wave == AddWaveCopy(buffer, [id |-> 1, window |-> 1, samples |-> samples, ok |-> TRUE])
  IN  AddEach(wave,
        <<<<"marks", [id |-> 1, window |-> 1, label |-> id[5], kind |-> 1, severity |-> 20,
                      distance |-> 10, loss |-> 3, ok |-> TRUE]>>,
          <<"links", [id |-> 1, from_kind |-> 1, from |-> 1, to_kind |-> 2, to |-> 1]>>>>)

-----------------------------------------------------------------------------
(***************************************************************************)
(* Serialising.                                                            *)
(***************************************************************************)

(* rv_b_append_snam to rv_b_append_wind.                                   *)
BuiltRecords(b) ==
  <<Body("SNAM", b.names), Body("ROUT", b.routes), Body("INST", b.insts),
    Body("CLBR", b.calibs), Body("WIND", b.windows)>>

(* rv_b_append_wave to rv_b_append_note.                                   *)
BuiltMarks(b) ==
  <<Body("WAVE", b.waves), Body("MARK", b.marks), Body("LINK", b.links), Body("NOTE", b.notes)>>

(* rv_b_append_summ.                                                       *)
BuiltSumm(b) == <<SummBody(Counts(b))>>

\* mutant: the notes are counted into the directory and not written
SerializeWithoutNotes(b) ==
  [Image(BuiltRecords(b) \o SubSeq(BuiltMarks(b), 1, 3) \o BuiltSumm(b), b.version)
     EXCEPT !.sections = @ + 1]

(* rv_builder_serialize, with include_notes and include_summ as            *)
(* rv_builder_init sets them.                                              *)
Serialize(b) == Image(BuiltRecords(b) \o BuiltMarks(b) \o BuiltSumm(b), b.version)

-----------------------------------------------------------------------------
(***************************************************************************)
(* Merging.                                                                *)
(***************************************************************************)
Biased(id, bias) == (id + bias) % IdMod

(* rv_merge_map_name: an unknown name, or one that finds no room, is 0.    *)
MapName(w, t, id) ==
  LET k == FindName(t, id)
      found == AddName(w, t.names[k].str)
  IN  IF id = 0 \/ k = 0 THEN [w |-> w, id |-> 0]
      ELSE [w |-> [found.w EXCEPT !.ok = w.ok], id |-> found.id]

MergeRoute(w, t, r, bias) ==
  LET site == MapName(w, t, r.site)
      far == MapName(site.w, t, r.far)
  IN  AddRow(far.w, "routes", [id |-> Biased(r.id, bias), site |-> site.id, far |-> far.id,
                               ok |-> r.ok])

MergeInst(w, t, r, bias) ==
  LET model == MapName(w, t, r.model)
      serial == MapName(model.w, t, r.serial)
  IN  AddRow(serial.w, "insts", [id |-> Biased(r.id, bias), model |-> model.id,
                                 serial |-> serial.id, wavelength |-> r.wavelength])

BiasedCalib(c, bias) == [id |-> Biased(c.id, bias), inst |-> Biased(c.inst, bias)]

\* mutant: the wave of a window keeps its old id
BiasedWindowOldWave(w, bias) ==
  [w EXCEPT !.id = Biased(@, bias), !.route = Biased(@, bias), !.inst = Biased(@, bias),
            !.calib = Biased(@, bias)]

(* Zero references, which mean "none", are biased with the others.         *)
BiasedWindow(w, bias) ==
  [w EXCEPT !.id = Biased(@, bias), !.route = Biased(@, bias), !.inst = Biased(@, bias),
            !.calib = Biased(@, bias), !.wave = Biased(@, bias)]

(* A wave without samples is dropped; windows go on referring to it.       *)
MergeWave(w, r, bias) ==
  IF r.samples = 0 THEN w
  ELSE AddWaveCopy(w, [r EXCEPT !.id = Biased(@, bias), !.window = Biased(@, bias)])

\* mutant: a marker is kept if any window is there
MergeMarkLoosely(w, t, m, opt, bias) ==
  LET label == MapName(w, t, m.label)
      row == [m EXCEPT !.id = Biased(@, bias), !.window = Biased(@, bias), !.label = label.id]
  IN  IF opt.drop_unlinked /\ t.windows = << >> THEN label.w ELSE AddRow(label.w, "marks", row)

(* The label is mapped before the marker is dropped.                       *)
MergeMark(w, t, m, opt, bias) ==
  LET label == MapName(w, t, m.label)
      row == [m EXCEPT !.id = Biased(@, bias), !.window = Biased(@, bias), !.label = label.id]
  IN  IF opt.drop_unlinked /\ m.window \notin Ids(t.windows) THEN label.w
      ELSE AddRow(label.w, "marks", row)

BiasedLink(l, bias) ==
  [l EXCEPT !.id = Biased(@, bias), !.from = Biased(@, bias), !.to = Biased(@, bias)]

MergeNote(w, t, n, bias) ==
  LET text == MapName(w, t, n.text)
  IN  AddRow(text.w, "notes", [n EXCEPT !.id = Biased(@, bias), !.target = Biased(@, bias),
                                        !.text = text.id])

(* rv_merge_side: all names first, then table by table.                    *)
MergeSide(w, t, opt, bias) ==
  LET names == FoldLeft(LAMBDA acc, r : AddName(acc, r.str).w, w, t.names)
      routes == FoldLeft(LAMBDA acc, r : MergeRoute(acc, t, r, bias), names, t.routes)
      insts == FoldLeft(LAMBDA acc, r : MergeInst(acc, t, r, bias), routes, t.insts)
      calibs == AddRows(insts, "calibs", [i \in DOMAIN t.calibs |-> BiasedCalib(t.calibs[i], bias)])
      windows == AddRows(calibs, "windows",
                         [i \in DOMAIN t.windows |-> BiasedWindow(t.windows[i], bias)])
      waves == FoldLeft(LAMBDA acc, r : MergeWave(acc, r, bias), windows, t.waves)
      marks == FoldLeft(LAMBDA acc, r : MergeMark(acc, t, r, opt, bias), waves, t.marks)
      links == AddRows(marks, "links", [i \in DOMAIN t.links |-> BiasedLink(t.links[i], bias)])
  IN  IF opt.notes THEN FoldLeft(LAMBDA acc, r : MergeNote(acc, t, r, bias), links, t.notes)
      ELSE links

RightBias(opt) == IF opt.remap THEN IdBias ELSE 0

\* mutant: both sides are biased
MergeBiasingBoth(w, left, right, opt) ==
  MergeSide(MergeSide(w, left, opt, RightBias(opt)), right, opt, RightBias(opt))

(* rv_merge_into_builder: the left side keeps its ids, the right side is   *)
(* biased, collisions or not.                                              *)
Merge(w, left, right, opt) ==
  MergeSide(MergeSide(w, left, opt, 0), right, opt, RightBias(opt))
=============================================================================
