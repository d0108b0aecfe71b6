--------------------------- MODULE PackageTables ---------------------------
(***************************************************************************)
(* The rows of the nine tables of a parsed package (rv_parsed) and of a    *)
(* builder, and what is done to them before a package is open              *)
(* (src/internal/rv_normalize.c).  Both sides write the rows field by      *)
(* field, so one row stands for both.                                      *)
(*                                                                         *)
(* A row keeps what some check, query or merge looks at.  "ok" says that   *)
(* its lengths and distances are in the physical ranges of rv_validate.c;  *)
(* other measurements are left out.  Distances and losses are whole        *)
(* numbers, in the unit that rv_diff.c tolerates.                          *)
(***************************************************************************)
EXTENDS PackageIndex, Integers, SequencesExt

CONSTANTS
  Name,        \* strings
  NameLength,  \* their lengths
  MaxSeverity, \* 100
  NoSumm       \* has_summ = 0

ASSUME NameAssumption == NameLength \in [Name -> Nat]
ASSUME SeverityAssumption == MaxSeverity \in Nat

NameRow   == [id : Nat, str : Name]
RouteRow  == [id : Nat, site : Nat, far : Nat, ok : BOOLEAN]
InstRow   == [id : Nat, model : Nat, serial : Nat, wavelength : Nat]
CalibRow  == [id : Nat, inst : Nat]
WindowRow == [id : Nat, route : Nat, inst : Nat, calib : Nat, wave : Nat, ok : BOOLEAN]
WaveRow   == [id : Nat, window : Nat, samples : Nat, ok : BOOLEAN]
MarkRow   == [id : Nat, window : Nat, label : Nat, kind : Nat, severity : Nat, distance : Int,
              loss : Int, ok : BOOLEAN]
LinkRow   == [id : Nat, from_kind : Nat, from : Nat, to_kind : Nat, to : Nat]
NoteRow   == [id : Nat, target_kind : Nat, target : Nat, text : Nat]

(* A SUMM record: the sizes of five tables and the "repaired" flag.        *)
SummRow == [routes : Nat, windows : Nat, marks : Nat, waves : Nat, names : Nat,
            repaired : BOOLEAN]

Tables == [names : Seq(NameRow), routes : Seq(RouteRow), insts : Seq(InstRow),
           calibs : Seq(CalibRow), windows : Seq(WindowRow), waves : Seq(WaveRow),
           marks : Seq(MarkRow), links : Seq(LinkRow), notes : Seq(NoteRow),
           summ : SummRow \cup {NoSumm}]

RowOf == [names |-> NameRow, routes |-> RouteRow, insts |-> InstRow, calibs |-> CalibRow,
          windows |-> WindowRow, waves |-> WaveRow, marks |-> MarkRow, links |-> LinkRow,
          notes |-> NoteRow]

RowTables == DOMAIN RowOf

Ids(rows) == {rows[i].id : i \in DOMAIN rows}

Counts(t) == [routes |-> Len(t.routes), windows |-> Len(t.windows), marks |-> Len(t.marks),
              waves |-> Len(t.waves), names |-> Len(t.names), repaired |-> FALSE]

-----------------------------------------------------------------------------
(* The insertion sort of rv_sort_windows_by_id: a row passes those with a  *)
(* greater id at the end, so rows with equal ids keep their order.         *)
InsertWindow(sorted, w) ==
  LET stop == Max({0} \cup {i \in DOMAIN sorted : sorted[i].id <= w.id})
  IN  InsertAt(sorted, stop + 1, w)

SortWindows(windows) == FoldLeft(InsertWindow, << >>, windows)

ClampSeverity(m) == [m EXCEPT !.severity = IF @ > MaxSeverity THEN MaxSeverity ELSE @]

(* The wave of a package with a single window belongs to that window.      *)
FillWindow(w, windows) ==
  IF w.window = 0 /\ Len(windows) = 1 THEN [w EXCEPT !.window = windows[1].id] ELSE w

(* rv_normalize_parsed.                                                    *)
Normalize(t) ==
  LET windows == SortWindows(t.windows)
  IN  [t EXCEPT !.windows = windows,
                !.marks = [i \in DOMAIN @ |-> ClampSeverity(@[i])],
                !.waves = [i \in DOMAIN @ |-> FillWindow(@[i], windows)]]
=============================================================================
