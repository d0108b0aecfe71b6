----------------------------- MODULE Consistency -----------------------------
(***************************************************************************)
(* What rv_package_validate checks of an open package, and what            *)
(* rv_package_repair changes in it (src/internal/rv_dict.c, rv_xref.c,     *)
(* rv_validate.c, rv_recover.c).                                           *)
(*                                                                         *)
(* Routes, windows and waves are looked up in the index, which never finds *)
(* id 0; instruments and calibrations by a scan of their table, which      *)
(* does.  Zero means "none" for names, calibrations, waves of windows and  *)
(* windows of waves.                                                       *)
(*                                                                         *)
(* A definition marked "mutant" is a plausible bug in the definition after *)
(* it; no specification uses it.                                           *)
(***************************************************************************)
EXTENDS PackageImage

(* rv_dict_by_id and rv_dict_resolve: the first entry with the id, or 0.   *)
FindName(t, id) ==
  LET found == RowsOf(t.names, id) IN IF found = {} THEN 0 ELSE Min(found)

KnownName(t, id) == id = 0 \/ FindName(t, id) # 0

rv_dict_check_routes(t) ==
  \A i \in DOMAIN t.routes : KnownName(t, t.routes[i].site) /\ KnownName(t, t.routes[i].far)
rv_dict_check_instruments(t) ==
  \A i \in DOMAIN t.insts : KnownName(t, t.insts[i].model) /\ KnownName(t, t.insts[i].serial)
rv_dict_check_markers(t) == \A i \in DOMAIN t.marks : KnownName(t, t.marks[i].label)

NamesResolve(t) ==
  rv_dict_check_routes(t) /\ rv_dict_check_instruments(t) /\ rv_dict_check_markers(t)

-----------------------------------------------------------------------------
FindRoute(t, id) == MapCell(t.routes, id)

\* mutant: a dangling instrument is forgiven when the calibration is known
BrokenWindowsForgiving(t) ==
  {i \in DOMAIN t.windows :
     LET w == t.windows[i]
     IN  \/ FindRoute(t, w.route) = 0
         \/ w.inst \notin Ids(t.insts) /\ w.calib \notin Ids(t.calibs)
         \/ w.calib # 0 /\ w.calib \notin Ids(t.calibs)
         \/ w.wave # 0 /\ FindWave(t, w.wave) = 0}

(* The rows that rv_xref_validate reports, table by table.                 *)
BrokenWindows(t) ==
  {i \in DOMAIN t.windows :
     LET w == t.windows[i]
     IN  \/ FindRoute(t, w.route) = 0
         \/ w.inst \notin Ids(t.insts)
         \/ w.calib # 0 /\ w.calib \notin Ids(t.calibs)
         \/ w.wave # 0 /\ FindWave(t, w.wave) = 0}

BrokenMarks(t) == {i \in DOMAIN t.marks : FindWindow(t, t.marks[i].window) = 0}

BrokenWaves(t) ==
  {i \in DOMAIN t.waves : t.waves[i].window # 0 /\ FindWindow(t, t.waves[i].window) = 0}

(* Only links from routes (kind 1) and to windows (kind 2) are looked at.  *)
BrokenLinks(t) ==
  {i \in DOMAIN t.links :
     LET l == t.links[i]
     IN  \/ l.from_kind = 1 /\ FindRoute(t, l.from) = 0
         \/ l.to_kind = 2 /\ FindWindow(t, l.to) = 0}

rv_xref_validate(t) ==
  /\ BrokenWindows(t) = {} /\ BrokenMarks(t) = {} /\ BrokenWaves(t) = {} /\ BrokenLinks(t) = {}
  /\ NamesResolve(t)

-----------------------------------------------------------------------------
rv_validate_header_consistency(f) ==
  /\ f.total = 0 \/ f.total = f.size
  /\ f.sections = Len(f.dir)

(* A count of zero in a SUMM section says nothing.                         *)
rv_validate_summ_counts(t) ==
  t.summ # NoSumm =>
    \A table \in {"routes", "windows", "marks", "waves", "names"} :
      t.summ[table] \in {0, Len(t[table])}

rv_validate_physical_ranges(t) ==
  \A table \in {"routes", "windows", "waves", "marks"} :
    \A i \in DOMAIN t[table] : t[table][i].ok

(* The checks that fail.  rv_package_validate passes the options of        *)
(* rv_validate_options_default, without checksums at strictness 0, and an  *)
(* index built for the purpose.                                            *)
Failures(f, t, strictness) ==
  (IF rv_validate_header_consistency(f) THEN {} ELSE {"header"})
  \cup (IF strictness = 0 \/ \A k \in DOMAIN f.dir : VerifySectionCrc(f.dir[k], f.size)
        THEN {} ELSE {"crc"})
  \cup (IF NamesResolve(t) THEN {} ELSE {"names"})
  \cup (IF rv_xref_validate(t) THEN {} ELSE {"xref"})
  \cup (IF rv_validate_summ_counts(t) THEN {} ELSE {"summ"})
  \cup (IF rv_validate_physical_ranges(t) THEN {} ELSE {"ranges"})

-----------------------------------------------------------------------------
(* A link from a marker (kind 3) that is not there.                        *)
Dangling(t, l) == l.from_kind = 3 /\ l.from \notin Ids(t.marks)

\* mutant: the links are counted by the last position that is kept
CompactLinksToLast(t) ==
  LET kept == {i \in DOMAIN t.links : ~Dangling(t, t.links[i])}
  IN  IF kept = {} THEN << >> ELSE SubSeq(t.links, 1, Max(kept))

(* The compaction in place.                                                *)
CompactLinks(t) ==
  FoldLeft(LAMBDA kept, l : IF Dangling(t, l) THEN kept ELSE Append(kept, l), << >>, t.links)

RecoverSumm(t) == [Counts(t) EXCEPT !.repaired = TRUE]

(* rv_repair_package with the options of rv_repair_options_default:        *)
(* normalise, compact the links, rebuild the summary.  The option to       *)
(* synthesize names changes nothing, and neither does a second diagnosis.  *)
Repair(t) ==
  LET normal == Normalize(t)
      linked == [normal EXCEPT !.links = CompactLinks(normal)]
  IN  [linked EXCEPT !.summ = RecoverSumm(linked)]
=============================================================================
