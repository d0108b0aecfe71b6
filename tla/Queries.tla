------------------------------- MODULE Queries -------------------------------
(***************************************************************************)
(* The queries over a finished index: rv_index_query_markers of            *)
(* src/internal/rv_index.c, src/internal/rv_query.c and                    *)
(* src/internal/rv_filter.c.  Markers are answered as whole rows.  Callers *)
(* give buffers with room for every answer.  A filter field of 0 is not    *)
(* tested.                                                                 *)
(*                                                                         *)
(* A span filter may also bound the date and the range of a window, which  *)
(* rows of the model do not have.                                          *)
(*                                                                         *)
(* A definition marked "mutant" is a plausible bug in the definition after *)
(* it; no specification uses it.                                           *)
(***************************************************************************)
EXTENDS TableIndex

CONSTANT DefaultLimit \* 1024: markers a plan without a limit is answered

ASSUME LimitAssumption == DefaultLimit \in Nat \ {0}

Filter == [route : Nat, inst : Nat, kind : Nat, severity : Nat, near : Int, far : Int]

(* The window of a marker, or a row that no filter asks for.               *)
WindowIn(index, m) ==
  LET k == Found(index, "windows", m.window)
  IN  IF k = 0 THEN [route |-> 0, inst |-> 0, wave |-> 0] ELSE index.nodes["windows"][k]

(* The rows of a table that are in S, in table order, as a loop leaves     *)
(* them that copies the rows it accepts.                                   *)
Accepted(rows, S) ==
  FoldLeft(LAMBDA kept, r : IF r \in S THEN Append(kept, r) ELSE kept, << >>, rows)

Passes(index, m, f) ==
  /\ f.kind \in {0, m.kind}
  /\ m.severity >= f.severity
  /\ f.near # 0 \/ f.far # 0 => /\ m.distance >= f.near
                                /\ f.far > 0 => m.distance <= f.far
  /\ f.route \in {0, WindowIn(index, m).route}
  /\ f.inst \in {0, WindowIn(index, m).inst}

rv_index_query_markers(index, f) ==
  LET marks == index.nodes["marks"]
  IN  Accepted(marks, {m \in ToSet(marks) : Passes(index, m, f)})

rv_query_windows_for_route(index, route) ==
  LET windows == index.nodes["windows"]
  IN  Accepted(windows, {w \in ToSet(windows) : route \in {0, w.route}})

rv_query_markers_near(index, window, center, radius) ==
  LET marks == index.nodes["marks"]
  IN  Accepted(marks, {m \in ToSet(marks) : /\ window \in {0, m.window}
                                           /\ m.distance - center \in -radius .. radius})

(* The instruments of the windows of a route, each once.                   *)
rv_query_instruments_on_route(index, route) ==
  FoldLeft(LAMBDA seen, w : IF \E i \in DOMAIN seen : seen[i] = w.inst THEN seen
                            ELSE Append(seen, w.inst),
           << >>, rv_query_windows_for_route(index, route))

-----------------------------------------------------------------------------
QueryPlan ==
  [filter : Filter, by : {"distance", "severity", "none"}, wave : BOOLEAN, limit : Nat]

LimitOf(plan) == IF plan.limit = 0 THEN DefaultLimit ELSE plan.limit

FirstOf(s, n) == SubSeq(s, 1, IF Len(s) < n THEN Len(s) ELSE n)

HasWave(index, m) ==
  Found(index, "windows", m.window) # 0 /\ Found(index, "waves", WindowIn(index, m).wave) # 0

WithWave(index, marks) == {m \in ToSet(marks) : HasWave(index, m)}

\* mutant: the rows that are kept are counted and not moved to the front
KeepWithWaveInPlace(index, marks) ==
  FirstOf(marks, Len(Accepted(marks, WithWave(index, marks))))

KeepWithWave(index, marks) == Accepted(marks, WithWave(index, marks))

InOrder(s, by) ==
  \A i, j \in DOMAIN s : i < j =>
    CASE by = "distance" -> s[i].distance <= s[j].distance
      [] by = "severity" -> s[i].severity >= s[j].severity
      [] OTHER -> TRUE

(* What qsort may make of the rows: it is not stable.                      *)
Arrangements(s, by) ==
  IF by = "none" THEN {s}
  ELSE {r \in {[i \in DOMAIN s |-> s[p[i]]] : p \in Bijection(DOMAIN s, DOMAIN s)} : InOrder(r, by)}

(* What rv_query_execute may answer: the limit cuts before the wave is     *)
(* asked for, and before the rows are sorted.                              *)
Executed(index, plan) ==
  LET first == FirstOf(rv_index_query_markers(index, plan.filter), LimitOf(plan))
  IN  Arrangements(IF plan.wave THEN KeepWithWave(index, first) ELSE first, plan.by)

-----------------------------------------------------------------------------
(* A span filter: [route, inst, wavelength]; the first instrument with the *)
(* id has to have the wavelength.                                          *)
rv_span_filter_match_window(t, w, f) ==
  /\ f.route \in {0, w.route} /\ f.inst \in {0, w.inst}
  /\ f.wavelength # 0 =>
       LET rows == RowsOf(t.insts, w.inst)
       IN  rows # {} /\ t.insts[Min(rows)].wavelength = f.wavelength

rv_span_filter_windows(t, f) ==
  Accepted(t.windows, {w \in ToSet(t.windows) : rv_span_filter_match_window(t, w, f)})

rv_span_filter_apply_to_markers(index, windows) ==
  LET marks == index.nodes["marks"]
  IN  Accepted(marks, {m \in ToSet(marks) : m.window \in Ids(windows)})
=============================================================================
