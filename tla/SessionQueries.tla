--------------------------- MODULE SessionQueries ---------------------------
(***************************************************************************)
(* A session over one open package: the index it builds when it is needed, *)
(* the queries it answers from it, and the arena memory that all of them   *)
(* take (src/rayvault.c, src/internal/rv_session_ops.c, rv_index.c,        *)
(* rv_query.c, rv_filter.c, rv_dict.c).  Nothing is given back to the      *)
(* arena before a reset of the package: not the index that a rebuild       *)
(* replaces, not the one of a validation, not the answer of a query, and   *)
(* not what a call had allocated before it failed.                         *)
(*                                                                         *)
(* After a reset the client rebinds its session before it asks anything;   *)
(* what happens otherwise is in PackageSession, as are cache, summary and  *)
(* export.  Functions that take an index are called with that of the       *)
(* session, once it is ready.                                              *)
(*                                                                         *)
(* A definition marked "mutant" is a plausible bug in the definition after *)
(* it; no specification uses it.                                           *)
(***************************************************************************)
EXTENDS Queries, NameDict

CONSTANTS
  Package,     \* parsed packages: their tables, and the arena bytes the parse takes
  Grants,      \* how many allocations of a call the environment may grant
  Plenty,      \* ... and a number that no call exceeds
  AnyFilter,   \* arguments of rv_marker_query
  AnyPlan,     \* arguments of rv_session_run_query: members of QueryPlan
  AnySpan,     \* arguments of the span filter
  Around,      \* a marker search: <<window, center, radius>>
  InfoSize     \* the size of a marker in an answer

ASSUME PackageAssumption ==
  \A p \in Package : p.tables \in Tables /\ IdsFit(p.tables) /\ p.parsed \in 0 .. Limit
ASSUME FilterAssumption ==
  AnyFilter \subseteq Filter /\ AnyPlan \subseteq QueryPlan /\ Around \subseteq Nat \X Int \X Nat
ASSUME GrantsAssumption == Grants \subseteq Nat /\ Plenty \in Grants /\ InfoSize \in Nat

VARIABLES
  package,     \* the open package
  used,        \* the arena bytes in use
  index,       \* the index of the session
  index_ready,
  stale,       \* the package was reset and the session not rebound
  reply        \* the last call, its argument, and what it showed

vars == <<package, used, index, index_ready, stale, reply>>

Tabled == package.tables

Init ==
  /\ package \in Package
  /\ used = package.parsed
  /\ index = EmptyIndex /\ index_ready = FALSE /\ stale = FALSE
  /\ reply = [call |-> "none"]

Answers(name, arg, ok, answer) ==
  reply' = [call |-> name, arg |-> arg, ok |-> ok, answer |-> answer]

-----------------------------------------------------------------------------
(***************************************************************************)
(* The index of the session.                                               *)
(***************************************************************************)
\* mutant: the flag is set before the build is known to have succeeded
EnsureInAnyCase(u, idx, ready, grants) ==
  IF ready THEN [used |-> u, grants |-> grants, ok |-> TRUE, index |-> idx]
  ELSE [rv_index_build(u, grants, Tabled) EXCEPT !.ok = TRUE]

(* rv_session_ensure_index: a build that failed left index_ready FALSE,    *)
(* and the next call starts again.                                         *)
Ensure(u, idx, ready, grants) ==
  IF ready THEN [used |-> u, grants |-> grants, ok |-> TRUE, index |-> idx]
  ELSE rv_index_build(u, grants, Tabled)

(* What a call leaves that had to ensure the index and worked to w.        *)
Keeps(ensured, w) ==
  /\ used' = w.used /\ index' = ensured.index /\ index_ready' = ensured.ok
  /\ UNCHANGED package

rv_session_rebuild_index(grants) ==
  /\ ~stale
  /\ LET e == Ensure(used, EmptyIndex, FALSE, grants)
     IN  Keeps(e, e) /\ Answers("rebuild", grants, e.ok, << >>)
  /\ UNCHANGED stale

(* rv_session_rebind drops the index whatever it pointed into.             *)
rv_session_rebind(grants) ==
  /\ LET e == Ensure(used, EmptyIndex, FALSE, grants)
     IN  Keeps(e, e) /\ Answers("rebind", grants, e.ok, << >>)
  /\ stale' = FALSE

(* The index that rv_package_validate builds for itself; its checks are in *)
(* Consistency.                                                            *)
rv_package_validate(grants) ==
  /\ ~stale
  /\ LET w == rv_index_build(used, grants, Tabled)
     IN  used' = w.used /\ Answers("validate", grants, w.ok, << >>)
  /\ UNCHANGED <<package, index, index_ready, stale>>

\* mutant: the parser starts again without resetting the arena
ParsedOnTop == IF used + package.parsed <= Limit THEN used + package.parsed ELSE Limit

ParsedAgain == package.parsed

(* rv_package_reset; Parser has its steps.                                 *)
rv_package_reset ==
  /\ used' = ParsedAgain
  /\ stale' = TRUE
  /\ Answers("reset", 0, TRUE, << >>)
  /\ UNCHANGED <<package, index, index_ready>>

-----------------------------------------------------------------------------
(***************************************************************************)
(* Queries.                                                                *)
(***************************************************************************)
rv_marker_query(f, grants) ==
  /\ ~stale
  /\ LET e == Ensure(used, index, index_ready, grants)
     IN  /\ Keeps(e, e)
         /\ Answers("marker_query", f, e.ok,
                    IF e.ok THEN rv_index_query_markers(e.index, f) ELSE << >>)
  /\ UNCHANGED stale

(* rv_session_run_query and rv_query_execute: a buffer for as many markers *)
(* as the limit allows, then one for the windows.  The index stays ready   *)
(* when a buffer is refused.                                               *)
rv_session_run_query(plan, grants) ==
  /\ ~stale
  /\ LET e == Ensure(used, index, index_ready, grants)
         markers == Take(e, InfoSize * LimitOf(plan), 8)
         windows == Len(e.index.nodes["windows"])
         w == Take(markers, 4 * (IF windows = 0 THEN 1 ELSE windows), 4)
     IN  /\ Keeps(e, w)
         /\ IF w.ok
            THEN \E answer \in Executed(e.index, plan) : Answers("run_query", plan, TRUE, answer)
            ELSE Answers("run_query", plan, FALSE, << >>)
  /\ UNCHANGED stale

Ready == ~stale /\ index_ready

InstrumentsOnRoute(route) ==
  /\ Ready
  /\ Answers("instruments", route, TRUE, rv_query_instruments_on_route(index, route))
  /\ UNCHANGED <<package, used, index, index_ready, stale>>

MarkersNear(a) ==
  /\ Ready
  /\ Answers("markers_near", a, TRUE, rv_query_markers_near(index, a[1], a[2], a[3]))
  /\ UNCHANGED <<package, used, index, index_ready, stale>>

(* rv_span_filter_windows, whose ids take arena memory if there are any,   *)
(* then rv_span_filter_apply_to_markers.                                   *)
FilterSpan(f, grants) ==
  /\ Ready
  /\ LET windows == rv_span_filter_windows(Tabled, f)
         before == [used |-> used, grants |-> grants, ok |-> TRUE]
         w == IF windows = << >> THEN before ELSE Take(before, 4 * Len(windows), 4)
     IN  /\ used' = w.used
         /\ Answers("filter", f, w.ok,
                    IF w.ok THEN rv_span_filter_apply_to_markers(index, windows) ELSE << >>)
  /\ UNCHANGED <<package, index, index_ready, stale>>

(* rv_name_find, and rv_name_lookup of the id it returns.  They look at    *)
(* the parsed tables and need no index.                                    *)
rv_name_find(str) ==
  /\ LET k == FindString(Tabled.names, str)
         id == Tabled.names[k].id
         first == Min(RowsOf(Tabled.names, id))
     IN  Answers("name_find", str, k # 0, IF k = 0 THEN << >> ELSE <<id, Tabled.names[first].str>>)
  /\ UNCHANGED <<package, used, index, index_ready, stale>>

Next ==
  \/ \E grants \in Grants :
       \/ rv_session_rebuild_index(grants) \/ rv_session_rebind(grants)
       \/ rv_package_validate(grants)
       \/ \E f \in AnyFilter : rv_marker_query(f, grants)
       \/ \E plan \in AnyPlan : rv_session_run_query(plan, grants)
       \/ \E f \in AnySpan : FilterSpan(f, grants)
  \/ rv_package_reset
  \/ \E f \in AnyFilter : InstrumentsOnRoute(f.route)
  \/ \E a \in Around : MarkersNear(a)
  \/ \E str \in Name : rv_name_find(str)

Spec == Init /\ [][Next]_vars

-----------------------------------------------------------------------------
(***************************************************************************)
(* Properties.                                                             *)
(***************************************************************************)

(* The types of the state; the arena is never in use beyond its limit,     *)
(* whatever was leaked or refused (rv_arena_alloc).                        *)
TypeOK ==
  /\ package \in Package
  /\ used \in 0 .. Limit
  /\ index.nodes.marks \in Seq(MarkRow) /\ index.nodes.windows \in Seq(WindowRow)
  /\ \A table \in Mapped : \A id \in DOMAIN index.map[table] : index.map[table][id] \in Nat
  /\ index_ready \in BOOLEAN /\ stale \in BOOLEAN

(* A session never answers from a half-built index: one that is marked     *)
(* ready has every row of every table, and finds every id as PackageIndex  *)
(* says, however often a build failed before and its maps were regrown.    *)
(* Nothing is said of packages with the id 2^32 - 1, here or of answers:   *)
(* their build stores beside a map (rv_session_ensure_index,               *)
(* rv_index_build, rv_idmap_put).                                          *)
ReadyIndexIsWhole ==
  index_ready /\ StoresHit(Tabled) =>
    /\ \A table \in Indexed : index.nodes[table] = Tabled[table]
    /\ \A table \in Mapped : \A id \in Ids(Tabled[table]) \cup DOMAIN index.map[table] :
         Found(index, table, id) = MapCell(Tabled[table], id)

(* A reset gives back all that builds, validations, queries and failures   *)
(* have taken: the rebind after it fails only if the environment refuses   *)
(* memory, or if no index would fit beside a first parse of the package    *)
(* (rv_package_reset).                                                     *)
ResetMakesRoom ==
  [][/\ stale /\ reply'.call = "rebind" /\ reply'.arg = Plenty
     /\ rv_index_build(package.parsed, Plenty, Tabled).ok
     => reply'.ok]_vars

-----------------------------------------------------------------------------
(* What the tables say a filter asks for.                                  *)
OnWindow(m, route, inst, wave) ==
  \E i \in DOMAIN Tabled.windows :
    LET w == Tabled.windows[i]
    IN  /\ w.id = m.window /\ w.id # 0
        /\ route \in {0, w.route} /\ inst \in {0, w.inst}
        /\ wave => w.wave \in Ids(Tabled.waves) \ {0}

Wanted(f, wave) ==
  Accepted(Tabled.marks,
           {m \in ToSet(Tabled.marks) :
              /\ f.kind # 0 => m.kind = f.kind
              /\ m.severity >= f.severity
              /\ f.near # 0 \/ f.far # 0 => m.distance >= f.near
              /\ f.far > 0 => m.distance <= f.far
              /\ f.route # 0 \/ f.inst # 0 \/ wave => OnWindow(m, f.route, f.inst, wave)})

Windows == Tabled.windows

(* With unique window ids, a marker query answers exactly the markers the  *)
(* filter asks for, in table order; a span filter and a marker query agree *)
(* when they ask for the same; a search answers the markers of its window  *)
(* (of all for 0) within the radius; and the instruments of a route are    *)
(* those of its windows, each once; given that no store of the build       *)
(* missed its map (rv_index_query_markers,                                 *)
(* rv_span_filter_apply_to_markers, rv_query_markers_near,                 *)
(* rv_query_instruments_on_route).                                         *)
AnswersMatchTables ==
  [][StoresHit(Tabled) =>
     /\ reply'.call = "marker_query" /\ reply'.ok /\ UniqueIds(Windows) =>
          reply'.answer = Wanted(reply'.arg, FALSE)
     /\ reply'.call = "markers_near" =>
          LET a == reply'.arg
          IN  reply'.answer =
                Accepted(Tabled.marks, {m \in ToSet(Tabled.marks) :
                                          /\ a[1] # 0 => m.window = a[1]
                                          /\ m.distance \in a[2] - a[3] .. a[2] + a[3]})
     /\ reply'.call = "filter" /\ reply'.ok /\ UniqueIds(Windows) /\ 0 \notin Ids(Windows) =>
          LET f == reply'.arg
          IN  f.wavelength = 0 /\ (f.route # 0 \/ f.inst # 0) =>
                reply'.answer = Wanted([route |-> f.route, inst |-> f.inst, kind |-> 0,
                                        severity |-> 0, near |-> 0, far |-> 0], FALSE)
     /\ reply'.call = "instruments" =>
          /\ ToSet(reply'.answer) =
               {Windows[i].inst : i \in {j \in DOMAIN Windows : reply'.arg \in {0, Windows[j].route}}}
          /\ IsInjective(reply'.answer)]_vars

Times(s, m) == Cardinality({i \in DOMAIN s : s[i] = m})

(* A query plan answers at most as many markers as its limit, sorted as it *)
(* asks, none that its filter does not ask for or, with require_wave, that *)
(* has no wave, none more often than the table has it, and all of them if  *)
(* no more markers than the limit pass the filter; given unique window ids *)
(* and that no store of the build missed its map (rv_query_execute).       *)
QueryResultIsSound ==
  [][reply'.call = "run_query" /\ reply'.ok /\ UniqueIds(Windows) /\ StoresHit(Tabled) =>
       LET plan == reply'.arg
           wanted == Wanted(plan.filter, plan.wave)
       IN  /\ Len(reply'.answer) <= LimitOf(plan)
           /\ InOrder(reply'.answer, plan.by)
           /\ \A i \in DOMAIN reply'.answer :
                Times(reply'.answer, reply'.answer[i]) <= Times(wanted, reply'.answer[i])
           /\ Len(Wanted(plan.filter, FALSE)) <= LimitOf(plan) =>
                Len(reply'.answer) = Len(wanted)]_vars

(* Whatever strings share a bucket, a name is found if and only if the     *)
(* package has it; unless another row has the id that was found, be it 0,  *)
(* looking up that id yields the name again (rv_dict_by_str over the table *)
(* of rv_decode_snam, which checks no id, and rv_dict_by_id).              *)
NamesAreFound ==
  [][reply'.call = "name_find" =>
       /\ reply'.ok <=> reply'.arg \in {Tabled.names[i].str : i \in DOMAIN Tabled.names}
       /\ reply'.ok /\ (\A i, j \in RowsOf(Tabled.names, reply'.answer[1]) : i = j) =>
            reply'.answer[2] = reply'.arg]_vars
=============================================================================
