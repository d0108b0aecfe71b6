----------------------------- MODULE MCArchive -----------------------------
(***************************************************************************)
(* Instances of Archive for TLC.  The name "long" is longer than a builder *)
(* keeps: it is cut to "cut", which has odd length.  Next to the rows of   *)
(* rv_builder_demo_span a client adds rows that are broken in one way      *)
(* each, or that have an id which is there already.                        *)
(***************************************************************************)
EXTENDS Archive

Sides == Permutations(Side)

AnyName == {"a", "b", "m", "s", "l", "long", "cut"}
Lengths == [n \in AnyName |-> CASE n = "long" -> 5 [] n = "cut" -> 3 [] n = "b" -> 2 [] OTHER -> 1]
Cut == [n \in AnyName |-> IF n = "long" THEN "cut" ELSE n]

SpanOf(site, far, samples) ==
  [site |-> site, far |-> far, model |-> "m", serial |-> "s", label |-> "l", samples |-> samples]
TwoSpans == <<SpanOf("a", "b", 1), SpanOf("long", "long", 2)>>

BrokenRows ==
  {<<"routes", [id |-> 0, site |-> 9, far |-> 0, ok |-> TRUE]>>,
   <<"marks", [id |-> 2, window |-> 7, label |-> 0, kind |-> 2, severity |-> 200, distance |-> 5,
               loss |-> 0, ok |-> TRUE]>>,
   <<"marks", [id |-> 1, window |-> 1, label |-> 2, kind |-> 1, severity |-> 200, distance |-> 5,
               loss |-> 0, ok |-> FALSE]>>,
   <<"links", [id |-> 2, from_kind |-> 3, from |-> 9, to_kind |-> 2, to |-> 1]>>,
   <<"links", [id |-> 2, from_kind |-> 1, from |-> 7, to_kind |-> 3, to |-> 1]>>,
   <<"notes", [id |-> 1, target_kind |-> 2, target |-> 1, text |-> 1]>>,
   <<"windows", [id |-> 1, route |-> 1, inst |-> 9, calib |-> 1, wave |-> 1, ok |-> TRUE]>>,
   <<"windows", [id |-> 0, route |-> 0, inst |-> 1, calib |-> 0, wave |-> 0, ok |-> TRUE]>>,
   <<"waves", [id |-> 2, window |-> 0, samples |-> 2, ok |-> TRUE]>>,
   <<"waves", [id |-> 1, window |-> 1, samples |-> 0, ok |-> TRUE]>>}
NoRows == {}

Options ==
  {[remap |-> TRUE, drop_unlinked |-> TRUE, notes |-> TRUE],
   [remap |-> FALSE, drop_unlinked |-> FALSE, notes |-> FALSE]}
Remapping == {[remap |-> TRUE, drop_unlinked |-> TRUE, notes |-> TRUE]}

RowLimits == [t \in {Order[i] : i \in DOMAIN Order} |-> IF t = "MARK" THEN 2 ELSE 12]

AmpleLimits == [t \in {Order[i] : i \in DOMAIN Order} |-> 12]

(* Whatever lies behind a section, it is not what was written.             *)
Garbage ==
  [id |-> 99, str |-> "cut", site |-> 99, far |-> 99, ok |-> FALSE, model |-> 99, serial |-> 99,
   wavelength |-> 99, inst |-> 99, route |-> 99, calib |-> 99, wave |-> 99, window |-> 99,
   samples |-> 0, label |-> 99, kind |-> 99, severity |-> 99, distance |-> 99, loss |-> 99,
   from_kind |-> 99, from |-> 99, to_kind |-> 99, to |-> 99, target_kind |-> 99, target |-> 99,
   text |-> 99]

ByHandOnce == <<1, 0>>
ByHandTwice == <<0, 0>>

(* No action reads reply, and the properties that do look at reply' only.  *)
UpToReply == <<builder, made, shelf, package, images>>
=============================================================================
