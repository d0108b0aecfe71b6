-------------------------- MODULE MCPackageSession --------------------------
(***************************************************************************)
(* Instances of PackageSession for TLC.  The file may be a legacy package, *)
(* a current one with other tables, one whose sections do not all decode,  *)
(* one of an unknown version, or missing.                                  *)
(***************************************************************************)
EXTENDS PackageSession

File(rows, blocks, major, good) ==
  [rows |-> rows, blocks |-> blocks, major |-> major, marked |-> FALSE, good |-> good,
   migrated |-> FALSE]

Legacy == File(1, {1}, 1, TRUE)
Current == File(2, {1}, 2, TRUE)
Broken == File(3, {}, 1, FALSE)
Future == File(4, {1}, 3, TRUE)

AnyFile == {Legacy, Current, Broken, Future}
LegacyFile == {Legacy}
CurrentFile == {Current, File(5, {}, 2, TRUE)}

AnyFlags == {{}, {"legacy", "index", "warm"}}
NoFlags == {{}}

Buffers == 0 .. MaxLoads \cup {Unknown}

(* The order of the entries of a cache that never evicts is irrelevant.    *)
(* No action reads reply, and RepliesAreCurrent looks at reply' only: one  *)
(* state stands for all that differ in what the last call showed.          *)
Untimed(c) ==
  [view |-> [i \in Slot |-> IF c.slot[i] = Free THEN Free
                            ELSE <<c.slot[i].block, c.slot[i].view, c.slot[i].gen = c.gen>>]]
UpToTime ==
  <<file, loads, package,
    IF session = None THEN None
    ELSE <<session.index, session.derived, Untimed(session.cache)>>,
    checkpoint, overdue>>
=============================================================================
