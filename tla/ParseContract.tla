----------------------------- MODULE ParseContract -----------------------------
(***************************************************************************)
(* What parsing a package promises: all of its sections, or an error.  One *)
(* step stands for the whole walk over the sections.                       *)
(***************************************************************************)
EXTENDS SectionDirectory

VARIABLES
  request, \* the directory, the size of the file and whether it is strict
  outcome, \* "none", "running", "done", "failed" or "denied"
  shown    \* for each section the directory entry it was decoded from, or 0

vars == <<request, outcome, shown>>

Hidden == << >> \* tables nobody may look at

Request == [dir : Seq(Entry), size : 0 .. OffsetMod - 1, strict : BOOLEAN]
NoRequest == [dir |-> << >>, size |-> 0, strict |-> FALSE]

Sections == DOMAIN Order
Where(r, s) == FindSection(r.dir, Order[s])

(* A package is acceptable if each section it has lies in the file and can *)
(* be decoded; a strict parse also wants the first nine present and their  *)
(* checksums right.                                                        *)
Readable(r, e) == SectionSlice(e, r.size) /\ e.sound
SectionIsAcceptable(r, s) ==
  LET i == Where(r, s)
  IN  /\ i # 0 => Readable(r, r.dir[i])
      /\ r.strict /\ s # Len(Order) => i # 0 /\ VerifySectionCrc(r.dir[i], r.size)
Acceptable(r) == \A s \in Sections : SectionIsAcceptable(r, s)

Whole(r) == [s \in Sections |-> Where(r, s)]
UpTo(r, k) == [s \in Sections |-> IF s <= k THEN Where(r, s) ELSE 0]

Init == request = NoRequest /\ outcome = "none" /\ shown = Hidden

Start == /\ outcome # "running"
         /\ request' \in Request /\ outcome' = "running" /\ shown' = Hidden

Succeed == /\ outcome = "running" /\ Acceptable(request)
           /\ outcome' = "done" /\ shown' = Whole(request) /\ UNCHANGED request

(* A parse fails only on a package that is not acceptable, or for want of  *)
(* memory; it leaves the sections before the one that failed.              *)
Fail == /\ outcome = "running"
        /\ \/ outcome' = "failed" /\ ~Acceptable(request)
           \/ outcome' = "denied"
        /\ shown' = Hidden \/ \E k \in 0 .. Len(Order) - 1 : shown' = UpTo(request, k)
        /\ request' \in {request, NoRequest}

(* The reader refuses the file: no parse, and the tables are as before.    *)
NoParse == /\ outcome # "running"
           /\ outcome' = "failed" /\ UNCHANGED shown
           /\ request' \in Request

Close == /\ outcome # "running"
         /\ request' = NoRequest /\ outcome' = "none" /\ shown' = Hidden

Next == Start \/ Succeed \/ Fail \/ NoParse \/ Close
Spec == Init /\ [][Next]_vars
=============================================================================
