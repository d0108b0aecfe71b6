-------------------------------- MODULE Parser --------------------------------
(***************************************************************************)
(* The parser of src/internal/rv_parser.c, one action per turn of the loop *)
(* of rv_parser_run, driven by the calls that open, reopen and reset a     *)
(* package (src/rayvault.c).  PackageSession says what the rest of the     *)
(* library sees of it; here is what happens on the way.                    *)
(*                                                                         *)
(* The file is the environment, and so is the arena, which may refuse any  *)
(* decoder.  Decoded tables are named by the directory entry they come     *)
(* from; has_summ is whether SUMM has one.  Diagnostics and the phase, which *)
(* is written and never read, are left out.  RV_OPEN_SKIP_SUMM has no      *)
(* effect: the test that reads it is never made for SUMM.                  *)
(***************************************************************************)
EXTENDS SectionDirectory

CONSTANTS Files \* what may be found at the path

ASSUME FilesAssumption == Files \subseteq File \cup {NoFile}

Sections == DOMAIN Order
LastStep == Len(Order) + 2

VARIABLES
  call,   \* the API call that is running the parser, or "none"
  status, \* what the last call returned
  reader, \* rv_reader: directory and size of the buffer
  strict, \* RV_OPEN_STRICT
  opened, \* a package exists
  parser  \* rv_parser: step_index, tables, sections_seen

vars == <<call, status, reader, strict, opened, parser>>

EmptyReader == [dir |-> << >>, size |-> 0]

FreshParser ==
  [step_index |-> 0, table |-> [s \in Sections |-> 0], sections_seen |-> 0]

Init ==
  /\ call = "none" /\ status = "none" /\ reader = EmptyReader /\ strict = FALSE
  /\ opened = FALSE /\ parser = FreshParser

\* mutant: the counters of the last parse are kept
RestartKeepingCount(p) ==
  [FreshParser EXCEPT !.sections_seen = p.sections_seen]

(* rv_parser_reset and rv_parser_init, before every run.                   *)
Restart(p) == FreshParser

-----------------------------------------------------------------------------
(***************************************************************************)
(* The calls that lead to a parse.                                         *)
(***************************************************************************)

RunParser(name) ==
  /\ call' = name /\ status' = "running"
  /\ parser' = Restart(parser)

(* rv_package_open_file and rv_package_open_memory.                        *)
rv_package_open(f, flag) ==
  /\ call = "none" /\ ~opened
  /\ IF LoadSucceeds(f)
     THEN reader' = LoadDirectory(f) /\ strict' = flag /\ RunParser("open")
     ELSE status' = "failed" /\ UNCHANGED <<call, reader, strict, parser>>
  /\ UNCHANGED opened

(* A reload that fails leaves the reader with what it had read, and the    *)
(* package open with the tables of the last parse.                         *)
rv_package_reopen(f) ==
  /\ call = "none" /\ opened
  /\ reader' = LoadDirectory(f)
  /\ IF LoadSucceeds(f)
     THEN RunParser("reopen")
     ELSE status' = "failed" /\ UNCHANGED <<call, parser>>
  /\ UNCHANGED <<strict, opened>>

rv_package_reset ==
  /\ call = "none" /\ opened
  /\ RunParser("reset")
  /\ UNCHANGED <<reader, strict, opened>>

rv_package_close ==
  /\ call = "none" /\ opened
  /\ opened' = FALSE /\ reader' = EmptyReader /\ parser' = FreshParser
  /\ strict' = FALSE /\ status' = "none"
  /\ UNCHANGED call

-----------------------------------------------------------------------------
(***************************************************************************)
(* The turns of the loop.                                                  *)
(***************************************************************************)

(* The run returns -1: a package that is being opened is freed, another    *)
(* one keeps the sections decoded so far.                                  *)
FailRun(why) ==
  /\ call' = "none" /\ status' = why
  /\ IF call = "open"
     THEN reader' = EmptyReader /\ parser' = FreshParser /\ strict' = FALSE
     ELSE UNCHANGED <<reader, parser, strict>>
  /\ UNCHANGED opened

Advance(p) ==
  /\ parser' = [p EXCEPT !.step_index = @ + 1]
  /\ UNCHANGED <<call, status, reader, strict, opened>>

At(steps) == call # "none" /\ parser.step_index \in steps

(* Steps 0 and 1 look at the header only.                                  *)
HeaderStep == At({0, 1}) /\ Advance(parser)

\* mutant: a strict parse tolerates a wrong checksum too
ChecksumIsAlwaysTolerated(e) == TRUE

ChecksumIsTolerated(e) == ~strict \/ VerifySectionCrc(e, reader.size)

\* mutant: the step is not counted, so the loop makes it again
PassOverAgain(p) == UNCHANGED vars

PassOver(p) == Advance(p)

Decode(s, i) ==
  Advance([parser EXCEPT !.table[s] = i, !.sections_seen = @ + 1])

(* rv_parser_one_section, and rv_parser_decode_summ, which tolerates a     *)
(* missing SUMM, never looks at its checksum and needs no memory.          *)
SectionStep(s) ==
  /\ At({s + 1})
  /\ LET i    == FindSection(reader.dir, Order[s])
         e    == reader.dir[i]
         summ == Order[s] = "SUMM"
     IN  \/ i = 0 /\ (~strict \/ summ) /\ PassOver(parser)
         \/ i = 0 /\ strict /\ ~summ /\ FailRun("failed")
         \/ /\ i # 0
            /\ ~summ => ChecksumIsTolerated(e)
            /\ SectionSlice(e, reader.size) /\ e.sound
            /\ Decode(s, i) \/ (~summ /\ FailRun("denied"))
         \/ /\ i # 0
            /\ \/ ~summ /\ ~ChecksumIsTolerated(e)
               \/ ~SectionSlice(e, reader.size) \/ ~e.sound
            /\ FailRun("failed")

(* The run returns 0, and finish_open has its package.                     *)
DoneStep ==
  /\ At({LastStep})
  /\ call' = "none" /\ status' = "done" /\ opened' = TRUE
  /\ UNCHANGED <<reader, strict, parser>>

rv_parser_step == HeaderStep \/ DoneStep \/ \E s \in Sections : SectionStep(s)

Calls ==
  \/ \E f \in Files :
       rv_package_reopen(f) \/ \E flag \in BOOLEAN : rv_package_open(f, flag)
  \/ rv_package_reset \/ rv_package_close

Next == Calls \/ rv_parser_step

(* The loop of rv_parser_run goes on; clients need not call.               *)
Spec == Init /\ [][Next]_vars /\ WF_vars(rv_parser_step)

-----------------------------------------------------------------------------
(* step_index never passes the last step, and sections_seen, counted anew  *)
(* in each parse, never exceeds the number of sections.                    *)
TypeOK ==
  /\ call \in {"none", "open", "reopen", "reset"} /\ opened \in BOOLEAN /\ strict \in BOOLEAN
  /\ status \in {"none", "running", "done", "failed", "denied"}
  /\ reader \in [dir : Seq(Entry), size : 0 .. OffsetMod - 1]
  /\ parser \in [step_index : 0 .. LastStep, table : [Sections -> Nat],
                 sections_seen : 0 .. Len(Order)]

(* Whatever offset and length a directory claims, a decoder is given bytes *)
(* of the file only: the wrapped sum that passes the directory's test does *)
(* not pass the one made when the section is read.  (After a failed reload *)
(* the tables are those of the last parse, and the reader's are not.)      *)
SectionsInsideFile ==
  call # "none" \/ status = "done" =>
    \A s \in Sections : parser.table[s] # 0 =>
      LET e == reader.dir[parser.table[s]] IN e.offset + e.length <= reader.size

(* Each run of the parser, however it was started and whatever failed      *)
(* before, gives all the sections of the reader's directory or an error.   *)
Reading == [dir |-> reader.dir, size |-> reader.size, strict |-> strict]
Visible == IF opened /\ call = "none" THEN parser.table ELSE << >>
Contract == INSTANCE ParseContract WITH
  request <- Reading, outcome <- status, shown <- Visible
KeepsContract == Contract!Spec

(* The loop ends: every step moves on or stops.                            *)
ParseEnds == call # "none" ~> call = "none"
=============================================================================
