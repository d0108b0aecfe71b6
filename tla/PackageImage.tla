---------------------------- MODULE PackageImage ----------------------------
(***************************************************************************)
(* The bytes of a package: how rv_export_build lays tables out in an image *)
(* (src/internal/rv_export.c), and what the section decoders of            *)
(* src/internal/rv_section.c take out of one.  An image is a File of       *)
(* SectionDirectory whose directory entries also hold what lies at their   *)
(* offset: whether the record magic is right, the count field, and the     *)
(* records, as many as the bytes hold.                                     *)
(*                                                                         *)
(* The sizes of headers and records are those of the format; the limits on *)
(* the number of records are parameters.                                   *)
(*                                                                         *)
(* A definition marked "mutant" is a plausible bug in the definition after *)
(* it; no specification uses it.                                           *)
(***************************************************************************)
EXTENDS SectionDirectory, PackageTables

CONSTANTS
  MaxRows,    \* for each tag the largest count its decoder accepts
  MaxSamples, \* the largest number of samples of a wave
  Beyond      \* what is read behind the end of a section

ASSUME RowLimitAssumption == MaxRows \in [{Order[i] : i \in DOMAIN Order} -> Nat]
ASSUME SampleLimitAssumption == MaxSamples \in Nat
ASSUME BeyondAssumption == \A table \in RowTables : Beyond \notin RowOf[table]

FileHeaderSize == 64
DirEntrySize == 24

(* Magic and count, in front of the records; a SUMM is one record.         *)
SectionHead == 8
SummSize == 40

(* A name is followed by a byte of padding if its length is odd.           *)
NameSize(row) == 6 + NameLength[row.str] + (NameLength[row.str] % 2)
WaveSize(row) == 24 + 2 * row.samples

RecordSize(tag, row) ==
  CASE tag = "SNAM" -> NameSize(row)
    [] tag = "WAVE" -> WaveSize(row)
    [] tag \in {"ROUT", "INST", "LINK"} -> 24
    [] tag \in {"CLBR", "MARK"} -> 32
    [] tag = "WIND" -> 40
    [] tag = "NOTE" -> 20

SizeOf(tag, rows) == FoldLeft(LAMBDA n, row : n + RecordSize(tag, row), 0, rows)

-----------------------------------------------------------------------------
(***************************************************************************)
(* Writing.                                                                *)
(***************************************************************************)

(* The body of one section.                                                *)
Body(tag, rows) ==
  [tag |-> tag, length |-> SectionHead + SizeOf(tag, rows), crc |-> "good",
   magic |-> TRUE, count |-> Len(rows), rows |-> rows]

SummBody(counts) ==
  [tag |-> "SUMM", length |-> SummSize, crc |-> "good",
   magic |-> TRUE, count |-> 1, rows |-> <<counts>>]

(* A directory entry: the bodies follow each other behind the directory,   *)
(* and each offset is the sum of what lies before it.                      *)
PayloadOffset(bodies, k) ==
  FoldLeft(LAMBDA n, b : n + b.length, FileHeaderSize + DirEntrySize * Len(bodies),
           SubSeq(bodies, 1, k - 1))

Placed(body, offset) ==
  [tag |-> body.tag, offset |-> offset, length |-> body.length, crc |-> body.crc,
   magic |-> body.magic, count |-> body.count, rows |-> body.rows]

(* The header, the directory, and the total size.                          *)
Image(bodies, version) ==
  LET end == PayloadOffset(bodies, Len(bodies) + 1)
  IN  [header |-> TRUE, version |-> version, size |-> end, total |-> end,
       sections |-> Len(bodies),
       dir |-> [k \in DOMAIN bodies |-> Placed(bodies[k], PayloadOffset(bodies, k))]]

(* rv_export_snam to rv_export_wind.                                       *)
ExportedRecords(t) ==
  <<Body("SNAM", t.names), Body("ROUT", t.routes), Body("INST", t.insts),
    Body("CLBR", t.calibs), Body("WIND", t.windows)>>

(* rv_export_wave writes an empty section when waves are not included.     *)
ExportedWaves(t, include) == <<Body("WAVE", IF include THEN t.waves ELSE << >>)>>

(* rv_export_mark and rv_export_link.                                      *)
ExportedMarks(t) == <<Body("MARK", t.marks), Body("LINK", t.links)>>

(* rv_export_summ_from_derived: counts are all it takes from the snapshot, *)
(* and the flags of the old record are not written.                        *)
ExportedSumm(counts) == <<SummBody([counts EXCEPT !.repaired = FALSE])>>

(* rv_export_build.  Whatever the flags say there is a SUMM section, and   *)
(* never a NOTE section; RV_EXPORT_COMPACT without RV_EXPORT_INCLUDE_WAVE  *)
(* leaves the waves out.                                                   *)
Export(t, counts, include) ==
  Image(ExportedRecords(t) \o ExportedWaves(t, include) \o ExportedMarks(t)
          \o ExportedSumm(counts), 2)

-----------------------------------------------------------------------------
(***************************************************************************)
(* Reading.  A decoder returns the rows, or Refused.                       *)
(***************************************************************************)
Refused == << FALSE >>
Decoded(rows) == << TRUE, rows >>

(* The first n records, and what lies behind them.                         *)
Records(e, n) == [i \in 1 .. n |-> IF i <= Len(e.rows) THEN e.rows[i] ELSE Beyond]

HeadIsSound(e) == e.length >= SectionHead /\ e.magic /\ e.count <= MaxRows[e.tag]

\* mutant: the records are not measured
DecodeUnmeasured(e, size) == IF HeadIsSound(e) THEN Decoded(Records(e, e.count)) ELSE Refused

(* A decoder of records of one size.                                       *)
DecodeFixed(e, size) ==
  IF HeadIsSound(e) /\ e.length >= SectionHead + e.count * size
  THEN Decoded(Records(e, e.count))
  ELSE Refused

rv_decode_rout(e) == DecodeFixed(e, 24)
rv_decode_inst(e) == DecodeFixed(e, 24)
rv_decode_clbr(e) == DecodeFixed(e, 32)
rv_decode_wind(e) == DecodeFixed(e, 40)
rv_decode_mark(e) == DecodeFixed(e, 32)
rv_decode_link(e) == DecodeFixed(e, 24)
rv_decode_note(e) == DecodeFixed(e, 20)

(* The id, the length field, the characters, and the padding.              *)
NameFits(rem, row) ==
  LET used == 2 + NameLength[row.str]
  IN  /\ rem >= 4 /\ rem - 4 >= 2 /\ used <= rem - 4
      /\ used % 2 = 1 => rem - 4 - used > 0

(* A record, at most MaxSamples, and its samples; a sample has two bytes,  *)
(* so there is never padding.                                              *)
WaveFits(rem, row) == rem >= 24 /\ row.samples <= MaxSamples /\ 2 * row.samples <= rem - 24

(* A walk over records that are as long as they say: it goes on while the  *)
(* next record fits in the bytes that remain, and fails if it must stop    *)
(* before the last one.  Behind the records there are too few bytes for    *)
(* another.                                                                *)
RecordFits(tag, rem, row) == IF tag = "SNAM" THEN NameFits(rem, row) ELSE WaveFits(rem, row)

Walk(e) ==
  FoldLeft(LAMBDA rem, row :
             IF rem >= 0 /\ RecordFits(e.tag, rem, row) THEN rem - RecordSize(e.tag, row) ELSE -1,
           e.length - SectionHead,
           SubSeq(e.rows, 1, IF e.count < Len(e.rows) THEN e.count ELSE Len(e.rows)))

WalkEnds(e) == e.count <= Len(e.rows) /\ Walk(e) >= 0

rv_decode_snam(e) == IF HeadIsSound(e) /\ WalkEnds(e) THEN Decoded(Records(e, e.count)) ELSE Refused
rv_decode_wave(e) == IF HeadIsSound(e) /\ WalkEnds(e) THEN Decoded(Records(e, e.count)) ELSE Refused

rv_decode_summ(e) ==
  IF e.length >= SummSize /\ e.magic THEN Decoded(e.rows) ELSE Refused

Decode(e) ==
  CASE e.tag = "SNAM" -> rv_decode_snam(e)
    [] e.tag = "ROUT" -> rv_decode_rout(e)
    [] e.tag = "INST" -> rv_decode_inst(e)
    [] e.tag = "CLBR" -> rv_decode_clbr(e)
    [] e.tag = "WIND" -> rv_decode_wind(e)
    [] e.tag = "WAVE" -> rv_decode_wave(e)
    [] e.tag = "MARK" -> rv_decode_mark(e)
    [] e.tag = "LINK" -> rv_decode_link(e)
    [] e.tag = "NOTE" -> rv_decode_note(e)
    [] e.tag = "SUMM" -> rv_decode_summ(e)

(* What rv_package_finish_open makes of an image: one decoder per section  *)
(* that is there, then normalisation.  (Steps, failures half way and       *)
(* strict mode are in Parser.)                                             *)
SectionDecodes(f, tag) ==
  LET k == FindSection(f.dir, tag)
  IN  k # 0 => SectionSlice(f.dir[k], f.size) /\ Decode(f.dir[k]) # Refused

Opens(f) == LoadSucceeds(f) /\ \A i \in DOMAIN Order : SectionDecodes(f, Order[i])

RowsIn(f, tag) ==
  LET k == FindSection(f.dir, tag) IN IF k = 0 THEN << >> ELSE Decode(f.dir[k])[2]

FinishOpen(f) ==
  Normalize([names |-> RowsIn(f, "SNAM"), routes |-> RowsIn(f, "ROUT"),
             insts |-> RowsIn(f, "INST"), calibs |-> RowsIn(f, "CLBR"),
             windows |-> RowsIn(f, "WIND"), waves |-> RowsIn(f, "WAVE"),
             marks |-> RowsIn(f, "MARK"), links |-> RowsIn(f, "LINK"),
             notes |-> RowsIn(f, "NOTE"),
             summ |-> IF FindSection(f.dir, "SUMM") = 0 THEN NoSumm ELSE RowsIn(f, "SUMM")[1]])
=============================================================================
