--------------------------- MODULE SectionDirectory ---------------------------
(***************************************************************************)
(* The binary reader, src/internal/rv_reader.c, and what it says about the *)
(* section directory of a package.  A file is its size, whether its header *)
(* is sound, its version, and its directory; a section is its tag, where   *)
(* it lies, whether its CRC matches and whether its decoder accepts it.    *)
(*                                                                         *)
(* Offsets are 64 bit in the file and in the code, and their sums wrap.    *)
(* A definition marked "mutant" is a plausible bug in the definition after *)
(* it; no specification uses it.                                           *)
(***************************************************************************)
EXTENDS Naturals, Sequences, FiniteSetsExt

CONSTANTS
  OffsetMod, \* 2^64 in the code
  NoFile     \* a path that cannot be read, or a file shorter than a header

ASSUME OffsetAssumption == OffsetMod \in Nat \ {0}

(* In the order of the parser's steps 2 to 11.                             *)
Order == <<"SNAM", "ROUT", "INST", "CLBR", "WIND", "WAVE", "MARK", "LINK", "NOTE", "SUMM">>

Entry == [tag : STRING, offset : 0 .. OffsetMod - 1, length : 0 .. OffsetMod - 1,
          crc : {"none", "good", "bad"}, sound : BOOLEAN]

File == [header : BOOLEAN, version : Nat, size : 0 .. OffsetMod - 1, dir : Seq(Entry)]

ASSUME NoFileAssumption == NoFile \notin File

-----------------------------------------------------------------------------
(* The test of the directory, whose sum wraps, ...                         *)
InRange(e, size) == (e.offset + e.length) % OffsetMod <= size

\* mutant: the wrapped sum again
SliceByTheSum(e, size) == InRange(e, size)

(* ... and the test made again when a section is read.                     *)
SectionSlice(e, size) == e.offset <= size /\ e.length <= size - e.offset

VerifySectionCrc(e, size) ==
  e.crc = "none" \/ (SectionSlice(e, size) /\ e.crc = "good")

HeaderIsSupported(f) == f.header /\ f.version \in 1 .. 2

OutOfRange(f) == {i \in DOMAIN f.dir : ~InRange(f.dir[i], f.size)}

LoadSucceeds(f) == f # NoFile /\ HeaderIsSupported(f) /\ OutOfRange(f) = {}

(* What a load leaves in the reader, whether it succeeds or not: a bad     *)
(* entry is stored before it is tested, and those behind it stay zero.     *)
LoadDirectory(f) ==
  IF f = NoFile THEN [dir |-> << >>, size |-> 0]
  ELSE IF ~HeaderIsSupported(f) THEN [dir |-> << >>, size |-> f.size]
  ELSE [dir  |-> IF OutOfRange(f) = {} THEN f.dir
                 ELSE SubSeq(f.dir, 1, Min(OutOfRange(f))),
        size |-> f.size]

WithTag(dir, tag) == {i \in DOMAIN dir : dir[i].tag = tag}

(* The first entry with the tag, or 0.                                     *)
FindSection(dir, tag) == IF WithTag(dir, tag) = {} THEN 0 ELSE Min(WithTag(dir, tag))
=============================================================================
