------------------------------- MODULE MCParser -------------------------------
(***************************************************************************)
(* The instance of Parser that TLC checks: whole files and files with one  *)
(* section, or the header, in each of the states the code tells apart.     *)
(***************************************************************************)
EXTENDS Parser, SequencesExt

Section(tag) == [tag |-> tag, offset |-> 1, length |-> 2, crc |-> "good", sound |-> TRUE]
Whole == [i \in 1 .. Len(Order) |-> Section(Order[i])]
With(dir) == [header |-> TRUE, version |-> 2, size |-> 3, dir |-> dir]

(* An unknown tag, a missing section, a CRC that is wrong or absent, a     *)
(* payload that does not decode, and one that lies past the end, whose sum *)
(* shows it (4) or wraps (7).                                              *)
Irregular(e) ==
  {[e EXCEPT !.tag = "JUNK"], [e EXCEPT !.crc = "bad"], [e EXCEPT !.crc = "none"],
   [e EXCEPT !.sound = FALSE], [e EXCEPT !.offset = 4], [e EXCEPT !.offset = 7]}

Tampered ==
  UNION {{[Whole EXCEPT ![i] = e] : e \in Irregular(Whole[i])} : i \in {1, 6, 9, 10}}

(* A second section of a kind, and a bad entry after or amid good ones.    *)
Doubled == {Append(Whole, [Section("SNAM") EXCEPT !.sound = FALSE]),
            Whole \o <<[Section("JUNK") EXCEPT !.offset = 4], Section("SNAM")>>,
            SubSeq(Whole, 1, 6) \o <<[Section("JUNK") EXCEPT !.offset = 4]>> \o SubSeq(Whole, 7, 10)}

MCFiles ==
  {With(dir) : dir \in Tampered \cup Doubled \cup {Whole, Reverse(Whole), << >>}}
    \cup {[With(Whole) EXCEPT !.header = FALSE], [With(Whole) EXCEPT !.version = 3],
          [With(Whole) EXCEPT !.version = 0], [With(Whole) EXCEPT !.version = 1], NoFile}
===============================================================================
