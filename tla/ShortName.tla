------------------------------ MODULE ShortName ------------------------------
(***************************************************************************)
(* The Short-Name Formatter, fat_format_name (lib/fat/namegen.py; the      *)
(* copy in populate/utils.py is the same code), and the DIR_Name field it *)
(* fills: create stores name.encode() through struct "11s", which pads    *)
(* with 0x00 bytes to 11 (or cuts longer byte strings to 11).             *)
(*                                                                         *)
(* A name is a sequence of characters, a character a one-character        *)
(* string.  Names are ASCII, so encode() gives one byte per character; a  *)
(* byte is written as its character, 0x00 as NUL.                         *)
(***************************************************************************)
EXTENDS Integers, Sequences, FiniteSetsExt

NUL   == "@"              \* the character / byte 0x00
SPACE == " "

(* str.upper() on the letters the model uses.                             *)
UpperChar(c) == CASE c = "a" -> "A"
                  [] c = "b" -> "B"
                  [] OTHER   -> c

Upper(s) == [i \in DOMAIN s |-> UpperChar(s[i])]

(* filename.rfind('.') + 1: the position of the last dot, 0 when none.     *)
LastDot(s) == LET D == {i \in DOMAIN s : s[i] = "."} IN IF D = {} THEN 0 ELSE Max(D)

Spaces(k) == [i \in 1 .. k |-> SPACE]
LJust(s, k) == s \o Spaces(k - Len(s))                           \* s.ljust(k)
Prefix(s, k) == SubSeq(s, 1, Min({k, Len(s)}))                  \* s[:k]
Suffix(s, k) == SubSeq(s, Len(s) - Min({k, Len(s)}) + 1, Len(s)) \* s[-k:]

(* Mutant of FatFormatName: a long name keeps its extension's first three  *)
(* characters instead of its last three.                                   *)
FatFormatNameExtHead(f) ==
  LET dot == LastDot(f)
      hasExt == dot # 0 /\ dot < Len(f)
      ext == SubSeq(f, dot + 1, Len(f))
  IN  IF f = <<>> THEN <<NUL>>
      ELSE IF Len(f) > 11
        THEN Upper(Prefix(f, 6) \o <<"~", "1">>
                   \o (IF hasExt THEN LJust(Prefix(ext, 3), 3) ELSE Spaces(3)))
        ELSE Upper(LJust(Prefix(f, IF dot = 0 THEN 8 ELSE Min({dot - 1, 8})), 8)
                   \o LJust(IF hasExt THEN Prefix(ext, 3) ELSE <<>>, 3))

(***************************************************************************)
(* fat_format_name(filename).  The empty name gives '\0'.  Longer than    *)
(* 11: the first 8 characters with '~1' over the last two, and the last 3 *)
(* characters after the last dot (when one follows it).  Otherwise the    *)
(* first loop copies the characters before the last dot, at most 8, the   *)
(* second at most 3 after it.  Then ''.join(out).upper().                 *)
(***************************************************************************)
FatFormatName(f) ==
  LET dot    == LastDot(f)
      hasExt == dot # 0 /\ dot < Len(f)          \* dot != -1 and dot + 1 < len
      ext    == SubSeq(f, dot + 1, Len(f))       \* filename[dot + 1:]
  IN
  IF f = <<>> THEN <<NUL>>
  ELSE IF Len(f) > 11
    THEN Upper(Prefix(f, 6) \o <<"~", "1">>
               \o (IF hasExt THEN LJust(Suffix(ext, 3), 3) ELSE Spaces(3)))
    ELSE Upper(LJust(Prefix(f, IF dot = 0 THEN 8 ELSE Min({dot - 1, 8})), 8)
               \o LJust(IF hasExt THEN Prefix(ext, 3) ELSE <<>>, 3))

(* struct.pack("11s", name.encode()): the DIR_Name bytes create writes.    *)
Field11(b) == [i \in 1 .. 11 |-> IF i <= Len(b) THEN b[i] ELSE NUL]

(* A DIR_Name as one string, its bytes in order (records hold it so).      *)
RECURSIVE Join(_)
Join(b) == IF b = <<>> THEN "" ELSE Head(b) \o Join(Tail(b))

-----------------------------------------------------------------------------
(***************************************************************************)
(* The formatter's rules as the specification states them (4.2), written  *)
(* position by position: the reference FatFormatName is checked against.  *)
(***************************************************************************)
SpecCapital(c) == IF c \in {"a", "b"} THEN IF c = "a" THEN "A" ELSE "B" ELSE c

SpecShortName(f) ==
  LET n    == Len(f)
      dot  == LastDot(f)
      base == IF dot = 0 THEN n ELSE dot - 1     \* characters before the last dot
      e    == IF dot # 0 /\ dot < n THEN n - dot ELSE 0   \* extension length
      m    == Min({e, 3})
      short(i) == IF i <= 8 THEN IF i <= base THEN f[i] ELSE SPACE
                  ELSE IF i - 8 <= e THEN f[dot + i - 8] ELSE SPACE
      long(i)  == CASE i <= 6 -> f[i]
                    [] i = 7  -> "~"
                    [] i = 8  -> "1"
                    [] OTHER  -> IF i - 8 <= m THEN f[n - m + i - 8] ELSE SPACE
  IN IF n = 0 THEN <<NUL>>
     ELSE [i \in 1 .. 11 |-> SpecCapital(IF n <= 11 THEN short(i) ELSE long(i))]

(* Every name up to 13 characters over a letter and at most two dots      *)
(* (only the last dot and the one before it decide the cuts), the shorter *)
(* ones over two letters of either case and the dot, and names of every   *)
(* length with one dot and an extension of up to 4 mixed letters.         *)
FormatInputs ==
  LET upTo(k, A) == UNION {[1 .. j -> A] : j \in 0 .. k}
      dots(f)    == Cardinality({i \in DOMAIN f : f[i] = "."})
  IN  {f \in upTo(13, {"a", "."}) : dots(f) <= 2} \cup upTo(5, {"a", "B", "."})
        \cup {[i \in 1 .. k |-> "a"] \o <<".">> \o g :
                 k \in 0 .. 11, g \in upTo(4, {"a", "b"}) \ {<<>>}}

(* fat_format_name agrees with the rules on every input of FormatInputs   *)
(* (a constant, evaluated once).                                           *)
FormatRulesHold == \A f \in FormatInputs : FatFormatName(f) = SpecShortName(f)

=============================================================================
