----------------------------- MODULE ShortName -----------------------------
(***************************************************************************)
(* The name handling of src/libvdf/file.c: filename_valid, stuff_dosname,  *)
(* the 8.3 candidate and the "~N" numeric tail of calc_shortname, the     *)
(* case-insensitive comparison of find_file_skip and the length checks of *)
(* vdf_set_file_shortname.                                                 *)
(*                                                                         *)
(* A name is a sequence of one-character strings, so <<"a", "+">> stands   *)
(* for the C string "a+".  Only the characters the models use are given   *)
(* an upper-case form; every other character is its own upper case, as    *)
(* toupper() leaves digits and punctuation alone.                         *)
(***************************************************************************)
EXTENDS Integers, Sequences, SequencesExt

LowerToUpper ==
    [c \in {"a", "b", "c", "d", "e", "f", "g", "h", "i", "j", "k", "m", "r", "t", "x"} |->
        CASE c = "a" -> "A" [] c = "b" -> "B" [] c = "c" -> "C" [] c = "d" -> "D"
          [] c = "e" -> "E" [] c = "f" -> "F" [] c = "g" -> "G" [] c = "h" -> "H"
          [] c = "i" -> "I" [] c = "j" -> "J" [] c = "k" -> "K" [] c = "m" -> "M"
          [] c = "r" -> "R" [] c = "t" -> "T" [] c = "x" -> "X"]

\* toupper(c)
ToUpper(c) == IF c \in DOMAIN LowerToUpper THEN LowerToUpper[c] ELSE c

UpperSeq(s) == [i \in DOMAIN s |-> ToUpper(s[i])]

\* strcasecmp(a, b) == 0
CaseEq(a, b) == UpperSeq(a) = UpperSeq(b)

\* filename_valid: non-empty and none of / \ : ? * " < > |
FilenameValid(nm) ==
    /\ Len(nm) > 0
    /\ \A i \in 1..Len(nm) : nm[i] \notin {"/", "\\", ":", "?", "*", "\"", "<", ">", "|"}

\* stuff_dosname applied to each character in turn: a space writes nothing,
\* the characters + , ; = [ ] " / . become '_', the rest are upper-cased.
StuffDos(s) ==
    FoldLeft(LAMBDA acc, c :
                IF c = " " THEN acc
                ELSE Append(acc, IF c \in {"+", ",", ";", "=", "[", "]", "\"", "/", "."}
                                 THEN "_" ELSE ToUpper(c)),
             <<>>, s)

LOCAL Lesser(a, b) == IF a < b THEN a ELSE b

\* sp = strrchr(name, '.'): the index of the last dot, 0 when there is none
LastDot(nm) == SelectLastInSeq(nm, LAMBDA c : c = ".")

\* The stuffed base: the first 8 characters before the last dot.
DosBase(nm) ==
    LET sp  == LastDot(nm)
        src == IF sp = 0 THEN nm ELSE SubSeq(nm, 1, sp - 1)
    IN  StuffDos(SubSeq(src, 1, Lesser(8, Len(src))))

\* The stuffed extension: the first 3 characters after the last dot.
DosExt(nm) ==
    LET sp == LastDot(nm)
    IN  StuffDos(SubSeq(nm, sp + 1, Lesser(sp + 3, Len(nm))))

\* The short name calc_shortname builds before it looks for a tail; a name
\* with a dot keeps the dot even when its extension is empty.
Candidate(nm) ==
    IF LastDot(nm) = 0 THEN DosBase(nm)
    ELSE DosBase(nm) \o <<".">> \o DosExt(nm)

\* The name is used verbatim, and is not a long name, when the candidate
\* equals it exactly (strcmp, so case matters).
IsVerbatim(nm) == Candidate(nm) = nm

\* A tail is needed only when dp - shortname >= 7, that is when the stuffed
\* base has all 8 characters.
NeedsTail(nm) == ~IsVerbatim(nm) /\ Len(DosBase(nm)) >= 8

DigitChar(n) == CASE n = 0 -> "0" [] n = 1 -> "1" [] n = 2 -> "2" [] n = 3 -> "3"
                  [] n = 4 -> "4" [] n = 5 -> "5" [] n = 6 -> "6" [] n = 7 -> "7"
                  [] n = 8 -> "8" [] n = 9 -> "9"

\* The digits calc_shortname writes right to left from dp for tail number
\* ind, in the order written; the test "ind >= 10000" appears twice in the
\* code, so the ten-thousands digit is written twice.
TailDigitsWritten(ind) ==
    <<ind % 10>>
    \o (IF ind >= 10     THEN <<(ind \div 10) % 10>>     ELSE <<>>)
    \o (IF ind >= 100    THEN <<(ind \div 100) % 10>>    ELSE <<>>)
    \o (IF ind >= 1000   THEN <<(ind \div 1000) % 10>>   ELSE <<>>)
    \o (IF ind >= 10000  THEN <<(ind \div 10000) % 10>>  ELSE <<>>)
    \o (IF ind >= 10000  THEN <<(ind \div 10000) % 10>>  ELSE <<>>)
    \o (IF ind >= 100000 THEN <<(ind \div 100000) % 10>> ELSE <<>>)

\* "~" followed by the written digits read left to right
TailOf(ind) == <<"~">> \o [i \in 1..Len(TailDigitsWritten(ind)) |->
                              DigitChar(Reverse(TailDigitsWritten(ind))[i])]

\* The short name with tail number ind: the tail overwrites the end of the
\* 8-character base, the extension (if any) is kept.
TailedName(nm, ind) ==
    LET b == DosBase(nm)
        t == TailOf(ind)
        base == SubSeq(b, 1, Len(b) - Len(t)) \o t
    IN  IF LastDot(nm) = 0 THEN base ELSE base \o <<".">> \o DosExt(nm)

\* vdf_set_file_shortname's checks on a user-supplied short name; the dot
\* it looks at is the first one (strchr).
FirstDot(s) == SelectInSeq(s, LAMBDA c : c = ".")

ShortNameValid(s) ==
    /\ FilenameValid(s)
    /\ IF FirstDot(s) = 0 THEN Len(s) <= 8
       ELSE /\ FirstDot(s) - 1 <= 8
            /\ FirstDot(s) < Len(s)
            /\ Len(s) - FirstDot(s) <= 3

=============================================================================
