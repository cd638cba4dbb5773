--------------------------- MODULE ShortNameCheck ---------------------------
(***************************************************************************)
(* The 8.3 name generation of calc_shortname (src/libvdf/file.c) as a pure *)
(* function, checked on every input of a bounded set: the model holds one *)
(* long name and one tail number and never changes them, so an invariant  *)
(* is a statement about all of the inputs.                                *)
(***************************************************************************)
EXTENDS Integers, Sequences, SequencesExt, ShortName

CONSTANTS
    Chars,      \* the characters long names are made of
    MaxLen,     \* the longest long name
    Tails       \* tail numbers calc_shortname may try

LongNames == {s \in BoundedSeq(Chars, MaxLen) : FilenameValid(s)}

VARIABLES nm, ind
vars == <<nm, ind>>

Init == nm \in LongNames /\ ind \in Tails
Next == UNCHANGED vars
Spec == Init /\ [][Next]_vars

\* The decimal digits of n, most significant first: the reference for the
\* "~N" tail.
RECURSIVE Decimal(_)
Decimal(n) == IF n < 10 THEN <<DigitChar(n)>> ELSE Decimal(n \div 10) \o <<DigitChar(n % 10)>>

(* The tail calc_shortname writes for tail number ind reads "~" followed  *)
(* by the decimal digits of ind, for every number its loop tries.         *)
TailIsDecimal == TailOf(ind) = <<"~">> \o Decimal(ind)

(* The 8.3 name calc_shortname derives for a valid long name has a        *)
(* non-empty base of at most 8 characters and at most one dot, followed   *)
(* by at most 3 characters: a name a FAT directory entry can hold.        *)
CandidateIs83 ==
    LET c == Candidate(nm)
        d == FirstDot(c)
    IN  /\ d # 1 /\ Len(c) > 0
        /\ IF d = 0 THEN Len(c) <= 8
           ELSE /\ d - 1 <= 8 /\ Len(c) - d <= 3
                /\ \A i \in d + 1..Len(c) : c[i] # "."

(* The short name calc_shortname produces is a valid 8.3 name, and        *)
(* the numeric tail its loop writes for tail number N reads "~N".         *)
ShortNameWellFormed == CandidateIs83 /\ TailIsDecimal

=============================================================================
