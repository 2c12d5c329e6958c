----------------------------- MODULE EgovNumbers -----------------------------
(***************************************************************************)
(* How the e-Gov adapter reads a number and its branches in a Num attribute*)
(* or in a title, and how statutes write them.                             *)
(*                                                                         *)
(* Characters have names: the decimal digits of any script are "0" to "9", *)
(* "circled" is a digit that is no decimal, kanji are romanized, "jou"     *)
(* stands for each of the eight words that may follow a number, "space" for*)
(* white space of any sort, "_" for the separators besides "no".           *)
(***************************************************************************)
EXTENDS Integers, SequencesExt

CONSTANT None  \* no number

Decimals == [c \in {"0", "1", "2", "3", "4", "5", "6", "7", "8", "9"} |->
                CHOOSE n \in 0..9 : ToString(n) = c]
KanjiDigits == [rei |-> 0, ichi |-> 1, ni |-> 2, san |-> 3, shi |-> 4, go |-> 5,
                roku |-> 6, shichi |-> 7, hachi |-> 8, kyuu |-> 9]
KanjiUnits == [juu |-> 10, hyaku |-> 100, sen |-> 1000]
Numerals == DOMAIN KanjiDigits \cup DOMAIN KanjiUnits
Separators == {"_", "no"}
Characters == DOMAIN Decimals \cup Numerals \cup Separators
              \cup {"circled", "dai", "jou", "space", "other"}

DecimalValue(s) == FoldLeft(LAMBDA n, c : 10 * n + Decimals[c], 0, s)

(* Mutant: a unit without a digit before it counts nothing.                *)
NumberPartStrict(s) ==
    LET read == FoldLeft(
            LAMBDA r, c : IF c \in DOMAIN KanjiDigits
                          THEN [r EXCEPT !.digit = KanjiDigits[c]]
                          ELSE [part |-> r.part + r.digit * KanjiUnits[c], digit |-> 0],
            [part |-> 0, digit |-> 0], s)
    IN  read.part + read.digit

(* _number_part of kanji: of digits that follow each other the last counts.*)
NumberPart(s) ==
    LET read == FoldLeft(
            LAMBDA r, c :
                IF c \in DOMAIN KanjiDigits THEN [r EXCEPT !.digit = KanjiDigits[c]]
                ELSE [part |-> r.part + Max({r.digit, 1}) * KanjiUnits[c], digit |-> 0],
            [part |-> 0, digit |-> 0], s)
    IN  read.part + read.digit

(* _NUMERIC_BRANCH                                                         *)
NumericBranch(s) ==
    /\ s # <<>> /\ s[1] \in DOMAIN Decimals /\ s[Len(s)] \in DOMAIN Decimals
    /\ \E i \in DOMAIN s : s[i] \in Separators
    /\ \A i \in DOMAIN s :
          \/ s[i] \in DOMAIN Decimals
          \/ s[i] \in Separators /\ s[i + 1] \in DOMAIN Decimals

SplitNumbers(s) ==
    LET cuts == SetToSortSeq({0, Len(s) + 1} \cup {i \in DOMAIN s : s[i] \in Separators},
                             LAMBDA i, j : i < j)
    IN  [k \in 1..(Len(cuts) - 1) |->
            DecimalValue(SubSeq(s, cuts[k] + 1, cuts[k + 1] - 1))]

(* The numerals that begin at place i                                      *)
NumeralsFrom(s, i) ==
    LET ends == {j \in i..Len(s) : s[j] \notin Numerals}
    IN  SubSeq(s, i, IF ends = {} THEN Len(s) ELSE Min(ends) - 1)

(* _JAPANESE_BRANCH.search: the first numerals, a word, "no" and numerals; *)
(* a second branch is not looked for.                                      *)
JapaneseBranch(s) ==
    LET start == Min({i \in DOMAIN s : s[i] \in Numerals})
        first == NumeralsFrom(s, start)
        after == start + Len(first)
        no    == IF after <= Len(s) /\ s[after] = "jou" THEN after + 1 ELSE after
        second == IF no < Len(s) /\ s[no] = "no" THEN NumeralsFrom(s, no + 1) ELSE <<>>
    IN  <<NumberPart(first), IF second = <<>> THEN <<>> ELSE <<NumberPart(second)>> >>

(* int() raises an exception, which ends the adapter as a number does that *)
(* is not positive.                                                        *)
Unreadable == <<-1, <<>>>>

(* _ordinal_branch                                                         *)
OrdinalBranch(value) ==
    LET compact == SelectSeq(value, LAMBDA c : c # "space")
        chars == ToSet(compact)
    IN  IF compact = <<>> THEN None
        ELSE IF NumericBranch(compact)
             THEN <<Head(SplitNumbers(compact)), Tail(SplitNumbers(compact))>>
        ELSE IF chars \subseteq DOMAIN Decimals THEN <<DecimalValue(compact), <<>>>>
        ELSE IF chars \subseteq DOMAIN Decimals \cup {"circled"} THEN Unreadable
        ELSE IF chars \cap Numerals # {} THEN JapaneseBranch(compact)
        ELSE None

----------------------------------------------------------------------------
(* How numbers are written                                                 *)
KanjiDigit(n) == CHOOSE c \in DOMAIN KanjiDigits : KanjiDigits[c] = n
Digit(n, unit) ==
    LET digit == (n \div KanjiUnits[unit]) % 10
    IN  IF digit = 0 THEN <<>>
        ELSE IF digit = 1 THEN <<unit>> ELSE <<KanjiDigit(digit), unit>>
InKanji(n) == Digit(n, "sen") \o Digit(n, "hyaku") \o Digit(n, "juu")
              \o (IF n % 10 = 0 THEN <<>> ELSE <<KanjiDigit(n % 10)>>)
InDecimals(n) ==
    LET digits[k \in Nat] == IF k < 10 THEN <<ToString(k)>>
                             ELSE digits[k \div 10] \o <<ToString(k % 10)>>
    IN  digits[n]

(* In a title: dai ... jou no ...; in an attribute: 1_2_3                  *)
Title(n, branch) ==
    <<"dai">> \o InKanji(n) \o <<"jou">>
    \o FlattenSeq([k \in DOMAIN branch |-> <<"no">> \o InKanji(branch[k])])
Attribute(n, branch) ==
    InDecimals(n) \o FlattenSeq([k \in DOMAIN branch |-> <<"_">> \o InDecimals(branch[k])])
=============================================================================
