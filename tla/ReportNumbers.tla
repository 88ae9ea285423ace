---------------------------- MODULE ReportNumbers ---------------------------
(***************************************************************************)
(* The numbers reporting/validation.py finds in a text, so that a rewritten*)
(* line of a CV may repeat a number in another notation than the evidence, *)
(* and may not bring a new one.  Fractions and dates are left out.         *)
(***************************************************************************)
EXTENDS Naturals, Sequences, SequencesExt

(* A numeral is a digit string or a sequence of Chinese numeral characters,*)
(* each given by its value: 0..9, the small units, wan and yi.             *)
SmallUnits == {10, 100, 1000}
Wan == 10000
Yi == 100000000

(* _cn_integer: section by section, a section ends at wan or yi.           *)
ReadChar(acc, char) ==
  CASE char < 10 -> [acc EXCEPT !.number = char]
    [] char \in SmallUnits ->
         [acc EXCEPT !.section = @ + char * (IF acc.number = 0 THEN 1 ELSE acc.number),
                     !.number = 0]
    [] char = Wan ->
         [total |-> acc.total + (acc.section + acc.number) * Wan, section |-> 0, number |-> 0]
    [] char = Yi ->
         [total |-> (acc.total + acc.section + acc.number) * Yi, section |-> 0, number |-> 0]

CnInteger(chars) ==
  IF chars \in {<<Wan>>, <<Yi>>} THEN chars[1]
  ELSE IF \A i \in DOMAIN chars : chars[i] < 10
  THEN FoldLeft(LAMBDA n, d : 10 * n + d, 0, chars)
  ELSE LET read == FoldLeft(ReadChar, [total |-> 0, section |-> 0, number |-> 0], chars)
       IN  read.total + read.section + read.number

(* A text holds at most one number: figures with a factor (1, wan, yi) or  *)
(* characters, perhaps a percentage, perhaps before a unit of measure.     *)
Word == [figures |-> FALSE, number |-> 0, factor |-> 1, chars |-> <<1>>,
         percent |-> FALSE, unit |-> FALSE]

(* _is_quantity_claim: a lone character is part of a word unless a unit or *)
(* a percent sign follows it.                                              *)
IsQuantity(text) == Len(text.chars) > 1 \/ text.unit \/ text.percent

(* _numeric_claims.                                                        *)
Claims(text) ==
  LET kind == IF text.percent THEN "percent" ELSE "quantity"
  IN  IF text.figures THEN {<<kind, text.number * text.factor>>}
      ELSE IF IsQuantity(text) THEN {<<kind, CnInteger(text.chars)>>}
      ELSE {}

(*------------------------- How people write numbers ---------------------*)

(* The characters of a section: 105 is one hundred, zero, five.            *)
SectionChars(n) ==
  LET thousands == n \div 1000   hundreds == (n \div 100) % 10
      tens == (n \div 10) % 10   ones == n % 10
      Part(d, unit) == IF d = 0 THEN <<>> ELSE <<d, unit>>
      Gap(above, d, below) == IF above > 0 /\ d = 0 /\ below > 0 THEN <<0>> ELSE <<>>
  IN  Part(thousands, 1000)
        \o Gap(thousands, hundreds, n % 100) \o Part(hundreds, 100)
        \o Gap(hundreds, tens, ones) \o Part(tens, 10)
        \o (IF ones = 0 THEN <<>> ELSE <<ones>>)

Spoken(n) ==
  LET low == n % Wan
      Zero == IF n >= Wan /\ low > 0 /\ low < 1000 THEN <<0>> ELSE <<>>
      chars == (IF n >= Wan THEN SectionChars(n \div Wan) \o <<Wan>> ELSE <<>>)
                 \o Zero \o SectionChars(low)
  IN  IF Len(chars) > 1 /\ chars[1] = 1 /\ chars[2] = 10 THEN Tail(chars) ELSE chars

InFigures(n, per) == [Word EXCEPT !.figures = TRUE, !.number = n, !.percent = per, !.unit = TRUE]
InWan(n) == [InFigures(n \div Wan, FALSE) EXCEPT !.factor = Wan]
InChars(n, per) == [Word EXCEPT !.chars = Spoken(n), !.percent = per, !.unit = TRUE]
=============================================================================
