----------------------------- MODULE NameParts -----------------------------
(***************************************************************************)
(* What becomes of the parts a language model splits a name into           *)
(* (pauk/pipeline/stages/author_names.py): three guards, then the check of *)
(* the parts every split must have.  A part is what the guards tell apart: *)
(*   word, initial   in letters of its language;                          *)
(*   foreign         an initial in letters of the other language;          *)
(*   mixed           a word that is not in letters of its language (of a   *)
(*                   second name: else like a patronymic);                 *)
(* and, of a second name spelled out in letters of its language,           *)
(*   patronymic, given   found in what was asked about, with the ending    *)
(*                       of a patronymic or without it;                    *)
(*   invented            not found there.                                  *)
(***************************************************************************)
EXTENDS Naturals

CONSTANT SplitReplies   \* what the model may answer: records of Splits

None == "none"
Words == {None, "word", "initial", "foreign", "mixed"}
Seconds == {None, "initial", "foreign", "mixed", "patronymic", "given", "invented"}
Parts == [surname : Words, first : Words, second : Seconds]
\* matched: it named a row of the catalog
Splits == [ru : Parts, en : Parts, matched : BOOLEAN, wellformed : BOOLEAN]

ASSUME SplitAssumption == SplitReplies \subseteq Splits

\* _guard_invented_second_name
DropInvented(parts) == [parts EXCEPT !.second = IF @ = "invented" THEN None ELSE @]
\* _guard_misclassified_second_name: one more given name
FoldGiven(parts) ==
    IF parts.second # "given" THEN parts
    ELSE [parts EXCEPT !.second = None, !.first = IF @ \in {"foreign", "mixed"} THEN "mixed" ELSE "word"]
\* _guard_broken_transliteration, for what is to be Russian
InCyrillic(part) == IF part = "mixed" THEN None ELSE IF part = "foreign" THEN "initial" ELSE part
Transliterated(parts) == [field \in DOMAIN parts |-> InCyrillic(parts[field])]

\* required_name_field_issues
Whole(parts) == {parts.surname, parts.first} \cap {None, "mixed", "foreign"} = {}
\* _validate_name_split_response: the split it leaves, or none
Validated(reply) ==
    LET by(parts) == IF reply.matched THEN parts ELSE FoldGiven(DropInvented(parts))
        ru == Transliterated(by(reply.ru))
        en == by(reply.en)
    IN IF reply.wellformed /\ Whole(ru) /\ Whole(en) THEN {[ru |-> ru, en |-> en]} ELSE {}
=============================================================================
