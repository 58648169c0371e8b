----------------------------- MODULE MCYCommand -----------------------------
(* Small instances of YCommand: the texts and what they denote.              *)
EXTENDS YCommand

(* A word; a number; the word atof makes NaN of, a number in octal, an index *)
(* from the end.                                                             *)
WordAndNumber == {"a", "1"}
Texts         == {"nan", "01", "-2"}
Spellings     == {"a", "1", "01"}

Denoted == [t \in {"1", "01", "-2"} |-> IF t = "-2" THEN -2 ELSE 1]

MCToText == [n \in {Denoted[t] : t \in DOMAIN Denoted \cap Strings} |->
               IF n = 1 THEN "1" ELSE "-2"]
MCAsLong == [s \in Strings |-> IF s \in DOMAIN Denoted THEN Denoted[s] ELSE NotLong]

(* -2, 0 (which atof makes of a word) and 1 by their order.                  *)
MCAsDouble == [s \in Strings |-> CASE s = "-2" -> 0
                                   [] s = "a" -> 1
                                   [] s \in {"1", "01"} -> 2
                                   [] s = "nan" -> NaN]
MCScoreTexts == DOMAIN Denoted

ListCommands == {"LPUSH", "RPUSH", "LPUSHX", "RPUSHX", "LPOP", "RPOP", "LLEN", "LRANGE"}

(* Every registered command, and one that is not.                            *)
AllCommands == DOMAIN ParamCounts \cup {"SET"}
=============================================================================
