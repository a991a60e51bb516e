--------------------------- MODULE FactExtraction ---------------------------
(***************************************************************************)
(* What a review and a readable piece of evidence are taken to say of      *)
(* amounts, durations and dates (extract_claim_facts of                    *)
(* contradiction_engine.py, extract_text_fact_suggestions of               *)
(* evidence_extraction.py), and when the two contradict each other.  Each  *)
(* state is a mention in the review and the mentions in the lines of a     *)
(* document whose suggestions an analyst has all confirmed. A number is    *)
(* written as its digits before and after the point or comma.              *)
(***************************************************************************)
EXTENDS Integers, SequencesExt

CONSTANTS Numbers,          \* as written: [int |-> digits, dec |-> digits]
          Years,            \* as written: digits, or none
          Days, Months      \* numbers: the zero before one is not kept

VARIABLES claim,            \* one mention of the review
          lines             \* the mentions of each line of the document
vars == <<claim, lines>>

Currencies == {"sign", "euro", "euros", "$", "dollar", "dollars"}
Units == {"h", "heures", "min", "hommes"}

Mentions ==
  [kind : {"AMOUNT"}, number : Numbers, currency : Currencies]
  \cup [kind : {"DURATION"}, number : Numbers, unit : Units]
  \cup [kind : {"DATE"}, day : Days, month : Months, year : Years]

-----------------------------------------------------------------------------
\* The digits of an amount which the pattern takes: up to two after the point.  With
\* more than two nothing but the digits after the point stands before the currency.
Matched(n) == IF Len(n.dec) <= 2 THEN n ELSE [int |-> n.dec, dec |-> <<>>]

\* s.rstrip('0') and s.lstrip('0')
NonZero(s) == {i \in DOMAIN s : s[i] # 0}
Right(s) == SubSeq(s, 1, IF NonZero(s) = {} THEN 0 ELSE Max(NonZero(s)))
Left(s) == SubSeq(s, IF NonZero(s) = {} THEN Len(s) + 1 ELSE Min(NonZero(s)), Len(s))

Norm_Unstripped(n) == IF n.dec # <<>> THEN n
                      ELSE [n EXCEPT !.int = IF Left(@) = <<>> THEN <<0>> ELSE Left(@)]

\* _norm_number and _norm_num: zeros before a number with a point are kept.
Norm(n) == IF n.dec # <<>> THEN [n EXCEPT !.dec = Right(@)]
           ELSE [n EXCEPT !.int = IF Left(@) = <<>> THEN <<0>> ELSE Left(@)]

\* float(num), in thousandths: each number has one text, whatever it was written like.
Value(n) == LET Digits(s) == FoldLeft(LAMBDA v, d : 10 * v + d, 0, s)
            IN 1000 * Digits(n.int) + Digits(SubSeq(n.dec \o <<0, 0, 0>>, 1, 3))

\* The currency replaced and lowered: the singular of dollars is not in the list.
Currency(c) == CASE c \in {"sign", "euro", "euros"} -> "eur"
                 [] c \in {"$", "dollars"} -> "usd"
                 [] c = "dollar" -> "dollar"
\* The pattern of a unit has no end: a word which begins as one is one.
PerUnit(u) == IF u \in {"h", "heures", "hommes"} THEN 60 ELSE 1
Year(y) == IF Len(y) = 2 THEN <<2, 0>> \o y ELSE y

\* extract_claim_facts
Fact(m) ==
  CASE m.kind = "AMOUNT" -> [key |-> <<"amount", Currency(m.currency)>>, value |-> Norm(Matched(m.number))]
    [] m.kind = "DURATION" -> [key |-> <<"duration", "minutes">>, value |-> Value(m.number) * PerUnit(m.unit)]
    [] m.kind = "DATE" -> [key |-> <<"date", "day">>, value |-> <<m.day, m.month, Year(m.year)>>]

\* extract_text_fact_suggestions: line by line, amounts, then durations, then dates; one
\* suggestion of a key and a value in a line.
Suggestions ==
  LET Of(line, kind) == SelectSeq(line, LAMBDA m : m.kind = kind)
      Found(n) == LET found == Of(lines[n], "AMOUNT") \o Of(lines[n], "DURATION") \o Of(lines[n], "DATE")
                  IN [i \in DOMAIN found |-> [fact |-> Fact(found[i]), line |-> n]]
      all == FlattenSeq([n \in DOMAIN lines |-> Found(n)])
  IN FoldLeft(LAMBDA kept, s : IF Contains(kept, s) THEN kept ELSE Append(kept, s), <<>>, all)

\* detect_contradictions: the values which the document has for the key of the claim's
\* fact, and which are not that fact's.
Contradicting == LET fact == Fact(claim)
                 IN {s \in ToSet(Suggestions) : s.fact.key = fact.key /\ s.fact.value # fact.value}

-----------------------------------------------------------------------------
\* A claim of each kind and a document of one mention, or of two in one line or two.
Init ==
  /\ claim \in Mentions
  /\ \/ \E m \in Mentions : m.kind = claim.kind /\ lines = <<<<m>>>>
     \/ \E m, n \in {m \in Mentions : m.kind = "DATE"} :
          lines \in {<<<<m, n>>>>, <<<<m>>, <<n>>>>, <<<<m, claim>>>>} /\ claim.kind = "DATE"

Spec == Init /\ [][FALSE]_vars

-----------------------------------------------------------------------------
\* What the words are about, and how much they say.
About(m) == CASE m.kind = "AMOUNT" -> IF m.currency \in {"$", "dollar", "dollars"} THEN "dollars" ELSE "euros"
              [] m.kind = "DURATION" -> "time"
              [] m.kind = "DATE" -> "day"
Quantity(m) == CASE m.kind = "AMOUNT" -> Value(m.number)
                 [] m.kind = "DURATION" -> Value(m.number) * PerUnit(m.unit)
                 [] m.kind = "DATE" -> <<m.day, m.month, Year(m.year)>>

\* Words which are not read for what they say: thousands set off by a point, a zero
\* before a number with a point, one dollar, a number of something which begins like hours.
Misread(m) ==
  \/ m.kind = "AMOUNT" /\ (\/ Len(m.number.dec) > 2
                           \/ m.number.dec # <<>> /\ Len(m.number.int) > 1 /\ Head(m.number.int) = 0
                           \/ m.currency = "dollar")
  \/ m.kind = "DURATION" /\ m.unit = "hommes"

\* A date without its year is another value than the same date with it.
Undated(m, n) == m.kind = "DATE" /\ (m.year = <<>>) # (n.year = <<>>)

\* A document contradicts a claim if and only if it says another quantity of the same
\* thing (misread words and dates without their year aside), once for each line which does.
FactsAgree ==
  LET found == Contradicting  suggested == Suggestions IN
  /\ IsInjective(suggested)
  /\ \A n \in DOMAIN lines : \A i \in DOMAIN lines[n] :
       LET m == lines[n][i] IN
       Misread(claim) \/ Misread(m) \/ Undated(claim, m) \/
         ((\E s \in found : s.line = n /\ s.fact = Fact(m)) <=> (About(m) = About(claim) /\ Quantity(m) # Quantity(claim)))
=============================================================================
