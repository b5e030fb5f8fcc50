------------------------------ MODULE TextScan ------------------------------
(***************************************************************************)
(* The scanners of util/src/qscan.cpp.  A character is its code.  A range  *)
(* [pBegin, pEnd) is a sequence s and a position in it, pEnd is the        *)
(* position after its last character and nullptr is position 0.            *)
(***************************************************************************)
EXTENDS Integers, SequencesExt

NL == 10
Quote == 34
Backslash == 92

IsDigit(c) == c \in 48 .. 57
IsAlpha(c) == c \in 65 .. 90 \/ c \in 97 .. 122

At(s, p) == IF p \in DOMAIN s THEN s[p] ELSE 0

\* qscan_searchUntil: an empty range has nothing to search and is no failure.
SearchUntil(s, p, c) ==
    LET hits == {i \in p .. Len(s) : s[i] = c}
    IN  IF p > Len(s) THEN p ELSE IF hits = {} THEN 0 ELSE Min(hits)

\* The characters behind p that follow an escape character, itself not escaped.
Escaped(s, p) ==
    LET esc[k \in 0 .. Len(s)] == k > p + 1 /\ s[k-1] = Backslash /\ ~esc[k-1]
    IN  {k \in p .. Len(s) : esc[k]}

\* Fault: the position of the closing character, not the one behind it.
MatchPair_short(s, p, left, right) ==
    LET last == {k \in p+1 .. Len(s) :
                   k \notin Escaped(s, p) /\ s[k] # Backslash /\ At(s, k + 1) = right}
    IN  IF At(s, p) # left \/ last = {} THEN 0 ELSE Min(last) + 1

\* qscan_matchPair: the position behind the closing character.  A character is
\* consumed before the next one is compared, so a pair with nothing in it, and one
\* whose last character is escaped, are not matched.
MatchPair(s, p, left, right) ==
    LET last == {k \in p+1 .. Len(s) :
                   k \notin Escaped(s, p) /\ s[k] # Backslash /\ At(s, k + 1) = right}
    IN  IF At(s, p) # left \/ last = {} THEN 0 ELSE Min(last) + 2

\* qscan_digit: the digits from p on.
Digits(s, p) == {k \in p .. Len(s) : \A i \in p .. k : IsDigit(s[i])}

\* qscan_toInt: their value.  Without digits it writes nothing; see its callers.
ToInt(s, p) ==
    FoldLeft(LAMBDA n, c : 10 * n + (c - 48), 0,
             SubSeq(s, p, p + Cardinality(Digits(s, p)) - 1))
=============================================================================
