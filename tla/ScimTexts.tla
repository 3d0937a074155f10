------------------------------ MODULE ScimTexts ------------------------------
(***************************************************************************)
(* The comparison of a text column in a SCIM filter (Parser._compare of    *)
(* app/scim/filters.py) and the SQL it is turned into.  SQL decides with   *)
(* three truth values; they are numbers here, so that AND is the smaller,  *)
(* OR the larger and NOT the distance from true.                           *)
(***************************************************************************)
EXTENDS ScimPages

False == 0
Unknown == 1
True == 2

Truth(p) == IF p THEN True ELSE False

\* A text is a sequence of characters; these are the ones that matter.
Lower(text) == [i \in DOMAIN text |-> IF text[i] = "A" THEN "a" ELSE text[i]]

\* Characters in the order of the column's binary collation.
Rank == [ch \in {"%", "A", "\\", "_", "a", "b"} |->
            CASE ch = "%" -> 1 [] ch = "A" -> 2 [] ch = "\\" -> 3
              [] ch = "_" -> 4 [] ch = "a" -> 5 [] ch = "b" -> 6]

\* The first n characters agree, and there t ends or is smaller.
Before(t, u) ==
    \E n \in 0..Len(t) :
        /\ n < Len(u)
        /\ \A i \in 1..n : t[i] = u[i]
        /\ n = Len(t) \/ Rank[t[n + 1]] < Rank[u[n + 1]]

-----------------------------------------------------------------------------

\* SQL's LIKE with the escape character \.  A text may be cut after any number of
\* its characters; from[j] are the cuts after which what is left of the text
\* matches the pattern from its j-th character on.
Like(text, pattern) ==
    LET Reading(cuts, ch) == {n - 1 : n \in {m \in cuts : m > 0 /\ text[m] = ch}}
        from[j \in 1..(Len(pattern) + 1)] ==
            IF j > Len(pattern) THEN {Len(text)}
            ELSE CASE pattern[j] = "%" -> UNION {0..n : n \in from[j + 1]}
                   [] pattern[j] = "_" -> {n - 1 : n \in from[j + 1] \ {0}}
                   [] pattern[j] = "\\" /\ j < Len(pattern) -> Reading(from[j + 2], pattern[j + 1])
                   [] OTHER -> Reading(from[j + 1], pattern[j])
    IN  0 \in from[1]

\* str.replace(ch, "\\" + ch)
Escape(text, ch) ==
    FlattenSeq([i \in DOMAIN text |-> IF text[i] = ch THEN <<"\\", ch>> ELSE <<text[i]>>])

\* Variant of Escaped: the backslash comes last.
EscapedLate(value) == Escape(Escape(Escape(value, "%"), "_"), "\\")

Escaped(value) == Escape(Escape(Escape(value, "\\"), "%"), "_")

\* Parser._compare on a text column, with the presence test.
CompareText(column, operator, value) ==
    IF operator = "pr" THEN Truth(column # Null /\ column # <<>>)
    ELSE IF column = Null THEN Unknown
    ELSE LET text == Lower(column) pattern == Lower(Escaped(value))
         IN  Truth(CASE operator = "eq" -> text = Lower(value)
                     [] operator = "ne" -> text # Lower(value)
                     [] operator = "co" -> Like(text, <<"%">> \o pattern \o <<"%">>)
                     [] operator = "sw" -> Like(text, pattern \o <<"%">>)
                     [] operator = "ew" -> Like(text, <<"%">> \o pattern)
                     [] operator = "gt" -> Before(value, column)
                     [] operator = "ge" -> ~Before(column, value)
                     [] operator = "lt" -> Before(column, value)
                     [] operator = "le" -> ~Before(value, column))

=============================================================================
