--------------------------- MODULE FilterDecisions ---------------------------
(***************************************************************************)
(* What the answers of ScimFilter to the questions of Decisions should be. *)
(***************************************************************************)
EXTENDS Decisions, ScimFilter

CONSTANT Rows       \* rows of the users table

\* The words of comparisons are none of the others; the column active holds no
\* NULL.
ASSUME FiltersAssumption ==
    /\ Filters \subseteq Seq(STRING)
    /\ DOMAIN Comparison \cap {"and", "or", "not", "(", ")", "end"} = {}
    /\ \A row \in Rows : row.active # Null

-----------------------------------------------------------------------------

\* RFC 7644 read off the words i to j: "or" divides first, then "and";
\* parentheses that enclose it all, with or without "not", come off last.
Depth(w, i) ==
    Cardinality({n \in 1..(i - 1) : w[n] = "("}) - Cardinality({n \in 1..(i - 1) : w[n] = ")"})

Divides(w, i, j, word) == {p \in i..j : w[p] = word /\ Depth(w, p) = Depth(w, i)}

IsGroup(w, i, j) ==
    /\ j > i + 1 /\ w[j] = ")"
    /\ w[i] = "(" \/ (w[i] = "not" /\ w[i + 1] = "(")

\* An absent attribute has no value: it equals nothing and differs from everything.
\* What a comparison says of a value that is there is the matter of LikeIsLiteral.
HoldsAlone(word, row) ==
    LET c == Comparison[word]
    IN  IF row[c.attribute] = Null THEN c.operator = "ne" ELSE Compare(word, row) = True

\* The answer to the words i to j is a set of rows; there is none if they are
\* not well formed.  No words at all ask for every row.
Answers(w, rows) ==
    LET answers[span \in (1..(Len(w) + 1)) \X (0..Len(w))] ==
            LET i == span[1]  j == span[2]
            IN  IF Divides(w, i, j, "or") # {}
                THEN LET d == Min(Divides(w, i, j, "or"))
                     IN  {A \cup B : A \in answers[<<i, d - 1>>], B \in answers[<<d + 1, j>>]}
                ELSE IF Divides(w, i, j, "and") # {}
                THEN LET d == Min(Divides(w, i, j, "and"))
                     IN  {A \cap B : A \in answers[<<i, d - 1>>], B \in answers[<<d + 1, j>>]}
                ELSE IF i = j /\ w[i] \in DOMAIN Comparison /\ Supported(w[i])
                THEN {{row \in rows : HoldsAlone(w[i], row)}}
                ELSE IF IsGroup(w, i, j)
                THEN IF w[i] = "not" THEN {rows \ A : A \in answers[<<i + 2, j - 1>>]}
                     ELSE answers[<<i + 1, j - 1>>]
                ELSE {}
    IN  IF w = <<>> THEN {rows} ELSE answers[<<1, Len(w)>>]

Compared(w) == {w[i] : i \in DOMAIN w} \cap DOMAIN Comparison

Positive(w) ==
    /\ \A i \in DOMAIN w : w[i] # "not"
    /\ \A word \in Compared(w) : Comparison[word].operator # "ne"

\* A filter is accepted exactly when it is empty or well formed.  The empty one
\* returns every row, any other the rows RFC 7644 says: of those that have the
\* attributes it compares, and also of the others if it neither negates nor
\* compares with "ne" (SQL leaves those undecided, and the row out).
FilterIsExact ==
    asked.question = "filter" =>
        LET w == asked.tokens
            parsed == Parse(w, Rows)
            answers == Answers(w, Rows)
        IN  /\ Ok(parsed) = (answers # {})
            /\ \A answer \in answers, row \in Rows :
                 Positive(w) \/ (\A word \in Compared(w) : row[Comparison[word].attribute] # Null)
                   => (parsed.means[row] = True) = (row \in answer)

=============================================================================
