------------------------------ MODULE ScimFilter ------------------------------
(***************************************************************************)
(* The SCIM filter of a list request (app/scim/filters.py).  The tokeniser *)
(* is left out: a filter is a sequence of words, parentheses and           *)
(* comparisons, where one comparison stands for the two or three tokens of *)
(* "attribute operator value".                                             *)
(***************************************************************************)
EXTENDS ScimTexts

CONSTANT Comparison     \* words for comparisons -> [attribute, operator, value]

\* On a Boolean column, IS and IS NOT the truth of the value as written: any
\* value but these two is false.
CompareFlag(column, operator, value) ==
    IF operator = "pr" THEN True
    ELSE Truth((column = (value \in {"true", "1"})) = (operator = "eq"))

Supported(word) ==
    Comparison[word].attribute = "active" => Comparison[word].operator \in {"eq", "ne", "pr"}

Compare(word, row) ==
    LET c == Comparison[word]
    IN  IF c.attribute = "active" THEN CompareFlag(row.active, c.operator, c.value)
        ELSE CompareText(row[c.attribute], c.operator, c.value)

-----------------------------------------------------------------------------

\* What was understood from a position on: where the parser stopped, and the
\* truth value of the expression on each row.  An error stops nowhere.
Understood(at, means) == [at |-> at, means |-> means]

Error == Understood(0, <<>>)

Ok(part) == part.at # 0

Word(tokens, i) == IF i <= Len(tokens) THEN tokens[i] ELSE "end"

Joined(left, right, Join(_, _)) ==
    IF Ok(left) /\ Ok(right)
    THEN Understood(right.at, [row \in DOMAIN left.means |-> Join(left.means[row], right.means[row])])
    ELSE Error

And(x, y) == IF x < y THEN x ELSE y
Or(x, y) == IF x < y THEN y ELSE x

ParseComparison(tokens, i, rows) ==
    IF Word(tokens, i) \in DOMAIN Comparison /\ Supported(Word(tokens, i))
    THEN Understood(i + 1, [row \in rows |-> Compare(tokens[i], row)])
    ELSE Error

\* What parsed understands from each position is known for those after i.
ParseGroup(tokens, i, parsed) ==
    LET inner == parsed[i + 1].or
    IN  IF Ok(inner) /\ Word(tokens, inner.at) = ")" THEN [inner EXCEPT !.at = @ + 1] ELSE Error

Negated(group) ==
    IF Ok(group) THEN [group EXCEPT !.means = [row \in DOMAIN @ |-> True - @[row]]] ELSE Error

ParseUnary(tokens, i, rows, parsed) ==
    CASE Word(tokens, i) = "not" /\ Word(tokens, i + 1) = "(" -> Negated(parsed[i + 1].unary)
      [] Word(tokens, i) = "(" -> ParseGroup(tokens, i, parsed)
      [] OTHER -> ParseComparison(tokens, i, rows)

\* Variant of ParseAnd: what follows "and" is read by parse_or.
ParseAndOr(tokens, operand, parsed) ==
    IF Ok(operand) /\ Word(tokens, operand.at) = "and"
    THEN Joined(operand, parsed[operand.at + 1].or, And)
    ELSE operand

\* AND and OR are associative: a chain of them is its first operand joined with
\* what the chain after it says.
ParseAnd(tokens, operand, parsed) ==
    IF Ok(operand) /\ Word(tokens, operand.at) = "and"
    THEN Joined(operand, parsed[operand.at + 1].and, And)
    ELSE operand

ParseOr(tokens, operand, parsed) ==
    IF Ok(operand) /\ Word(tokens, operand.at) = "or"
    THEN Joined(operand, parsed[operand.at + 1].or, Or)
    ELSE operand

\* build_filter without tokens is no WHERE clause: the listing has every row.
Unfiltered(rows) == Understood(1, [row \in rows |-> True])

\* build_filter: otherwise everything is one expression, or the request gets a 400.
Parse(tokens, rows) ==
    LET parsed[i \in 1..(Len(tokens) + 1)] ==
            LET unary == ParseUnary(tokens, i, rows, parsed)
                and == ParseAnd(tokens, unary, parsed)
            IN  [unary |-> unary, and |-> and, or |-> ParseOr(tokens, and, parsed)]
        all == parsed[1].or
    IN  IF tokens = <<>> THEN Unfiltered(rows)
        ELSE IF Ok(all) /\ all.at > Len(tokens) THEN all ELSE Error

=============================================================================
