------------------------------- MODULE ScimPages -------------------------------
(***************************************************************************)
(* The page of a SCIM list request (app/scim/router.py).                   *)
(***************************************************************************)
EXTENDS Integers, Sequences, SequencesExt, FiniteSetsExt

CONSTANTS
    Null,           \* the absent value of a parameter or a column
    MaxPageSize     \* MAX_PAGE_SIZE

\* _paginate: startIndex from 1, count between nothing and the largest page; a
\* value that is no number counts as absent (Null).
StartIndex(asked) == IF asked = Null THEN 1 ELSE Max({1, asked})

PageSize(asked) == IF asked = Null THEN MaxPageSize ELSE Max({0, Min({asked, MaxPageSize})})

\* Variant of Page: OFFSET is taken to count from 1 as startIndex does.
PageAfter(rows, start, count) ==
    SubSeq(rows, StartIndex(start) + 1, Min({StartIndex(start) + PageSize(count), Len(rows)}))

\* OFFSET and LIMIT over the ordered rows.
Page(rows, start, count) ==
    SubSeq(rows, StartIndex(start), Min({StartIndex(start) - 1 + PageSize(count), Len(rows)}))

=============================================================================
