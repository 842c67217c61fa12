----------------------------- MODULE StoreName -----------------------------
(***************************************************************************)
(* The names of store paths, as catalog.go compares them: strings of bytes, *)
(* here sequences of numbers, with dashes in them.                          *)
(***************************************************************************)
EXTENDS Naturals, FiniteSets, Sequences, SequencesExt, FiniteSetsExt

Dash == 45      \* '-'
Top == 255      \* "\xff", after every byte of a name

\* The number of bytes in which two names agree.
MatchLen(a, b) ==
    Cardinality({i \in DOMAIN a \cap DOMAIN b : \A j \in 1..i : a[j] = b[j]})

\* Go's order of strings.
Less(a, b) ==
    LET n == MatchLen(a, b) IN n < Len(b) /\ (n < Len(a) => a[n + 1] < b[n + 1])

FindDashes(s) == {i \in DOMAIN s : s[i] = Dash}

\* What a base's name must begin with: the first segment and its dash.
Start(req) == IF FindDashes(req) = {} THEN req ELSE SubSeq(req, 1, Min(FindDashes(req)))

\* The segments between the dashes, of which the comment in findBase speaks, by
\* what bounds them.
Segments(s) ==
    LET cuts == {0, Len(s) + 1} \cup FindDashes(s)
    IN  {g \in cuts \X cuts : g[1] < g[2] /\ \A k \in cuts : k <= g[1] \/ g[2] <= k}

FirstSegment(s) == SubSeq(s, 1, (CHOOSE g \in Segments(s) : g[1] = 0)[2] - 1)
=============================================================================
