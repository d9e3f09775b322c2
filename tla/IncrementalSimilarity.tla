------------------------ MODULE IncrementalSimilarity ------------------------
(***************************************************************************)
(* The item-based models of the recommendation service: a cosine model is  *)
(* fitted from the interactions, and three implementations keep it up to   *)
(* date as ratings arrive.  "itemwise" (IncrementalItemBasedCF) adjusts    *)
(* the pair statistics rating by rating, "batch" replaces the Gram matrix  *)
(* contribution of the affected users at once, and "partial" is the batch  *)
(* form that selects the nearest neighbours without sorting them all.  The *)
(* three receive the same batches here, each beside its own state.         *)
(*                                                                         *)
(* Ratings are natural numbers and the arithmetic is exact: rounding of    *)
(* 32-bit floats is left out.  A cosine is never negative, so it is kept   *)
(* as its square, a fraction <<numerator, denominator>>.  A neighbour list *)
(* is the set of its members: its order has no effect on any score.  The   *)
(* interaction mode is "rating".                                           *)
(***************************************************************************)
EXTENDS Integers, FiniteSets, FiniteSetsExt, SequencesExt

CONSTANTS Users,       \* user indices
          Items,       \* item indices; the order decides ties
          MaxRating,   \* the ratings are 0..MaxRating
          MaxRows,     \* bound on the rows of one update batch
          NeighborCount

ASSUME SimilarityAssumption ==
    /\ Items \subseteq Nat /\ IsFiniteSet(Items) /\ IsFiniteSet(Users)
    /\ {MaxRating, MaxRows, NeighborCount} \subseteq Nat \ {0}

VARIABLES
    model,  \* the state of each implementation
    torn    \* itemwise raised after it had applied a row of the batch

modelVars == <<model, torn>>

Variants == {"itemwise", "batch", "partial"}
Ratings == 0..MaxRating
Cells == Users \X Items

\* The rows of an update; an index or a value outside the model is rejected.
Row == [user : Users, item : Items, rating : Ratings]
BadRow == [user |-> CHOOSE u \in Users : TRUE, item |-> -1, rating |-> 1]
Valid(row) == row.item \in Items
Batches == UNION {[1..n -> Row \cup {BadRow}] : n \in 1..MaxRows}

-----------------------------------------------------------------------------
(* The mathematics of a fit *)

Total(f) == MapThenSumSet(LAMBDA u : f[u], Users)

Gram(x) == [i \in Items |-> [j \in Items |->
                Total([u \in Users |-> x[<<u, i>>] * x[<<u, j>>]])]]

\* Pair statistics to a similarity: no negative value, none above one, and
\* zero for an item with itself or without a norm.
Similarity(dot, norms) ==
    IF norms <= 0 \/ dot <= 0 THEN <<0, 1>>
    ELSE IF dot * dot >= norms THEN <<1, 1>> ELSE <<dot * dot, norms>>

SimilarityRow(dots, norm2, i) ==
    [j \in Items |-> IF i = j THEN <<0, 1>>
                     ELSE Similarity(dots[i][j], norm2[i] * norm2[j])]

Greater(a, b) == a[1] * b[2] > b[1] * a[2]
Same(a, b) == a[1] * b[2] = b[1] * a[2]

Candidates(row, i) == {j \in Items \ {i} : row[j][1] > 0}

\* Sorted by falling similarity, then by index, and cut after width.
Nearest(row, i, width) ==
    {c \in Candidates(row, i) :
        Cardinality({d \in Candidates(row, i) :
            Greater(row[d], row[c]) \/ (Same(row[d], row[c]) /\ d < c)}) < width}

\* Mutant: the ties at the cut are not broken.
PartialNearestUntied(row, i, width) ==
    LET all == Candidates(row, i)
        Above(c) == {d \in all : Greater(row[d], row[c])}
    IN {c \in all : Cardinality(Above(c)) < width}

\* _top_k: everything above the width-th similarity, and of those that equal it
\* the smallest indices.
PartialNearest(row, i, width) ==
    LET all == Candidates(row, i)
        Above(c) == {d \in all : Greater(row[d], row[c])}
        Equal(c) == {d \in all : Same(row[d], row[c])}
    IN IF Cardinality(all) <= width THEN all
       ELSE LET cut == CHOOSE c \in all :
                    /\ Cardinality(Above(c)) < width
                    /\ Cardinality(Above(c) \cup Equal(c)) >= width
                needed == width - Cardinality(Above(cut))
            IN Above(cut) \cup {t \in Equal(cut) :
                                   Cardinality({d \in Equal(cut) : d < t}) < needed}

SelectNeighbors(v, row, i, width) ==
    IF v = "partial" THEN PartialNearest(row, i, width) ELSE Nearest(row, i, width)

\* The width of the neighbour lists is fixed by the fit.
Width == Min({NeighborCount, Cardinality(Items) - 1})

\* An item's mean as <<total, count>> over the users who rated it.
Mean(x, observed, i) ==
    LET raters == {u \in Users : <<u, i>> \in observed}
    IN <<Total([u \in Users |-> x[<<u, i>>]]), Cardinality(raters)>>

\* fit: everything from the interaction matrix.
Fit(v, x, observed) ==
    LET dots == Gram(x)
        norm2 == [i \in Items |-> dots[i][i]]
        sims == [i \in Items |-> SimilarityRow(dots, norm2, i)]
    IN [x |-> x, observed |-> observed, dots |-> dots, norm2 |-> norm2, sims |-> sims,
        near |-> [i \in Items |-> SelectNeighbors(v, sims[i], i, Width)],
        means |-> [i \in Items |-> Mean(x, observed, i)]]

\* A first fit needs one positive rating.
FirstFit ==
    /\ torn = FALSE
    /\ \E cell \in Cells, rating \in Ratings \ {0} :
        LET x == [c \in Cells |-> IF c = cell THEN rating ELSE 0]
        IN model = [v \in Variants |-> Fit(v, x, {cell})]

-----------------------------------------------------------------------------
(* The refresh both forms end with *)

\* The rows and columns of the affected items from the pair statistics, then
\* their neighbour lists.  The list of an item outside affected stays as it is,
\* also when its similarity to an affected item has changed.
RefreshRows(v, m, affected) ==
    LET fresh == [i \in affected |-> SimilarityRow(m.dots, m.norm2, i)]
        sims == [i \in Items |-> [j \in Items |->
                    IF j \in affected THEN fresh[j][i]
                    ELSE IF i \in affected THEN fresh[i][j] ELSE m.sims[i][j]]]
    IN [m EXCEPT !.sims = sims,
                 !.near = [i \in Items |-> IF i \in affected
                              THEN SelectNeighbors(v, sims[i], i, Width) ELSE @[i]]]

RefreshMeans(m, affected) ==
    [m EXCEPT !.means = [i \in Items |-> IF i \in affected THEN Mean(m.x, m.observed, i)
                                         ELSE @[i]]]

-----------------------------------------------------------------------------
(* IncrementalItemBasedCF.update_batch *)

\* Mutant: the norm grows by the square of the change.
ApplyRowSquared(m, row) ==
    LET cell == <<row.user, row.item>>
        delta == row.rating - m.x[cell]
        others == {j \in Items \ {row.item} : <<row.user, j>> \in m.observed}
        Change(j) == delta * m.x[<<row.user, j>>]
    IN [m EXCEPT !.norm2[row.item] = @ + delta * delta,
                 !.dots = [i \in Items |-> [j \in Items |->
                     @[i][j] + CASE i = row.item /\ j \in others -> Change(j)
                                 [] j = row.item /\ i \in others -> Change(i)
                                 [] OTHER -> 0]],
                 !.x[cell] = row.rating,
                 !.observed = @ \cup {cell}]

\* One rating: its effect on the pairs of the user's other observed items.
ApplyRow(m, row) ==
    LET cell == <<row.user, row.item>>
        old == m.x[cell]
        delta == row.rating - old
        others == {j \in Items \ {row.item} : <<row.user, j>> \in m.observed}
        Change(j) == delta * m.x[<<row.user, j>>]
    IN IF delta = 0
       THEN [m EXCEPT !.observed = @ \cup {cell}]
       ELSE [m EXCEPT !.norm2[row.item] = @ + row.rating * row.rating - old * old,
                 !.dots = [i \in Items |-> [j \in Items |->
                     @[i][j] + CASE i = row.item /\ j \in others -> Change(j)
                                 [] j = row.item /\ i \in others -> Change(i)
                                 [] OTHER -> 0]],
                 !.x[cell] = row.rating,
                 !.observed = @ \cup {cell}]

\* Mutant: only the rated items are refreshed, not those they are compared with.
TouchedRated(m, row) ==
    IF m.x[<<row.user, row.item>>] # row.rating THEN {row.item} ELSE {}

\* The items whose rows a rating makes stale.
Touched(m, row) ==
    LET cell == <<row.user, row.item>>
    IN IF m.x[cell] # row.rating
       THEN {row.item} \cup {j \in Items : <<row.user, j>> \in m.observed}
       ELSE IF cell \in m.observed THEN {} ELSE {row.item}

Take(s, row) ==
    IF s.ok /\ Valid(row)
    THEN [ok |-> TRUE, m |-> ApplyRow(s.m, row), touched |-> s.touched \cup Touched(s.m, row)]
    ELSE [s EXCEPT !.ok = FALSE]

Taken(m, batch) == FoldLeft(Take, [ok |-> TRUE, m |-> m, touched |-> {}], batch)

\* The rows before the first invalid one are applied; only a batch without an
\* invalid row reaches the refresh.
Itemwise(m, batch) ==
    LET end == Taken(m, batch)
    IN IF end.ok
       THEN RefreshRows("itemwise", RefreshMeans(end.m, end.touched), end.touched)
       ELSE end.m

-----------------------------------------------------------------------------
(* BatchIncrementalItemBasedCF.update_batch *)

Rate(x, row) == [x EXCEPT ![<<row.user, row.item>>] = row.rating]

\* What the rows of some users contribute to the pair statistics.
Contribution(x, users) == Gram([c \in Cells |-> IF c[1] \in users THEN x[c] ELSE 0])

\* A row that changes a rating, and one that changes an item's mean.
Revises(m, row) == row.rating # m.x[<<row.user, row.item>>]
Counts(m, row) == Revises(m, row) \/ <<row.user, row.item>> \notin m.observed

\* The rows are validated first; then the Gram contributions of the users whose
\* rows changed are replaced, and an item is dirty if such a user rated it
\* above zero before or after.
Batch(v, m, batch) ==
    LET x == FoldLeft(Rate, m.x, batch)
        rows == ToSet(batch)
        changed == {r.user : r \in {q \in rows : Revises(m, q)}}
        before == Contribution(m.x, changed)
        after == Contribution(x, changed)
        dots == [i \in Items |-> [j \in Items |-> m.dots[i][j] + after[i][j] - before[i][j]]]
        dirty == {i \in Items : \E u \in changed : m.x[<<u, i>>] # 0 \/ x[<<u, i>>] # 0}
        stale == {r.item : r \in {q \in rows : Counts(m, q)}}
        new == [m EXCEPT !.x = x, !.observed = @ \cup {<<r.user, r.item>> : r \in rows},
                         !.dots = dots, !.norm2 = [i \in Items |-> dots[i][i]]]
    IN IF \E r \in rows : ~Valid(r) THEN m
       ELSE RefreshRows(v, RefreshMeans(new, stale), dirty)

-----------------------------------------------------------------------------
\* A batch of new or revised ratings reaches the models.  The run of the system
\* ends with a torn batch: what the caller does after the error is not in the code.
Update(batch) ==
    /\ ~torn
    /\ model' = [v \in Variants |-> IF v = "itemwise" THEN Itemwise(model[v], batch)
                                    ELSE Batch(v, model[v], batch)]
    /\ torn' = (\E r \in ToSet(batch) : ~Valid(r)) /\ model'["itemwise"] # model["itemwise"]

AnyUpdate == \E batch \in Batches : Update(batch)

SimilaritySpec == FirstFit /\ [][AnyUpdate]_modelVars

-----------------------------------------------------------------------------
(* What the three implementations promise *)

\* The pair statistics of every implementation are those of its ratings, after
\* any sequence of new, repeated and revised ratings and after an error too.
StatsFitRatings ==
    \A v \in Variants :
        LET m == model[v]
            gram == Gram(m.x)
        IN /\ \A i \in Items : m.norm2[i] = gram[i][i]
           /\ \A i, j \in Items : i # j => m.dots[i][j] = gram[i][j]

\* Similarities and means that were updated piece by piece are those a new fit
\* of all ratings would give: no stale row or column was left out.  Neighbour
\* lists are not those of a new fit: those of items outside the refresh go stale.
AgreesWithRefit ==
    ~torn => \A v \in Variants :
        LET m == model[v]
            fit == Fit(v, m.x, m.observed)
        IN /\ \A i, j \in Items : Same(m.sims[i][j], fit.sims[i][j])
           /\ m.means = fit.means

\* The three implementations hold the same ratings, and of the two batch forms
\* the partial selection chooses the neighbours that sorting chooses, in spite of
\* ties.  The lists of the itemwise form may differ from theirs: it refreshes all
\* items the user has observed, they those he rated above zero.
VariantsAgree ==
    /\ \A v \in Variants : ~torn => model[v].x = model["batch"].x
                                     /\ model[v].observed = model["batch"].observed
    /\ model["partial"].near = model["batch"].near

\* The items of every user whose ratings an update changed have their nearest
\* neighbours afterwards.  Nothing is said of an item that none of those users
\* rated: it keeps its list although the norm of a neighbour may have changed.
RatedHaveNearest ==
    [][~torn' => \A v \in Variants, i \in Items :
        LET m == model'[v]
        IN (\E u \in Users :
                /\ \E j \in Items : model[v].x[<<u, j>>] # m.x[<<u, j>>]
                /\ model[v].x[<<u, i>>] > 0 \/ m.x[<<u, i>>] > 0)
           => m.near[i] = Nearest(m.sims[i], i, Width)]_modelVars
=============================================================================
