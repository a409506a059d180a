----------------------------- MODULE Bootstrap -----------------------------
(***************************************************************************)
(* Resampling.  The code sorts a finite number of draws of a seeded        *)
(* generator, never fewer than a hundred expected beyond each tail.  Here a *)
(* bootstrap is the distribution that the draws are taken from, a function *)
(* from the values to their weights, and the nearest rank is read off the  *)
(* weights, as the comparison of bundles does.  The pilots interpolate     *)
(* between that draw and its neighbour, which are the same value unless    *)
(* the rank falls between two.  What a sample adds, luck near a boundary   *)
(* and the order in which two sides are drawn, is left out.                *)
(***************************************************************************)
EXTENDS Integers, FiniteSets, FiniteSetsExt, Functions

\* f itself, as a table: its values are computed once.
Table(f) == CHOOSE t \in {f} : t = f

TotalWeight(f) == SumFunction(f)

\* One element of a non-empty family of values, every index equally likely.
Choice(values) ==
    Table([x \in Range(values) |-> Cardinality({i \in DOMAIN values : values[i] = x})])

\* The sum of two independent draws, and of n of them.
Plus(f, g) ==
    Table([s \in {a + b : a \in DOMAIN f, b \in DOMAIN g} |->
        SumFunction([a \in {x \in DOMAIN f : s - x \in DOMAIN g} |-> f[a] * g[s - a]])])

Times(f, n) ==
    LET P[k \in 0..n] == IF k = 0 THEN [x \in {0} |-> 1] ELSE Plus(P[k - 1], f) IN P[n]

Negated(f) == Table([x \in {-y : y \in DOMAIN f} |-> f[-x]])

\* The values divided by n, rounded down.
Over(f, n) ==
    Table([x \in {y \div n : y \in DOMAIN f} |->
        SumFunctionOnSet(f, {y \in DOMAIN f : y \div n = x})])

\* A draw from one of several distributions, every index equally likely.
Mixture(fs) ==
    LET all == FoldFunction(LAMBDA t, u : t * u, 1, [i \in DOMAIN fs |-> TotalWeight(fs[i])])
        Weight(i, x) == IF x \in DOMAIN fs[i] THEN fs[i][x] * (all \div TotalWeight(fs[i])) ELSE 0
    IN Table([x \in UNION {DOMAIN fs[i] : i \in DOMAIN fs} |->
                SumFunction([i \in DOMAIN fs |-> Weight(i, x)])])

\* _percentile of the calibration, the nearest rank, at 1 / odds and at 1 - 1 / odds:
\* the first value that has 1 / odds of the weight up to it, and the first that has no
\* more than that above it, which is the last with more than that from it on.  Weight
\* that is exactly 1 / odds settles the lower rank and not the upper one.
Lower(f, odds) ==
    Min({x \in DOMAIN f : SumFunctionOnSet(f, {y \in DOMAIN f : y <= x}) * odds >= TotalWeight(f)})

Upper(f, odds) ==
    Max({x \in DOMAIN f : SumFunctionOnSet(f, {y \in DOMAIN f : y >= x}) * odds > TotalWeight(f)})

\* Both of them; d is f, computed once.
Interval(f, odds) ==
    CHOOSE i \in {[lower |-> Lower(d, odds), upper |-> Upper(d, odds)] : d \in {f}} : TRUE
=============================================================================
