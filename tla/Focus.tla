------------------------------- MODULE Focus -------------------------------
(***************************************************************************)
(* Focused campaigns (focus).  Run directories accumulate; the panels of   *)
(* all of them become one campaign configuration with item filters for     *)
(* each model (panel_config.py); that campaign runs, and its directory is   *)
(* analysed with the others.                                               *)
(*                                                                         *)
(* The draws of the bootstraps are seeded by the evidence: they are chosen *)
(* when the evidence changes and stay while it does not.                   *)
(***************************************************************************)
EXTENDS Calibration

CONSTANTS
    Kinds, Body,         \* outcomes of a campaign, see Directory
    Installed,           \* round -> the fingerprint of the installed pack
    Available,           \* round -> the items of the installed pack
    Options,             \* [max_items, allow_partial, require_stable]
    Repetitions,         \* attempts of a focused campaign
    Draws,               \* [all, fold]: a sample, and one for each held-out fold
    MaxCollected,        \* bound: directories up to which campaigns are collected
    MaxRuns              \* bound: directories, those of focused campaigns included

VARIABLES
    runs,                \* the run directories, in the order they are named
    draws,               \* what the draws over them give
    panel                \* the written configuration, or None

vars == <<runs, draws, panel>>

ASSUME FocusAssumption ==
    /\ Repetitions \in 1..9 /\ MaxCollected \in 1..MaxRuns /\ MaxRuns \in 1..9
    /\ \A o \in Options : o.max_items = None \/ o.max_items > 0
    /\ \A d \in Draws : DOMAIN d.fold = {0, 1}

(***************************************************************************)
(* Run directories.  Body[k] has the configuration of a campaign           *)
(* [isolation, timeout, packs, rounds, models] and outcome[public], what    *)
(* every model answers: [reasoning, round4].                               *)
(***************************************************************************)
Directory(k) ==
    LET b == Body[k]
        Evidence(m) ==
            [public |-> m.public, key |-> m.key,
             reasoning |-> Restrict(b.outcome[m.public].reasoning, b.rounds \ {4}),
             round4 |-> IF 4 \in b.rounds THEN b.outcome[m.public].round4 ELSE None]
    IN [isolation |-> b.isolation, timeout |-> b.timeout, packs |-> b.packs,
        models |-> [j \in DOMAIN b.models |-> Evidence(b.models[j])]]

\* The directory of the focused campaign: the filtered items of the models in
\* the configuration, on the installed packs, without isolation.
FocusedDirectory(k, config) ==
    LET Kept(S) == {x \in S : x.attempt \in 1..config.repetitions}
        Files(m, r) ==
            {[attempt |-> f.attempt, rows |-> {w \in f.rows : w.id \in m.item_filters[r]}] :
                f \in Kept(Body[k].outcome[m.public].reasoning[r])}
        Tasks(m, S) == {x \in Kept(S) : x.task \in m.item_filters[4]}
        Evidence(m) ==
            [public |-> m.public, key |-> m.key,
             reasoning |-> [r \in DOMAIN m.item_filters \ {4} |-> Files(m, r)],
             round4 |-> IF 4 \in DOMAIN m.item_filters
                        THEN [grades |-> Tasks(m, Body[k].outcome[m.public].round4.grades),
                              errors |-> Tasks(m, Body[k].outcome[m.public].round4.errors)]
                        ELSE None]
    IN [isolation |-> None, timeout |-> config.timeout,
        packs |-> Restrict(Installed, config.rounds),
        models |-> [j \in DOMAIN config.models |-> Evidence(config.models[j])]]

(***************************************************************************)
(* build_panel_config.                                                     *)
(***************************************************************************)
\* analyze_runs, the part focus reads: the panel of every group and how it
\* fared out of fold.
analyze_runs(dirs, d, max_items) ==
    {[group |-> g[1],
      panel |-> discriminative_item_panel(g[2], g[3], d.all, max_items),
      status |-> PanelStatus(g[3], discriminative_item_panel(g[2], g[3], d.all, max_items)),
      holdout |-> HoldoutStatus(holdout_evaluations(g[2], d.fold, max_items))] :
        g \in UNION {UNION {{<<x, G, configuration_item_coverage(G, d.all)>> :
                                G \in {group_of(dirs, x)}} : x \in Groups(dirs)}}}

\* _runtime_item: the number of a reasoning item, the name of a task.
runtime_item(r, x) == IF r = 4 THEN x ELSE x[2]

\* _unique_key: the key itself, or with the first free number from 2 on.  A key
\* is a sequence: its text and the numbers appended to it.
unique_key(key, used) ==
    IF key \notin used THEN key
    ELSE Append(key, Min({n \in 2..(Cardinality(used) + 2) : Append(key, n) \notin used}))

\* The first model of each configuration, in the order of the directories.
\* The configuration is computed without the directory's isolation.
representatives(dirs) ==
    LET all == FoldLeft(LAMBDA s, d : s \o d.models, <<>>, dirs)
        First(s, m) == IF \E i \in DOMAIN s : model_identity(s[i], None) = model_identity(m, None)
                       THEN s ELSE Append(s, m)
    IN FoldLeft(First, <<>>, all)

\* The rounds and items of the groups where a configuration left evidence.
filters(dirs, selected, identity) ==
    LET mine == {a \in selected : identity \in Active(dirs, a.group)}
    IN [r \in {a.group[1] : a \in mine} |->
          UNION {{runtime_item(r, x) : x \in SelectedItems(a.panel)} :
                 a \in {y \in mine : y.group[1] = r}}]

panel_models(dirs, selected) ==
    LET Add(s, m) ==
            LET f == filters(dirs, selected, model_identity(m, None))
                used == {s[i].key : i \in DOMAIN s}
            IN IF DOMAIN f = {} THEN s
               ELSE Append(s, [public |-> m.public, key |-> unique_key(m.key, used),
                               item_filters |-> f])
    IN FoldLeft(Add, <<>>, representatives(dirs))

\* Every selected round has one fingerprint, that of the installed pack.
PacksMatch(selected) == \A a \in selected : Installed[a.group[1]] = a.group[2]

\* The gates a selected group has to pass.
Admitted(a, o) ==
    /\ a.status = "PARTIAL" => o.allow_partial
    /\ o.require_stable => a.holdout = "STABLE"

build_panel_config(dirs, selected) ==
    [source_run_count |-> Len(dirs), repetitions |-> Repetitions,
     rounds |-> {a.group[1] : a \in selected},
     timeout |-> Max({dirs[i].timeout : i \in DOMAIN dirs}),
     models |-> panel_models(dirs, selected),
     groups |-> {[group |-> a.group, items |-> SelectedItems(a.panel)] : a \in selected}]

\* validate_config, the part a generated configuration can fail: unique keys,
\* and filters that name available items of selected rounds.
validate_config(config) ==
    /\ IsInjective([j \in DOMAIN config.models |-> config.models[j].key])
    /\ \A j \in DOMAIN config.models :
        /\ DOMAIN config.models[j].item_filters \subseteq config.rounds
        /\ \A r \in DOMAIN config.models[j].item_filters :
            /\ config.models[j].item_filters[r] # {}
            /\ config.models[j].item_filters[r] \subseteq Available[r]

(***************************************************************************)
(* Actions.                                                                *)
(***************************************************************************)
Init == runs = <<>> /\ panel = None /\ draws \in Draws

\* A campaign of one of the kinds finishes.
Collect(k) ==
    /\ Len(runs) < MaxCollected
    /\ runs' = Append(runs, Directory(k))
    /\ draws' \in Draws
    /\ UNCHANGED panel

\* focus: nothing is written over, and a refusal leaves everything as it is.
write_panel_config(o) ==
    /\ panel = None /\ runs # <<>> /\ ~Conflicting(runs)
    /\ \E selected \in {{a \in analyze_runs(runs, draws, o.max_items) : a.panel # <<>>}} :
        /\ selected # {} /\ PacksMatch(selected)
        /\ \A a \in selected : Admitted(a, o)
        /\ \E config \in {build_panel_config(runs, selected)} :
            /\ config.models # <<>> /\ validate_config(config)
            /\ panel' = config
    /\ UNCHANGED <<runs, draws>>

\* The focused campaign runs and finishes.
RunPanel(k) ==
    /\ panel # None /\ Len(runs) < MaxRuns
    /\ runs' = Append(runs, FocusedDirectory(k, panel))
    /\ draws' \in Draws
    /\ UNCHANGED panel

Next ==
    \/ \E k \in Kinds : Collect(k) \/ RunPanel(k)
    \/ \E o \in Options : write_panel_config(o)

Spec == Init /\ [][Next]_vars

(***************************************************************************)
(* Properties.                                                             *)
(***************************************************************************)
\* What a robust class of an item may stand next to.
ItemClasses == {"INSUFFICIENT", "CEILING", "FLOOR", "LOW_INFORMATION", "NEGATIVE", "WEAK", "USEFUL"}
Refines ==
    {<<"ROBUST_CEILING", "CEILING">>, <<"ROBUST_FLOOR", "FLOOR">>}
    \cup {"ROBUST_NEGATIVE"} \X {"NEGATIVE", "CEILING", "FLOOR"}
    \cup {"ROBUST_USEFUL"} \X {"USEFUL", "CEILING", "FLOOR"}

\* The tables of one analysis agree (analyze_runs), though each walks the
\* matrix on its own: items and configurations count the same outcomes; a robust
\* class of an item refines its plain class; an item
\* is eligible for as many pairs as its repeated configurations form; an item
\* without any separation decides no pair; the overall comparison of two
\* configurations does not contradict every one of their items; and when every
\* item is scored, the respondents of one configuration disagree as often over
\* all items as the repeats of each item do.
TablesAgree ==
    \A g \in Groups(runs) : \A G \in {group_of(runs, g)} :
      \A coverage \in {configuration_item_coverage(G, draws.all)},
         metrics \in {item_metrics(G, draws.all)} :
        LET Rows(x) == {w \in coverage : w.item = x}
            Of(p) == {w \in coverage : w.pair = p}
            Opposite(w, class) == {w.classification, class} = {"LEFT_HIGHER", "RIGHT_HIGHER"}
            Complete == \A r \in Respondents(G) :
                            \A x \in Items(G) : StatusIn(G, r, x) \in SCORED
        IN /\ \A s \in Statuses :
                MapThenSumSet(LAMBDA x : metrics[x].counts[s], Items(G))
                  = MapThenSumSet(LAMBDA c : configuration_scorecards(G, c).counts[s],
                                  Configurations(G))
           /\ \A x \in Items(G) :
                <<metrics[x].robust_classification, metrics[x].classification>>
                  \in Refines \cup ({"INSUFFICIENT", "UNSTABLE", "UNCERTAIN"} \X ItemClasses)
           /\ \A x \in Items(G) :
                LET n == Cardinality(Repeated(G, x, MIN_CONFIGURATION_RESPONDENTS))
                IN /\ Cardinality(Rows(x)) = Binomial(n, 2)
                   /\ item_repeat_separation(G, x, draws.all) = "ROBUST_NO_SEPARATION"
                        => Rows(x) \intersect Decisive(coverage) = {}
           /\ \A c \in configuration_comparisons(G, draws.all) :
                (Of(c.pair) # {} /\ {w.item : w \in Of(c.pair)}
                                        = CommonItems(G, c.pair[1], c.pair[2]))
                  => \E w \in Of(c.pair) : ~Opposite(w, c.classification)
           /\ Complete /\ Cardinality(Items(G)) >= MIN_PAIR_ITEMS =>
                MapThenSumSet(LAMBDA e : disagreement(G, e), pairwise_stability(G, TRUE))
                  = MapThenSumSet(LAMBDA y : DifferingPairs(G, y[1], y[2]),
                                  Configurations(G) \X Items(G))

\* The holdout is sound (_panel_holdout_validation): a panel that is STABLE
\* shows every direction it was tested for in the whole evidence too; and when
\* every configuration has ten scored units, which is what the refusal of focus
\* asks for, both folds have enough units of it to select on and to test.
HoldoutIsSound ==
    \A g \in Groups(runs) : \A G \in {group_of(runs, g)} :
      \A found \in {holdout_evaluations(G, draws.fold, None)}, folds \in {fold_by_unit(G)} :
        LET Scored == \A r \in Respondents(G), x \in Items(G) : StatusIn(G, r, x) \in SCORED
            Enough(S, n) == \A c \in Configurations(G), x \in Items(G) :
                                Cardinality(Units(S, c, x)) >= n
        IN /\ HoldoutStatus(found) = "STABLE" =>
                \A e \in found :
                    Difference(G, e.row.target[1], e.row.target[2], e.row.item) > 0
           /\ Scored /\ Enough(G, 2 * MIN_CONFIGURATION_RESPONDENTS) =>
                \A f \in {0, 1} : Enough(InFold(G, folds, f), MIN_CONFIGURATION_RESPONDENTS)

\* How often a configuration attempted an item of a group.
Attempted(dirs, g, c, x) ==
    Cardinality({a \in Contributions(dirs) :
        a.group = g /\ a.identity = c /\ \E y \in a.rows : y[1] = x})

\* A focused campaign repeats the panel (build_panel_config, collect_observations):
\* its evidence joins that of the configurations it was built from and adds no
\* new one; every configuration that left evidence in a selected group attempts
\* each item of that panel as often as asked, and no other item.  A
\* configuration that ran in isolation is the exception: it is not matched.
FocusedRunsPool ==
    [][\A k \in Kinds : RunPanel(k) =>
        \A g \in panel.groups :
          /\ Active(runs', g.group) = Active(runs, g.group)
          /\ \A c \in Active(SubSeq(runs, 1, panel.source_run_count), g.group) :
               c[2] = None =>
                 \A x \in UNION {DOMAIN row : row \in Range(group_of(runs, g.group).rows)} :
                   Attempted(runs', g.group, c, x) - Attempted(runs, g.group, c, x)
                     = IF x \in g.items THEN panel.repetitions ELSE 0]_vars
=============================================================================
