--------------------------- MODULE CommunityStore ---------------------------
(***************************************************************************)
(* The repository side of the community results: bundles are accepted into *)
(* results/submissions, and two commands derive files from the directory.  *)
(* `results build` writes INDEX.md in place; `results database` fills a    *)
(* temporary SQLite file, loads it back and moves it over the output.      *)
(* The command may be killed at any step, and bundles may be accepted while *)
(* it runs.                                                                *)
(*                                                                         *)
(* A derived file is represented by whether it is whole and whether it was *)
(* built from the bundles that are in the directory now.                   *)
(***************************************************************************)
EXTENDS Serving

CONSTANTS Kinds,      \* names of bundle contents
          Body,       \* Body[k] is a bundle without its id
          MaxBundles, \* bound on the accepted bundles
          Queries,    \* queries of the community commands
          Target      \* --target-bundles of the collection plan

ASSUME BodiesAreValid == \A k \in Kinds : validate_public_result(Body[k])

\* What a bundle lists is finite, its packs have fingerprints, and what the exporter
\* copies from the report are counts, of which the passed ones are at most all
\* (results.py, report.py).  The validator does not compare the two for round 4 and before
\* schema 2.
ASSUME BodiesAreCounted ==
    \A k \in Kinds :
      /\ IsFiniteSet(DOMAIN Body[k].models)
      /\ \A r \in DOMAIN Body[k].packs : Body[k].packs[r] # None
      /\ \A i \in DOMAIN Body[k].models : \A r \in DOMAIN Body[k].models[i].rounds :
           LET m == Body[k].models[i].rounds[r]
           IN /\ IsFiniteSet(m.items)
              /\ m.incomplete \in Nat /\ m.manual_review \in Nat /\ m.infrastructure_errors \in Nat
              /\ IF r = 4 THEN m.attempts \in Nat /\ m.release_ready \in 0..m.attempts
                 ELSE m.total \in Nat /\ m.passed \in 0..m.total
ASSUME QueriesAreValid ==
    (\A q \in Queries : ValidQuery(q)) /\ Target \in MIN_BASELINE_SUBMISSIONS..1000

VARIABLES directory,  \* the accepted bundles, as <<kind, number>>
          index,      \* INDEX.md
          database,   \* the file at the output path
          rows,       \* the aggregates that every query on the directory starts from
          command     \* the command that runs: its step, whether the directory is
                      \* still the one it loaded, and whether the loader takes the
                      \* rows that it made

vars == <<directory, index, database, rows, command>>

Files == {"missing", "torn", "current", "stale"}

Bundle(x)    == LET body == Body[x[1]]
                IN [id |-> x, schema |-> body.schema, env |-> body.env,
                    packs |-> body.packs, models |-> body.models]
Bundles(ids) == {Bundle(x) : x \in ids}
Submissions  == Bundles(directory)

\* The database that is built from the directory; the fingerprint stands for
\* its metadata row.
DatabaseOf(S) == LET tables == normalize_submissions(S)
                 IN [rows |-> tables, fingerprint |-> tables]

Idle == [pc |-> "idle", fresh |-> TRUE, loadable |-> TRUE]
At(pc) == command' = [command EXCEPT !.pc = pc]
Done == command' = Idle

Init == /\ directory = {}
        /\ index = "missing" /\ database = "missing"
        /\ rows = {}
        /\ command = Idle

\* A submission pull request is merged.  Two bundles with one content have one
\* ID, so a second submission of a kind differs in what the model leaves out.
Aged(file) == IF file = "current" THEN "stale" ELSE file

Accept(k) ==
    LET n == Cardinality({x \in directory : x[1] = k})
    IN /\ Cardinality(directory) < MaxBundles
       /\ directory' = directory \cup {<<k, n + 1>>}
       /\ rows' = aggregate_submissions(Bundles(directory'))
       /\ index' = Aged(index) /\ database' = Aged(database)
       /\ command' = IF command = Idle THEN Idle ELSE [command EXCEPT !.fresh = FALSE]

Built == IF command.fresh THEN "current" ELSE "stale"

\* build_index: load_submission_directory, then render_index.
RenderIndex ==
    /\ command.pc = "idle"
    /\ At(IF ItemsConflict(Submissions) THEN "raised" ELSE "rendered")
    /\ UNCHANGED <<directory, index, database, rows>>

\* output.write_text: open truncates, then the text is written.
OpenIndex ==
    /\ command.pc = "rendered"
    /\ index' = "torn"
    /\ At("opened")
    /\ UNCHANGED <<directory, database, rows>>

WriteIndex ==
    /\ command.pc = "opened"
    /\ index' = Built
    /\ Done
    /\ UNCHANGED <<directory, database, rows>>

\* build_database: load the directory and normalise it.  The rows do not change any
\* more, so what the loader will say of them is known here.
NormalizeSubmissions ==
    /\ command.pc = "idle"
    /\ command' = [command EXCEPT !.pc = "normalized",
                                  !.loadable = load_database(DatabaseOf(Submissions))]
    /\ UNCHANGED <<directory, index, database, rows>>

\* mkstemp beside the output; the rows go in one transaction.
FillTemporary ==
    /\ command.pc = "normalized"
    /\ At("filling")
    /\ UNCHANGED <<directory, index, database, rows>>

\* _validate_database reads the temporary file back, with the loader of every query.
ValidateTemporary ==
    /\ command.pc = "filling"
    /\ At(IF command.loadable THEN "validated" ELSE "rejected")
    /\ UNCHANGED <<directory, index, database, rows>>

\* os.replace.
ReplaceOutput ==
    /\ command.pc = "validated"
    /\ database' = Built
    /\ Done
    /\ UNCHANGED <<directory, index, rows>>

\* The command ends early: killed, or with the exception it raised; the
\* temporary file is not at the output path.
Abort ==
    /\ command.pc # "idle"
    /\ Done
    /\ UNCHANGED <<directory, index, database, rows>>

Next ==
    \/ \E k \in Kinds : Accept(k)
    \/ RenderIndex \/ OpenIndex \/ WriteIndex
    \/ NormalizeSubmissions \/ FillTemporary \/ ValidateTemporary \/ ReplaceOutput
    \/ Abort

Spec == Init /\ [][Next]_vars

(***************************************************************************)
(* Properties.                                                             *)
(***************************************************************************)
\* Every task row numbers its attempt from 1, and its attempt and tokens are integers.
NumbersTasks(b) ==
    \A i \in DOMAIN b.models : \A r \in DOMAIN b.models[i].rounds :
      \A k \in DOMAIN b.models[i].rounds[r].tasks :
        LET t == b.models[i].rounds[r].tasks[k]
        IN /\ t.attempt # None => t.attempt.int /\ t.attempt.value > 0
           /\ t.tokens # None => t.tokens.int

TasksAreNumbered == \A b \in Submissions : NumbersTasks(b)

\* The database built from any mix of old and new valid bundles passes its own loader,
\* which recomputes every identity as if it came from schema 4
\* (_validate_relational_semantics), with one exception: a single valid bundle whose
\* round-4 task rows count attempts from 0, or write attempts or tokens with a fraction,
\* makes every build fail until it is taken out of the directory.  What a query finds at
\* the output path is never half a database, however the command that writes it ends
\* (build_database); and a database that passes --check answers like the JSON directory:
\* the rows the queries start from are the same (aggregate_database against
\* aggregate_submissions), and so are the observations that are compared in pairs
\* (paired_database_observations against _bundle_observations).
DatabaseAgrees ==
    /\ command.fresh => /\ command.pc = "rejected" => ~TasksAreNumbered
                        /\ command.pc = "validated" => TasksAreNumbered
    /\ database # "torn"
    /\ database = "current" =>
         \A tables \in {normalize_submissions(Submissions)} :
            /\ TasksAreNumbered
            /\ aggregate_database(tables) = rows
            /\ paired_database_observations(tables) = bundle_observations(Submissions)

\* The three commands agree on what is ready: a plan whose target is met leaves
\* nothing for the recommender to exclude, and the catalog calls an objective
\* ready exactly when the recommender accepts the row for that objective.
ReadyIsEligible ==
    \A q \in Queries :
      LET Free(objectives) == [round |-> q.round, pack |-> q.pack, objectives |-> objectives,
                               max_memory |-> q.max_memory, floor |-> None]
          free == Free(q.objectives)
      IN /\ build_collection_plan(rows, q, Target).status = "TARGET_MET"
              => recommend(rows, free).eligible = recommend(rows, free).matched
         /\ \A x \in Matched(rows, q) : \A o \in RECOMMENDATION_OBJECTIVES :
              \A entry \in build_catalog(rows, q.round, x.pack).configurations[x.configuration] :
                entry.readiness[o]
                <=> x \in Eligible(rows, Free({o}))

\* Whatever the shortlist leaves out for being dominated is dominated by a
\* member of the shortlist, so a shortlist is never empty when something is
\* eligible (_recommend_aggregate_rows, _dominates).
ShortlistCovers ==
    \A q \in Queries :
      LET answer == recommend(rows, q)
      IN \A x \in answer.eligible \ answer.candidates :
           \E y \in answer.candidates : dominates(y, x, q.objectives)

\* The plan's count is a lower bound: accepting one bundle lowers what a
\* configuration still needs by one at most, and never raises it
\* (collection_plan, minimum_additional_complete_bundles).
PlanIsLowerBound ==
    [][\A q \in Queries :
         \A x \in Matched(rows, q) : \A y \in Matched(rows', q) :
           x.configuration = y.configuration =>
             LET before == Additional(x, q.objectives, Target)
                 after  == Additional(y, q.objectives, Target)
             IN before - 1 <= after /\ after <= before]_vars

=============================================================================
