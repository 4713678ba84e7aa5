----------------------------- MODULE Deployment -----------------------------
(***************************************************************************)
(* The deploy workflow and the commands it runs: a run builds a commit,    *)
(* migrates and releases staging, smokes it, releases production, and a    *)
(* last job says whether a release happened.  A job is a list of steps,    *)
(* any of which may fail; every job checks the requested ref out again, so *)
(* a branch that moves while a run is under way gives its jobs different   *)
(* trees under one label.  A released container answers beside the old one *)
(* until the platform takes the old one away.                              *)
(***************************************************************************)
EXTENDS Naturals, Sequences, FiniteSets

CONSTANTS
    Commits,        \* the commits of main, numbered in their order
    Migrations,     \* [Commits -> Nat]: the migrations a commit carries, none ever taken out
    Version,        \* [Commits -> Nat]: the package version it states
    FirstCommit,    \* the commit everything runs when the history begins
    MaxRuns         \* bound: runs of the workflow

\* Migrations are only ever added, and what is up at the beginning has its schema.
ASSUME CommitsAssumption ==
    /\ Commits \subseteq Nat \ {0} /\ FirstCommit \in Commits
    /\ \A a \in Commits : Migrations[a] \in Nat /\ \A b \in Commits : a <= b => Migrations[a] <= Migrations[b]

Envs == {"staging", "production"}
Jobs == <<"build", "staging-migrate", "staging-deploy", "staging-smoke",
          "production-release", "release-check">>
JobNames == {Jobs[i] : i \in 1..Len(Jobs)}
Main == 0           \* the ref "main"; any other ref is a commit

VARIABLES
    head,       \* the commit main points at
    run,        \* the inputs of the run under way, and the commit it named
    stage,      \* its current job: 0 before a run, Len(Jobs) + 1 after it
    todo,       \* the steps left of a job that has begun
    tree,       \* what that job checked out
    result,     \* [JobNames -> result], as GitHub reports them to later jobs
    taken,      \* the schema in the backup on the runner's disk, or NoBackup
    answering,  \* [Envs -> the containers that answer requests]
    coming,     \* [Envs -> containers started and not answering yet]
    variables,  \* [Envs -> the commit in APP_VERSION and GIT_SHA]
    schema,     \* [Envs -> migrations applied]
    kept,       \* [Envs -> schemas of which a backup was uploaded]
    proved,     \* history: <<environment, container>> smoked by this run
    served,     \* history: every <<environment, container>> that has answered
    runs        \* bound: runs so far

deployVars == <<head, run, stage, todo, tree, result, taken, answering, coming, variables, schema, kept, proved, served, runs>>
hosts == <<answering, coming, variables, served>>

NoBackup == 100         \* no backup on this runner
Container(c, sha) == [tree |-> c, sha |-> sha]
Inputs == {r \in [ref : Commits \cup {Main}, skipStaging : BOOLEAN, skipProduction : BOOLEAN, rollback : BOOLEAN, sha : {0}] : r.rollback => r.ref # Main}
Checkout(ref) == IF ref = Main THEN head ELSE ref
EnvOf(name) == IF name = "production-release" THEN "production" ELSE "staging"

DeployInit ==
    /\ head = FirstCommit
    /\ run = [ref |-> Main, skipStaging |-> FALSE, skipProduction |-> FALSE, rollback |-> FALSE, sha |-> 0]
    /\ stage = 0 /\ todo = <<>> /\ tree = FirstCommit
    /\ result = [n \in JobNames |-> "none"]
    /\ taken = NoBackup
    /\ answering = [e \in Envs |-> {Container(FirstCommit, FirstCommit)}]
    /\ coming = [e \in Envs |-> {}]
    /\ variables = [e \in Envs |-> FirstCommit]
    /\ schema = [e \in Envs |-> Migrations[FirstCommit]]
    /\ kept = [e \in Envs |-> {}]
    /\ proved = {}
    /\ served = Envs \X {Container(FirstCommit, FirstCommit)}
    /\ runs = 0

-----------------------------------------------------------------------------
(* Which jobs run, and what they do *)

Succeeded(n) == result[n] = "success"

\* The environments a run is asked to release.
Wanted(r) == {e \in Envs : IF e = "staging" THEN ~r.skipStaging ELSE ~r.skipProduction}

\* The `if:` of production-release.
ProductionMayRelease ==
    Succeeded("build") /\ ~run.skipProduction /\ (Succeeded("staging-smoke") \/ run.skipStaging)

\* The `if:` of every job, all of them under always().
JobWanted(n) ==
    CASE n = "build" -> TRUE
      [] n = "staging-migrate" -> Succeeded("build") /\ ~run.rollback /\ ~run.skipStaging
      [] n = "staging-deploy" ->
            ~run.skipStaging /\ Succeeded("build") /\ (Succeeded("staging-migrate") \/ run.rollback)
      [] n = "staging-smoke" -> Succeeded("staging-deploy")
      [] n = "production-release" -> ProductionMayRelease
      [] n = "release-check" -> TRUE

MigrationSteps == <<"backup", "migrate", "keep">>
ReleaseSteps == <<"label", "up", "await">>

\* Mutant: production keeps its backup when it has migrated, as staging does.
ProductionKeepsLate ==
    (IF run.rollback THEN <<>> ELSE MigrationSteps) \o ReleaseSteps \o <<"smoke">>

ProductionSteps ==
    IF run.rollback THEN <<"label", "up", "await", "smoke">>
    ELSE <<"backup", "keep", "migrate", "label", "up", "await", "smoke">>

StepsOf(n) ==
    CASE n = "build" -> <<"identify">>
      [] n = "staging-migrate" -> MigrationSteps
      [] n = "staging-deploy" -> ReleaseSteps
      [] n = "staging-smoke" -> <<"smoke">>
      [] n = "production-release" -> ProductionSteps
      [] n = "release-check" -> <<"check">>

\* A rollback names a commit its environments have served; operations.md section 9
\* asks for the last good one.
RollbackIsKnown(r) == r.rollback => \A e \in Wanted(r) : \E p \in served : p[1] = e /\ p[2].tree = r.ref

\* The concurrency group lets one run at a time through.
Dispatch(r) ==
    /\ stage \in {0, Len(Jobs) + 1} /\ runs < MaxRuns
    /\ r.ref <= head /\ RollbackIsKnown(r)
    /\ run' = r /\ stage' = 1 /\ runs' = runs + 1
    /\ result' = [n \in JobNames |-> "none"]
    /\ proved' = {}
    /\ UNCHANGED <<head, todo, tree, taken, schema, kept, hosts>>

Current == Jobs[stage]

BeginJob ==
    /\ stage \in 1..Len(Jobs) /\ result[Current] = "none"
    /\ IF JobWanted(Current)
       THEN /\ result' = [result EXCEPT ![Current] = "running"]
            /\ tree' = Checkout(run.ref) /\ todo' = StepsOf(Current) /\ taken' = NoBackup
            /\ UNCHANGED stage
       ELSE /\ result' = [result EXCEPT ![Current] = "skipped"]
            /\ stage' = stage + 1
            /\ UNCHANGED <<tree, todo, taken>>
    /\ UNCHANGED <<head, run, runs, schema, kept, proved, hosts>>

Running == stage \in 1..Len(Jobs) /\ result[Current] = "running"
Env == EnvOf(Current)

Finished(how) ==
    /\ result' = [result EXCEPT ![Current] = how]
    /\ stage' = stage + 1 /\ todo' = <<>>
    /\ UNCHANGED <<head, run, tree, taken, runs>>

\* A step that did its work, with what follows it.
Done ==
    IF Len(todo) = 1 THEN Finished("success")
    ELSE /\ todo' = Tail(todo) /\ UNCHANGED <<head, run, tree, runs, stage, result>>
         /\ Head(todo) # "backup" => UNCHANGED taken

Doing(step) == Running /\ Head(todo) = step

-----------------------------------------------------------------------------
(* What the checks read *)

\* Mutant: the wait and the smoke test ask for the version alone.
ReportsVersion(c, sha) == Version[c.sha] = Version[sha]

Reports(c, sha) == Version[c.sha] = Version[sha] /\ c.sha = sha

Serving(e, sha) == \E c \in answering[e] : Reports(c, sha)

\* The result that says whether an environment was released.
Outcome(e) == IF e = "staging" THEN result["staging-smoke"] ELSE result["production-release"]

\* verifyReleaseHappened: every environment asked for was released.
ReleaseHappened == Wanted(run) # {} /\ \A e \in Wanted(run) : Outcome(e) = "success"

-----------------------------------------------------------------------------
(* The steps *)

\* The commit a run names is the one its build job found.
Identify ==
    /\ Doing("identify")
    /\ run' = [run EXCEPT !.sha = tree]
    /\ result' = [result EXCEPT ![Current] = "success"] /\ stage' = stage + 1 /\ todo' = <<>>
    /\ UNCHANGED <<head, tree, taken, runs, schema, kept, proved, hosts>>

BackUp ==
    /\ Doing("backup") /\ Done
    /\ taken' = schema[Env]
    /\ UNCHANGED <<schema, kept, proved, hosts>>

Keep ==
    /\ Doing("keep") /\ Done
    /\ kept' = [kept EXCEPT ![Env] = @ \cup {taken}]
    /\ UNCHANGED <<schema, proved, hosts>>

\* runMigrations applies what the tree carries and the database has not.
Migrate ==
    /\ Doing("migrate") /\ Done
    /\ schema' = [schema EXCEPT ![Env] = IF @ < Migrations[tree] THEN Migrations[tree] ELSE @]
    /\ UNCHANGED <<kept, proved, hosts>>

Label ==
    /\ Doing("label") /\ Done
    /\ variables' = [variables EXCEPT ![Env] = run.sha]
    /\ UNCHANGED <<schema, kept, proved, answering, coming, served>>

Up ==
    /\ Doing("up") /\ Done
    /\ coming' = [coming EXCEPT ![Env] = {Container(tree, variables[Env])}]
    /\ UNCHANGED <<schema, kept, proved, answering, variables, served>>

\* awaitRelease: some container that answers says it is the released build.
Await ==
    /\ Doing("await") /\ Serving(Env, run.sha) /\ Done
    /\ UNCHANGED <<schema, kept, proved, hosts>>

\* runSmoke reads liveness, readiness and the configuration one after the
\* other, each from whichever container answers; only liveness names a build.
Smoke ==
    /\ Doing("smoke")
    /\ \E live \in answering[Env] :
          /\ Reports(live, run.sha)
          /\ proved' = proved \cup {<<Env, live>>}
    /\ Done
    /\ UNCHANGED <<schema, kept, hosts>>

CheckRelease ==
    /\ Doing("check")
    /\ Finished(IF ReleaseHappened THEN "success" ELSE "failure")
    /\ UNCHANGED <<schema, kept, proved, hosts>>

\* Any step may fail: a host that is not configured, a command that exits
\* with an error, a wait that runs out, a check that finds something else.
Fail ==
    /\ Running /\ Head(todo) # "check"
    /\ Finished("failure")
    /\ UNCHANGED <<schema, kept, proved, hosts>>

\* The platform: a started container passes its health check and answers
\* beside the old one, until the old one is stopped.
TakeOver(e) ==
    /\ coming[e] # {}
    /\ answering' = [answering EXCEPT ![e] = @ \cup coming[e]]
    /\ coming' = [coming EXCEPT ![e] = {}]
    /\ served' = served \cup ({e} \X coming[e])
    /\ UNCHANGED <<head, run, stage, todo, tree, result, taken, variables, schema, kept, proved, runs>>

StopOld(e, c) ==
    /\ c \in answering[e] /\ Cardinality(answering[e]) > 1
    /\ answering' = [answering EXCEPT ![e] = @ \ {c}]
    /\ UNCHANGED <<head, run, stage, todo, tree, result, taken, coming, variables, schema, kept, proved, served, runs>>

\* Somebody merges: main moves to its next commit.
Merge ==
    /\ head + 1 \in Commits
    /\ head' = head + 1
    /\ UNCHANGED <<run, stage, todo, tree, result, taken, schema, kept, proved, runs, hosts>>

JobSteps == Identify \/ BackUp \/ Keep \/ Migrate \/ Label \/ Up \/ Await \/ Smoke \/ CheckRelease \/ Fail

DeployNext ==
    \/ \E r \in Inputs : Dispatch(r)
    \/ BeginJob
    \/ JobSteps
    \/ \E e \in Envs : TakeOver(e) \/ \E c \in answering[e] : StopOld(e, c)
    \/ Merge

\* GitHub schedules every job, and ends every step at its timeout.
DeploySpec == DeployInit /\ [][DeployNext]_deployVars /\ WF_deployVars(BeginJob) /\ WF_deployVars(JobSteps)

-----------------------------------------------------------------------------
(* Properties *)

RunOver == stage = Len(Jobs) + 1
\* GitHub shows a run green when no job of it failed: skipped is not failed.
Green == RunOver /\ \A n \in JobNames : result[n] # "failure"

\* A green run released something: every environment it was asked to release
\* had a container that says it is the commit of the run answer the smoke
\* test, and unless it was a rollback its database has that commit's schema.
GreenMeansServed ==
    Green =>
        /\ Wanted(run) # {}
        /\ \A e \in Wanted(run) :
              /\ \E p \in proved : p[1] = e /\ p[2].sha = run.sha
              /\ run.rollback \/ schema[e] >= Migrations[run.sha]

\* Every container so far was the tree its label names.  A run of a branch
\* that moves while its jobs check it out ends that.
LabelsAreTrue == \A p \in served : p[2].tree = p[2].sha

\* A run of a fixed commit that does not skip staging starts nothing on
\* production whose tree staging did not answer the smoke test with, as long
\* as the labels are true.
RehearsedFirst ==
    [][ LET new == coming'["production"] \ coming["production"]
        IN  LabelsAreTrue /\ run.ref # Main /\ ~run.skipStaging =>
                \A c \in new : \E p \in proved : p[1] = "staging" /\ p[2].tree = c.tree ]_deployVars

\* No code runs on production ahead of its schema, whichever jobs failed,
\* whatever main did meanwhile, and through every rollback.
SchemaLeadsCode ==
    \A c \in answering["production"] \cup coming["production"] : Migrations[c.tree] <= schema["production"]

\* Production's schema changes only with a backup of the old one uploaded.
NothingMigratedUnsaved ==
    [][schema'["production"] # schema["production"] => schema["production"] \in kept["production"]]_deployVars

\* Whatever fails in a run: a green one serves the commit it names on every environment it
\* was asked for, and production never runs code ahead of its schema (ops/release.ts, ops/smoke.ts).
ReleasesServe == GreenMeansServed /\ SchemaLeadsCode

\* Production changes only to what staging has served, with its old schema saved first
\* (deploy.yml, docs/operations.md).
ProductionIsGuarded == RehearsedFirst /\ NothingMigratedUnsaved
=============================================================================
