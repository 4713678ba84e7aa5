--------------------------- MODULE DesktopRelease ---------------------------
(***************************************************************************)
(* The desktop release workflow (.github/workflows/desktop-release.yml,    *)
(* cli/desktop-release.ts, ops/desktop-release.ts) over the releases, the  *)
(* administrators and the desktops of Updates.  A run builds a version,    *)
(* publishes it to the staged channel, asks the update endpoint what an    *)
(* older client would be offered on every platform it built, waits for a   *)
(* reviewer, and promotes the version to stable.  It reaches the releases  *)
(* only through the administrative requests, other administrators work at  *)
(* the same time, and it may fail between any two steps.                   *)
(***************************************************************************)
EXTENDS Updates

CONSTANTS
  Runs,   \* runs of the workflow, each of them also the slot of its one request
  Built   \* run -> the upload its bundle jobs made

ASSUME RunsAssumption == Runs \subseteq Requests /\ \A w \in Runs : Built[w] \in Uploads

\* Runs of one tag come one after the other; a run started by hand is in another group.
VARIABLE job   \* run -> how far it is, the row it published, what it asked, what it moved

releaseVars == <<vars, job>>
Steps == {"publish", "posting", "check", "approval", "promote", "listed", "promoting", "green", "red"}

\* The channel a tagged build enters, and the one the bundle jobs write into every
\* application they build.
ReleaseChannel == "beta"
\* The version of the imagined client that asks.
OldClient == <<0, 0, 1>>

ReleaseTypeOK ==
  /\ TypeOK
  /\ \A w \in Runs :
       /\ job[w].at \in Steps
       /\ job[w].row \in Published \cup {None} /\ job[w].moved \in Published \cup {None}
       /\ job[w].found \in Published \cup {None}
       /\ job[w].left \subseteq Built[w].targets
       /\ job[w].at \in {"posting", "promoting"} <=> req[w] # None

ReleaseInit ==
  /\ Init
  /\ job = [w \in Runs |-> [at |-> "publish", row |-> None, left |-> Built[w].targets,
                            answers |-> {}, found |-> None, moved |-> None]]

-----------------------------------------------------------------------------
Reach(w, step) == [job EXCEPT ![w].at = step]
Standing(w, step) == job[w].at = step

\* The POST: refused when the channel holds the version.
Publish(w) ==
  /\ Standing(w, "publish")
  /\ \/ /\ BeginPublish(w, ReleaseChannel, Built[w])
        /\ job' = Reach(w, "posting")
     \/ /\ Exists(ReleaseChannel, Built[w].version)
        /\ job' = Reach(w, "red") /\ UNCHANGED vars

\* Another request may have taken the version between its two halves.
PublishAnswered(w) ==
  /\ Standing(w, "posting")
  /\ CommitPublish(w)
  /\ job' = IF audit' = audit
              THEN Reach(w, "red")
              ELSE [job EXCEPT ![w].at = "check", ![w].row = Last(audit').row]

\* Mutant: an empty answer is a success, as it is to fetch.
AnyAnswer(w, offered) == \A i \in offered : releases[i].version = Built[w].version
\* One platform's question: an empty answer or another version fails the run.
Answered(w, offered) == \E i \in offered : releases[i].version = Built[w].version

Check(w) ==
  /\ Standing(w, "check")
  /\ \E target \in job[w].left :
       LET offered == Manifest(ReleaseChannel, target, OldClient)
           rest == job[w].left \ {target}
       IN  job' = IF Answered(w, offered)
                    THEN [job EXCEPT
                           ![w].left = rest,
                           ![w].at = IF rest = {} THEN "approval" ELSE "check",
                           ![w].answers = @ \cup {[target |-> target, row |-> i] : i \in offered}]
                    ELSE Reach(w, "red")
  /\ UNCHANGED vars

\* A human decides that the staged channel ran clean.
Approve(w) ==
  /\ Standing(w, "approval")
  /\ job' = Reach(w, "promote") /\ UNCHANGED vars

\* The first of the list that has the version, whichever channel it is on.
Found(w) ==
  {i \in Published :
     /\ releases[i].version = Built[w].version
     /\ \A j \in Published \ {i} : releases[j].version = Built[w].version => Later(i, j)}

\* Already on stable is success; nothing with the version is a failure.
List(w) ==
  /\ Standing(w, "promote")
  /\ \/ /\ Found(w) = {}
        /\ job' = Reach(w, "red")
     \/ \E i \in Found(w) :
          job' = IF releases[i].channel = "stable"
                   THEN Reach(w, "green")
                   ELSE [job EXCEPT ![w].at = "listed", ![w].found = i]
  /\ UNCHANGED vars

\* The service reads the release again and refuses one that is stable by now.
Promote(w) ==
  /\ Standing(w, "listed")
  /\ \/ /\ BeginPromote(w, job[w].found)
        /\ job' = Reach(w, "promoting")
     \/ /\ releases[job[w].found].channel = "stable"
        /\ job' = Reach(w, "red") /\ UNCHANGED vars

Promoted(w) ==
  /\ Standing(w, "promoting")
  /\ CommitPromote(w)
  /\ job' = IF audit' = audit
              THEN Reach(w, "red")
              ELSE [job EXCEPT ![w].at = "green", ![w].moved = req[w].row]

Workflow(w) ==
  \/ Publish(w) \/ PublishAnswered(w) \/ Check(w)
  \/ Approve(w) \/ List(w) \/ Promote(w) \/ Promoted(w)

ReleaseNext ==
  \/ \E w \in Runs : Workflow(w)
  \/ /\ \/ Tick
        \/ \E r \in Requests \ Runs : Administer(r)
        \/ \E c \in Clients : Update(c)
     /\ UNCHANGED job

\* The workflow has no fairness: a job may fail and a reviewer never answer.
ReleaseSpec == ReleaseInit /\ [][ReleaseNext]_releaseVars /\ Fairness

-----------------------------------------------------------------------------
(* Properties.                                                             *)

\* What a run moves to stable is the release that run recorded, and the endpoint had
\* offered that very release to an older client of every platform it was built for
\* (docs/operations.md: what beta tested is what stable receives): although the
\* promotion looks for a version in a list, two runs may build one version, and an
\* administrator may promote or pause any release in between.
TestedIsPromoted ==
  \A w \in Runs :
    job[w].moved # None =>
      /\ job[w].moved = job[w].row
      /\ \A target \in releases[job[w].row].targets :
           [target |-> target, row |-> job[w].row] \in job[w].answers

\* A promoted release reaches everybody (docs/adr/0034): again and again no desktop
\* is older than what the stable channel offers for its platform.
ReachesEverybody ==
  \A c \in Clients : []<>(Manifest("stable", Asks[c].target, app[c].runs.version) = {})

\* What the release workflow leaves in the table is what was tested, and the audit says
\* how it came there (releases/service.ts, desktop-release.yml).
ReleasesAreTested == ReleaseTypeOK /\ AuditReplays /\ TestedIsPromoted
=============================================================================
