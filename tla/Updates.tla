------------------------------ MODULE Updates ------------------------------
(***************************************************************************)
(* Desktop releases: administrators publish, pause and promote them        *)
(* (releases/service.ts, routes/releases.ts, repositories/releases.ts),    *)
(* the update endpoint answers what a client should install, and the       *)
(* clients ask, install and restart on their own time                      *)
(* (desktop/update-client.ts, desktop/DesktopUpdates.tsx).                 *)
(*                                                                         *)
(* An administrative request reads, takes the time, and then writes in a   *)
(* transaction: others come between the two.  A client's attempt is a      *)
(* chain of awaits, the player's answer among them.                        *)
(***************************************************************************)
EXTENDS Integers, Sequences, FiniteSets, SequencesExt

CONSTANTS
  Rows,       \* release ids: integers, as the order of ids decides between equal moments
  Uploads,    \* what the build machine has ready: [version |-> <<major, minor, patch>>, targets]
  Clients,    \* the desktops
  Asks,       \* client -> [channel, target]: what it asks for
  First,      \* the version the desktops were delivered with
  Requests,   \* slots for administrative requests in flight
  None,
  MaxRequests,  \* bound on the administrative requests
  MaxTime,      \* bound on the clock
  MaxFailures   \* bound on what goes wrong at the desktops: failures, refusals, restarts

\* What the release form may hold: a version, and a signed bundle for one to three platforms.
Targets == {"darwin-aarch64", "darwin-x86_64", "windows-x86_64"}
Versions == [1..3 -> Nat]
Publishable == [version : Versions, targets : SUBSET Targets \ {{}}]
Channels == {"stable", "beta"}
ReleaseRows ==
  [version : Versions, targets : SUBSET Targets, channel : Channels, paused : BOOLEAN, at : Nat]
Works ==
  [op : {"publish"}, channel : Channels, upload : Uploads, at : Nat]
  \cup [op : {"pause"}, row : Rows, to : BOOLEAN, before : BOOLEAN]
  \cup [op : {"promote"}, row : Rows, at : Nat]

ASSUME RowsAssumption == Rows \subseteq Int /\ None \notin Rows \cup ReleaseRows \cup Works
ASSUME UploadsAssumption == Uploads \subseteq Publishable /\ First \in Versions

VARIABLES
  releases,   \* tables releases and release_artifacts: id -> row or None
  audit,      \* table audit_records, in the order they were committed
  req,        \* request -> what it is doing
  app,        \* client -> the application and what it has on disk
  clock,
  asked,      \* administrative requests so far (bookkeeping)
  failed      \* what went wrong at the desktops so far (bookkeeping)

server == <<releases, audit, req, asked>>
vars == <<server, app, clock, failed>>

Delivered == [version |-> First, row |-> None]
Published == {i \in Rows : releases[i] # None}
Bundles == {Delivered} \cup [version : {u.version : u \in Uploads}, row : Rows]
Stages == {"idle", "checking", "offered", "installing", "relaunching"}

TypeOK ==
  /\ \A i \in Published :
       /\ [version |-> releases[i].version, targets |-> releases[i].targets] \in Uploads
       /\ releases[i].channel \in Channels /\ releases[i].paused \in BOOLEAN
       /\ releases[i].at \in 0..clock
  /\ \A k \in DOMAIN audit : audit[k].row \in Published
  /\ \A c \in Clients : /\ app[c].runs \in Bundles /\ app[c].disk \in Bundles
                        /\ app[c].at \in Stages /\ app[c].running \in BOOLEAN
                        /\ app[c].at # "idle" => app[c].running
                        /\ app[c].at \in {"offered", "installing"} => app[c].offer \in Published

Init ==
  /\ releases = [i \in Rows |-> None] /\ audit = <<>>
  /\ req = [r \in Requests |-> None]
  /\ app = [c \in Clients |-> [runs |-> Delivered, disk |-> Delivered,
                               running |-> FALSE, at |-> "idle", offer |-> None]]
  /\ clock = 0 /\ asked = 0 /\ failed = 0

-----------------------------------------------------------------------------
(* Versions and the manifest.                                              *)

\* Mutant: any other version counts as newer.
AnyOther(left, right) == left # right

\* The first number that differs decides.
IsNewer(left, right) ==
  \E k \in 1..3 : left[k] > right[k] /\ \A j \in 1..(k - 1) : left[j] = right[j]

\* The order of the list: by moment, then by id.
Later(i, j) ==
  \/ releases[i].at > releases[j].at
  \/ releases[i].at = releases[j].at /\ i > j
Offerable(channel) ==
  {i \in Published : releases[i].channel = channel /\ ~releases[i].paused}
IsLatest(i, channel) ==
  i \in Offerable(channel) /\ \A j \in Offerable(channel) \ {i} : Later(i, j)

\* What a client should install.  A latest release without a bundle for the platform
\* hides the ones before it.
Manifest(channel, target, current) ==
  {i \in Published : /\ IsLatest(i, channel)
                     /\ target \in releases[i].targets
                     /\ IsNewer(releases[i].version, current)}

-----------------------------------------------------------------------------
(* The administrators.                                                     *)

Begin(r, work) ==
  /\ req[r] = None /\ asked < MaxRequests
  /\ req' = [req EXCEPT ![r] = work] /\ asked' = asked + 1
  /\ UNCHANGED <<releases, audit, app, clock, failed>>
Finish(r) == req' = [req EXCEPT ![r] = None] /\ UNCHANGED <<asked, app, clock, failed>>
Working(r, op) == req[r] # None /\ req[r].op = op
Record(action, i, before, after) ==
  audit' = Append(audit, [action |-> action, row |-> i, before |-> before, after |-> after])

Exists(channel, version) ==
  \E i \in Published : releases[i].channel = channel /\ releases[i].version = version

\* releases_channel_version_key: the statement fails, and with it the transaction.
Conflicts(i, channel, version) ==
  \E j \in Published \ {i} : releases[j].channel = channel /\ releases[j].version = version

BeginPublish(r, channel, upload) ==
  /\ ~Exists(channel, upload.version)
  /\ Begin(r, [op |-> "publish", channel |-> channel, upload |-> upload, at |-> clock])

CommitPublish(r) ==
  /\ Working(r, "publish")
  /\ \E i \in Rows \ Published :
       LET row == [version |-> req[r].upload.version, targets |-> req[r].upload.targets,
                   channel |-> req[r].channel, paused |-> FALSE, at |-> req[r].at]
       IN  IF Conflicts(i, row.channel, row.version)
             THEN UNCHANGED <<releases, audit>>
             ELSE /\ releases' = [releases EXCEPT ![i] = row]
                  /\ Record("published", i, None, row.channel)
  /\ Finish(r)

BeginSetPaused(r, i, paused) ==
  /\ i \in Published
  /\ Begin(r, [op |-> "pause", row |-> i, to |-> paused, before |-> releases[i].paused])

SetPaused(i, before, paused) ==
  /\ releases' = [releases EXCEPT ![i].paused = paused]
  /\ Record(IF paused THEN "paused" ELSE "resumed", i, before, paused)

CommitSetPaused(r) ==
  /\ Working(r, "pause")
  /\ SetPaused(req[r].row, req[r].before, req[r].to)
  /\ Finish(r)

BeginPromote(r, i) ==
  /\ i \in Published /\ releases[i].channel # "stable"
  /\ Begin(r, [op |-> "promote", row |-> i, at |-> clock])

\* The moment is the one taken before the transaction, so a release published
\* meanwhile stays the newer one.
CommitPromote(r) ==
  /\ Working(r, "promote")
  /\ LET i == req[r].row IN
       IF Conflicts(i, "stable", releases[i].version)
         THEN UNCHANGED <<releases, audit>>
         ELSE /\ releases' = [releases EXCEPT ![i].channel = "stable", ![i].at = req[r].at]
              /\ Record("promoted", i, "beta", "stable")
  /\ Finish(r)

-----------------------------------------------------------------------------
(* The clients.                                                            *)

At(c, stage) == app[c].at = stage
GoesWrong == failed < MaxFailures /\ failed' = failed + 1

\* The end of an attempt, however it went.
Over(a) == [a EXCEPT !.at = "idle", !.running = FALSE, !.offer = None]

\* On start and every six hours; an attempt that still waits is the only one.
CheckNow(c) ==
  /\ ~app[c].running
  /\ app' = [app EXCEPT ![c].running = TRUE, ![c].at = "checking"]
  /\ UNCHANGED <<server, clock, failed>>

Checked(c) ==
  /\ At(c, "checking")
  /\ LET found == Manifest(Asks[c].channel, Asks[c].target, app[c].runs.version) IN
       \/ /\ found = {}
          /\ app' = [app EXCEPT ![c] = Over(@)]
       \/ \E i \in found : app' = [app EXCEPT ![c].at = "offered", ![c].offer = i]
  /\ UNCHANGED <<server, clock, failed>>

CheckFails(c) ==
  /\ At(c, "checking")
  /\ app' = [app EXCEPT ![c] = Over(@)]
  /\ GoesWrong /\ UNCHANGED <<server, clock>>

Decline(c) ==
  /\ At(c, "offered")
  /\ app' = [app EXCEPT ![c] = Over(@)]
  /\ GoesWrong /\ UNCHANGED <<server, clock>>

Agree(c) ==
  /\ At(c, "offered")
  /\ app' = [app EXCEPT ![c].at = "installing"]
  /\ UNCHANGED <<server, clock, failed>>

\* The bundle the manifest named replaces what is on disk, all at once.
Install(c) ==
  /\ At(c, "installing")
  /\ app' = [app EXCEPT ![c].at = "relaunching",
       ![c].disk = [version |-> releases[app[c].offer].version, row |-> app[c].offer]]
  /\ UNCHANGED <<server, clock, failed>>

\* Mutant: the flag is left up when the installation fails.
StillRunning(a) == [a EXCEPT !.at = "idle", !.offer = None]

AfterFailure(a) == Over(a)

InstallFails(c) ==
  /\ At(c, "installing")
  /\ app' = [app EXCEPT ![c] = AfterFailure(@)]
  /\ GoesWrong /\ UNCHANGED <<server, clock>>

Relaunch(c) ==
  /\ At(c, "relaunching")
  /\ app' = [app EXCEPT ![c] = [Over(@) EXCEPT !.runs = app[c].disk]]
  /\ UNCHANGED <<server, clock, failed>>

\* The old version goes on running over the new one on disk.
RelaunchFails(c) ==
  /\ At(c, "relaunching")
  /\ app' = [app EXCEPT ![c] = AfterFailure(@)]
  /\ GoesWrong /\ UNCHANGED <<server, clock>>

\* The player closes the window whatever the attempt is doing, and starts again what
\* is on disk.
Restart(c) ==
  /\ app' = [app EXCEPT ![c] = [Over(@) EXCEPT !.runs = app[c].disk]]
  /\ GoesWrong /\ UNCHANGED <<server, clock>>

-----------------------------------------------------------------------------
Tick == clock < MaxTime /\ clock' = clock + 1 /\ UNCHANGED <<server, app, failed>>

Administer(r) ==
  \/ \E channel \in Channels, u \in Uploads : BeginPublish(r, channel, u)
  \/ \E i \in Rows, paused \in BOOLEAN : BeginSetPaused(r, i, paused)
  \/ \E i \in Rows : BeginPromote(r, i)
  \/ CommitPublish(r) \/ CommitSetPaused(r) \/ CommitPromote(r)

Update(c) ==
  \/ CheckNow(c) \/ Checked(c) \/ CheckFails(c) \/ Decline(c) \/ Agree(c)
  \/ Install(c) \/ InstallFails(c) \/ Relaunch(c) \/ RelaunchFails(c)
  \/ Restart(c)

Next == Tick \/ (\E r \in Requests : Administer(r)) \/ (\E c \in Clients : Update(c))

\* The timer fires, the server answers, the player agrees, an installation ends and a
\* restart happens, each some time: what may go wrong instead does so boundedly often.
Fairness ==
  \A c \in Clients :
    WF_vars(CheckNow(c) \/ Checked(c) \/ Agree(c) \/ Install(c) \/ Relaunch(c))

Spec == Init /\ [][Next]_vars /\ Fairness

-----------------------------------------------------------------------------
(* Properties.                                                             *)

\* No desktop is ever taken back to an older version, although an older beta may be
\* promoted over a newer release, a newer one paused while its offer waits for the
\* player, and a restart fail after an installation: isNewerVersion is asked of what
\* runs, and what is on disk is what an offer put there.
NeverOlder ==
  [][\A c \in Clients : ~IsNewer(app[c].runs.version, app'[c].runs.version)]_vars

\* The audit tells the table: whether a release is paused and the channel it is on are
\* what its last records of each kind say, whichever requests overlapped, and a
\* release without a record of its publication does not exist.
Tells(k, i, actions) == audit[k].row = i /\ audit[k].action \in actions
\* The last record of these kinds about a release, if there is one.
LastWord(i, actions) ==
  {k \in DOMAIN audit : /\ Tells(k, i, actions)
                        /\ \A j \in DOMAIN audit : j > k => ~Tells(j, i, actions)}
AuditReplays ==
  \A i \in Rows :
    /\ i \in Published <=> \E k \in DOMAIN audit : Tells(k, i, {"published"})
    /\ \A j, k \in DOMAIN audit : Tells(j, i, {"published"}) /\ Tells(k, i, {"published"}) => j = k
    /\ i \in Published =>
         /\ \E k \in LastWord(i, {"published", "promoted"}) : releases[i].channel = audit[k].after
         /\ releases[i].paused <=> \E k \in LastWord(i, {"paused", "resumed"}) : audit[k].after = TRUE

\* A desktop does not stay behind: whatever failed or was declined, it
\* asks again, so that there is again and again nothing it should install.
Behind(c) ==
  Manifest(Asks[c].channel, Asks[c].target, app[c].runs.version) # {}
CatchesUp == \A c \in Clients : []<>~Behind(c)
=============================================================================
