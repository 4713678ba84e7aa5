--------------------------- MODULE ReleaseProofs ---------------------------
(***************************************************************************)
(* Proofs about what is released: the releases and the desktops of Updates *)
(* with the workflow of DesktopRelease, the deployments of Deployment, and *)
(* the archives of Backup.  The three share no state, and each part below  *)
(* has an invariant of its own.                                            *)
(***************************************************************************)
EXTENDS DesktopRelease, Deployment, Backup, SequenceTheorems, TLAPS

-----------------------------------------------------------------------------
(* Versions and the audit                                                  *)

LEMMA NewerIsOneWay ==
  \A a, b \in Versions : IsNewer(a, b) => ~IsNewer(b, a)
<1> SUFFICES ASSUME NEW a \in Versions, NEW b \in Versions, IsNewer(a, b), IsNewer(b, a)
             PROVE  FALSE
  OBVIOUS
<1>1. \A k \in 1..3 : a[k] \in Nat /\ b[k] \in Nat
  BY DEF Versions
<1>2. PICK k \in 1..3 : a[k] > b[k] /\ \A j \in 1..(k - 1) : a[j] = b[j]
  BY DEF IsNewer
<1>3. PICK l \in 1..3 : b[l] > a[l] /\ \A j \in 1..(l - 1) : b[j] = a[j]
  BY DEF IsNewer
<1>4. k \in Int /\ l \in Int /\ 1 <= k /\ 1 <= l
  OBVIOUS
<1>5. CASE k < l
  <2>1. k \in 1..(l - 1)
    BY <1>4, <1>5
  <2>2. b[k] = a[k] /\ a[k] \in Nat
    BY <1>1, <1>3, <2>1
  <2> QED
    BY <1>2, <2>2
<1>6. CASE l < k
  <2>1. l \in 1..(k - 1)
    BY <1>4, <1>6
  <2>2. a[l] = b[l] /\ a[l] \in Nat
    BY <1>1, <1>2, <2>1
  <2> QED
    BY <1>3, <2>2
<1>7. CASE k = l
  <2>1. a[k] \in Nat /\ b[k] \in Nat
    BY <1>1, <1>2, Zenon
  <2> QED
    BY <1>2, <1>3, <1>7, <2>1
<1> QED
  BY <1>4, <1>5, <1>6, <1>7

AuditActions == {"published", "paused", "resumed", "promoted"}
AuditRows == [action : AuditActions, row : Rows,
              before : Channels \cup BOOLEAN \cup {None}, after : Channels \cup BOOLEAN]

\* A new record is the last word about its release and its kind, and about nothing else.
LEMMA NewRecordIsLast ==
  ASSUME audit \in Seq(AuditRows), NEW record \in AuditRows, audit' = Append(audit, record)
  PROVE  /\ audit' \in Seq(AuditRows) /\ audit' # audit /\ Last(audit') = record
         /\ DOMAIN audit = 1..Len(audit) /\ DOMAIN audit' = 1..(Len(audit) + 1) /\ Len(audit) \in Nat
         /\ \A k \in DOMAIN audit : audit'[k] = audit[k]
         /\ audit'[Len(audit) + 1] = record
         /\ \A i, actions :
              LastWord(i, actions)' = IF record.row = i /\ record.action \in actions
                                        THEN {Len(audit) + 1} ELSE LastWord(i, actions)
<1> DEFINE n == Len(audit) + 1
<1>0. Len(audit) \in Nat
  OBVIOUS
<1>1. DOMAIN audit = 1..Len(audit)
  OBVIOUS
<1>2. /\ audit' \in Seq(AuditRows) /\ Len(audit') = n
      /\ \A k \in 1..Len(audit) : audit'[k] = audit[k]
      /\ audit'[n] = record
  BY AppendProperties
<1>3. DOMAIN audit' = 1..n
  BY <1>2
<1>4. n \in Nat /\ n = Len(audit) + 1
  BY <1>0
<1> HIDE DEF n
<1>5. /\ n # Len(audit) /\ n \in 1..n
      /\ \A k \in 1..n : k \in 1..Len(audit) \/ k = n
      /\ \A k \in 1..Len(audit) : k \in 1..n /\ k < n /\ k \in Nat
  BY ONLY <1>0, <1>4
<1>8. Last(audit') = record
  BY <1>2 DEF Last
<1>6. ASSUME NEW i, NEW actions
      PROVE  LastWord(i, actions)' = IF record.row = i /\ record.action \in actions
                                       THEN {n} ELSE LastWord(i, actions)
  <2> DEFINE told(k) == audit[k].row = i /\ audit[k].action \in actions
             tells(k) == audit'[k].row = i /\ audit'[k].action \in actions
  <2>1. \A k \in 1..Len(audit) : tells(k) <=> told(k)
    BY <1>2
  <2>2. tells(n) <=> record.row = i /\ record.action \in actions
    BY <1>2
  <2>3. LastWord(i, actions)' = {k \in 1..n : tells(k) /\ \A j \in 1..n : j > k => ~tells(j)}
    BY <1>3 DEF LastWord, Tells
  <2>4. LastWord(i, actions) =
          {k \in 1..Len(audit) : told(k) /\ \A j \in 1..Len(audit) : j > k => ~told(j)}
    BY <1>1 DEF LastWord, Tells
  <2> HIDE DEF told, tells
  <2>5. CASE tells(n)
    <3>1. LastWord(i, actions)' = {n}
      BY <1>5, <2>3, <2>5
    <3> QED
      BY <2>2, <2>5, <3>1
  <2>6. CASE ~tells(n)
    <3>1. LastWord(i, actions)' = LastWord(i, actions)
      BY <1>5, <2>1, <2>3, <2>4, <2>6
    <3> QED
      BY <2>2, <2>6, <3>1
  <2> QED
    BY <2>5, <2>6
<1>7. audit' # audit
  BY <1>2, <1>5
<1> QED
  BY <1>0, <1>1, <1>2, <1>3, <1>4, <1>6, <1>7, <1>8

-----------------------------------------------------------------------------
(* The releases and the desktops: the invariant                            *)

Apps == [runs : Bundles, disk : Bundles, running : BOOLEAN, at : Stages, offer : Rows \cup {None}]

\* An offer names a release that exists and that is newer than what runs; what is on
\* disk came from such an offer.
AppOK(a) ==
  /\ a \in Apps
  /\ a.at # "idle" => a.running
  /\ ~IsNewer(a.runs.version, a.disk.version)
  /\ a.at \in {"offered", "installing"} =>
       a.offer \in Published /\ IsNewer(releases[a.offer].version, a.runs.version)

\* A request in flight is about a release that exists, and its moment has come.
WorkOK(work) ==
  /\ work \in Works
  /\ work.op \in {"pause", "promote"} => work.row \in Published
  /\ work.op \in {"publish", "promote"} => work.at <= clock

RowOK(row) ==
  /\ row \in ReleaseRows
  /\ [version |-> row.version, targets |-> row.targets] \in Uploads
  /\ row.at <= clock

UpdatesTyped ==
  /\ releases \in [Rows -> ReleaseRows \cup {None}] /\ audit \in Seq(AuditRows)
  /\ req \in [Requests -> Works \cup {None}] /\ app \in [Clients -> Apps] /\ clock \in Nat
RowsAreSound == \A i \in Published : RowOK(releases[i])
KeysAreUnique ==
  \A i, j \in Published :
    releases[i].channel = releases[j].channel /\ releases[i].version = releases[j].version => i = j
AuditIsOfRows == \A k \in DOMAIN audit : audit[k].row \in Published
RequestsAreSound == \A r \in Requests : req[r] # None => WorkOK(req[r])
AppsAreSound == \A c \in Clients : AppOK(app[c])

UpdatesInduction ==
  /\ UpdatesTyped /\ RowsAreSound /\ KeysAreUnique /\ AuditIsOfRows /\ AuditReplays
  /\ RequestsAreSound /\ AppsAreSound

\* What the server never takes back.
Grows ==
  \A i \in Published :
    /\ i \in Published'
    /\ releases'[i].version = releases[i].version /\ releases'[i].targets = releases[i].targets
    /\ releases[i].channel = "stable" => releases'[i].channel = "stable"

LEMMA BundlesHaveVersions ==
  /\ \A b \in Bundles : b.version \in Versions
  /\ Delivered \in Bundles
  /\ \A u \in Uploads, i \in Rows : [version |-> u.version, row |-> i] \in Bundles
  /\ \A u \in Uploads : u.version \in Versions /\ u.targets \in SUBSET Targets
BY UploadsAssumption DEF Bundles, Delivered, Publishable

LEMMA KindsOfRequests ==
  ASSUME NEW work \in Works
  PROVE  /\ work # None
         /\ work.op \in {"publish", "pause", "promote"}
         /\ work.op = "publish" => /\ work.channel \in Channels /\ work.upload \in Uploads
                                   /\ work.at \in Nat
         /\ work.op = "pause" => work.row \in Rows /\ work.to \in BOOLEAN /\ work.before \in BOOLEAN
         /\ work.op = "promote" => work.row \in Rows /\ work.at \in Nat
BY RowsAssumption DEF Works

-----------------------------------------------------------------------------
(* The releases and the desktops: every step keeps the invariant           *)

LEMMA PublishedIsInRows == Published \subseteq Rows
BY DEF Published

\* Nothing an offer or a request is about is ever taken back.
LEMMA AppGoesOn ==
  ASSUME Grows, NEW a, AppOK(a)
  PROVE  AppOK(a)'
BY DEF AppOK, Grows

LEMMA WorkGoesOn ==
  ASSUME Grows, clock \in Nat, clock' \in Nat, clock <= clock', NEW work, WorkOK(work)
  PROVE  WorkOK(work)'
<1>1. work.op \in {"publish", "promote"} => work.at \in Nat
  BY KindsOfRequests DEF WorkOK
<1> QED
  BY <1>1 DEF WorkOK, Grows

LEMMA RequestsGoOn ==
  ASSUME UpdatesInduction, Grows, clock' \in Nat, clock <= clock',
         NEW r \in Requests, NEW work, work # None => WorkOK(work),
         req' = [req EXCEPT ![r] = work]
  PROVE  req' \in [Requests -> Works \cup {None}] /\ RequestsAreSound'
<1>1. work \in Works \cup {None}
  BY DEF WorkOK
<1>2. /\ req' \in [Requests -> Works \cup {None}]
      /\ \A q \in Requests : req'[q] = IF q = r THEN work ELSE req[q]
  BY <1>1 DEF UpdatesInduction, UpdatesTyped
<1>4. \A v : WorkOK(v) => WorkOK(v)'
  BY WorkGoesOn DEF UpdatesInduction, UpdatesTyped
<1>5. ASSUME NEW q \in Requests, req'[q] # None PROVE \E v : v = req'[q] /\ WorkOK(v)
  BY <1>2, <1>5 DEF UpdatesInduction, RequestsAreSound
<1>6. ASSUME NEW q \in Requests, req'[q] # None PROVE WorkOK(req[q])'
  BY <1>4, <1>5, <1>6 DEF WorkOK
<1> QED
  BY <1>2, <1>6 DEF RequestsAreSound

\* What the table and its audit say stands as long as nobody writes them.
LEMMA TablesStand ==
  ASSUME UpdatesInduction, UNCHANGED <<releases, audit>>, clock' \in Nat, clock <= clock'
  PROVE  /\ RowsAreSound' /\ KeysAreUnique' /\ AuditIsOfRows' /\ AuditReplays'
         /\ Published' = Published /\ Grows
<1>1. Published' = Published
  BY DEF Published
<1>2. \A i \in Published : releases[i].at \in Nat
  BY DEF UpdatesInduction, RowsAreSound, RowOK, ReleaseRows
<1>3. RowsAreSound'
  BY <1>1, <1>2 DEF UpdatesInduction, UpdatesTyped, RowsAreSound, RowOK
<1>4. KeysAreUnique' /\ AuditIsOfRows' /\ Grows
  BY <1>1 DEF UpdatesInduction, KeysAreUnique, AuditIsOfRows, Grows
<1>5. AuditReplays'
  BY <1>1 DEF UpdatesInduction, AuditReplays, LastWord, Tells
<1> QED
  BY <1>1, <1>3, <1>4, <1>5

LEMMA BeginKeeps ==
  ASSUME UpdatesInduction, NEW r \in Requests, NEW work, Begin(r, work), WorkOK(work)
  PROVE  UpdatesInduction' /\ Grows
<1>1. UNCHANGED <<releases, audit, app, clock>> /\ req' = [req EXCEPT ![r] = work]
  BY DEF Begin
<1>2. clock \in Nat /\ clock' \in Nat /\ clock <= clock'
  BY <1>1 DEF UpdatesInduction, UpdatesTyped
<1>3. RowsAreSound' /\ KeysAreUnique' /\ AuditIsOfRows' /\ AuditReplays' /\ Grows
  BY <1>1, <1>2, TablesStand
<1>4. req' \in [Requests -> Works \cup {None}] /\ RequestsAreSound'
  BY <1>1, <1>2, <1>3, RequestsGoOn
<1>5. AppsAreSound'
  BY <1>1, <1>3, AppGoesOn DEF UpdatesInduction, AppsAreSound
<1>6. UpdatesTyped'
  BY <1>1, <1>4 DEF UpdatesInduction, UpdatesTyped
<1> QED
  BY <1>3, <1>4, <1>5, <1>6 DEF UpdatesInduction

TellsIn(log, k, i, actions) == log[k].row = i /\ log[k].action \in actions

\* A transaction that writes one row and the record that says so.
LEMMA WrittenIsAudited ==
  ASSUME UpdatesInduction, NEW i \in Rows, NEW row \in ReleaseRows, NEW record \in AuditRows,
         releases' = [releases EXCEPT ![i] = row], audit' = Append(audit, record), record.row = i,
         record.action = "published" <=> i \notin Published,
         record.action \in {"published", "promoted"} =>
           record.after = row.channel /\ (row.paused <=> i \in Published /\ releases[i].paused),
         record.action \in {"paused", "resumed"} =>
           row.channel = releases[i].channel /\ (row.paused <=> record.after = TRUE)
  PROVE  /\ AuditReplays' /\ AuditIsOfRows'
         /\ Published' = Published \cup {i} /\ releases'[i] = row
         /\ \A j \in Rows \ {i} : releases'[j] = releases[j]
<1> DEFINE n == Len(audit) + 1
<1>1. releases'[i] = row /\ \A j \in Rows \ {i} : releases'[j] = releases[j]
  BY DEF UpdatesInduction, UpdatesTyped
<1>2. row # None
  BY RowsAssumption
<1>3. Published' = Published \cup {i}
  BY <1>1, <1>2 DEF Published
<1>4. /\ DOMAIN audit = 1..Len(audit) /\ DOMAIN audit' = 1..n /\ Len(audit) \in Nat
      /\ \A k \in DOMAIN audit : audit'[k] = audit[k]
      /\ audit'[n] = record
      /\ \A j, actions : LastWord(j, actions)' = IF i = j /\ record.action \in actions
                                                  THEN {n} ELSE LastWord(j, actions)
  BY NewRecordIsLast DEF UpdatesInduction, UpdatesTyped
<1>5. \A k \in DOMAIN audit' : k \in DOMAIN audit \/ k = n
  BY <1>4
<1>6. n \in DOMAIN audit' /\ \A k \in DOMAIN audit : k \in DOMAIN audit'
  BY <1>4
<1> HIDE DEF n
<1>7. AuditIsOfRows'
  BY <1>3, <1>4, <1>5 DEF UpdatesInduction, AuditIsOfRows
<1>8. ASSUME NEW j \in Rows, NEW actions
      PROVE  /\ \A k \in DOMAIN audit : TellsIn(audit', k, j, actions) <=> Tells(k, j, actions)
             /\ TellsIn(audit', n, j, actions) <=> i = j /\ record.action \in actions
             /\ \A k \in LastWord(j, actions) : k \in DOMAIN audit
  <2>1. \A k \in DOMAIN audit : TellsIn(audit', k, j, actions) <=> Tells(k, j, actions)
    BY <1>4 DEF Tells, TellsIn
  <2>2. TellsIn(audit', n, j, actions) <=> i = j /\ record.action \in actions
    BY <1>4 DEF TellsIn
  <2> QED
    BY <2>1, <2>2 DEF LastWord
<1>9. \A k \in DOMAIN audit : \A actions : Tells(k, i, actions) => i \in Published
  BY DEF UpdatesInduction, AuditIsOfRows, Tells
<1>10. ASSUME NEW j \in Rows
       PROVE  j \in Published' <=> \E k \in DOMAIN audit' : TellsIn(audit', k, j, {"published"})
  <2>1. j \in Published <=> \E k \in DOMAIN audit : Tells(k, j, {"published"})
    BY DEF UpdatesInduction, AuditReplays
  <2>2. (\E k \in DOMAIN audit' : TellsIn(audit', k, j, {"published"}))
          <=> (i = j /\ i \notin Published) \/ \E k \in DOMAIN audit : Tells(k, j, {"published"})
    <3>1. /\ \A k \in DOMAIN audit : TellsIn(audit', k, j, {"published"}) <=> Tells(k, j, {"published"})
          /\ TellsIn(audit', n, j, {"published"}) <=> i = j /\ i \notin Published
      BY <1>8
    <3> QED
      BY <1>5, <1>6, <3>1, Zenon
  <2>3. j \in Published' <=> j \in Published \/ i = j
    BY <1>3
  <2> QED
    BY <2>1, <2>2, <2>3
<1>11. ASSUME NEW j \in Rows, NEW k \in DOMAIN audit', NEW l \in DOMAIN audit',
              TellsIn(audit', k, j, {"published"}), TellsIn(audit', l, j, {"published"})
       PROVE  k = l
  <2>1. \A h \in DOMAIN audit : Tells(h, j, {"published"}) =>
          j \in Published /\ \A g \in DOMAIN audit : Tells(g, j, {"published"}) => g = h
    BY DEF UpdatesInduction, AuditReplays
  <2>2. (k = n \/ Tells(k, j, {"published"})) /\ (l = n \/ Tells(l, j, {"published"}))
    BY <1>5, <1>8, <1>11
  <2>3. k = n \/ l = n => i = j /\ record.action = "published"
    BY <1>8, <1>11
  <2> QED
    BY <1>5, <2>1, <2>2, <2>3
<1>12. ASSUME NEW j \in Published'
       PROVE  /\ \E k \in LastWord(j, {"published", "promoted"})' : releases'[j].channel = audit'[k].after
              /\ releases'[j].paused <=>
                   \E k \in LastWord(j, {"paused", "resumed"})' : audit'[k].after = TRUE
  <2>1. j \in Rows /\ (j # i => j \in Published)
    BY <1>3, PublishedIsInRows
  <2>2. j \in Published =>
          /\ \E k \in LastWord(j, {"published", "promoted"}) : releases[j].channel = audit[k].after
          /\ releases[j].paused <=> \E k \in LastWord(j, {"paused", "resumed"}) : audit[k].after = TRUE
    BY <2>1 DEF UpdatesInduction, AuditReplays
  <2>3. CASE j # i
    <3>1. /\ LastWord(j, {"published", "promoted"})' = LastWord(j, {"published", "promoted"})
          /\ LastWord(j, {"paused", "resumed"})' = LastWord(j, {"paused", "resumed"})
      BY <1>4, <2>3
    <3>2. /\ \A k \in LastWord(j, {"published", "promoted"}) : audit'[k] = audit[k]
          /\ \A k \in LastWord(j, {"paused", "resumed"}) : audit'[k] = audit[k]
      BY <1>4, <1>8, <2>1
    <3> QED
      BY <1>1, <2>1, <2>2, <2>3, <3>1, <3>2
  <2>4. CASE j = i /\ record.action \in {"published", "promoted"}
    <3>1. /\ LastWord(i, {"published", "promoted"})' = {n}
          /\ LastWord(i, {"paused", "resumed"})' = LastWord(i, {"paused", "resumed"})
      BY <1>4, <2>4
    <3>2. \A k \in LastWord(i, {"paused", "resumed"}) : audit'[k] = audit[k] /\ i \in Published
      <4>1. \A k \in LastWord(i, {"paused", "resumed"}) : Tells(k, i, {"paused", "resumed"})
        BY DEF LastWord
      <4> QED
        BY <1>4, <1>8, <1>9, <4>1
    <3>3. releases'[i].channel = audit'[n].after
      BY <1>1, <1>4, <2>4
    <3>4. row.paused <=> \E k \in LastWord(i, {"paused", "resumed"}) : audit'[k].after = TRUE
      BY <2>2, <2>4, <3>2
    <3> QED
      BY <1>1, <2>4, <3>1, <3>3, <3>4
  <2>5. CASE j = i /\ record.action \in {"paused", "resumed"}
    <3>1. /\ LastWord(i, {"published", "promoted"})' = LastWord(i, {"published", "promoted"})
          /\ LastWord(i, {"paused", "resumed"})' = {n}
      BY <1>4, <2>5
    <3>2. i \in Published
      BY <2>5
    <3>3. \A k \in LastWord(i, {"published", "promoted"}) : audit'[k] = audit[k]
      BY <1>4, <1>8
    <3>4. releases'[i].paused <=> audit'[n].after = TRUE
      BY <1>1, <1>4, <2>5
    <3>5. releases'[i].channel = releases[i].channel
      BY <1>1, <2>5
    <3>6. \E k \in LastWord(i, {"published", "promoted"}) : releases'[i].channel = audit'[k].after
      BY <2>2, <2>5, <3>2, <3>3, <3>5
    <3> QED
      BY <2>5, <3>1, <3>4, <3>6
  <2> QED
    BY <2>3, <2>4, <2>5 DEF AuditRows, AuditActions
<1>13. AuditReplays'
  BY <1>10, <1>11, <1>12, ZenonT(60) DEF AuditReplays, Tells, TellsIn
<1> QED
  BY <1>1, <1>3, <1>7, <1>13

\* Such a transaction keeps everything else, if it keeps the channels' versions apart.
LEMMA WrittenKeeps ==
  ASSUME UpdatesInduction, NEW i \in Rows, NEW row, RowOK(row), NEW record \in AuditRows, NEW r \in Requests,
         releases' = [releases EXCEPT ![i] = row], audit' = Append(audit, record),
         AuditReplays', AuditIsOfRows', Finish(r),
         i \in Published => /\ row.version = releases[i].version /\ row.targets = releases[i].targets
                            /\ releases[i].channel = "stable" => row.channel = "stable",
         \A j \in Published \ {i} :
           ~(releases[j].channel = row.channel /\ releases[j].version = row.version)
  PROVE  UpdatesInduction' /\ Grows
<1>1. row \in ReleaseRows /\ row # None
  BY RowsAssumption DEF RowOK
<1>2. /\ releases' \in [Rows -> ReleaseRows \cup {None}] /\ releases'[i] = row
      /\ \A j \in Rows \ {i} : releases'[j] = releases[j]
  BY <1>1 DEF UpdatesInduction, UpdatesTyped
<1>3. /\ req' = [req EXCEPT ![r] = None] /\ UNCHANGED <<app, clock>>
  BY DEF Finish
<1>4. clock \in Nat /\ clock' \in Nat /\ clock <= clock'
  BY <1>3 DEF UpdatesInduction, UpdatesTyped
<1>5. Published' = Published \cup {i}
  BY <1>1, <1>2 DEF Published
<1>6. Grows
  BY <1>2, <1>5, PublishedIsInRows DEF Grows
<1>7. RowsAreSound'
  BY <1>2, <1>3, <1>5, PublishedIsInRows DEF UpdatesInduction, RowsAreSound, RowOK
<1>8. KeysAreUnique'
  BY <1>2, <1>5, PublishedIsInRows DEF UpdatesInduction, KeysAreUnique
<1>9. req' \in [Requests -> Works \cup {None}] /\ RequestsAreSound'
  BY <1>3, <1>4, <1>6, RequestsGoOn
<1>10. AppsAreSound'
  BY <1>3, <1>6, AppGoesOn DEF UpdatesInduction, AppsAreSound
<1>11. audit' \in Seq(AuditRows)
  BY NewRecordIsLast DEF UpdatesInduction, UpdatesTyped
<1>12. UpdatesTyped'
  BY <1>2, <1>3, <1>9, <1>11 DEF UpdatesInduction, UpdatesTyped
<1> QED
  BY <1>6, <1>7, <1>8, <1>9, <1>10, <1>12 DEF UpdatesInduction

\* A request that is refused leaves the tables as they are.
LEMMA RefusalKeeps ==
  ASSUME UpdatesInduction, NEW r \in Requests, UNCHANGED <<releases, audit>>, Finish(r)
  PROVE  UpdatesInduction' /\ Grows
<1>1. req' = [req EXCEPT ![r] = None] /\ UNCHANGED <<app, clock>>
  BY DEF Finish
<1>2. clock \in Nat /\ clock' \in Nat /\ clock <= clock'
  BY <1>1 DEF UpdatesInduction, UpdatesTyped
<1>3. RowsAreSound' /\ KeysAreUnique' /\ AuditIsOfRows' /\ AuditReplays' /\ Grows
  BY <1>2, TablesStand
<1>4. req' \in [Requests -> Works \cup {None}] /\ RequestsAreSound'
  BY <1>1, <1>2, <1>3, RequestsGoOn
<1>5. AppsAreSound'
  BY <1>1, <1>3, AppGoesOn DEF UpdatesInduction, AppsAreSound
<1>6. UpdatesTyped'
  BY <1>1, <1>4 DEF UpdatesInduction, UpdatesTyped
<1> QED
  BY <1>3, <1>4, <1>5, <1>6 DEF UpdatesInduction

LEMMA WorkIsSound ==
  ASSUME UpdatesInduction, NEW r \in Requests, NEW op, Working(r, op)
  PROVE  WorkOK(req[r]) /\ req[r] \in Works /\ req[r].op = op
BY DEF UpdatesInduction, UpdatesTyped, RequestsAreSound, Working, WorkOK

\* A publication leaves the tables as they are, or writes what was asked for into a row
\* that was free.
LEMMA PublishKeeps ==
  ASSUME UpdatesInduction, NEW r \in Requests, CommitPublish(r)
  PROVE  /\ UpdatesInduction' /\ Grows
         /\ audit' # audit => LET i == Last(audit').row IN
              /\ i \in Published' /\ releases'[i].version = req[r].upload.version
              /\ releases'[i].targets = req[r].upload.targets
<1> DEFINE row == [version |-> req[r].upload.version, targets |-> req[r].upload.targets,
                   channel |-> req[r].channel, paused |-> FALSE, at |-> req[r].at]
<1>1. Finish(r) /\ WorkOK(req[r]) /\ req[r] \in Works /\ req[r].op = "publish"
  BY WorkIsSound DEF CommitPublish
<1>2. /\ req[r].channel \in Channels /\ req[r].upload \in Uploads /\ req[r].at \in Nat
      /\ req[r].at <= clock
  BY <1>1, KindsOfRequests DEF WorkOK
<1>3. req[r].upload \in [version : Versions, targets : SUBSET Targets \ {{}}]
  BY <1>2, UploadsAssumption DEF Publishable
<1>4. RowOK(row)
  <2>1. [version |-> row.version, targets |-> row.targets] = req[r].upload
    BY <1>3
  <2> QED
    BY <1>2, <1>3, <2>1 DEF RowOK, ReleaseRows
<1>5. PICK i \in Rows \ Published :
        IF Conflicts(i, row.channel, row.version)
          THEN UNCHANGED <<releases, audit>>
          ELSE /\ releases' = [releases EXCEPT ![i] = row]
               /\ Record("published", i, None, row.channel)
  BY DEF CommitPublish
<1>6. row.channel \in Channels /\ row.paused = FALSE /\ row.version = req[r].upload.version
      /\ row.targets = req[r].upload.targets
  BY <1>2
<1> HIDE DEF row
<1>7. CASE Conflicts(i, row.channel, row.version)
  BY <1>1, <1>5, <1>7, RefusalKeeps
<1>8. CASE ~Conflicts(i, row.channel, row.version)
  <2> DEFINE record == [action |-> "published", row |-> i, before |-> None, after |-> row.channel]
  <2>1. releases' = [releases EXCEPT ![i] = row] /\ audit' = Append(audit, record)
    BY <1>5, <1>8 DEF Record
  <2>2. record \in AuditRows /\ record.row = i /\ record.action = "published" /\ record.after = row.channel
    BY <1>6 DEF AuditRows, AuditActions
  <2> HIDE DEF record
  <2>3. row \in ReleaseRows
    BY <1>4 DEF RowOK
  <2>4. AuditReplays' /\ AuditIsOfRows' /\ Published' = Published \cup {i} /\ releases'[i] = row
    BY <1>5, <1>6, <2>1, <2>2, <2>3, WrittenIsAudited
  <2>5. \A j \in Published \ {i} :
          ~(releases[j].channel = row.channel /\ releases[j].version = row.version)
    BY <1>8 DEF Conflicts
  <2>6. UpdatesInduction' /\ Grows
    BY <1>1, <1>4, <1>5, <2>1, <2>2, <2>4, <2>5, WrittenKeeps
  <2>7. Last(audit') = record
    BY <2>1, <2>2, NewRecordIsLast DEF UpdatesInduction, UpdatesTyped
  <2> QED
    BY <1>6, <2>2, <2>4, <2>6, <2>7
<1> QED
  BY <1>7, <1>8

LEMMA SetPausedKeeps ==
  ASSUME UpdatesInduction, NEW r \in Requests, CommitSetPaused(r)
  PROVE  UpdatesInduction' /\ Grows
<1> DEFINE i == req[r].row
           row == [releases[i] EXCEPT !.paused = req[r].to]
           record == [action |-> IF req[r].to THEN "paused" ELSE "resumed", row |-> i,
                      before |-> req[r].before, after |-> req[r].to]
<1>1. Finish(r) /\ WorkOK(req[r]) /\ req[r] \in Works /\ req[r].op = "pause"
  BY WorkIsSound DEF CommitSetPaused
<1>2. i \in Published /\ i \in Rows /\ req[r].to \in BOOLEAN /\ req[r].before \in BOOLEAN
  BY <1>1, KindsOfRequests DEF WorkOK
<1>3. releases' = [releases EXCEPT ![i] = row] /\ audit' = Append(audit, record)
  BY <1>2 DEF CommitSetPaused, SetPaused, Record, UpdatesInduction, UpdatesTyped
<1>4. RowOK(releases[i]) /\ releases[i] \in ReleaseRows
  BY <1>2 DEF UpdatesInduction, RowsAreSound, RowOK
<1>5. /\ row \in ReleaseRows /\ row.version = releases[i].version /\ row.targets = releases[i].targets
      /\ row.channel = releases[i].channel /\ row.at = releases[i].at /\ row.paused = req[r].to
  BY <1>2, <1>4 DEF ReleaseRows
<1>6. /\ record \in AuditRows /\ record.row = i /\ record.action \in {"paused", "resumed"}
      /\ record.after = req[r].to
  BY <1>2 DEF AuditRows, AuditActions
<1> HIDE DEF i, row, record
<1>7. RowOK(row)
  BY <1>4, <1>5 DEF RowOK
<1>8. AuditReplays' /\ AuditIsOfRows'
  <2>1. row.paused <=> record.after = TRUE
    BY <1>2, <1>5, <1>6
  <2>2. record.action # "published" /\ record.action \notin {"published", "promoted"}
    BY <1>6
  <2> QED
    BY <1>2, <1>3, <1>5, <1>6, <2>1, <2>2, WrittenIsAudited
<1>9. \A j \in Published \ {i} :
        ~(releases[j].channel = row.channel /\ releases[j].version = row.version)
  BY <1>2, <1>5 DEF UpdatesInduction, KeysAreUnique
<1>10. releases[i].channel = "stable" => row.channel = "stable"
  BY <1>5
<1>11. record \in AuditRows
  BY <1>6
<1> QED
  BY <1>1, <1>2, <1>3, <1>5, <1>7, <1>8, <1>9, <1>10, <1>11, WrittenKeeps

\* A promotion leaves the tables as they are, or puts the release on stable, where no
\* other row has its version.
LEMMA PromoteKeeps ==
  ASSUME UpdatesInduction, NEW r \in Requests, CommitPromote(r)
  PROVE  /\ UpdatesInduction' /\ Grows
         /\ audit' # audit => ~Conflicts(req[r].row, "stable", releases[req[r].row].version)
<1> DEFINE i == req[r].row
           row == [releases[i] EXCEPT !.channel = "stable", !.at = req[r].at]
           record == [action |-> "promoted", row |-> i, before |-> "beta", after |-> "stable"]
<1>1. Finish(r) /\ WorkOK(req[r]) /\ req[r] \in Works /\ req[r].op = "promote"
  BY WorkIsSound DEF CommitPromote
<1>2. i \in Published /\ i \in Rows /\ req[r].at \in Nat /\ req[r].at <= clock
  BY <1>1, KindsOfRequests DEF WorkOK
<1>3. IF Conflicts(i, "stable", releases[i].version)
        THEN UNCHANGED <<releases, audit>>
        ELSE releases' = [releases EXCEPT ![i] = row] /\ audit' = Append(audit, record)
  BY <1>2 DEF CommitPromote, Record, UpdatesInduction, UpdatesTyped
<1>4. RowOK(releases[i]) /\ releases[i] \in ReleaseRows
  BY <1>2 DEF UpdatesInduction, RowsAreSound, RowOK
<1>5. /\ row \in ReleaseRows /\ row.version = releases[i].version /\ row.targets = releases[i].targets
      /\ row.channel = "stable" /\ row.at = req[r].at /\ row.paused = releases[i].paused
  BY <1>2, <1>4 DEF ReleaseRows, Channels
<1>6. /\ record \in AuditRows /\ record.row = i /\ record.action = "promoted"
      /\ record.after = "stable"
  BY <1>2 DEF AuditRows, AuditActions, Channels
<1> HIDE DEF i, row, record
<1>7. RowOK(row)
  BY <1>2, <1>4, <1>5 DEF RowOK
<1>8. CASE Conflicts(i, "stable", releases[i].version)
  BY <1>1, <1>3, <1>8, RefusalKeeps
<1>9. CASE ~Conflicts(i, "stable", releases[i].version)
  <2>1. releases' = [releases EXCEPT ![i] = row] /\ audit' = Append(audit, record)
    BY <1>3, <1>9
  <2>2. AuditReplays' /\ AuditIsOfRows'
    BY <1>2, <1>5, <1>6, <2>1, WrittenIsAudited
  <2>3. \A j \in Published \ {i} :
          ~(releases[j].channel = row.channel /\ releases[j].version = row.version)
    BY <1>5, <1>9 DEF Conflicts
  <2>4. UpdatesInduction' /\ Grows
    BY <1>1, <1>2, <1>5, <1>6, <1>7, <2>1, <2>2, <2>3, WrittenKeeps
  <2> QED
    BY <1>9, <2>4 DEF i
<1> QED
  BY <1>8, <1>9

-----------------------------------------------------------------------------
(* The desktops' steps                                                     *)

AppsGoForward == \A c \in Clients : ~IsNewer(app[c].runs.version, app'[c].runs.version)

LEMMA AppMoves ==
  ASSUME UpdatesInduction, NEW c \in Clients, NEW a, AppOK(a),
         app' = [app EXCEPT ![c] = a], UNCHANGED <<releases, audit, req, clock>>,
         a.runs = app[c].runs \/ a.runs = app[c].disk
  PROVE  UpdatesInduction' /\ Grows /\ AppsGoForward
<1>1. clock \in Nat /\ clock' \in Nat /\ clock <= clock'
  BY DEF UpdatesInduction, UpdatesTyped
<1>2. RowsAreSound' /\ KeysAreUnique' /\ AuditIsOfRows' /\ AuditReplays' /\ Published' = Published /\ Grows
  BY <1>1, TablesStand
<1>3. a \in Apps
  BY DEF AppOK
<1>4. app' \in [Clients -> Apps] /\ \A d \in Clients : app'[d] = IF d = c THEN a ELSE app[d]
  BY <1>3 DEF UpdatesInduction, UpdatesTyped
<1>5. UpdatesTyped'
  BY <1>4 DEF UpdatesInduction, UpdatesTyped
<1>6. RequestsAreSound'
  BY <1>2 DEF UpdatesInduction, RequestsAreSound, WorkOK
<1>7. AppsAreSound'
  BY <1>2, <1>4, AppGoesOn DEF UpdatesInduction, AppsAreSound, AppOK
<1>8. ASSUME NEW d \in Clients PROVE ~IsNewer(app[d].runs.version, app'[d].runs.version)
  <2>1. AppOK(app[d])
    BY DEF UpdatesInduction, AppsAreSound
  <2>2. app[d].runs.version \in Versions
    BY <2>1, BundlesHaveVersions DEF AppOK, Apps
  <2>3. ~IsNewer(app[d].runs.version, app[d].runs.version)
    BY <2>2, NewerIsOneWay
  <2> QED
    BY <1>4, <2>1, <2>3 DEF AppOK
<1> QED
  BY <1>2, <1>5, <1>6, <1>7, <1>8 DEF UpdatesInduction, AppsGoForward

\* An attempt that ends keeps the application, and one that ends in a restart starts
\* what is on disk.
LEMMA OverIsSound ==
  ASSUME NEW a, AppOK(a)
  PROVE  /\ AppOK(Over(a)) /\ Over(a).runs = a.runs
         /\ AppOK([Over(a) EXCEPT !.runs = a.disk]) /\ [Over(a) EXCEPT !.runs = a.disk].runs = a.disk
<1> DEFINE over == Over(a)
           restarted == [Over(a) EXCEPT !.runs = a.disk]
<1>1. a \in Apps /\ ~IsNewer(a.runs.version, a.disk.version)
  BY DEF AppOK
<1>2. /\ over \in Apps /\ over.runs = a.runs /\ over.disk = a.disk /\ over.at = "idle"
      /\ restarted \in Apps /\ restarted.runs = a.disk /\ restarted.disk = a.disk /\ restarted.at = "idle"
  BY <1>1 DEF Over, Apps, Stages
<1> HIDE DEF over, restarted
<1>3. a.disk.version \in Versions
  BY <1>1, BundlesHaveVersions DEF Apps
<1>4. ~IsNewer(a.disk.version, a.disk.version)
  BY <1>3, NewerIsOneWay
<1>5. AppOK(over) /\ AppOK(restarted)
  BY <1>1, <1>2, <1>4 DEF AppOK
<1> QED
  BY <1>2, <1>5 DEF over, restarted

\* What a manifest offers exists, and is newer than what asked.
LEMMA ManifestIsNewer ==
  ASSUME NEW channel, NEW target, NEW current, NEW i \in Manifest(channel, target, current)
  PROVE  /\ i \in Published /\ IsNewer(releases[i].version, current)
         /\ releases[i].channel = channel
BY DEF Manifest, IsLatest, Offerable

LEMMA ClientKeeps ==
  ASSUME UpdatesInduction, NEW c \in Clients, Update(c)
  PROVE  UpdatesInduction' /\ Grows /\ AppsGoForward
<1> DEFINE a == app[c]
<1>1. AppOK(a) /\ a \in Apps /\ app \in [Clients -> Apps]
  BY DEF UpdatesInduction, UpdatesTyped, AppsAreSound
<1>2. UNCHANGED <<releases, audit, req, clock>>
  BY DEF Update, CheckNow, Checked, CheckFails, Decline, Agree, Install, InstallFails, Relaunch,
         RelaunchFails, Restart, server
<1>3. SUFFICES \E b : AppOK(b) /\ app' = [app EXCEPT ![c] = b] /\ (b.runs = a.runs \/ b.runs = a.disk)
  BY <1>2, <1>3, AppMoves
<1>4. /\ AppOK(Over(a)) /\ Over(a).runs = a.runs
      /\ AppOK([Over(a) EXCEPT !.runs = a.disk]) /\ [Over(a) EXCEPT !.runs = a.disk].runs = a.disk
  BY <1>1, OverIsSound
<1>5. CASE CheckNow(c)
  <2> DEFINE b == [a EXCEPT !.running = TRUE, !.at = "checking"]
  <2>1. app' = [app EXCEPT ![c] = b]
    BY <1>1, <1>5 DEF CheckNow
  <2>2. AppOK(b) /\ b.runs = a.runs
    BY <1>1 DEF AppOK, Apps, Stages
  <2> QED
    BY <2>1, <2>2
<1>6. CASE Checked(c)
  <2>1. CASE app' = [app EXCEPT ![c] = Over(a)]
    BY <1>4, <2>1
  <2>2. ASSUME NEW i \in Manifest(Asks[c].channel, Asks[c].target, a.runs.version),
               app' = [app EXCEPT ![c].at = "offered", ![c].offer = i]
        PROVE  \E b : AppOK(b) /\ app' = [app EXCEPT ![c] = b] /\ (b.runs = a.runs \/ b.runs = a.disk)
    <3> DEFINE b == [a EXCEPT !.at = "offered", !.offer = i]
    <3>1. app' = [app EXCEPT ![c] = b]
      BY <1>1, <2>2
    <3>2. i \in Published /\ i \in Rows /\ IsNewer(releases[i].version, a.runs.version)
      BY ManifestIsNewer, PublishedIsInRows
    <3>3. a.at = "checking" /\ a.running
      BY <1>1, <1>6 DEF Checked, At, AppOK
    <3>4. /\ b \in Apps /\ b.runs = a.runs /\ b.disk = a.disk /\ b.running /\ b.offer = i
      BY <1>1, <3>2, <3>3 DEF Apps, Stages
    <3> HIDE DEF b
    <3>5. AppOK(b)
      BY <1>1, <3>2, <3>4 DEF AppOK
    <3> QED
      BY <3>1, <3>4, <3>5
  <2> QED
    BY <1>6, <2>1, <2>2 DEF Checked
<1>7. CASE CheckFails(c) \/ Decline(c) \/ InstallFails(c) \/ RelaunchFails(c)
  <2>1. app' = [app EXCEPT ![c] = Over(a)]
    BY <1>7 DEF CheckFails, Decline, InstallFails, RelaunchFails, AfterFailure
  <2> QED
    BY <1>4, <2>1
<1>8. CASE Agree(c)
  <2> DEFINE b == [a EXCEPT !.at = "installing"]
  <2>1. app' = [app EXCEPT ![c] = b] /\ a.at = "offered"
    BY <1>1, <1>8 DEF Agree, At
  <2>2. b \in Apps /\ b.runs = a.runs /\ b.disk = a.disk /\ b.running = a.running /\ b.offer = a.offer
    BY <1>1 DEF Apps, Stages
  <2> HIDE DEF b
  <2>3. AppOK(b)
    BY <1>1, <2>1, <2>2 DEF AppOK
  <2> QED
    BY <2>1, <2>2, <2>3
<1>9. CASE Install(c)
  <2> DEFINE bundle == [version |-> releases[a.offer].version, row |-> a.offer]
             b == [a EXCEPT !.at = "relaunching", !.disk = bundle]
  <2>1. app' = [app EXCEPT ![c] = b] /\ a.at = "installing"
    BY <1>1, <1>9 DEF Install, At
  <2>2. a.offer \in Published /\ IsNewer(releases[a.offer].version, a.runs.version)
    BY <1>1, <2>1 DEF AppOK
  <2>3. RowOK(releases[a.offer]) /\ a.offer \in Rows
    BY <2>2, PublishedIsInRows DEF UpdatesInduction, RowsAreSound
  <2>4. bundle \in Bundles /\ bundle.version \in Versions /\ bundle.version = releases[a.offer].version
    <3> DEFINE u == [version |-> releases[a.offer].version, targets |-> releases[a.offer].targets]
    <3>1. u \in Uploads /\ u.version = releases[a.offer].version
      BY <2>3 DEF RowOK
    <3> QED
      BY <2>3, <3>1, BundlesHaveVersions
  <2> HIDE DEF bundle
  <2>5. b \in Apps /\ b.runs = a.runs /\ b.disk = bundle /\ b.running = a.running /\ b.at = "relaunching"
    BY <1>1, <2>4 DEF Apps, Stages
  <2>6. a.runs.version \in Versions
    BY <1>1, BundlesHaveVersions DEF Apps
  <2>7. ~IsNewer(a.runs.version, bundle.version)
    BY <2>2, <2>4, <2>6, NewerIsOneWay
  <2> HIDE DEF b
  <2>8. AppOK(b)
    BY <1>1, <2>1, <2>5, <2>7 DEF AppOK
  <2> QED
    BY <2>1, <2>5, <2>8
<1>10. CASE Relaunch(c) \/ Restart(c)
  <2>1. app' = [app EXCEPT ![c] = [Over(a) EXCEPT !.runs = a.disk]]
    BY <1>10 DEF Relaunch, Restart
  <2> QED
    BY <1>4, <2>1
<1> QED
  BY <1>5, <1>6, <1>7, <1>8, <1>9, <1>10 DEF Update

-----------------------------------------------------------------------------
(* The other steps                                                         *)

LEMMA TickKeeps ==
  ASSUME UpdatesInduction, Tick
  PROVE  UpdatesInduction' /\ Grows
<1>1. UNCHANGED <<releases, audit, req, app>> /\ clock \in Nat /\ clock' \in Nat /\ clock <= clock'
  BY DEF Tick, server, UpdatesInduction, UpdatesTyped
<1>2. RowsAreSound' /\ KeysAreUnique' /\ AuditIsOfRows' /\ AuditReplays' /\ Grows
  BY <1>1, TablesStand
<1>3. RequestsAreSound'
  BY <1>1, <1>2, WorkGoesOn DEF UpdatesInduction, RequestsAreSound
<1>4. AppsAreSound'
  BY <1>1, <1>2, AppGoesOn DEF UpdatesInduction, AppsAreSound
<1>5. UpdatesTyped'
  BY <1>1 DEF UpdatesInduction, UpdatesTyped
<1> QED
  BY <1>2, <1>3, <1>4, <1>5 DEF UpdatesInduction

LEMMA StandingStillKeeps ==
  ASSUME UpdatesInduction, UNCHANGED <<releases, audit, req, app, clock>>
  PROVE  UpdatesInduction' /\ Grows
<1>1. clock \in Nat /\ clock' \in Nat /\ clock <= clock'
  BY DEF UpdatesInduction, UpdatesTyped
<1>2. RowsAreSound' /\ KeysAreUnique' /\ AuditIsOfRows' /\ AuditReplays' /\ Grows
  BY <1>1, TablesStand
<1>3. RequestsAreSound'
  BY <1>1, <1>2, WorkGoesOn DEF UpdatesInduction, RequestsAreSound
<1>4. AppsAreSound'
  BY <1>1, <1>2, AppGoesOn DEF UpdatesInduction, AppsAreSound
<1>5. UpdatesTyped'
  BY <1>1 DEF UpdatesInduction, UpdatesTyped
<1> QED
  BY <1>2, <1>3, <1>4, <1>5 DEF UpdatesInduction

LEMMA AdministerKeeps ==
  ASSUME UpdatesInduction, NEW r \in Requests, Administer(r)
  PROVE  UpdatesInduction' /\ Grows /\ app' = app /\ \E v : req' = [req EXCEPT ![r] = v]
<1>1. ASSUME NEW channel \in Channels, NEW u \in Uploads, BeginPublish(r, channel, u)
      PROVE  UpdatesInduction' /\ Grows /\ app' = app /\ \E v : req' = [req EXCEPT ![r] = v]
  <2> DEFINE work == [op |-> "publish", channel |-> channel, upload |-> u, at |-> clock]
  <2>1. Begin(r, work)
    BY <1>1 DEF BeginPublish
  <2>2. WorkOK(work)
    BY DEF WorkOK, Works, UpdatesInduction, UpdatesTyped
  <2> HIDE DEF work
  <2> QED
    BY <2>1, <2>2, BeginKeeps DEF Begin
<1>2. ASSUME NEW i \in Rows, NEW paused \in BOOLEAN, BeginSetPaused(r, i, paused)
      PROVE  UpdatesInduction' /\ Grows /\ app' = app /\ \E v : req' = [req EXCEPT ![r] = v]
  <2> DEFINE work == [op |-> "pause", row |-> i, to |-> paused, before |-> releases[i].paused]
  <2>1. Begin(r, work) /\ i \in Published
    BY <1>2 DEF BeginSetPaused
  <2>2. releases[i].paused \in BOOLEAN
    BY <2>1 DEF UpdatesInduction, RowsAreSound, RowOK, ReleaseRows
  <2>3. WorkOK(work)
    BY <2>1, <2>2 DEF WorkOK, Works
  <2> HIDE DEF work
  <2> QED
    BY <2>1, <2>3, BeginKeeps DEF Begin
<1>3. ASSUME NEW i \in Rows, BeginPromote(r, i)
      PROVE  UpdatesInduction' /\ Grows /\ app' = app /\ \E v : req' = [req EXCEPT ![r] = v]
  <2> DEFINE work == [op |-> "promote", row |-> i, at |-> clock]
  <2>1. Begin(r, work) /\ i \in Published
    BY <1>3 DEF BeginPromote
  <2>2. WorkOK(work)
    BY <2>1 DEF WorkOK, Works, UpdatesInduction, UpdatesTyped
  <2> HIDE DEF work
  <2> QED
    BY <2>1, <2>2, BeginKeeps DEF Begin
<1>4. CASE CommitPublish(r) \/ CommitSetPaused(r) \/ CommitPromote(r)
  <2>1. app' = app /\ req' = [req EXCEPT ![r] = None]
    BY <1>4 DEF CommitPublish, CommitSetPaused, CommitPromote, Finish
  <2> QED
    BY <1>4, <2>1, PublishKeeps, SetPausedKeeps, PromoteKeeps
<1> QED
  BY <1>1, <1>2, <1>3, <1>4 DEF Administer

LEMMA UpdatesStart ==
  ASSUME Init
  PROVE  UpdatesInduction
<1>1. Published = {} /\ audit = <<>> /\ clock = 0 /\ DOMAIN audit = {}
  BY DEF Init, Published
<1>2. app \in [Clients -> Apps] /\ \A c \in Clients : AppOK(app[c])
  <2> DEFINE a == [runs |-> Delivered, disk |-> Delivered, running |-> FALSE, at |-> "idle", offer |-> None]
  <2>1. a \in Apps /\ a.runs = Delivered /\ a.disk = Delivered /\ a.at = "idle"
    BY BundlesHaveVersions DEF Apps, Stages
  <2>2. ~IsNewer(Delivered.version, Delivered.version)
    BY BundlesHaveVersions, NewerIsOneWay
  <2>3. app = [c \in Clients |-> a]
    BY DEF Init
  <2> HIDE DEF a
  <2> QED
    BY <2>1, <2>2, <2>3 DEF AppOK
<1>3. UpdatesTyped
  <2>1. <<>> \in Seq(AuditRows)
    OBVIOUS
  <2>2. /\ releases = [i \in Rows |-> None] /\ audit = <<>> /\ clock = 0
        /\ req = [r \in Requests |-> None]
    BY DEF Init
  <2> QED
    BY <1>2, <2>1, <2>2 DEF UpdatesTyped
<1>4. RowsAreSound /\ KeysAreUnique /\ AuditIsOfRows
  BY <1>1 DEF RowsAreSound, KeysAreUnique, AuditIsOfRows
<1>5. AuditReplays
  BY <1>1 DEF AuditReplays
<1>6. RequestsAreSound
  BY DEF Init, RequestsAreSound
<1> QED
  BY <1>2, <1>3, <1>4, <1>5, <1>6 DEF UpdatesInduction, AppsAreSound

-----------------------------------------------------------------------------
(* The workflow: its invariant                                             *)

JobRows == [at : Steps, row : Rows \cup {None}, left : SUBSET Targets,
            answers : SUBSET [target : Targets, row : Rows],
            found : Rows \cup {None}, moved : Rows \cup {None}]

\* The endpoint named the run's release to every platform.
AllAnswered(w) ==
  \A target \in Built[w].targets : [target |-> target, row |-> job[w].row] \in job[w].answers
OnStable(w) == releases[job[w].row].channel = "stable"

\* The release a run recorded is what it built; who asked was answered with it, unless it
\* is on stable by now.
RowIsBuilt(w) ==
  LET row == job[w].row IN
    row # None =>
      /\ row \in Published
      /\ releases[row].version = Built[w].version /\ releases[row].targets = Built[w].targets
      /\ \A target \in Built[w].targets \ job[w].left :
           [target |-> target, row |-> row] \in job[w].answers \/ OnStable(w)

\* What the run found in the list is the release it recorded, tested, or that one is on
\* stable and this one cannot follow it there.
FoundIsRow(w) ==
  LET found == job[w].found IN
    found # None =>
      /\ found \in Published /\ job[w].row # None
      /\ releases[found].version = Built[w].version
      /\ \/ found = job[w].row /\ AllAnswered(w)
         \/ found # job[w].row /\ OnStable(w)

\* How far a run is, what it holds and the request it has in flight.
StepsAgree(w) ==
  LET j == job[w] IN
    /\ j.at \in {"posting", "promoting"} <=> req[w] # None
    /\ j.at = "posting" => req[w].op = "publish" /\ req[w].upload = Built[w]
                             /\ req[w].channel = ReleaseChannel
    /\ j.at = "promoting" => req[w].op = "promote" /\ req[w].row = j.found /\ j.found # None
    /\ j.at \in {"publish", "posting"} => j.row = None /\ j.left = Built[w].targets
    /\ j.at \in {"publish", "posting", "check", "approval", "promote"} => j.found = None
    /\ j.at \in {"check", "approval", "promote", "listed", "promoting"} => j.row # None
    /\ j.at \in {"approval", "promote", "listed", "promoting"} => j.left = {}
    /\ j.at = "listed" => j.found # None
    /\ j.left \subseteq Built[w].targets

MovedIsRow(w) ==
  job[w].moved # None => job[w].moved = job[w].row /\ job[w].row # None /\ AllAnswered(w)

JobOK(w) == RowIsBuilt(w) /\ FoundIsRow(w) /\ StepsAgree(w) /\ MovedIsRow(w)

ReleaseInduction ==
  UpdatesInduction /\ job \in [Runs -> JobRows] /\ \A w \in Runs : JobOK(w)

-----------------------------------------------------------------------------
(* The workflow: every step keeps its invariant                            *)

LEMMA RunsAreRequests ==
  ASSUME NEW w \in Runs
  PROVE  w \in Requests /\ Built[w] \in Uploads /\ Built[w].targets \subseteq Targets
BY RunsAssumption, BundlesHaveVersions

\* What others do to the tables leaves a run as sound as it was.
LEMMA JobGoesOn ==
  ASSUME Grows, NEW w \in Runs, JobOK(w), job'[w] = job[w], req'[w] = req[w]
  PROVE  JobOK(w)'
<1>1. RowIsBuilt(w)'
  BY DEF JobOK, RowIsBuilt, OnStable, Grows
<1>2. FoundIsRow(w)'
  BY DEF JobOK, FoundIsRow, RowIsBuilt, OnStable, AllAnswered, Grows
<1>3. StepsAgree(w)'
  BY DEF JobOK, StepsAgree
<1>4. MovedIsRow(w)'
  BY DEF JobOK, MovedIsRow, AllAnswered
<1> QED
  BY <1>1, <1>2, <1>3, <1>4 DEF JobOK

\* A step of one run: the others keep what they have.
LEMMA JobMoves ==
  ASSUME ReleaseInduction, NEW w \in Runs, NEW j \in JobRows, job' = [job EXCEPT ![w] = j],
         NEW v, req' = [req EXCEPT ![w] = v] \/ req' = req, UpdatesInduction', Grows, JobOK(w)'
  PROVE  ReleaseInduction'
<1>1. job' \in [Runs -> JobRows] /\ \A u \in Runs \ {w} : job'[u] = job[u]
  BY DEF ReleaseInduction
<1>2. \A u \in Runs \ {w} : req'[u] = req[u]
  BY RunsAssumption DEF ReleaseInduction, UpdatesInduction, UpdatesTyped
<1>3. \A u \in Runs \ {w} : JobOK(u)'
  BY <1>1, <1>2, JobGoesOn DEF ReleaseInduction
<1> QED
  BY <1>1, <1>3 DEF ReleaseInduction

\* A run that fails asks for nothing any more and keeps what it has.
LEMMA RedIsSound ==
  ASSUME ReleaseInduction, NEW w \in Runs, NEW step \in {"red", "green"},
         job' = Reach(w, step), Grows, req'[w] = None
  PROVE  JobOK(w)' /\ \E j \in JobRows : job' = [job EXCEPT ![w] = j]
<1> DEFINE j == [job[w] EXCEPT !.at = step]
<1>1. job[w] \in JobRows /\ JobOK(w)
  BY DEF ReleaseInduction
<1>2. /\ j \in JobRows /\ j.at = step /\ j.row = job[w].row /\ j.left = job[w].left
      /\ j.answers = job[w].answers /\ j.found = job[w].found /\ j.moved = job[w].moved
  BY <1>1 DEF JobRows, Steps
<1>3. job' = [job EXCEPT ![w] = j] /\ job'[w] = j
  BY DEF Reach, ReleaseInduction
<1> HIDE DEF j
<1>4. RowIsBuilt(w)'
  BY <1>1, <1>2, <1>3 DEF JobOK, RowIsBuilt, OnStable, Grows
<1>5. FoundIsRow(w)'
  BY <1>1, <1>2, <1>3 DEF JobOK, FoundIsRow, RowIsBuilt, OnStable, AllAnswered, Grows
<1>6. StepsAgree(w)'
  BY <1>1, <1>2, <1>3 DEF JobOK, StepsAgree
<1>7. MovedIsRow(w)'
  BY <1>1, <1>2, <1>3 DEF JobOK, MovedIsRow, AllAnswered
<1> QED
  BY <1>2, <1>3, <1>4, <1>5, <1>6, <1>7 DEF JobOK

LEMMA PublishingKeeps ==
  ASSUME ReleaseInduction, NEW w \in Runs, Publish(w)
  PROVE  ReleaseInduction' /\ app' = app
<1>1. w \in Requests /\ job[w] \in JobRows /\ JobOK(w) /\ job[w].at = "publish"
  BY RunsAreRequests DEF Publish, Standing, ReleaseInduction
<1>2. req[w] = None
  BY <1>1 DEF JobOK, StepsAgree
<1>3. CASE BeginPublish(w, ReleaseChannel, Built[w]) /\ job' = Reach(w, "posting")
  <2> DEFINE work == [op |-> "publish", channel |-> ReleaseChannel, upload |-> Built[w], at |-> clock]
             j == [job[w] EXCEPT !.at = "posting"]
  <2>1. UpdatesInduction' /\ Grows /\ app' = app
    BY <1>1, <1>3, AdministerKeeps, RunsAreRequests DEF Administer, ReleaseChannel, Channels, ReleaseInduction
  <2>2. req' = [req EXCEPT ![w] = work] /\ req'[w] = work
    BY <1>1, <1>3 DEF BeginPublish, Begin, ReleaseInduction, UpdatesInduction, UpdatesTyped
  <2>3. work \in Works /\ work.op = "publish" /\ work.channel = ReleaseChannel /\ work.upload = Built[w]
    BY RunsAreRequests DEF Works, ReleaseChannel, Channels, ReleaseInduction, UpdatesInduction, UpdatesTyped
  <2>4. work # None
    BY <2>3, KindsOfRequests
  <2>5. /\ j \in JobRows /\ j.at = "posting" /\ j.row = job[w].row /\ j.left = job[w].left
        /\ j.answers = job[w].answers /\ j.found = job[w].found /\ j.moved = job[w].moved
    BY <1>1 DEF JobRows, Steps
  <2>6. job' = [job EXCEPT ![w] = j] /\ job'[w] = j
    BY <1>3 DEF Reach, ReleaseInduction
  <2> HIDE DEF work, j
  <2>7. JobOK(w)'
    <3>1. RowIsBuilt(w)' /\ FoundIsRow(w)'
      BY <1>1, <2>5, <2>6 DEF JobOK, RowIsBuilt, FoundIsRow, StepsAgree
    <3>2. StepsAgree(w)'
      BY <1>1, <2>2, <2>3, <2>4, <2>5, <2>6 DEF JobOK, StepsAgree
    <3>3. MovedIsRow(w)'
      BY <1>1, <2>5, <2>6 DEF JobOK, MovedIsRow, AllAnswered
    <3> QED
      BY <3>1, <3>2, <3>3 DEF JobOK
  <2> QED
    BY <2>1, <2>2, <2>5, <2>6, <2>7, JobMoves
<1>4. CASE job' = Reach(w, "red") /\ UNCHANGED vars
  <2>1. UpdatesInduction' /\ Grows /\ app' = app /\ req' = req
    BY <1>4, StandingStillKeeps DEF vars, server, ReleaseInduction
  <2>2. JobOK(w)' /\ \E j \in JobRows : job' = [job EXCEPT ![w] = j]
    BY <1>2, <1>4, <2>1, RedIsSound
  <2> QED
    BY <2>1, <2>2, JobMoves
<1> QED
  BY <1>3, <1>4 DEF Publish

LEMMA PublishAnsweredKeeps ==
  ASSUME ReleaseInduction, NEW w \in Runs, PublishAnswered(w)
  PROVE  ReleaseInduction' /\ app' = app
<1>1. w \in Requests /\ job[w] \in JobRows /\ JobOK(w) /\ job[w].at = "posting" /\ CommitPublish(w)
  BY RunsAreRequests DEF PublishAnswered, Standing, ReleaseInduction
<1>2. /\ UpdatesInduction' /\ Grows
      /\ audit' # audit => LET i == Last(audit').row IN
           /\ i \in Published' /\ releases'[i].version = req[w].upload.version
           /\ releases'[i].targets = req[w].upload.targets
  BY <1>1, PublishKeeps DEF ReleaseInduction
<1>3. req' = [req EXCEPT ![w] = None] /\ req'[w] = None /\ app' = app
  BY <1>1 DEF CommitPublish, Finish, ReleaseInduction, UpdatesInduction, UpdatesTyped
<1>4. CASE audit' = audit
  <2>1. job' = Reach(w, "red")
    BY <1>4 DEF PublishAnswered
  <2>2. JobOK(w)' /\ \E j \in JobRows : job' = [job EXCEPT ![w] = j]
    BY <1>2, <1>3, <2>1, RedIsSound
  <2> QED
    BY <1>2, <1>3, <2>2, JobMoves
<1>5. CASE audit' # audit
  <2> DEFINE i == Last(audit').row
             j == [job[w] EXCEPT !.at = "check", !.row = i]
  <2>1. job' = [job EXCEPT ![w] = j] /\ job'[w] = j
    BY <1>5 DEF PublishAnswered, ReleaseInduction
  <2>2. i \in Published' /\ releases'[i].version = req[w].upload.version
        /\ releases'[i].targets = req[w].upload.targets
    BY <1>2, <1>5
  <2>3. i \in Rows /\ i # None
    BY <2>2, RowsAssumption DEF Published
  <2> HIDE DEF i
  <2>4. /\ j \in JobRows /\ j.at = "check" /\ j.row = i /\ j.left = job[w].left
        /\ j.answers = job[w].answers /\ j.found = job[w].found /\ j.moved = job[w].moved
    BY <1>1, <2>3 DEF JobRows, Steps
  <2> HIDE DEF j
  <2>5. /\ req[w].upload = Built[w] /\ job[w].row = None /\ job[w].left = Built[w].targets
        /\ job[w].found = None
    BY <1>1 DEF JobOK, StepsAgree
  <2>6. job[w].moved = None
    BY <1>1, <2>5 DEF JobOK, MovedIsRow
  <2>7. JobOK(w)'
    <3>1. RowIsBuilt(w)'
      BY <2>1, <2>2, <2>4, <2>5 DEF RowIsBuilt
    <3>2. FoundIsRow(w)' /\ MovedIsRow(w)'
      BY <2>1, <2>4, <2>5, <2>6 DEF FoundIsRow, MovedIsRow
    <3>3. StepsAgree(w)'
      BY <1>3, <2>1, <2>3, <2>4, <2>5 DEF StepsAgree
    <3> QED
      BY <3>1, <3>2, <3>3 DEF JobOK
  <2> QED
    BY <1>2, <1>3, <2>1, <2>4, <2>7, JobMoves
<1> QED
  BY <1>3, <1>4, <1>5

\* A platform that is offered the version on the staged channel is offered the run's own
\* release, unless that has left the channel for stable.
LEMMA CheckingKeeps ==
  ASSUME ReleaseInduction, NEW w \in Runs, Check(w)
  PROVE  ReleaseInduction' /\ app' = app
<1>1. w \in Requests /\ job[w] \in JobRows /\ JobOK(w) /\ job[w].at = "check"
  BY RunsAreRequests DEF Check, Standing, ReleaseInduction
<1>2. UpdatesInduction' /\ Grows /\ app' = app /\ req' = req /\ releases' = releases /\ Published' = Published
  BY StandingStillKeeps DEF Check, vars, server, ReleaseInduction, Published
<1>3. req[w] = None /\ req'[w] = None /\ job[w].row # None /\ job[w].left \subseteq Built[w].targets
      /\ job[w].found = None
  BY <1>1, <1>2 DEF JobOK, StepsAgree
<1>4. PICK target \in job[w].left :
        LET offered == Manifest(ReleaseChannel, target, OldClient)
            rest == job[w].left \ {target}
        IN  job' = IF Answered(w, offered)
                     THEN [job EXCEPT
                            ![w].left = rest,
                            ![w].at = IF rest = {} THEN "approval" ELSE "check",
                            ![w].answers = @ \cup {[target |-> target, row |-> i] : i \in offered}]
                     ELSE Reach(w, "red")
  BY DEF Check
<1> DEFINE offered == Manifest(ReleaseChannel, target, OldClient)
           rest == job[w].left \ {target}
           told == {[target |-> target, row |-> i] : i \in offered}
           j == [job[w] EXCEPT !.left = rest, !.at = IF rest = {} THEN "approval" ELSE "check",
                               !.answers = @ \cup told]
<1>5. CASE ~Answered(w, offered)
  <2>1. job' = Reach(w, "red")
    BY <1>4, <1>5
  <2>2. JobOK(w)' /\ \E k \in JobRows : job' = [job EXCEPT ![w] = k]
    BY <1>2, <1>3, <2>1, RedIsSound
  <2> QED
    BY <1>2, <2>2, JobMoves
<1>6. CASE Answered(w, offered)
  <2>1. job' = [job EXCEPT ![w] = j] /\ job'[w] = j
    BY <1>4, <1>6 DEF ReleaseInduction
  <2>2. PICK i \in offered : releases[i].version = Built[w].version
    BY <1>6 DEF Answered
  <2>3. i \in Published /\ releases[i].channel = ReleaseChannel
    BY ManifestIsNewer
  <2>4. target \in Targets /\ rest \in SUBSET Targets /\ rest \subseteq Built[w].targets
    BY <1>1, <1>3 DEF JobRows
  <2>5. told \in SUBSET [target : Targets, row : Rows] /\ [target |-> target, row |-> i] \in told
    <3>1. \A k \in offered : k \in Rows
      BY ManifestIsNewer, PublishedIsInRows
    <3> HIDE DEF offered
    <3> QED
      BY <2>2, <2>4, <3>1
  <2> HIDE DEF offered, told, rest
  <2>6. /\ j \in JobRows /\ j.at \in {"check", "approval"} /\ (j.at = "approval" => rest = {})
        /\ j.left = rest /\ j.row = job[w].row
        /\ j.answers = job[w].answers \cup told /\ j.found = job[w].found /\ j.moved = job[w].moved
    BY <1>1, <2>4, <2>5 DEF JobRows, Steps
  <2> HIDE DEF j
  <2>7. OnStable(w) \/ i = job[w].row
    <3> DEFINE row == job[w].row
    <3>1. row \in Published /\ releases[row].version = Built[w].version
      BY <1>1, <1>3 DEF JobOK, RowIsBuilt
    <3>2. releases[row].channel \in Channels
      BY <3>1 DEF ReleaseInduction, UpdatesInduction, RowsAreSound, RowOK, ReleaseRows
    <3>3. OnStable(w) \/ releases[row].channel = ReleaseChannel
      BY <3>2 DEF OnStable, Channels, ReleaseChannel
    <3> QED
      BY <2>2, <2>3, <3>1, <3>3 DEF ReleaseInduction, UpdatesInduction, KeysAreUnique
  <2>8. RowIsBuilt(w)'
    <3> DEFINE row == job[w].row
    <3>1. /\ row \in Published
          /\ releases[row].version = Built[w].version /\ releases[row].targets = Built[w].targets
          /\ \A t \in Built[w].targets \ job[w].left :
               [target |-> t, row |-> row] \in job[w].answers \/ OnStable(w)
      BY <1>1, <1>3 DEF JobOK, RowIsBuilt
    <3>2. \A t \in Built[w].targets \ rest : t \in Built[w].targets \ job[w].left \/ t = target
      BY DEF rest
    <3>3. \A t \in Built[w].targets \ rest : [target |-> t, row |-> row] \in j.answers \/ OnStable(w)
      BY <2>5, <2>6, <2>7, <3>1, <3>2
    <3>4. OnStable(w)' = OnStable(w) /\ job'[w].row = row /\ job'[w].left = rest /\ job'[w].answers = j.answers
      BY <1>2, <2>1, <2>6 DEF OnStable
    <3> QED
      BY <1>2, <3>1, <3>3, <3>4 DEF RowIsBuilt
  <2>9. FoundIsRow(w)'
    BY <1>3, <2>1, <2>6 DEF FoundIsRow
  <2>10. StepsAgree(w)'
    BY <1>1, <1>2, <1>3, <2>1, <2>4, <2>6 DEF JobOK, StepsAgree
  <2>11. MovedIsRow(w)'
    BY <1>1, <2>1, <2>6 DEF JobOK, MovedIsRow, AllAnswered
  <2> QED
    BY <1>2, <2>1, <2>6, <2>8, <2>9, <2>10, <2>11, JobMoves DEF JobOK
<1> QED
  BY <1>5, <1>6

LEMMA ApprovalKeeps ==
  ASSUME ReleaseInduction, NEW w \in Runs, Approve(w)
  PROVE  ReleaseInduction' /\ app' = app
<1> DEFINE j == [job[w] EXCEPT !.at = "promote"]
<1>1. job[w] \in JobRows /\ JobOK(w) /\ job[w].at = "approval"
  BY DEF Approve, Standing, ReleaseInduction
<1>2. UpdatesInduction' /\ Grows /\ app' = app /\ req' = req /\ releases' = releases /\ Published' = Published
  BY StandingStillKeeps DEF Approve, vars, server, ReleaseInduction, Published
<1>3. job' = [job EXCEPT ![w] = j] /\ job'[w] = j
  BY DEF Approve, Reach, ReleaseInduction
<1>4. /\ j \in JobRows /\ j.at = "promote" /\ j.row = job[w].row /\ j.left = job[w].left
      /\ j.answers = job[w].answers /\ j.found = job[w].found /\ j.moved = job[w].moved
  BY <1>1 DEF JobRows, Steps
<1> HIDE DEF j
<1>5. RowIsBuilt(w)' /\ FoundIsRow(w)' /\ MovedIsRow(w)'
  BY <1>1, <1>2, <1>3, <1>4 DEF JobOK, RowIsBuilt, FoundIsRow, MovedIsRow, OnStable, AllAnswered
<1>6. StepsAgree(w)'
  BY <1>1, <1>2, <1>3, <1>4 DEF JobOK, StepsAgree
<1> QED
  BY <1>2, <1>3, <1>4, <1>5, <1>6, JobMoves DEF JobOK

\* What the list holds under the version is the run's own release as long as that is not
\* on stable, and the run has been answered with it everywhere by then.
LEMMA ListingKeeps ==
  ASSUME ReleaseInduction, NEW w \in Runs, List(w)
  PROVE  ReleaseInduction' /\ app' = app
<1>1. job[w] \in JobRows /\ JobOK(w) /\ job[w].at = "promote"
  BY DEF List, Standing, ReleaseInduction
<1>2. UpdatesInduction' /\ Grows /\ app' = app /\ req' = req /\ releases' = releases /\ Published' = Published
  BY StandingStillKeeps DEF List, vars, server, ReleaseInduction, Published
<1>3. req[w] = None /\ req'[w] = None /\ job[w].row # None /\ job[w].left = {} /\ job[w].found = None
  BY <1>1, <1>2 DEF JobOK, StepsAgree
<1>4. CASE \E step \in {"red", "green"} : job' = Reach(w, step)
  <2>1. JobOK(w)' /\ \E k \in JobRows : job' = [job EXCEPT ![w] = k]
    BY <1>2, <1>3, <1>4, RedIsSound
  <2> QED
    BY <1>2, <2>1, JobMoves
<1>5. ASSUME NEW i \in Found(w), releases[i].channel # "stable",
             job' = [job EXCEPT ![w].at = "listed", ![w].found = i]
      PROVE  ReleaseInduction'
  <2> DEFINE j == [job[w] EXCEPT !.at = "listed", !.found = i]
             row == job[w].row
  <2>1. i \in Published /\ i \in Rows /\ releases[i].version = Built[w].version /\ i # None
    BY PublishedIsInRows, RowsAssumption DEF Found
  <2>2. job' = [job EXCEPT ![w] = j] /\ job'[w] = j
    BY <1>5 DEF ReleaseInduction
  <2>3. /\ j \in JobRows /\ j.at = "listed" /\ j.row = job[w].row /\ j.left = job[w].left
        /\ j.answers = job[w].answers /\ j.found = i /\ j.moved = job[w].moved
    BY <1>1, <2>1 DEF JobRows, Steps
  <2> HIDE DEF j
  <2>4. /\ row \in Published /\ releases[row].version = Built[w].version
        /\ \A t \in Built[w].targets : [target |-> t, row |-> row] \in job[w].answers \/ OnStable(w)
    BY <1>1, <1>3 DEF JobOK, RowIsBuilt
  <2>5. releases[row].channel \in Channels /\ releases[i].channel \in Channels
    BY <2>1, <2>4 DEF ReleaseInduction, UpdatesInduction, RowsAreSound, RowOK, ReleaseRows
  <2>6. OnStable(w) => i # row
    BY <1>5 DEF OnStable
  <2>7. ASSUME ~OnStable(w)
        PROVE  i = row /\ AllAnswered(w)
    <3>1. releases[row].channel = releases[i].channel
      BY <1>5, <2>5, <2>7 DEF OnStable, Channels
    <3>2. i = row
      BY <2>1, <2>4, <3>1 DEF ReleaseInduction, UpdatesInduction, KeysAreUnique
    <3>3. AllAnswered(w)
      BY <2>4, <2>7 DEF AllAnswered
    <3> QED
      BY <3>2, <3>3
  <2>8. OnStable(w)' = OnStable(w) /\ AllAnswered(w)' = AllAnswered(w)
    BY <1>2, <2>2, <2>3 DEF OnStable, AllAnswered
  <2>9. FoundIsRow(w)'
    BY <1>2, <1>3, <2>1, <2>2, <2>3, <2>6, <2>7, <2>8 DEF FoundIsRow
  <2>10. RowIsBuilt(w)' /\ MovedIsRow(w)'
    BY <1>1, <1>2, <2>2, <2>3, <2>8 DEF JobOK, RowIsBuilt, MovedIsRow
  <2>11. StepsAgree(w)'
    BY <1>1, <1>2, <2>1, <2>2, <2>3 DEF JobOK, StepsAgree
  <2> QED
    BY <1>2, <2>2, <2>3, <2>9, <2>10, <2>11, JobMoves DEF JobOK
<1> QED
  BY <1>2, <1>4, <1>5 DEF List

LEMMA PromotingKeeps ==
  ASSUME ReleaseInduction, NEW w \in Runs, Promote(w)
  PROVE  ReleaseInduction' /\ app' = app
<1>1. w \in Requests /\ job[w] \in JobRows /\ JobOK(w) /\ job[w].at = "listed"
  BY RunsAreRequests DEF Promote, Standing, ReleaseInduction
<1>2. req[w] = None /\ job[w].found # None /\ job[w].found \in Published
  BY <1>1 DEF JobOK, StepsAgree, FoundIsRow
<1>3. CASE BeginPromote(w, job[w].found) /\ job' = Reach(w, "promoting")
  <2> DEFINE work == [op |-> "promote", row |-> job[w].found, at |-> clock]
             j == [job[w] EXCEPT !.at = "promoting"]
  <2>1. UpdatesInduction' /\ Grows /\ app' = app
    BY <1>1, <1>2, <1>3, AdministerKeeps, PublishedIsInRows DEF Administer, ReleaseInduction
  <2>2. req' = [req EXCEPT ![w] = work] /\ req'[w] = work
    BY <1>1, <1>3 DEF BeginPromote, Begin, ReleaseInduction, UpdatesInduction, UpdatesTyped
  <2>3. work \in Works /\ work.op = "promote" /\ work.row = job[w].found
    BY <1>2, PublishedIsInRows DEF Works, ReleaseInduction, UpdatesInduction, UpdatesTyped
  <2>4. work # None
    BY <2>3, KindsOfRequests
  <2>5. /\ j \in JobRows /\ j.at = "promoting" /\ j.row = job[w].row /\ j.left = job[w].left
        /\ j.answers = job[w].answers /\ j.found = job[w].found /\ j.moved = job[w].moved
    BY <1>1 DEF JobRows, Steps
  <2>6. job' = [job EXCEPT ![w] = j] /\ job'[w] = j
    BY <1>3 DEF Reach, ReleaseInduction
  <2> HIDE DEF work, j
  <2>7. RowIsBuilt(w)'
    BY <1>1, <2>1, <2>5, <2>6 DEF JobOK, RowIsBuilt, OnStable, Grows
  <2>8. FoundIsRow(w)'
    BY <1>1, <2>1, <2>5, <2>6 DEF JobOK, FoundIsRow, RowIsBuilt, OnStable, AllAnswered, Grows
  <2>9. StepsAgree(w)'
    BY <1>1, <1>2, <2>2, <2>3, <2>4, <2>5, <2>6 DEF JobOK, StepsAgree
  <2>10. MovedIsRow(w)'
    BY <1>1, <2>5, <2>6 DEF JobOK, MovedIsRow, AllAnswered
  <2> QED
    BY <2>1, <2>2, <2>5, <2>6, <2>7, <2>8, <2>9, <2>10, JobMoves DEF JobOK
<1>4. CASE job' = Reach(w, "red") /\ UNCHANGED vars
  <2>1. UpdatesInduction' /\ Grows /\ app' = app /\ req' = req
    BY <1>4, StandingStillKeeps DEF vars, server, ReleaseInduction
  <2>2. JobOK(w)' /\ \E j \in JobRows : job' = [job EXCEPT ![w] = j]
    BY <1>2, <1>4, <2>1, RedIsSound
  <2> QED
    BY <2>1, <2>2, JobMoves
<1> QED
  BY <1>3, <1>4 DEF Promote

\* A promotion that goes through moves the run's own release: another one with the
\* version would meet it on stable.
LEMMA PromotedKeeps ==
  ASSUME ReleaseInduction, NEW w \in Runs, Promoted(w)
  PROVE  ReleaseInduction' /\ app' = app
<1>1. w \in Requests /\ job[w] \in JobRows /\ JobOK(w) /\ job[w].at = "promoting" /\ CommitPromote(w)
  BY RunsAreRequests DEF Promoted, Standing, ReleaseInduction
<1>2. /\ UpdatesInduction' /\ Grows
      /\ audit' # audit => ~Conflicts(req[w].row, "stable", releases[req[w].row].version)
  BY <1>1, PromoteKeeps DEF ReleaseInduction
<1>3. req' = [req EXCEPT ![w] = None] /\ req'[w] = None /\ app' = app
  BY <1>1 DEF CommitPromote, Finish, ReleaseInduction, UpdatesInduction, UpdatesTyped
<1>4. CASE audit' = audit
  <2>1. job' = Reach(w, "red")
    BY <1>4 DEF Promoted
  <2>2. JobOK(w)' /\ \E j \in JobRows : job' = [job EXCEPT ![w] = j]
    BY <1>2, <1>3, <2>1, RedIsSound
  <2> QED
    BY <1>2, <1>3, <2>2, JobMoves
<1>5. CASE audit' # audit
  <2> DEFINE found == job[w].found
             row == job[w].row
             j == [job[w] EXCEPT !.at = "green", !.moved = found]
  <2>1. req[w].row = found /\ found # None /\ found \in Rows
    BY <1>1 DEF JobOK, StepsAgree, JobRows
  <2>2. job' = [job EXCEPT ![w] = j] /\ job'[w] = j
    BY <1>5, <2>1 DEF Promoted, ReleaseInduction
  <2>3. /\ row # None /\ row \in Published /\ releases[row].version = Built[w].version
        /\ found \in Published /\ releases[found].version = Built[w].version
        /\ \/ found = row /\ AllAnswered(w)
           \/ found # row /\ OnStable(w)
    BY <1>1, <2>1 DEF JobOK, FoundIsRow, RowIsBuilt
  <2>4. found = row /\ AllAnswered(w)
    BY <1>2, <1>5, <2>1, <2>3 DEF Conflicts, OnStable
  <2>5. /\ j \in JobRows /\ j.at = "green" /\ j.row = row /\ j.left = job[w].left
        /\ j.answers = job[w].answers /\ j.found = found /\ j.moved = found
    BY <1>1, <2>1 DEF JobRows, Steps
  <2> HIDE DEF j
  <2>6. RowIsBuilt(w)'
    BY <1>1, <1>2, <2>2, <2>5 DEF JobOK, RowIsBuilt, OnStable, Grows
  <2>7. FoundIsRow(w)'
    BY <1>1, <1>2, <2>2, <2>5 DEF JobOK, FoundIsRow, RowIsBuilt, OnStable, AllAnswered, Grows
  <2>8. StepsAgree(w)'
    BY <1>1, <1>3, <2>2, <2>5 DEF JobOK, StepsAgree
  <2>9. MovedIsRow(w)'
    BY <2>2, <2>3, <2>4, <2>5 DEF MovedIsRow, AllAnswered
  <2> QED
    BY <1>2, <1>3, <2>2, <2>5, <2>6, <2>7, <2>8, <2>9, JobMoves DEF JobOK
<1> QED
  BY <1>3, <1>4, <1>5

-----------------------------------------------------------------------------
(* The releases: theorems                                                  *)

LEMMA ReleaseStarts ==
  ASSUME ReleaseInit
  PROVE  ReleaseInduction
<1>1. UpdatesInduction
  BY UpdatesStart DEF ReleaseInit
<1>2. \A w \in Runs : job[w] = [at |-> "publish", row |-> None, left |-> Built[w].targets,
                                answers |-> {}, found |-> None, moved |-> None]
  BY DEF ReleaseInit
<1>3. job \in [Runs -> JobRows]
  BY <1>2, RunsAreRequests DEF ReleaseInit, JobRows, Steps
<1>4. ASSUME NEW w \in Runs PROVE JobOK(w)
  <2>1. req[w] = None
    BY RunsAreRequests DEF ReleaseInit, Init
  <2>2. /\ job[w].at = "publish" /\ job[w].row = None /\ job[w].left = Built[w].targets
        /\ job[w].found = None /\ job[w].moved = None
    <3>1. job[w] = [at |-> "publish", row |-> None, left |-> Built[w].targets,
                    answers |-> {}, found |-> None, moved |-> None]
      BY <1>2, Zenon
    <3> QED
      BY ONLY <3>1
  <2>3. StepsAgree(w)
    BY <2>1, <2>2 DEF StepsAgree
  <2> QED
    BY <2>2, <2>3 DEF JobOK, RowIsBuilt, FoundIsRow, MovedIsRow
<1> QED
  BY <1>1, <1>3, <1>4 DEF ReleaseInduction

LEMMA ReleaseStep ==
  ASSUME ReleaseInduction, [ReleaseNext]_releaseVars
  PROVE  ReleaseInduction' /\ AppsGoForward
<1>1. ASSUME app' = app PROVE AppsGoForward
  <2>1. \A c \in Clients : app[c].runs.version \in Versions
    BY BundlesHaveVersions DEF ReleaseInduction, UpdatesInduction, UpdatesTyped, Apps
  <2> QED
    BY <1>1, <2>1, NewerIsOneWay DEF AppsGoForward
<1>2. CASE \E w \in Runs : Workflow(w)
  BY <1>1, <1>2, PublishingKeeps, PublishAnsweredKeeps, CheckingKeeps, ApprovalKeeps, ListingKeeps,
     PromotingKeeps, PromotedKeeps DEF Workflow
<1>3. ASSUME UpdatesInduction', Grows, job' = job, \A w \in Runs : req'[w] = req[w]
      PROVE  ReleaseInduction'
  BY <1>3, JobGoesOn DEF ReleaseInduction
<1>4. CASE Tick /\ UNCHANGED job
  BY <1>1, <1>3, <1>4, TickKeeps DEF Tick, server, ReleaseInduction
<1>5. ASSUME NEW r \in Requests \ Runs, Administer(r), UNCHANGED job
      PROVE  ReleaseInduction' /\ AppsGoForward
  <2>1. UpdatesInduction' /\ Grows /\ app' = app /\ \E v : req' = [req EXCEPT ![r] = v]
    BY <1>5, AdministerKeeps DEF ReleaseInduction
  <2>2. \A w \in Runs : req'[w] = req[w]
    BY <2>1, RunsAssumption DEF ReleaseInduction, UpdatesInduction, UpdatesTyped
  <2> QED
    BY <1>1, <1>3, <1>5, <2>1, <2>2
<1>6. ASSUME NEW c \in Clients, Update(c), UNCHANGED job
      PROVE  ReleaseInduction' /\ AppsGoForward
  <2>1. UpdatesInduction' /\ Grows /\ AppsGoForward
    BY <1>6, ClientKeeps DEF ReleaseInduction
  <2>2. req' = req
    BY <1>6 DEF Update, CheckNow, Checked, CheckFails, Decline, Agree, Install, InstallFails, Relaunch,
                RelaunchFails, Restart, server
  <2> QED
    BY <1>3, <1>6, <2>1, <2>2
<1>7. CASE UNCHANGED releaseVars
  <2>1. UNCHANGED <<releases, audit, req, app, clock>> /\ job' = job
    BY <1>7 DEF releaseVars, vars, server
  <2> QED
    BY <1>1, <1>3, <2>1, StandingStillKeeps DEF ReleaseInduction
<1> QED
  BY <1>2, <1>4, <1>5, <1>6, <1>7 DEF ReleaseNext

LEMMA ReleaseInductionHolds == ReleaseSpec => []ReleaseInduction
<1>1. ReleaseInit => ReleaseInduction
  BY ReleaseStarts
<1>2. ReleaseInduction /\ [ReleaseNext]_releaseVars => ReleaseInduction'
  BY ReleaseStep
<1> QED
  BY <1>1, <1>2, PTL DEF ReleaseSpec

\* No desktop is ever taken back to an older version, whatever administrators and the
\* workflow publish, pause and promote, and whatever fails at the desktop
\* (desktop/update-client.ts, releases/service.ts).
THEOREM DesktopsNeverGoBack == ReleaseSpec => NeverOlder
<1>1. ReleaseInduction /\ [ReleaseNext]_releaseVars =>
        [\A c \in Clients : ~IsNewer(app[c].runs.version, app'[c].runs.version)]_vars
  BY ReleaseStep DEF AppsGoForward
<1> QED
  BY <1>1, ReleaseInductionHolds, PTL DEF ReleaseSpec, NeverOlder

\* The tables of releases and of their audit agree, and what a run of the workflow moves
\* to stable is the release it recorded, which every platform was offered before
\* (.github/workflows/desktop-release.yml, ops/desktop-release.ts).
THEOREM StableWasTested == ReleaseSpec => []ReleasesAreTested
<1>1. ASSUME ReleaseInduction PROVE ReleasesAreTested
  <2>1. TypeOK
    <3>1. ASSUME NEW i \in Published
          PROVE  /\ [version |-> releases[i].version, targets |-> releases[i].targets] \in Uploads
                 /\ releases[i].channel \in Channels /\ releases[i].paused \in BOOLEAN
                 /\ releases[i].at \in 0..clock
      BY <1>1 DEF ReleaseInduction, UpdatesInduction, UpdatesTyped, RowsAreSound, RowOK, ReleaseRows
    <3>2. \A k \in DOMAIN audit : audit[k].row \in Published
      BY <1>1 DEF ReleaseInduction, UpdatesInduction, AuditIsOfRows
    <3>3. ASSUME NEW c \in Clients
          PROVE  /\ app[c].runs \in Bundles /\ app[c].disk \in Bundles
                 /\ app[c].at \in Stages /\ app[c].running \in BOOLEAN
                 /\ app[c].at # "idle" => app[c].running
                 /\ app[c].at \in {"offered", "installing"} => app[c].offer \in Published
      BY <1>1 DEF ReleaseInduction, UpdatesInduction, AppsAreSound, AppOK, Apps
    <3> QED
      BY <3>1, <3>2, <3>3 DEF TypeOK
  <2>2. ASSUME NEW w \in Runs
        PROVE  /\ job[w].at \in Steps
               /\ job[w].row \in Published \cup {None} /\ job[w].moved \in Published \cup {None}
               /\ job[w].found \in Published \cup {None}
               /\ job[w].left \subseteq Built[w].targets
               /\ job[w].at \in {"posting", "promoting"} <=> req[w] # None
    <3>1. JobOK(w) /\ job[w] \in JobRows
      BY <1>1 DEF ReleaseInduction
    <3>2. job[w].row \in Published \cup {None} /\ job[w].found \in Published \cup {None}
      BY <3>1 DEF JobOK, RowIsBuilt, FoundIsRow
    <3>3. job[w].moved \in Published \cup {None}
      BY <3>1, <3>2 DEF JobOK, MovedIsRow
    <3> QED
      BY <3>1, <3>2, <3>3 DEF JobOK, StepsAgree, JobRows
  <2>3. TestedIsPromoted
    BY <1>1 DEF ReleaseInduction, JobOK, MovedIsRow, AllAnswered, RowIsBuilt, TestedIsPromoted
  <2> QED
    BY <1>1, <2>1, <2>2, <2>3 DEF ReleaseTypeOK, ReleaseInduction, UpdatesInduction, ReleasesAreTested
<1> QED
  BY <1>1, ReleaseInductionHolds, PTL

-----------------------------------------------------------------------------
(* The deploy workflow: its invariant                                      *)

Containers == [tree : Commits, sha : Commits]
Ended == {"success", "failure", "skipped"}
Results == {"none", "running"} \cup Ended
RunRows == [ref : Commits \cup {Main}, skipStaging : BOOLEAN, skipProduction : BOOLEAN,
            rollback : BOOLEAN, sha : Commits \cup {0}]

StepNames == {"identify", "backup", "migrate", "keep", "label", "up", "await", "smoke", "check"}

RunTyped ==
  /\ head \in Commits /\ run \in RunRows
  /\ run.rollback => run.ref # Main
  /\ stage \in 0..7 /\ todo \in Seq(StepNames) /\ tree \in Commits
  /\ result \in [JobNames -> Results] /\ taken \in Nat

HostsTyped ==
  /\ answering \in [Envs -> SUBSET Containers] /\ coming \in [Envs -> SUBSET Containers]
  /\ variables \in [Envs -> Commits]
  /\ schema \in [Envs -> Nat] /\ kept \in [Envs -> SUBSET Nat]
  /\ proved \subseteq Envs \X Containers /\ served \subseteq Envs \X Containers

\* The jobs before the current one have ended, and those after it have not begun.
JobsInOrder ==
  \A i \in 1..6 :
    /\ i < stage => result[Jobs[i]] \in Ended
    /\ i = stage => result[Jobs[i]] \in {"none", "running"}
    /\ i > stage => result[Jobs[i]] = "none"

\* What is left of a job is the end of its steps.
StepsInOrder ==
  Running =>
    /\ Len(todo) \in 1..Len(StepsOf(Current))
    /\ \A i \in 1..Len(todo) :
         todo[i] = StepsOf(Current)[Len(StepsOf(Current)) - Len(todo) + i]

\* Once the build succeeded, the run has a commit that its ref has named.
BuildIsNamed ==
  Succeeded("build") =>
    /\ run.sha \in Commits
    /\ run.ref = Main => run.sha <= head
    /\ run.ref # Main => run.sha = run.ref

\* The ref of a running job is checked out no earlier than the build's.
TreeIsNamed ==
  Running =>
    /\ run.ref # Main => tree = run.ref
    /\ Succeeded("build") => run.sha <= tree
    /\ run.ref = Main => tree <= head

ControlOK == RunTyped /\ JobsInOrder /\ StepsInOrder /\ BuildIsNamed /\ TreeIsNamed

Begun(n) == result[n] \in {"running", "success"}

\* The conditions a job began under still hold.
GatesHeld ==
  /\ Begun("staging-migrate") => Succeeded("build")
  /\ Begun("staging-deploy") => Succeeded("build") /\ (Succeeded("staging-migrate") \/ run.rollback)
  /\ Begun("staging-smoke") => Succeeded("staging-deploy")
  /\ Begun("production-release") => ProductionMayRelease
  /\ Succeeded("release-check") => ReleaseHappened
  /\ result["release-check"] # "skipped"

Smoked(e) == \E c \in Containers : <<e, c>> \in proved /\ c.sha = run.sha

\* What the success of a job says of its environment.
SuccessIsEarned ==
  /\ Succeeded("staging-migrate") => Migrations[run.sha] <= schema["staging"]
  /\ Succeeded("staging-smoke") => Smoked("staging")
  /\ Succeeded("production-release") =>
       Smoked("production") /\ (run.rollback \/ Migrations[run.sha] <= schema["production"])

\* Production has the schema of whatever it has run, runs or is starting.
ServedFits ==
  \A c \in Containers :
    <<"production", c>> \in served \/ c \in coming["production"] =>
      Migrations[c.tree] <= schema["production"]

HostsAreServed ==
  /\ \A e \in Envs : \A c \in answering[e] : <<e, c>> \in served
  /\ proved \subseteq served

\* How far a job is with the schema of its environment.
MigrationOnItsWay ==
  /\ Running /\ Current = "staging-migrate" /\ Len(todo) = 1 =>
       Migrations[tree] <= schema["staging"]
  /\ Running /\ Current = "production-release" =>
       /\ ~run.rollback /\ Len(todo) = 6 => taken = schema["production"]
       /\ ~run.rollback /\ Len(todo) = 5 => schema["production"] \in kept["production"]
       /\ Len(todo) <= 4 => Migrations[tree] <= schema["production"]

DeployInduction ==
  /\ ControlOK /\ HostsTyped /\ RollbackIsKnown(run)
  /\ GatesHeld /\ SuccessIsEarned /\ ServedFits /\ HostsAreServed /\ MigrationOnItsWay

-----------------------------------------------------------------------------
(* The deploy workflow: jobs and steps                                     *)

LEMMA JobFacts ==
  /\ Len(Jobs) = 6
  /\ Jobs[1] = "build" /\ Jobs[2] = "staging-migrate" /\ Jobs[3] = "staging-deploy"
  /\ Jobs[4] = "staging-smoke" /\ Jobs[5] = "production-release" /\ Jobs[6] = "release-check"
  /\ \A i \in 1..6 : Jobs[i] \in JobNames
  /\ JobNames = {"build", "staging-migrate", "staging-deploy", "staging-smoke",
                 "production-release", "release-check"}
<1>1. /\ Len(Jobs) = 6
      /\ Jobs[1] = "build" /\ Jobs[2] = "staging-migrate" /\ Jobs[3] = "staging-deploy"
      /\ Jobs[4] = "staging-smoke" /\ Jobs[5] = "production-release" /\ Jobs[6] = "release-check"
  BY DEF Jobs
<1>2. 1..6 = {1, 2, 3, 4, 5, 6}
  OBVIOUS
<1> QED
  BY <1>1, <1>2 DEF JobNames

LEMMA JobsDiffer ==
  ASSUME NEW i \in 1..6, NEW j \in 1..6, Jobs[i] = Jobs[j]
  PROVE  i = j
BY JobFacts

\* Where a step stands in the jobs that have it, by how many steps are left with it.
LEMMA StepsHavePlaces ==
  ASSUME StepsInOrder, Running, todo \in Seq(StepNames), stage \in 0..7
  PROVE  /\ Current = "build" => Len(todo) = 1 /\ Head(todo) = "identify"
         /\ Current = "staging-migrate" =>
              \/ Len(todo) = 3 /\ Head(todo) = "backup"
              \/ Len(todo) = 2 /\ Head(todo) = "migrate"
              \/ Len(todo) = 1 /\ Head(todo) = "keep"
         /\ Current = "staging-deploy" =>
              \/ Len(todo) = 3 /\ Head(todo) = "label"
              \/ Len(todo) = 2 /\ Head(todo) = "up"
              \/ Len(todo) = 1 /\ Head(todo) = "await"
         /\ Current = "staging-smoke" => Len(todo) = 1 /\ Head(todo) = "smoke"
         /\ Current = "production-release" =>
              \/ Len(todo) = 7 /\ Head(todo) = "backup" /\ ~run.rollback
              \/ Len(todo) = 6 /\ Head(todo) = "keep" /\ ~run.rollback
              \/ Len(todo) = 5 /\ Head(todo) = "migrate" /\ ~run.rollback
              \/ Len(todo) = 4 /\ Head(todo) = "label"
              \/ Len(todo) = 3 /\ Head(todo) = "up"
              \/ Len(todo) = 2 /\ Head(todo) = "await"
              \/ Len(todo) = 1 /\ Head(todo) = "smoke"
         /\ Current = "release-check" => Len(todo) = 1 /\ Head(todo) = "check"
         /\ todo # <<>>
<1> DEFINE S == StepsOf(Current)
<1>1. Len(todo) \in 1..Len(S) /\ todo[1] = S[Len(S) - Len(todo) + 1]
  BY DEF StepsInOrder
<1>2. Head(todo) = todo[1] /\ todo # <<>>
  BY <1>1
<1>0. Len(todo) \in Nat
  BY LenProperties
<1> HIDE DEF S
<1>3. CASE Current = "build"
  BY <1>1, <1>2, <1>3 DEF S, StepsOf
<1>4. CASE Current = "staging-migrate"
  <2>1. S = <<"backup", "migrate", "keep">>
    BY <1>4 DEF S, StepsOf, MigrationSteps
  <2>2. Len(S) = 3 /\ S[1] = "backup" /\ S[2] = "migrate" /\ S[3] = "keep"
    BY <2>1
  <2>3. Len(todo) \in {1, 2, 3}
    BY <1>0, <1>1, <2>2
  <2>4. Len(todo) = 1 => todo[1] = "keep"
    BY <1>1, <2>2
  <2>5. Len(todo) = 2 => todo[1] = "migrate"
    BY <1>1, <2>2
  <2>6. Len(todo) = 3 => todo[1] = "backup"
    BY <1>1, <2>2
  <2> QED
    BY <1>2, <2>3, <2>4, <2>5, <2>6, <1>4
<1>5. CASE Current = "staging-deploy"
  <2>1. S = <<"label", "up", "await">>
    BY <1>5 DEF S, StepsOf, ReleaseSteps
  <2>2. Len(S) = 3 /\ S[1] = "label" /\ S[2] = "up" /\ S[3] = "await"
    BY <2>1
  <2>3. Len(todo) \in {1, 2, 3}
    BY <1>0, <1>1, <2>2
  <2>4. Len(todo) = 1 => todo[1] = "await"
    BY <1>1, <2>2
  <2>5. Len(todo) = 2 => todo[1] = "up"
    BY <1>1, <2>2
  <2>6. Len(todo) = 3 => todo[1] = "label"
    BY <1>1, <2>2
  <2> QED
    BY <1>2, <2>3, <2>4, <2>5, <2>6, <1>5
<1>6. CASE Current = "staging-smoke"
  BY <1>1, <1>2, <1>6 DEF S, StepsOf
<1>7. CASE Current = "production-release"
  <2>1. CASE run.rollback
    <3>1. S = <<"label", "up", "await", "smoke">>
      BY <1>7, <2>1 DEF S, StepsOf, ProductionSteps
    <3>2. Len(S) = 4 /\ S[1] = "label" /\ S[2] = "up" /\ S[3] = "await" /\ S[4] = "smoke"
      BY <3>1
    <3>3. Len(todo) \in {1, 2, 3, 4}
      BY <1>0, <1>1, <3>2
    <3>4. Len(todo) = 1 => todo[1] = "smoke"
      BY <1>1, <3>2
    <3>5. Len(todo) = 2 => todo[1] = "await"
      BY <1>1, <3>2
    <3>6. Len(todo) = 3 => todo[1] = "up"
      BY <1>1, <3>2
    <3>7. Len(todo) = 4 => todo[1] = "label"
      BY <1>1, <3>2
    <3> QED
      BY <1>2, <3>3, <3>4, <3>5, <3>6, <3>7, <1>7
  <2>2. CASE ~run.rollback
    <3>1. S = <<"backup", "keep", "migrate", "label", "up", "await", "smoke">>
      BY <1>7, <2>2 DEF S, StepsOf, ProductionSteps
    <3>2. Len(S) = 7 /\ S[1] = "backup" /\ S[2] = "keep" /\ S[3] = "migrate" /\ S[4] = "label" /\ S[5] = "up" /\ S[6] = "await" /\ S[7] = "smoke"
      BY <3>1
    <3>3. Len(todo) \in {1, 2, 3, 4, 5, 6, 7}
      BY <1>0, <1>1, <3>2
    <3>4. Len(todo) = 1 => todo[1] = "smoke"
      BY <1>1, <3>2
    <3>5. Len(todo) = 2 => todo[1] = "await"
      BY <1>1, <3>2
    <3>6. Len(todo) = 3 => todo[1] = "up"
      BY <1>1, <3>2
    <3>7. Len(todo) = 4 => todo[1] = "label"
      BY <1>1, <3>2
    <3>8. Len(todo) = 5 => todo[1] = "migrate"
      BY <1>1, <3>2
    <3>9. Len(todo) = 6 => todo[1] = "keep"
      BY <1>1, <3>2
    <3>10. Len(todo) = 7 => todo[1] = "backup"
      BY <1>1, <3>2
    <3> QED
      BY <1>2, <3>3, <3>4, <3>5, <3>6, <3>7, <3>8, <3>9, <3>10, <1>7, <2>2
  <2> QED
    BY <2>1, <2>2
<1>8. CASE Current = "release-check"
  BY <1>1, <1>2, <1>8 DEF S, StepsOf
<1>9. Current \in JobNames
  BY JobFacts DEF Running, Current
<1> QED
  BY <1>2, <1>3, <1>4, <1>5, <1>6, <1>7, <1>8, <1>9, JobFacts, Zenon

LEMMA StepsAreFew ==
  ASSUME NEW n \in JobNames
  PROVE  Len(StepsOf(n)) \in Nat
<1>1. Len(ProductionSteps) \in Nat
  <2>1. CASE run.rollback
    BY <2>1 DEF ProductionSteps
  <2>2. CASE ~run.rollback
    BY <2>2 DEF ProductionSteps
  <2> QED
    BY <2>1, <2>2
<1>2. n \in {"build", "staging-migrate", "staging-deploy", "staging-smoke",
            "production-release", "release-check"}
  BY JobFacts
<1>3. CASE n = "build"
  BY <1>3 DEF StepsOf
<1>4. CASE n = "staging-migrate"
  BY <1>4 DEF StepsOf, MigrationSteps
<1>5. CASE n = "staging-deploy"
  BY <1>5 DEF StepsOf, ReleaseSteps
<1>6. CASE n = "staging-smoke"
  BY <1>6 DEF StepsOf
<1>7. CASE n = "production-release"
  BY <1>1, <1>7 DEF StepsOf
<1>8. CASE n = "release-check"
  BY <1>8 DEF StepsOf
<1> QED
  BY <1>2, <1>3, <1>4, <1>5, <1>6, <1>7, <1>8

LEMMA CurrentIsJob ==
  ASSUME stage \in 1..6
  PROVE  Current \in JobNames /\ Current = Jobs[stage]
BY JobFacts DEF Current

-----------------------------------------------------------------------------
(* The deploy workflow: how a job goes on                                  *)

\* A job that ends hands over to the next one, which has not begun.
LEMMA HandOver ==
  ASSUME ControlOK, stage \in 1..6, NEW how \in Ended, Current = "build" => how # "success",
         stage' = stage + 1, result' = [result EXCEPT ![Current] = how], todo' \in Seq(StepNames),
         UNCHANGED <<head, run, tree, taken>>
  PROVE  /\ ControlOK' /\ ~Running' /\ stage' = stage + 1
         /\ result' = [result EXCEPT ![Current] = how]
         /\ UNCHANGED <<head, run, tree, taken>>
<1>1. /\ stage \in 1..6 /\ stage' = stage + 1 /\ stage' \in 2..7
      /\ result' = [result EXCEPT ![Current] = how] /\ UNCHANGED <<head, run, tree, taken>>
  OBVIOUS
<1>2. /\ Current \in JobNames /\ Current = Jobs[stage] /\ result \in [JobNames -> Results]
      /\ result'[Current] = how /\ \A n \in JobNames \ {Current} : result'[n] = result[n]
  BY <1>1, CurrentIsJob DEF ControlOK, RunTyped
<1>3. ASSUME NEW i \in 1..6
      PROVE  /\ Jobs[i] \in JobNames
             /\ i # stage => result'[Jobs[i]] = result[Jobs[i]]
             /\ i = stage => result'[Jobs[i]] = how
  BY <1>1, <1>2, JobFacts, JobsDiffer
<1>4. JobsInOrder'
  <2>1. ASSUME NEW i \in 1..6
        PROVE  /\ i < stage' => result'[Jobs[i]] \in Ended
               /\ i = stage' => result'[Jobs[i]] = "none"
               /\ i > stage' => result'[Jobs[i]] = "none"
    BY <1>1, <1>3, <2>1 DEF ControlOK, JobsInOrder
  <2> QED
    BY <2>1 DEF JobsInOrder
<1>5. ~Running'
  <2>1. ASSUME stage' \in 1..6 PROVE result'[Jobs[stage']] = "none"
    BY <1>1, <1>3, <2>1 DEF ControlOK, JobsInOrder
  <2> QED
    BY <2>1, JobFacts DEF Running, Current
<1>6. RunTyped'
  <2>1. result' \in [JobNames -> Results]
    BY <1>1, <1>2 DEF Results
  <2> QED
    BY <1>1, <2>1 DEF ControlOK, RunTyped
<1>7. BuildIsNamed'
  <2>1. Succeeded("build")' => Succeeded("build")
    BY <1>2, JobFacts DEF Succeeded
  <2> QED
    BY <1>1, <2>1 DEF ControlOK, BuildIsNamed
<1> QED
  BY <1>1, <1>4, <1>5, <1>6, <1>7 DEF ControlOK, StepsInOrder, TreeIsNamed

LEMMA FinishedKeeps ==
  ASSUME ControlOK, Running, NEW how \in Ended, Finished(how),
         Current = "build" => how # "success"
  PROVE  /\ ControlOK' /\ ~Running' /\ stage' = stage + 1
         /\ result' = [result EXCEPT ![Current] = how]
         /\ UNCHANGED <<head, run, tree, taken>>
<1>1. /\ stage \in 1..6 /\ stage' = stage + 1 /\ todo' \in Seq(StepNames)
      /\ result' = [result EXCEPT ![Current] = how] /\ UNCHANGED <<head, run, tree, taken>>
  BY JobFacts DEF Running, Finished
<1> QED
  BY <1>1, HandOver

\* A job that goes on has one step less to do.
LEMMA TailKeeps ==
  ASSUME ControlOK, Running, Len(todo) # 1, todo' = Tail(todo), taken' \in Nat,
         UNCHANGED <<head, run, tree, stage, result>>
  PROVE  ControlOK' /\ Running' /\ Len(todo') = Len(todo) - 1 /\ Current' = Current
<1>1. /\ Running' /\ Current' = Current /\ StepsOf(Current)' = StepsOf(Current)
  BY DEF Running, Current, StepsOf, ProductionSteps
<1>2. todo \in Seq(StepNames) /\ Len(todo) \in Nat \ {0} /\ todo # <<>>
  BY StepsHavePlaces, LenProperties DEF ControlOK, RunTyped, StepsInOrder
<1>3. /\ Tail(todo) \in Seq(StepNames) /\ Len(Tail(todo)) = Len(todo) - 1
      /\ \A i \in 1..Len(Tail(todo)) : Tail(todo)[i] = todo[i + 1]
  BY <1>2, HeadTailProperties
<1>4. StepsInOrder'
  <2> DEFINE n == Len(StepsOf(Current))
  <2>1. Len(todo) \in 1..n /\ n \in Nat
    BY <1>2, StepsAreFew, CurrentIsJob, JobFacts DEF ControlOK, StepsInOrder, Running
  <2> HIDE DEF n
  <2>2. Len(todo') \in 1..n
    BY <1>2, <1>3, <2>1
  <2>3. ASSUME NEW i \in 1..Len(todo')
        PROVE  todo'[i] = StepsOf(Current)[n - Len(todo') + i]
    <3>1. todo'[i] = todo[i + 1] /\ i + 1 \in 1..Len(todo)
      BY <1>2, <1>3
    <3>2. todo[i + 1] = StepsOf(Current)[n - Len(todo) + (i + 1)]
      BY <3>1 DEF ControlOK, StepsInOrder, n
    <3>3. n - Len(todo) + (i + 1) = n - Len(todo') + i
      BY <1>2, <1>3, <2>1
    <3> QED
      BY <3>1, <3>2, <3>3
  <2> QED
    BY <1>1, <2>2, <2>3 DEF StepsInOrder, n
<1> QED
  BY <1>1, <1>2, <1>3, <1>4
     DEF ControlOK, RunTyped, JobsInOrder, BuildIsNamed, TreeIsNamed, Running, Succeeded

LEMMA DoneKeeps ==
  ASSUME ControlOK, Running, Done, taken' \in Nat, Current # "build"
  PROVE  /\ ControlOK' /\ UNCHANGED <<head, run, tree>>
         /\ \/ /\ Len(todo) # 1 /\ Len(todo') = Len(todo) - 1 /\ Running' /\ Current' = Current
               /\ UNCHANGED <<stage, result>>
            \/ /\ Len(todo) = 1 /\ ~Running' /\ stage' = stage + 1
               /\ result' = [result EXCEPT ![Current] = "success"]
         /\ Head(todo) # "backup" => taken' = taken
<1>1. CASE Len(todo) = 1
  BY <1>1, FinishedKeeps DEF Done, Ended, Finished
<1>2. CASE Len(todo) # 1
  BY <1>2, TailKeeps DEF Done
<1> QED
  BY <1>1, <1>2

-----------------------------------------------------------------------------
(* The deploy workflow: what success goes on to mean                       *)

\* Gates stay held while jobs only begin when wanted and nothing takes a success back.
LEMMA GatesStay ==
  ASSUME GatesHeld, run' = run,
         \A n \in JobNames : Succeeded(n) => Succeeded(n)',
         \A n \in JobNames : Begun(n)' => Begun(n) \/ JobWanted(n),
         Succeeded("release-check")' => Succeeded("release-check") \/ ReleaseHappened,
         result'["release-check"] = "skipped" => result["release-check"] = "skipped"
  PROVE  GatesHeld'
<1>1. ProductionMayRelease => ProductionMayRelease'
  BY JobFacts DEF ProductionMayRelease
<1>2. ReleaseHappened => ReleaseHappened'
  BY JobFacts DEF ReleaseHappened, Wanted, Outcome, Succeeded
<1>3. /\ JobWanted("staging-migrate") => Succeeded("build")
      /\ JobWanted("staging-deploy") => Succeeded("build") /\ (Succeeded("staging-migrate") \/ run.rollback)
      /\ JobWanted("staging-smoke") => Succeeded("staging-deploy")
      /\ JobWanted("production-release") => ProductionMayRelease
  BY DEF JobWanted
<1> QED
  BY <1>1, <1>2, <1>3, JobFacts DEF GatesHeld

\* What a success says stays true while schemas only grow and proofs are kept.
LEMMA EarnedStays ==
  ASSUME SuccessIsEarned, run' = run, proved \subseteq proved',
         schema \in [Envs -> Nat], schema' \in [Envs -> Nat], \A e \in Envs : schema[e] <= schema'[e],
         run.sha \in Commits,
         Succeeded("staging-migrate")' =>
           Succeeded("staging-migrate") \/ Migrations[run.sha] <= schema'["staging"],
         Succeeded("staging-smoke")' => Succeeded("staging-smoke") \/ Smoked("staging")',
         Succeeded("production-release")' =>
           \/ Succeeded("production-release")
           \/ Smoked("production")' /\ (run.rollback \/ Migrations[run.sha] <= schema'["production"])
  PROVE  SuccessIsEarned'
<1>1. \A e \in Envs : Smoked(e) => Smoked(e)'
  BY DEF Smoked
<1>2. Migrations[run.sha] \in Nat
  BY CommitsAssumption
<1>3. \A e \in Envs : Migrations[run.sha] <= schema[e] => Migrations[run.sha] <= schema'[e]
  BY <1>2
<1> QED
  BY <1>1, <1>3 DEF SuccessIsEarned, Envs

\* Nothing is claimed before the build is done.
LEMMA NothingBegun ==
  ASSUME \A n \in JobNames \ {"build"} : result'[n] = "none"
  PROVE  GatesHeld' /\ SuccessIsEarned' /\ MigrationOnItsWay'
<1>1. GatesHeld' /\ SuccessIsEarned'
  BY JobFacts DEF GatesHeld, SuccessIsEarned, Begun, Succeeded
<1>2. Running' => Current' = "build"
  BY JobFacts DEF Running, Current
<1> QED
  BY <1>1, <1>2 DEF MigrationOnItsWay

-----------------------------------------------------------------------------
(* The deploy workflow: every step keeps its invariant                     *)

\* How far the results of others are from what a job does to its own.
LEMMA ResultsGoOn ==
  ASSUME result \in [JobNames -> Results], stage \in 1..6, NEW how \in Ended,
         result[Current] \in {"none", "running"}, result[Current] = "none" => how # "success",
         result' = result \/ result' = [result EXCEPT ![Current] = how]
  PROVE  /\ \A n \in JobNames : Succeeded(n) => Succeeded(n)'
         /\ \A n \in JobNames : Begun(n)' => Begun(n)
         /\ \A n \in JobNames :
              Succeeded(n)' => Succeeded(n) \/ (n = Current /\ how = "success" /\ result' # result)
<1>1. Current \in JobNames
  BY CurrentIsJob
<1>2. CASE result' = result
  BY <1>2, Zenon DEF Succeeded, Begun
<1>3. CASE result' # result
  <2>1. result'[Current] = how /\ \A n \in JobNames \ {Current} : result'[n] = result[n]
    BY <1>1, <1>3
  <2>2. ASSUME NEW n \in JobNames
        PROVE  /\ Succeeded(n) => Succeeded(n)'
               /\ Begun(n)' => Begun(n)
               /\ Succeeded(n)' => Succeeded(n) \/ (n = Current /\ how = "success")
    <3>1. CASE n = Current
      BY <1>1, <2>1, <3>1 DEF Succeeded, Begun, Ended
    <3>2. CASE n # Current
      BY <2>1, <3>2 DEF Succeeded, Begun
    <3> QED
      BY <3>1, <3>2
  <2> QED
    BY <1>3, <2>2
<1> QED
  BY <1>2, <1>3

\* A commit has every migration an earlier one has.
LEMMA MigrationsGrow ==
  ASSUME ControlOK, Running, Succeeded("build")
  PROVE  /\ run.sha \in Commits /\ Migrations[run.sha] \in Nat /\ Migrations[tree] \in Nat
         /\ Migrations[run.sha] <= Migrations[tree]
<1>1. run.sha \in Commits /\ tree \in Commits /\ run.sha <= tree
  BY DEF ControlOK, BuildIsNamed, TreeIsNamed, RunTyped
<1> QED
  BY <1>1, CommitsAssumption

\* A job under way after the build has one to name its commit.
LEMMA BuildIsDone ==
  ASSUME ControlOK, GatesHeld, Running,
         Current \in {"staging-migrate", "staging-deploy", "staging-smoke", "production-release"}
  PROVE  Succeeded("build")
<1>1. Begun(Current)
  BY DEF Running, Begun
<1>2. Begun("staging-deploy") => Succeeded("build")
  BY DEF GatesHeld
<1>3. Succeeded("staging-deploy") => Begun("staging-deploy")
  BY DEF Succeeded, Begun
<1> QED
  BY <1>1, <1>2, <1>3 DEF GatesHeld, ProductionMayRelease

LEMMA RollbackStaysKnown ==
  ASSUME RollbackIsKnown(run), run' = run, served \subseteq served'
  PROVE  RollbackIsKnown(run)'
BY Zenon DEF RollbackIsKnown, Wanted

\* What a step does for the schema of its environment, by its place in the job.
WayGoesOn ==
  /\ Current = "staging-migrate" /\ Len(todo) = 2 => Migrations[tree] <= schema'["staging"]
  /\ Current = "production-release" =>
       /\ Len(todo) = 7 => taken' = schema'["production"]
       /\ Len(todo) = 6 => schema'["production"] \in kept'["production"]
       /\ Len(todo) <= 5 => Migrations[tree] <= schema'["production"]

LEMMA PlacesDiffer ==
  /\ 7 # 6 /\ 7 # 5 /\ ~(7 <= 4) /\ ~(7 <= 5) /\ 6 # 7 /\ ~(6 <= 5) /\ 5 # 7 /\ 5 # 6
  /\ 3 # 2 /\ 1 # 2 /\ 4 # 7 /\ 4 # 6 /\ 3 # 7 /\ 3 # 6 /\ 2 # 7 /\ 2 # 6 /\ 1 # 7 /\ 1 # 6
  /\ "staging-migrate" # "production-release"
OBVIOUS

LEMMA MigrationMoves ==
  ASSUME WayGoesOn, run' = run, tree' = tree, todo \in Seq(StepNames),
         Running' => Current' = Current /\ Len(todo') = Len(todo) - 1
  PROVE  MigrationOnItsWay'
<1>1. Len(todo) \in Nat
  BY LenProperties
<1>2. ASSUME Running'
      PROVE  /\ Len(todo') = 1 => Len(todo) = 2
             /\ Len(todo') = 6 => Len(todo) = 7
             /\ Len(todo') = 5 => Len(todo) = 6
             /\ Len(todo') <= 4 => Len(todo) <= 5
  <2>1. Len(todo') = Len(todo) - 1
    BY <1>2
  <2> QED
    BY ONLY <1>1, <2>1
<1> QED
  BY <1>2, Zenon DEF WayGoesOn, MigrationOnItsWay

\* What a step of a job has to bring so that the invariant holds after it.
LEMMA StepKeeps ==
  ASSUME DeployInduction, Running, Done, taken' \in Nat,
         Current \in {"staging-migrate", "staging-deploy", "staging-smoke", "production-release"},
         HostsTyped', ServedFits', HostsAreServed', WayGoesOn,
         served \subseteq served', proved \subseteq proved',
         \A e \in Envs : schema[e] <= schema'[e],
         Current = "staging-smoke" => Smoked("staging")',
         Current = "production-release" /\ Len(todo) = 1 => Smoked("production")'
  PROVE  DeployInduction'
<1>1. ControlOK /\ GatesHeld /\ SuccessIsEarned /\ MigrationOnItsWay /\ HostsTyped /\ RollbackIsKnown(run)
  BY DEF DeployInduction
<1>2. /\ ControlOK' /\ run' = run /\ tree' = tree
      /\ \/ Len(todo) # 1 /\ result' = result
         \/ Len(todo) = 1 /\ result' = [result EXCEPT ![Current] = "success"]
      /\ Running' => Current' = Current /\ Len(todo') = Len(todo) - 1
  BY <1>1, DoneKeeps
<1>3. Succeeded("build") /\ run.sha \in Commits /\ Migrations[run.sha] \in Nat
      /\ Migrations[tree] \in Nat /\ Migrations[run.sha] <= Migrations[tree]
  BY <1>1, BuildIsDone, MigrationsGrow
<1>4. /\ \A n \in JobNames : Succeeded(n) => Succeeded(n)'
      /\ \A n \in JobNames : Begun(n)' => Begun(n)
      /\ \A n \in JobNames : Succeeded(n)' => Succeeded(n) \/ (n = Current /\ Len(todo) = 1)
  BY <1>1, <1>2, ResultsGoOn, JobFacts DEF ControlOK, RunTyped, Ended, Running
<1>5. GatesHeld'
  <2>1. result'["release-check"] = result["release-check"]
    BY <1>1, <1>2, JobFacts DEF ControlOK, RunTyped
  <2> QED
    BY <1>1, <1>2, <1>4, <2>1, GatesStay, JobFacts
<1>6. \A e \in Envs : schema[e] \in Nat /\ schema'[e] \in Nat
  BY <1>1 DEF HostsTyped
<1>7. ASSUME Current = "staging-migrate", Len(todo) = 1
      PROVE  Migrations[run.sha] <= schema'["staging"]
  BY <1>1, <1>3, <1>6, <1>7 DEF MigrationOnItsWay, Envs
<1>8. ASSUME Current = "production-release", Len(todo) = 1
      PROVE  Migrations[run.sha] <= schema'["production"]
  BY <1>1, <1>3, <1>6, <1>8 DEF MigrationOnItsWay, Envs
<1>9. SuccessIsEarned'
  <2>1. Succeeded("staging-migrate")' =>
          Succeeded("staging-migrate") \/ Migrations[run.sha] <= schema'["staging"]
    BY <1>4, <1>7, JobFacts
  <2>2. Succeeded("staging-smoke")' => Succeeded("staging-smoke") \/ Smoked("staging")'
    BY <1>4, JobFacts
  <2>3. Succeeded("production-release")' =>
          \/ Succeeded("production-release")
          \/ Smoked("production")' /\ (run.rollback \/ Migrations[run.sha] <= schema'["production"])
    BY <1>4, <1>8, JobFacts
  <2>4. schema \in [Envs -> Nat] /\ schema' \in [Envs -> Nat]
    BY <1>1 DEF HostsTyped
  <2> QED
    BY <1>1, <1>2, <1>3, <2>1, <2>2, <2>3, <2>4, EarnedStays
<1>10. RollbackIsKnown(run)'
  BY <1>1, <1>2, RollbackStaysKnown
<1>11. MigrationOnItsWay'
  BY <1>1, <1>2, MigrationMoves DEF ControlOK, RunTyped
<1> QED
  BY <1>2, <1>5, <1>9, <1>10, <1>11 DEF DeployInduction

\* The places of a step, from its name.
LEMMA PlaceOf ==
  ASSUME ControlOK, Running
  PROVE  /\ Head(todo) \in {"backup", "migrate", "keep"} =>
              Current \in {"staging-migrate", "production-release"}
         /\ Head(todo) \in {"label", "up", "await"} =>
              Current \in {"staging-deploy", "production-release"}
         /\ Head(todo) = "smoke" => Current \in {"staging-smoke", "production-release"}
         /\ Head(todo) = "identify" => Current = "build"
         /\ Head(todo) = "check" => Current = "release-check"
         /\ Current = "production-release" /\ Head(todo) \in {"backup", "keep", "migrate"} => ~run.rollback
<1>1. Current \in {"build", "staging-migrate", "staging-deploy", "staging-smoke",
                   "production-release", "release-check"}
  BY CurrentIsJob, JobFacts DEF Running
<1> QED
  BY <1>1, StepsHavePlaces DEF ControlOK, RunTyped

LEMMA EnvsOfJobs ==
  /\ EnvOf(Current) \in Envs
  /\ Current = "production-release" => EnvOf(Current) = "production"
  /\ Current # "production-release" => EnvOf(Current) = "staging"
BY DEF EnvOf, Envs

LEMMA BackUpKeeps ==
  ASSUME DeployInduction, BackUp
  PROVE  DeployInduction' /\ UNCHANGED <<schema, coming>>
<1>1. /\ Running /\ Head(todo) = "backup" /\ Done /\ ControlOK /\ HostsTyped
      /\ UNCHANGED <<schema, kept, proved, answering, coming, variables, served>>
      /\ taken' = schema[EnvOf(Current)]
  BY DEF BackUp, Doing, DeployInduction, hosts, Env
<1>2. Current \in {"staging-migrate", "production-release"}
  BY <1>1, PlaceOf
<1>3. /\ Current = "production-release" => Len(todo) = 7
      /\ Current = "staging-migrate" => Len(todo) = 3
  BY <1>1, StepsHavePlaces DEF ControlOK, RunTyped
<1>4. taken' \in Nat
  BY <1>1, EnvsOfJobs DEF HostsTyped
<1>5. Current = "production-release" => taken' = schema'["production"]
  BY <1>1, EnvsOfJobs
<1>6. WayGoesOn
  BY <1>3, <1>5, PlacesDiffer, Zenon DEF WayGoesOn
<1>7. HostsTyped' /\ ServedFits' /\ HostsAreServed'
  BY <1>1 DEF DeployInduction, HostsTyped, ServedFits, HostsAreServed
<1>8. \A e \in Envs : schema[e] <= schema'[e]
  BY <1>1 DEF HostsTyped
<1> QED
  BY <1>1, <1>2, <1>3, <1>4, <1>6, <1>7, <1>8, StepKeeps

LEMMA KeepKeeps ==
  ASSUME DeployInduction, Keep
  PROVE  DeployInduction' /\ UNCHANGED <<schema, coming>>
<1>1. /\ Running /\ Head(todo) = "keep" /\ Done /\ ControlOK /\ HostsTyped
      /\ UNCHANGED <<schema, proved, answering, coming, variables, served>>
      /\ kept' = [kept EXCEPT ![EnvOf(Current)] = @ \cup {taken}]
  BY DEF Keep, Doing, DeployInduction, hosts, Env
<1>2. Current \in {"staging-migrate", "production-release"}
  BY <1>1, PlaceOf
<1>3. /\ Current = "production-release" => Len(todo) = 6 /\ ~run.rollback
      /\ Current = "staging-migrate" => Len(todo) = 1
  BY <1>1, StepsHavePlaces DEF ControlOK, RunTyped
<1>4. taken \in Nat /\ taken' = taken
  BY <1>1, <1>2, DoneKeeps DEF ControlOK, RunTyped, Done, Finished
<1>5. Current = "production-release" => schema'["production"] \in kept'["production"]
  <2>1. Current = "production-release" => taken = schema["production"]
    BY <1>1, <1>3 DEF DeployInduction, MigrationOnItsWay
  <2>2. taken \in kept'[EnvOf(Current)]
    BY <1>1, EnvsOfJobs DEF HostsTyped
  <2> QED
    BY <1>1, <2>1, <2>2, EnvsOfJobs
<1>6. WayGoesOn
  BY <1>3, <1>5, PlacesDiffer, Zenon DEF WayGoesOn
<1>7. HostsTyped' /\ ServedFits' /\ HostsAreServed'
  <2>1. kept' \in [Envs -> SUBSET Nat]
    BY <1>1, <1>4, EnvsOfJobs DEF HostsTyped
  <2> QED
    BY <1>1, <2>1 DEF DeployInduction, HostsTyped, ServedFits, HostsAreServed
<1>8. \A e \in Envs : schema[e] <= schema'[e]
  BY <1>1 DEF HostsTyped
<1> QED
  BY <1>1, <1>2, <1>3, <1>4, <1>6, <1>7, <1>8, StepKeeps

\* A migration leaves its database no older, and as new as its tree.
LEMMA MigrateRaises ==
  ASSUME ControlOK, HostsTyped, Migrate
  PROVE  /\ schema' \in [Envs -> Nat] /\ \A e \in Envs : schema[e] <= schema'[e]
         /\ Migrations[tree] <= schema'[EnvOf(Current)]
         /\ \A e \in Envs \ {EnvOf(Current)} : schema'[e] = schema[e]
<1>1. schema' = [schema EXCEPT ![EnvOf(Current)] = IF @ < Migrations[tree] THEN Migrations[tree] ELSE @]
  BY DEF Migrate, Env
<1>2. tree \in Commits /\ Migrations[tree] \in Nat /\ schema \in [Envs -> Nat]
  BY CommitsAssumption DEF ControlOK, RunTyped, HostsTyped
<1> QED
  BY <1>1, <1>2, EnvsOfJobs

LEMMA MigrateKeeps ==
  ASSUME DeployInduction, Migrate
  PROVE  /\ DeployInduction' /\ coming' = coming
         /\ schema'["production"] # schema["production"] => schema["production"] \in kept["production"]
<1>1. /\ Running /\ Head(todo) = "migrate" /\ Done /\ ControlOK /\ HostsTyped
      /\ UNCHANGED <<kept, proved, answering, coming, variables, served>>
  BY DEF Migrate, Doing, DeployInduction, hosts
<1>2. Current \in {"staging-migrate", "production-release"}
  BY <1>1, PlaceOf
<1>3. /\ Current = "production-release" => Len(todo) = 5 /\ ~run.rollback
      /\ Current = "staging-migrate" => Len(todo) = 2
  BY <1>1, StepsHavePlaces DEF ControlOK, RunTyped
<1>4. taken \in Nat /\ taken' = taken
  BY <1>1, <1>2, DoneKeeps DEF ControlOK, RunTyped, Done, Finished
<1>5. /\ schema' \in [Envs -> Nat] /\ \A e \in Envs : schema[e] <= schema'[e]
      /\ Migrations[tree] <= schema'[EnvOf(Current)]
      /\ \A e \in Envs \ {EnvOf(Current)} : schema'[e] = schema[e]
  BY <1>1, MigrateRaises
<1>6. WayGoesOn
  BY <1>2, <1>3, <1>5, EnvsOfJobs, PlacesDiffer, Zenon DEF WayGoesOn
<1>7. HostsTyped' /\ HostsAreServed'
  BY <1>1, <1>5 DEF DeployInduction, HostsTyped, HostsAreServed
<1>8. ServedFits'
  <2>1. \A c \in Containers : Migrations[c.tree] \in Nat
    BY CommitsAssumption DEF Containers
  <2>2. schema["production"] \in Nat /\ schema'["production"] \in Nat /\ schema["production"] <= schema'["production"]
    BY <1>1, <1>5 DEF HostsTyped, Envs
  <2> QED
    BY <1>1, <2>1, <2>2 DEF DeployInduction, ServedFits
<1>9. schema'["production"] # schema["production"] => schema["production"] \in kept["production"]
  <2>1. Current = "production-release" => schema["production"] \in kept["production"]
    BY <1>1, <1>3 DEF DeployInduction, MigrationOnItsWay
  <2>2. Current # "production-release" => schema'["production"] = schema["production"]
    BY <1>5, EnvsOfJobs DEF Envs
  <2> QED
    BY <2>1, <2>2
<1> QED
  BY <1>1, <1>2, <1>3, <1>4, <1>5, <1>6, <1>7, <1>8, <1>9, StepKeeps

\* Once production has the schema, the rest of its release leaves it that.
LEMMA LateIsLate == \A n \in 1..4 : n # 7 /\ n # 6 /\ n <= 4
OBVIOUS

LEMMA LateSteps ==
  ASSUME MigrationOnItsWay, Running, schema' = schema, todo \in Seq(StepNames),
         Current \in {"staging-deploy", "staging-smoke", "production-release"},
         Current = "production-release" => Len(todo) \in 1..4
  PROVE  WayGoesOn
<1>1. Current # "staging-migrate"
  OBVIOUS
<1>2. ASSUME Current = "production-release"
      PROVE  Len(todo) # 7 /\ Len(todo) # 6 /\ Len(todo) <= 4
  <2>1. Len(todo) \in 1..4
    BY <1>2
  <2> QED
    BY <2>1, LateIsLate, Zenon
<1>3. Current = "production-release" => Migrations[tree] <= schema'["production"]
  BY <1>2, Zenon DEF MigrationOnItsWay
<1> QED
  BY <1>1, <1>2, <1>3, Zenon DEF WayGoesOn

LEMMA LatePlaces ==
  ASSUME ControlOK, Running, Head(todo) \in {"label", "up", "await", "smoke"}
  PROVE  /\ todo \in Seq(StepNames)
         /\ Current \in {"staging-deploy", "staging-smoke", "production-release"}
         /\ Current = "production-release" => Len(todo) \in 1..4
         /\ Head(todo) # "smoke" => Current # "staging-smoke"
         /\ Head(todo) # "smoke" => Len(todo) # 1 \/ Current = "staging-deploy"
<1>1. Current \in {"staging-deploy", "staging-smoke", "production-release"}
  BY PlaceOf
<1>2. todo \in Seq(StepNames) /\ stage \in 0..7 /\ StepsInOrder
  BY DEF ControlOK, RunTyped
<1>3. CASE Current = "staging-deploy"
  BY <1>2, <1>3, StepsHavePlaces
<1>4. CASE Current = "staging-smoke"
  BY <1>2, <1>4, StepsHavePlaces
<1>5. CASE Current = "production-release"
  <2>1. Head(todo) \notin {"backup", "keep", "migrate"}
    OBVIOUS
  <2>2. \/ Len(todo) \in {2, 3, 4}
        \/ Len(todo) = 1 /\ Head(todo) = "smoke"
    BY <1>2, <1>5, <2>1, StepsHavePlaces
  <2>3. {1, 2, 3, 4} \subseteq 1..4 /\ \A n \in {2, 3, 4} : n # 1
    OBVIOUS
  <2>4. Len(todo) \in {1, 2, 3, 4} /\ (Head(todo) # "smoke" => Len(todo) # 1)
    BY <2>2, <2>3
  <2>5. Current # "staging-smoke"
    BY <1>5
  <2> QED
    BY <1>1, <1>2, <2>3, <2>4, <2>5, Zenon
<1> QED
  BY <1>1, <1>2, <1>3, <1>4, <1>5

\* A late step that says of its environment no more than it has seen.
LEMMA LateKeeps ==
  ASSUME DeployInduction, Running, Done, Head(todo) \in {"label", "up", "await", "smoke"},
         HostsTyped', ServedFits', HostsAreServed',
         schema' = schema, served \subseteq served', proved \subseteq proved',
         \A e \in Envs : Head(todo) = "smoke" /\ e = EnvOf(Current) => Smoked(e)'
  PROVE  DeployInduction'
<1>1. ControlOK /\ HostsTyped /\ MigrationOnItsWay
  BY DEF DeployInduction
<1>2. /\ todo \in Seq(StepNames)
      /\ Current \in {"staging-deploy", "staging-smoke", "production-release"}
      /\ Current = "production-release" => Len(todo) \in 1..4
      /\ Head(todo) # "smoke" => Current # "staging-smoke"
      /\ Head(todo) # "smoke" => Len(todo) # 1 \/ Current = "staging-deploy"
  BY <1>1, LatePlaces
<1>3. WayGoesOn
  BY <1>1, <1>2, LateSteps
<1>4. taken' \in Nat
  BY <1>1, <1>2 DEF ControlOK, RunTyped, Done, Finished
<1>5. \A e \in Envs : schema[e] <= schema'[e]
  BY <1>1 DEF HostsTyped
<1>0. Head(todo) # "smoke" => Current # "staging-smoke" /\ (Current = "production-release" => Len(todo) # 1)
  BY <1>2
<1>6. Current = "staging-smoke" => Smoked("staging")'
  BY <1>0, EnvsOfJobs, Zenon
<1>7. Current = "production-release" /\ Len(todo) = 1 => Smoked("production")'
  BY <1>0, EnvsOfJobs, Zenon
<1> QED
  BY <1>2, <1>3, <1>4, <1>5, <1>6, <1>7, StepKeeps

LEMMA LabelKeeps ==
  ASSUME DeployInduction, Label
  PROVE  DeployInduction' /\ UNCHANGED <<schema, coming>>
<1>1. /\ Running /\ Head(todo) = "label" /\ Done /\ ControlOK /\ HostsTyped
      /\ UNCHANGED <<schema, kept, proved, answering, coming, served>>
      /\ variables' = [variables EXCEPT ![EnvOf(Current)] = run.sha]
  BY DEF Label, Doing, DeployInduction, Env
<1>2. run.sha \in Commits
  <2>1. Current \in {"staging-deploy", "production-release"}
    BY <1>1, PlaceOf
  <2> QED
    BY <1>1, <2>1, BuildIsDone DEF DeployInduction, ControlOK, BuildIsNamed
<1>3. HostsTyped' /\ ServedFits' /\ HostsAreServed'
  BY <1>1, <1>2 DEF DeployInduction, HostsTyped, ServedFits, HostsAreServed
<1> QED
  BY <1>1, <1>3, LateKeeps

LEMMA AwaitKeeps ==
  ASSUME DeployInduction, Await
  PROVE  DeployInduction' /\ UNCHANGED <<schema, coming>>
<1>1. /\ Running /\ Head(todo) = "await" /\ Done
      /\ UNCHANGED <<schema, kept, proved, answering, coming, variables, served>>
  BY DEF Await, Doing, hosts
<1>2. HostsTyped' /\ ServedFits' /\ HostsAreServed'
  BY <1>1 DEF DeployInduction, HostsTyped, ServedFits, HostsAreServed
<1> QED
  BY <1>1, <1>2, LateKeeps

LEMMA SmokeKeeps ==
  ASSUME DeployInduction, Smoke
  PROVE  DeployInduction' /\ UNCHANGED <<schema, coming>>
<1>1. /\ Running /\ Head(todo) = "smoke" /\ Done /\ ControlOK /\ HostsTyped
      /\ UNCHANGED <<schema, kept, answering, coming, variables, served>>
  BY DEF Smoke, Doing, DeployInduction, hosts
<1>2. PICK live \in answering[EnvOf(Current)] :
        Reports(live, run.sha) /\ proved' = proved \cup {<<EnvOf(Current), live>>}
  BY DEF Smoke, Env
<1>3. live \in Containers /\ <<EnvOf(Current), live>> \in served /\ live.sha = run.sha
  <2>1. live \in Containers
    BY <1>1, EnvsOfJobs DEF HostsTyped
  <2>2. <<EnvOf(Current), live>> \in served
    BY <1>2, EnvsOfJobs DEF DeployInduction, HostsAreServed
  <2> QED
    BY <1>2, <2>1, <2>2 DEF Reports
<1>4. HostsTyped' /\ ServedFits' /\ HostsAreServed'
  <2>1. proved' \subseteq Envs \X Containers
    BY <1>1, <1>2, <1>3, EnvsOfJobs DEF HostsTyped
  <2>2. HostsAreServed'
    BY <1>1, <1>2, <1>3 DEF DeployInduction, HostsAreServed
  <2> QED
    BY <1>1, <2>1, <2>2 DEF DeployInduction, HostsTyped, ServedFits
<1>5. ASSUME NEW e \in Envs, e = EnvOf(Current)
      PROVE  Smoked(e)'
  <2>1. run' = run /\ taken' \in Nat /\ Current # "build"
    BY <1>1, PlaceOf DEF ControlOK, RunTyped, Done, Finished
  <2> QED
    BY <1>2, <1>3, <1>5, <2>1 DEF Smoked
<1> QED
  BY <1>1, <1>2, <1>4, <1>5, LateKeeps

LEMMA UpKeeps ==
  ASSUME DeployInduction, Up
  PROVE  /\ DeployInduction' /\ schema' = schema
         /\ \A c \in coming'["production"] \ coming["production"] :
              Current = "production-release" /\ c.tree = tree
<1>1. /\ Running /\ Head(todo) = "up" /\ Done /\ ControlOK /\ HostsTyped
      /\ UNCHANGED <<schema, kept, proved, answering, variables, served>>
      /\ coming' = [coming EXCEPT ![EnvOf(Current)] = {Container(tree, variables[EnvOf(Current)])}]
  BY DEF Up, Doing, DeployInduction, Env
<1>2. /\ Container(tree, variables[EnvOf(Current)]) \in Containers
      /\ Container(tree, variables[EnvOf(Current)]).tree = tree
  BY <1>1, EnvsOfJobs DEF HostsTyped, ControlOK, RunTyped, Container, Containers
<1>3. \A c \in coming'["production"] \ coming["production"] :
        Current = "production-release" /\ c.tree = tree
  <2>1. coming \in [Envs -> SUBSET Containers] /\ "production" \in Envs
    BY <1>1 DEF HostsTyped, Envs
  <2>2. CASE Current = "production-release"
    <3>1. coming'["production"] = {Container(tree, variables[EnvOf(Current)])}
      BY <1>1, <2>1, <2>2, EnvsOfJobs
    <3> QED
      BY <1>2, <2>2, <3>1
  <2>3. CASE Current # "production-release"
    <3>1. coming'["production"] = coming["production"]
      BY <1>1, <2>1, <2>3, EnvsOfJobs
    <3> QED
      BY <3>1
  <2> QED
    BY <2>2, <2>3
<1>4. Current = "production-release" => Migrations[tree] <= schema["production"]
  <2>1. Current = "production-release" => Len(todo) \in 1..4
    BY <1>1, LatePlaces
  <2> QED
    BY <1>1, <2>1, LateIsLate, Zenon DEF DeployInduction, MigrationOnItsWay
<1>5. ServedFits'
  BY <1>1, <1>3, <1>4 DEF DeployInduction, ServedFits
<1>6. HostsTyped' /\ HostsAreServed'
  BY <1>1, <1>2, EnvsOfJobs DEF DeployInduction, HostsTyped, HostsAreServed
<1> QED
  BY <1>1, <1>3, <1>5, <1>6, LateKeeps

\* The build names the commit it checked out; no later job has begun.
LEMMA IdentifyKeeps ==
  ASSUME DeployInduction, Identify
  PROVE  DeployInduction' /\ UNCHANGED <<schema, coming>>
<1>1. /\ Running /\ Head(todo) = "identify" /\ ControlOK /\ HostsTyped
      /\ run' = [run EXCEPT !.sha = tree] /\ stage' = stage + 1 /\ todo' = <<>>
      /\ result' = [result EXCEPT ![Current] = "success"]
      /\ UNCHANGED <<head, tree, taken, schema, kept, proved, answering, coming, variables, served>>
  BY DEF Identify, Doing, DeployInduction, hosts
<1>2. Current = "build" /\ stage = 1
  <2>1. Current = "build"
    BY <1>1, PlaceOf
  <2>2. stage \in 1..6 /\ Jobs[stage] = Jobs[1]
    BY <1>1, <2>1, JobFacts DEF Running, Current
  <2>3. stage = 1
    BY <2>2, JobsDiffer
  <2> QED
    BY <2>1, <2>3
<1>3. /\ run \in RunRows /\ tree \in Commits /\ run' \in RunRows
      /\ run'.sha = tree /\ run'.ref = run.ref /\ run'.rollback = run.rollback
      /\ run'.skipStaging = run.skipStaging /\ run'.skipProduction = run.skipProduction
  BY <1>1 DEF ControlOK, RunTyped, RunRows
<1>4. /\ result'["build"] = "success" /\ result' \in [JobNames -> Results]
      /\ \A n \in JobNames \ {"build"} : result'[n] = result[n] /\ result[n] = "none"
  <2>1. \A n \in JobNames \ {"build"} : result[n] = "none"
    BY <1>1, <1>2, JobFacts DEF ControlOK, JobsInOrder
  <2>2. result \in [JobNames -> Results] /\ "build" \in JobNames /\ "success" \in Results
    BY <1>1, JobFacts DEF ControlOK, RunTyped, Results, Ended
  <2> QED
    BY <1>1, <1>2, <2>1, <2>2
<1>5. JobsInOrder' /\ ~Running'
  <2>1. stage' = 2
    BY <1>1, <1>2
  <2>2. ~Running'
    BY <2>1, <1>4, JobFacts DEF Running, Current
  <2> QED
    BY <2>1, <2>2, <1>4, JobFacts DEF JobsInOrder, Ended
<1>6. RunTyped'
  BY <1>1, <1>2, <1>3, <1>4 DEF ControlOK, RunTyped
<1>7. BuildIsNamed'
  <2>1. /\ run.ref # Main => tree = run.ref
        /\ run.ref = Main => tree <= head
    BY <1>1 DEF ControlOK, TreeIsNamed
  <2> QED
    BY <1>1, <1>3, <2>1 DEF BuildIsNamed
<1>8. ControlOK'
  BY <1>5, <1>6, <1>7 DEF ControlOK, StepsInOrder, TreeIsNamed
<1>9. GatesHeld' /\ SuccessIsEarned' /\ MigrationOnItsWay'
  <2>1. \A n \in JobNames \ {"build"} : result'[n] = "none"
    BY <1>4
  <2> QED
    BY <2>1, NothingBegun
<1>10. RollbackIsKnown(run)'
  BY <1>1, <1>3 DEF DeployInduction, RollbackIsKnown, Wanted
<1>11. HostsTyped' /\ ServedFits' /\ HostsAreServed'
  BY <1>1 DEF DeployInduction, HostsTyped, ServedFits, HostsAreServed
<1> QED
  BY <1>1, <1>8, <1>9, <1>10, <1>11 DEF DeployInduction

\* A job that ends some other way claims nothing, except that the last one has looked.
LEMMA EndingKeeps ==
  ASSUME DeployInduction, stage \in 1..6, NEW how \in Ended,
         result[Current] \in {"none", "running"},
         how = "success" => Current = "release-check" /\ ReleaseHappened /\ result[Current] = "running",
         how = "skipped" => Current # "release-check",
         stage' = stage + 1, result' = [result EXCEPT ![Current] = how], todo' \in Seq(StepNames),
         UNCHANGED <<head, run, tree, taken, schema, kept, proved, answering, coming, variables, served>>
  PROVE  DeployInduction'
<1>1. ControlOK /\ GatesHeld /\ SuccessIsEarned /\ HostsTyped
  BY DEF DeployInduction
<1>2. ControlOK' /\ ~Running'
  BY <1>1, HandOver
<1>3. /\ \A n \in JobNames : Succeeded(n) => Succeeded(n)'
      /\ \A n \in JobNames : Begun(n)' => Begun(n)
      /\ \A n \in JobNames : Succeeded(n)' => Succeeded(n) \/ (n = Current /\ how = "success")
  BY <1>1, ResultsGoOn DEF ControlOK, RunTyped
<1>4. GatesHeld'
  <2>1. result'["release-check"] = "skipped" => result["release-check"] = "skipped"
    BY <1>1, CurrentIsJob, JobFacts DEF ControlOK, RunTyped
  <2> QED
    BY <1>1, <1>3, <2>1, GatesStay, JobFacts
<1>5. SuccessIsEarned'
  <2>1. /\ Succeeded("staging-migrate")' => Succeeded("staging-migrate")
        /\ Succeeded("staging-smoke")' => Succeeded("staging-smoke")
        /\ Succeeded("production-release")' => Succeeded("production-release")
    BY <1>3, JobFacts
  <2> QED
    BY <1>1, <2>1 DEF SuccessIsEarned, Smoked
<1>6. RollbackIsKnown(run)'
  BY RollbackStaysKnown DEF DeployInduction
<1>7. HostsTyped' /\ ServedFits' /\ HostsAreServed'
  BY DEF DeployInduction, HostsTyped, ServedFits, HostsAreServed
<1>8. MigrationOnItsWay'
  BY <1>2 DEF MigrationOnItsWay
<1> QED
  BY <1>2, <1>4, <1>5, <1>6, <1>7, <1>8 DEF DeployInduction

LEMMA FailKeeps ==
  ASSUME DeployInduction, Fail
  PROVE  DeployInduction' /\ UNCHANGED <<schema, coming>>
<1>1. /\ Running /\ stage \in 1..6 /\ result[Current] = "running"
      /\ stage' = stage + 1 /\ result' = [result EXCEPT ![Current] = "failure"] /\ todo' \in Seq(StepNames)
      /\ UNCHANGED <<head, run, tree, taken, schema, kept, proved, answering, coming, variables, served>>
  BY JobFacts DEF Fail, Finished, Running, hosts
<1> QED
  BY <1>1, EndingKeeps DEF Ended

LEMMA CheckReleaseKeeps ==
  ASSUME DeployInduction, CheckRelease
  PROVE  DeployInduction' /\ UNCHANGED <<schema, coming>>
<1> DEFINE how == IF ReleaseHappened THEN "success" ELSE "failure"
<1>1. /\ Running /\ stage \in 1..6 /\ result[Current] = "running"
      /\ stage' = stage + 1 /\ result' = [result EXCEPT ![Current] = how] /\ todo' \in Seq(StepNames)
      /\ UNCHANGED <<head, run, tree, taken, schema, kept, proved, answering, coming, variables, served>>
  BY JobFacts DEF CheckRelease, Finished, Doing, Running, hosts
<1>2. Current = "release-check"
  BY <1>1, PlaceOf DEF DeployInduction, CheckRelease, Doing
<1>3. how \in Ended /\ how # "skipped" /\ (how = "success" => ReleaseHappened)
  BY DEF Ended
<1> HIDE DEF how
<1> QED
  BY <1>1, <1>2, <1>3, EndingKeeps

-----------------------------------------------------------------------------
(* The deploy workflow: runs and jobs begin                                *)

LEMMA DispatchKeeps ==
  ASSUME DeployInduction, NEW r \in Inputs, Dispatch(r)
  PROVE  DeployInduction' /\ UNCHANGED <<schema, coming>>
<1>1. /\ RollbackIsKnown(r) /\ r.ref <= head /\ run' = r /\ stage' = 1
      /\ result' = [n \in JobNames |-> "none"] /\ proved' = {}
      /\ UNCHANGED <<head, todo, tree, taken, schema, kept, answering, coming, variables, served>>
  BY DEF Dispatch, hosts
<1>2. r \in RunRows /\ (r.rollback => r.ref # Main)
  BY DEF Inputs, RunRows
<1>3. \A n \in JobNames : result'[n] = "none"
  BY <1>1
<1>4. JobsInOrder' /\ ~Running' /\ ~Succeeded("build")'
  <2>1. ~Running' /\ ~Succeeded("build")'
    BY <1>1, <1>3, JobFacts DEF Running, Current, Succeeded
  <2> QED
    BY <1>1, <1>3, <2>1, JobFacts DEF JobsInOrder
<1>5. RunTyped'
  BY <1>1, <1>2 DEF DeployInduction, ControlOK, RunTyped, Results
<1>6. ControlOK'
  BY <1>4, <1>5 DEF ControlOK, StepsInOrder, TreeIsNamed, BuildIsNamed
<1>7. GatesHeld' /\ SuccessIsEarned' /\ MigrationOnItsWay'
  <2>1. \A n \in JobNames \ {"build"} : result'[n] = "none"
    BY <1>3
  <2> QED
    BY <2>1, NothingBegun
<1>8. RollbackIsKnown(run)'
  BY <1>1 DEF RollbackIsKnown, Wanted
<1>9. HostsTyped' /\ ServedFits' /\ HostsAreServed'
  BY <1>1 DEF DeployInduction, HostsTyped, ServedFits, HostsAreServed
<1> QED
  BY <1>1, <1>6, <1>7, <1>8, <1>9 DEF DeployInduction

\* The steps of a job, when it begins.
LEMMA JobsHaveSteps ==
  ASSUME NEW n \in JobNames
  PROVE  /\ StepsOf(n) \in Seq(StepNames) /\ Len(StepsOf(n)) \in Nat \ {0}
         /\ n = "staging-migrate" => Len(StepsOf(n)) # 1
         /\ n = "production-release" /\ ~run.rollback => Len(StepsOf(n)) = 7
<1>1. n \in {"build", "staging-migrate", "staging-deploy", "staging-smoke",
            "production-release", "release-check"}
  BY JobFacts
<1>2. CASE n = "build"
  <2>1. StepsOf(n) = <<"identify">>
    BY <1>2 DEF StepsOf
  <2>2. StepsOf(n) \in Seq(StepNames) /\ Len(StepsOf(n)) = 1
    BY <2>1 DEF StepNames
  <2> QED
    BY <1>2, <2>2
<1>3. CASE n = "staging-migrate"
  <2>1. StepsOf(n) = <<"backup", "migrate", "keep">>
    BY <1>3 DEF StepsOf, MigrationSteps
  <2>2. StepsOf(n) \in Seq(StepNames) /\ Len(StepsOf(n)) = 3
    BY <2>1 DEF StepNames
  <2>3. 3 \in Nat \ {0} /\ 3 # 1 /\ n # "production-release"
    BY <1>3
  <2> QED
    BY <2>2, <2>3, Zenon
<1>4. CASE n = "staging-deploy"
  <2>1. StepsOf(n) = <<"label", "up", "await">>
    BY <1>4 DEF StepsOf, ReleaseSteps
  <2>2. StepsOf(n) \in Seq(StepNames) /\ Len(StepsOf(n)) = 3
    BY <2>1 DEF StepNames
  <2> QED
    BY <1>4, <2>2
<1>5. CASE n = "staging-smoke"
  <2>1. StepsOf(n) = <<"smoke">>
    BY <1>5 DEF StepsOf
  <2>2. StepsOf(n) \in Seq(StepNames) /\ Len(StepsOf(n)) = 1
    BY <2>1 DEF StepNames
  <2> QED
    BY <1>5, <2>2
<1>6. CASE n = "production-release"
  <2>1. CASE run.rollback
    <3>1. StepsOf(n) = <<"label", "up", "await", "smoke">>
      BY <1>6, <2>1 DEF StepsOf, ProductionSteps
    <3>2. StepsOf(n) \in Seq(StepNames) /\ Len(StepsOf(n)) = 4
      BY <3>1 DEF StepNames
    <3> QED
      BY <1>6, <2>1, <3>2
  <2>2. CASE ~run.rollback
    <3>1. StepsOf(n) = <<"backup", "keep", "migrate", "label", "up", "await", "smoke">>
      BY <1>6, <2>2 DEF StepsOf, ProductionSteps
    <3>2. StepsOf(n) \in Seq(StepNames) /\ Len(StepsOf(n)) = 7
      BY <3>1 DEF StepNames
    <3> QED
      BY <1>6, <2>2, <3>2
  <2> QED
    BY <2>1, <2>2
<1>7. CASE n = "release-check"
  <2>1. StepsOf(n) = <<"check">>
    BY <1>7 DEF StepsOf
  <2>2. StepsOf(n) \in Seq(StepNames) /\ Len(StepsOf(n)) = 1
    BY <2>1 DEF StepNames
  <2> QED
    BY <1>7, <2>2
<1> QED
  BY <1>1, <1>2, <1>3, <1>4, <1>5, <1>6, <1>7

\* A job that is wanted checks the ref out and has all its steps to do.
LEMMA WantedJobBegins ==
  ASSUME DeployInduction, stage \in 1..6, result[Current] = "none", JobWanted(Current),
         result' = [result EXCEPT ![Current] = "running"],
         tree' = Checkout(run.ref), todo' = StepsOf(Current), taken' = NoBackup,
         UNCHANGED <<stage, head, run, schema, kept, proved, answering, coming, variables, served>>
  PROVE  DeployInduction'
<1>1. ControlOK /\ GatesHeld /\ SuccessIsEarned /\ HostsTyped /\ RunTyped /\ RollbackIsKnown(run)
  BY DEF DeployInduction, ControlOK
<1>2. /\ Current \in JobNames /\ Current = Jobs[stage] /\ Current' = Current
      /\ result'[Current] = "running"
      /\ \A n \in JobNames \ {Current} : result'[n] = result[n]
  BY <1>1, CurrentIsJob DEF RunTyped, Current
<1>3. ASSUME NEW i \in 1..6
      PROVE  /\ Jobs[i] \in JobNames
             /\ i # stage => result'[Jobs[i]] = result[Jobs[i]]
             /\ i = stage => result'[Jobs[i]] = "running"
  BY <1>2, JobFacts, JobsDiffer
<1>4. JobsInOrder'
  <2>1. ASSUME NEW i \in 1..6
        PROVE  /\ i < stage' => result'[Jobs[i]] \in Ended
               /\ i = stage' => result'[Jobs[i]] = "running"
               /\ i > stage' => result'[Jobs[i]] = "none"
    BY <1>1, <1>3, <2>1 DEF ControlOK, JobsInOrder
  <2> QED
    BY <2>1 DEF JobsInOrder
<1>5. /\ \A n \in JobNames : Succeeded(n) <=> Succeeded(n)'
      /\ \A n \in JobNames : Begun(n)' => Begun(n) \/ JobWanted(n)
  <2>1. ASSUME NEW n \in JobNames
        PROVE  (Succeeded(n) <=> Succeeded(n)') /\ (Begun(n)' => Begun(n) \/ JobWanted(n))
    <3>1. CASE n = Current
      BY <1>2, <3>1 DEF Succeeded, Begun
    <3>2. CASE n # Current
      BY <1>2, <3>2 DEF Succeeded, Begun
    <3> QED
      BY <3>1, <3>2
  <2> QED
    BY <2>1
<1>6. GatesHeld'
  <2>1. result'["release-check"] = "skipped" => result["release-check"] = "skipped"
    BY <1>2, JobFacts
  <2> QED
    BY <1>1, <1>5, <2>1, GatesStay, JobFacts
<1>7. SuccessIsEarned'
  BY <1>1, <1>5, JobFacts DEF SuccessIsEarned, Smoked
<1>8. /\ tree' \in Commits
      /\ run.ref # Main => tree' = run.ref
      /\ run.ref = Main => tree' = head
  BY <1>1 DEF RunTyped, RunRows, Checkout
<1>9. RunTyped'
  <2>1. result' \in [JobNames -> Results]
    BY <1>1, <1>2 DEF RunTyped, Results
  <2>2. taken' \in Nat
    BY DEF NoBackup
  <2> QED
    BY <1>1, <1>2, <1>8, <2>1, <2>2, JobsHaveSteps DEF RunTyped
<1>10. StepsInOrder'
  <2>1. StepsOf(Current)' = StepsOf(Current)
    BY <1>2 DEF StepsOf, ProductionSteps
  <2>2. Len(StepsOf(Current)) \in Nat \ {0}
    BY <1>2, JobsHaveSteps
  <2> QED
    BY <2>1, <2>2 DEF StepsInOrder
<1>11. BuildIsNamed' /\ TreeIsNamed'
  <2>1. BuildIsNamed'
    BY <1>1, <1>5, JobFacts DEF ControlOK, BuildIsNamed
  <2>2. Succeeded("build")' => run.sha <= tree'
    <3>1. Succeeded("build")' => run.sha \in Nat /\ (run.ref = Main => run.sha <= head) /\ (run.ref # Main => run.sha = run.ref)
      BY <1>1, <1>5, JobFacts, CommitsAssumption DEF ControlOK, BuildIsNamed
    <3> QED
      BY <1>8, <3>1
  <2>3. tree' \in Nat
    BY <1>8, CommitsAssumption
  <2> QED
    BY <1>8, <2>1, <2>2, <2>3 DEF TreeIsNamed
<1>12. MigrationOnItsWay'
  <2>1. Current = "staging-migrate" => Len(todo') # 1
    BY <1>2, JobsHaveSteps
  <2>2. ASSUME Current = "production-release", run.rollback
        PROVE  Migrations[tree'] <= schema["production"]
    <3>1. "production" \in Wanted(run)
      BY <2>2 DEF JobWanted, ProductionMayRelease, Wanted, Envs
    <3>2. PICK p \in served : p[1] = "production" /\ p[2].tree = run.ref
      BY <1>1, <2>2, <3>1 DEF RollbackIsKnown
    <3>3. p[2] \in Containers /\ p = <<"production", p[2]>>
      BY <1>1, <3>2 DEF HostsTyped
    <3>4. run.ref = tree'
      BY <1>1, <1>8, <2>2 DEF RunTyped
    <3> QED
      BY <3>2, <3>3, <3>4 DEF DeployInduction, ServedFits
  <2>3. Current = "production-release" /\ ~run.rollback => Len(todo') = 7
    BY <1>2, JobsHaveSteps
  <2> QED
    <3>1. run' = run /\ schema' = schema
      OBVIOUS
    <3>2. Len(todo') = 7 => Len(todo') # 6 /\ Len(todo') # 5 /\ ~(Len(todo') <= 4)
      BY PlacesDiffer
    <3> QED
      BY <1>2, <2>1, <2>2, <2>3, <3>1, <3>2, Zenon DEF MigrationOnItsWay
<1>13. RollbackIsKnown(run)'
  BY <1>1, RollbackStaysKnown
<1>14. HostsTyped' /\ ServedFits' /\ HostsAreServed'
  BY DEF DeployInduction, HostsTyped, ServedFits, HostsAreServed
<1> QED
  BY <1>4, <1>6, <1>7, <1>9, <1>10, <1>11, <1>12, <1>13, <1>14 DEF DeployInduction, ControlOK

LEMMA BeginJobKeeps ==
  ASSUME DeployInduction, BeginJob
  PROVE  DeployInduction' /\ UNCHANGED <<schema, coming>>
<1>1. /\ stage \in 1..6 /\ result[Current] = "none" /\ todo \in Seq(StepNames)
      /\ UNCHANGED <<head, run, schema, kept, proved, answering, coming, variables, served>>
  BY JobFacts DEF BeginJob, hosts, DeployInduction, ControlOK, RunTyped
<1>2. CASE JobWanted(Current)
  <2>1. /\ result' = [result EXCEPT ![Current] = "running"]
        /\ tree' = Checkout(run.ref) /\ todo' = StepsOf(Current) /\ taken' = NoBackup
        /\ stage' = stage
    BY <1>2 DEF BeginJob
  <2> QED
    BY <1>1, <1>2, <2>1, WantedJobBegins
<1>3. CASE ~JobWanted(Current)
  <2>1. /\ result' = [result EXCEPT ![Current] = "skipped"] /\ stage' = stage + 1
        /\ UNCHANGED <<tree, todo, taken>>
    BY <1>3 DEF BeginJob
  <2>2. Current # "release-check"
    BY <1>3 DEF JobWanted
  <2> QED
    BY <1>1, <2>1, <2>2, EndingKeeps DEF Ended
<1> QED
  BY <1>2, <1>3

-----------------------------------------------------------------------------
(* The deploy workflow: the platform and the branch                        *)

\* What is not the workflow's own leaves what it has settled.
LEMMA OthersKeep ==
  ASSUME DeployInduction,
         UNCHANGED <<run, stage, todo, tree, result, taken, schema, kept, proved>>,
         head' \in Commits, head <= head',
         HostsTyped', ServedFits', HostsAreServed', served \subseteq served'
  PROVE  DeployInduction'
<1>1. RollbackIsKnown(run)'
  BY RollbackStaysKnown DEF DeployInduction
<1>2. Running' = Running /\ Current' = Current /\ (\A n : Succeeded(n)' = Succeeded(n))
      /\ StepsOf(Current)' = StepsOf(Current)
  BY DEF Running, Current, Succeeded, StepsOf, ProductionSteps
<1>3. head \in Commits /\ tree \in Commits
  BY DEF DeployInduction, ControlOK, RunTyped
<1>4. RunTyped' /\ JobsInOrder' /\ StepsInOrder'
  BY <1>2 DEF DeployInduction, ControlOK, RunTyped, JobsInOrder, StepsInOrder
<1>5. BuildIsNamed'
  <2>1. Succeeded("build") => run.sha \in Nat
    BY CommitsAssumption DEF DeployInduction, ControlOK, BuildIsNamed
  <2> QED
    BY <1>2, <1>3, <2>1, CommitsAssumption DEF DeployInduction, ControlOK, BuildIsNamed
<1>6. TreeIsNamed'
  BY <1>2, <1>3, CommitsAssumption DEF DeployInduction, ControlOK, TreeIsNamed
<1>7. GatesHeld'
  BY DEF DeployInduction, GatesHeld, Begun, Succeeded, ProductionMayRelease, ReleaseHappened, Wanted, Outcome
<1>8. SuccessIsEarned'
  BY DEF DeployInduction, SuccessIsEarned, Succeeded, Smoked
<1>9. MigrationOnItsWay'
  BY <1>2 DEF DeployInduction, MigrationOnItsWay
<1> QED
  BY <1>1, <1>4, <1>5, <1>6, <1>7, <1>8, <1>9 DEF DeployInduction, ControlOK

LEMMA HeadStays ==
  ASSUME DeployInduction
  PROVE  head \in Commits /\ head <= head
BY CommitsAssumption DEF DeployInduction, ControlOK, RunTyped

LEMMA TakeOverKeeps ==
  ASSUME DeployInduction, NEW e \in Envs, TakeOver(e)
  PROVE  /\ DeployInduction' /\ schema' = schema
         /\ coming'["production"] \subseteq coming["production"]
<1>1. /\ answering' = [answering EXCEPT ![e] = @ \cup coming[e]]
      /\ coming' = [coming EXCEPT ![e] = {}] /\ served' = served \cup ({e} \X coming[e])
      /\ UNCHANGED <<head, run, stage, todo, tree, result, taken, variables, schema, kept, proved>>
      /\ HostsTyped /\ ServedFits /\ HostsAreServed
  BY DEF TakeOver, DeployInduction
<1>2. HostsTyped'
  BY <1>1 DEF HostsTyped
<1>3. \A d \in Envs : coming'[d] \subseteq coming[d]
  BY <1>1 DEF HostsTyped
<1>4. ServedFits'
  BY <1>1, <1>3 DEF ServedFits, Envs
<1>5. HostsAreServed'
  <2>1. ASSUME NEW d \in Envs, NEW c \in answering'[d] PROVE <<d, c>> \in served'
    <3>1. c \in answering[d] \/ (d = e /\ c \in coming[e])
      BY <1>1, <2>1 DEF HostsTyped
    <3> QED
      BY <1>1, <3>1 DEF HostsAreServed
  <2> QED
    BY <1>1, <2>1 DEF HostsAreServed
<1> QED
  BY <1>1, <1>2, <1>3, <1>4, <1>5, OthersKeep, HeadStays DEF Envs

LEMMA StopOldKeeps ==
  ASSUME DeployInduction, NEW e \in Envs, NEW c \in answering[e], StopOld(e, c)
  PROVE  DeployInduction' /\ UNCHANGED <<schema, coming>>
<1>1. /\ answering' = [answering EXCEPT ![e] = @ \ {c}]
      /\ UNCHANGED <<head, run, stage, todo, tree, result, taken, coming, variables, schema, kept, proved, served>>
  BY DEF StopOld
<1>2. HostsTyped' /\ ServedFits' /\ HostsAreServed'
  <2>1. \A d \in Envs : answering'[d] \subseteq answering[d]
    BY <1>1 DEF DeployInduction, HostsTyped
  <2>2. answering' \in [Envs -> SUBSET Containers]
    BY <1>1 DEF DeployInduction, HostsTyped
  <2> QED
    BY <1>1, <2>1, <2>2 DEF DeployInduction, HostsTyped, ServedFits, HostsAreServed
<1> QED
  BY <1>1, <1>2, OthersKeep, HeadStays

LEMMA MergeKeeps ==
  ASSUME DeployInduction, Merge
  PROVE  DeployInduction' /\ UNCHANGED <<schema, coming>>
<1>1. /\ head' \in Commits /\ head <= head'
      /\ UNCHANGED <<run, stage, todo, tree, result, taken, schema, kept, proved, answering, coming, variables, served>>
  BY CommitsAssumption DEF Merge, hosts, DeployInduction, ControlOK, RunTyped
<1>2. HostsTyped' /\ ServedFits' /\ HostsAreServed'
  BY <1>1 DEF DeployInduction, HostsTyped, ServedFits, HostsAreServed
<1> QED
  BY <1>1, <1>2, OthersKeep

LEMMA NothingDeployed ==
  ASSUME DeployInduction, UNCHANGED deployVars
  PROVE  DeployInduction' /\ UNCHANGED <<schema, coming>>
<1>1. UNCHANGED <<head, run, stage, todo, tree, result, taken, schema, kept, proved, answering, coming, variables, served>>
  BY DEF deployVars
<1>2. HostsTyped' /\ ServedFits' /\ HostsAreServed'
  BY <1>1 DEF DeployInduction, HostsTyped, ServedFits, HostsAreServed
<1> QED
  BY <1>1, <1>2, OthersKeep, HeadStays

-----------------------------------------------------------------------------
(* The deploy workflow: theorems                                           *)

\* What a step does to production: its schema only moves with a copy kept, and what starts
\* there is the tree of the run's production job.
ProductionStep ==
  /\ schema'["production"] # schema["production"] => schema["production"] \in kept["production"]
  /\ \A c \in coming'["production"] \ coming["production"] :
       Running /\ Current = "production-release" /\ c.tree = tree

LEMMA DeployStarts ==
  ASSUME DeployInit
  PROVE  DeployInduction
<1>1. /\ head = FirstCommit /\ stage = 0 /\ todo = <<>> /\ tree = FirstCommit /\ taken = NoBackup
      /\ result = [n \in JobNames |-> "none"] /\ proved = {}
      /\ FirstCommit \in Commits /\ Migrations[FirstCommit] \in Nat
  BY CommitsAssumption DEF DeployInit
<1>2. /\ run \in RunRows /\ ~run.rollback
  BY DEF DeployInit, RunRows, Main
<1>3. RunTyped
  BY <1>1, <1>2 DEF RunTyped, Results, NoBackup
<1>4. ~Running /\ JobsInOrder /\ ~Succeeded("build")
  BY <1>1, JobFacts DEF Running, JobsInOrder, Succeeded
<1>5. Container(FirstCommit, FirstCommit) \in Containers /\ Container(FirstCommit, FirstCommit).tree = FirstCommit
  BY <1>1 DEF Container, Containers
<1>6. HostsTyped
  BY <1>1, <1>5 DEF DeployInit, HostsTyped
<1>7. ServedFits
  <2>1. /\ coming["production"] = {} /\ schema["production"] = Migrations[FirstCommit]
        /\ served = Envs \X {Container(FirstCommit, FirstCommit)}
    BY DEF DeployInit, Envs
  <2> QED
    BY <1>1, <1>5, <2>1 DEF ServedFits
<1>8. HostsAreServed
  BY <1>1 DEF DeployInit, HostsAreServed
<1>9. GatesHeld /\ SuccessIsEarned
  BY <1>1, JobFacts DEF GatesHeld, SuccessIsEarned, Begun, Succeeded
<1> QED
  BY <1>2, <1>3, <1>4, <1>6, <1>7, <1>8, <1>9
     DEF DeployInduction, ControlOK, StepsInOrder, BuildIsNamed, TreeIsNamed, RollbackIsKnown, MigrationOnItsWay

LEMMA DeployStep ==
  ASSUME DeployInduction, [DeployNext]_deployVars
  PROVE  DeployInduction' /\ ProductionStep
<1>1. ASSUME UNCHANGED <<schema, coming>> PROVE ProductionStep
  BY <1>1 DEF ProductionStep
<1>2. ASSUME NEW r \in Inputs, Dispatch(r) PROVE DeployInduction' /\ ProductionStep
  BY <1>1, <1>2, DispatchKeeps
<1>3. CASE BeginJob
  BY <1>1, <1>3, BeginJobKeeps
<1>4. CASE Migrate
  BY <1>4, MigrateKeeps DEF ProductionStep
<1>5. CASE Up
  BY <1>5, UpKeeps DEF ProductionStep, Up, Doing
<1>6. CASE Identify \/ BackUp \/ Keep \/ Label \/ Await \/ Smoke \/ CheckRelease \/ Fail
  BY <1>1, <1>6, IdentifyKeeps, BackUpKeeps, KeepKeeps, LabelKeeps, AwaitKeeps, SmokeKeeps,
     CheckReleaseKeeps, FailKeeps
<1>7. ASSUME NEW e \in Envs, TakeOver(e) PROVE DeployInduction' /\ ProductionStep
  BY <1>7, TakeOverKeeps DEF ProductionStep
<1>8. ASSUME NEW e \in Envs, NEW c \in answering[e], StopOld(e, c) PROVE DeployInduction' /\ ProductionStep
  BY <1>1, <1>8, StopOldKeeps
<1>9. CASE Merge
  BY <1>1, <1>9, MergeKeeps
<1>10. CASE UNCHANGED deployVars
  BY <1>1, <1>10, NothingDeployed
<1> QED
  BY <1>2, <1>3, <1>4, <1>5, <1>6, <1>7, <1>8, <1>9, <1>10 DEF DeployNext, JobSteps

LEMMA DeployInductionHolds == DeploySpec => []DeployInduction
<1>1. DeployInit => DeployInduction
  BY DeployStarts
<1>2. DeployInduction /\ [DeployNext]_deployVars => DeployInduction'
  BY DeployStep
<1> QED
  BY <1>1, <1>2, PTL DEF DeploySpec

\* A green run served the commit it names wherever it was asked to, and production never
\* runs code ahead of its schema, whatever fails and whatever main does meanwhile
\* (.github/workflows/deploy.yml, ops/release.ts, ops/smoke.ts).
THEOREM ReleasesAreServed == DeploySpec => []ReleasesServe
<1>1. ASSUME DeployInduction, Green PROVE Succeeded("release-check")
  <2>1. stage = 7 /\ \A n \in JobNames : result[n] # "failure"
    BY <1>1, JobFacts DEF Green, RunOver
  <2>2. result[Jobs[6]] \in Ended /\ result["release-check"] # "skipped"
    BY <1>1, <2>1, JobFacts DEF DeployInduction, ControlOK, JobsInOrder, GatesHeld
  <2> QED
    BY <2>1, <2>2, JobFacts DEF Ended, Succeeded
<1>2. ASSUME DeployInduction, Green, NEW e \in Wanted(run)
      PROVE  Smoked(e) /\ (run.rollback \/ Migrations[run.sha] <= schema[e])
  <2>1. Outcome(e) = "success" /\ e \in {"staging", "production"}
    BY <1>1, <1>2 DEF DeployInduction, GatesHeld, ReleaseHappened, Wanted, Envs
  <2>2. CASE e = "staging"
    <3>1. Succeeded("staging-smoke") /\ Begun("staging-smoke")
      BY <2>1, <2>2 DEF Outcome, Succeeded, Begun
    <3>2. Succeeded("staging-deploy") /\ Begun("staging-deploy")
      BY <1>2, <3>1 DEF DeployInduction, GatesHeld, Succeeded, Begun
    <3> QED
      BY <1>2, <2>2, <3>1, <3>2 DEF DeployInduction, GatesHeld, SuccessIsEarned
  <2>3. CASE e = "production"
    <3>1. Succeeded("production-release")
      BY <2>1, <2>3 DEF Outcome, Succeeded
    <3> QED
      BY <1>2, <2>3, <3>1 DEF DeployInduction, SuccessIsEarned
  <2> QED
    BY <2>1, <2>2, <2>3
<1>3. ASSUME DeployInduction PROVE GreenMeansServed
  <2>1. ASSUME Green PROVE Wanted(run) # {}
    BY <1>1, <1>3, <2>1 DEF DeployInduction, GatesHeld, ReleaseHappened
  <2>2. ASSUME Green, NEW e \in Wanted(run)
        PROVE  /\ \E p \in proved : p[1] = e /\ p[2].sha = run.sha
               /\ run.rollback \/ schema[e] >= Migrations[run.sha]
    <3>1. PICK c \in Containers : <<e, c>> \in proved /\ c.sha = run.sha
      BY <1>2, <1>3, <2>2 DEF Smoked
    <3>2. schema[e] \in Nat
      BY <1>3 DEF DeployInduction, HostsTyped, Wanted
    <3>3. ~run.rollback => Migrations[run.sha] \in Nat
      <4>1. run.sha \in Commits
        <5>1. c \in Containers /\ c.sha = run.sha
          BY <3>1
        <5> QED
          BY <5>1 DEF Containers
      <4> QED
        BY <4>1, CommitsAssumption
    <3> QED
      BY <1>2, <1>3, <2>2, <3>1, <3>2, <3>3
  <2> QED
    BY <2>1, <2>2 DEF GreenMeansServed
<1>4. ASSUME DeployInduction PROVE SchemaLeadsCode
  <2>1. ASSUME NEW c \in answering["production"] \cup coming["production"]
        PROVE  c \in Containers /\ (<<"production", c>> \in served \/ c \in coming["production"])
    BY <1>4, <2>1 DEF DeployInduction, HostsTyped, HostsAreServed, Envs
  <2> QED
    BY <1>4, <2>1 DEF DeployInduction, ServedFits, SchemaLeadsCode
<1>5. DeployInduction => ReleasesServe
  BY <1>3, <1>4 DEF ReleasesServe
<1> QED
  BY <1>5, DeployInductionHolds, PTL

\* A run of a fixed commit starts on production only the tree that staging has answered
\* the smoke test with, and production's schema changes only when a backup of the old one
\* was uploaded (.github/workflows/deploy.yml, docs/operations.md).
THEOREM ProductionStaysGuarded == DeploySpec => ProductionIsGuarded
<1> DEFINE New == coming'["production"] \ coming["production"]
           Rehearsed == \A c \in New : \E p \in proved : p[1] = "staging" /\ p[2].tree = c.tree
           Saved == schema'["production"] # schema["production"] =>
                      schema["production"] \in kept["production"]
<1>1. ASSUME DeployInduction, [DeployNext]_deployVars PROVE ProductionStep
  BY <1>1, DeployStep
<1>2. ASSUME DeployInduction, ProductionStep, LabelsAreTrue, run.ref # Main, ~run.skipStaging,
             NEW c \in New
      PROVE  \E p \in proved : p[1] = "staging" /\ p[2].tree = c.tree
  <2>1. Running /\ Current = "production-release" /\ c.tree = tree
    BY <1>2 DEF ProductionStep
  <2>2. Succeeded("build") /\ Succeeded("staging-smoke")
    BY <1>2, <2>1 DEF DeployInduction, GatesHeld, Begun, Running, ProductionMayRelease
  <2>3. tree = run.sha
    BY <1>2, <2>1, <2>2 DEF DeployInduction, ControlOK, BuildIsNamed, TreeIsNamed
  <2>4. PICK d \in Containers : <<"staging", d>> \in proved /\ d.sha = run.sha
    BY <1>2, <2>2 DEF DeployInduction, SuccessIsEarned, Smoked
  <2>5. d.tree = d.sha
    <3>1. <<"staging", d>> \in served
      BY <1>2, <2>4 DEF DeployInduction, HostsAreServed
    <3> QED
      BY <1>2, <3>1 DEF LabelsAreTrue
  <2> QED
    BY <2>1, <2>3, <2>4, <2>5
<1>3. DeployInduction /\ [DeployNext]_deployVars =>
        [LabelsAreTrue /\ run.ref # Main /\ ~run.skipStaging => Rehearsed]_deployVars
  BY <1>1, <1>2
<1>4. DeployInduction /\ [DeployNext]_deployVars => [Saved]_deployVars
  BY <1>1 DEF ProductionStep
<1>5. DeploySpec => NothingMigratedUnsaved
  BY <1>4, DeployInductionHolds, PTL DEF DeploySpec, NothingMigratedUnsaved
<1>6. DeploySpec => RehearsedFirst
  BY <1>3, DeployInductionHolds, PTL DEF DeploySpec, RehearsedFirst
<1> QED
  BY <1>5, <1>6 DEF ProductionIsGuarded

-----------------------------------------------------------------------------
(* Backups: their invariant                                                *)

Filled(file) == file.at \in Nat \ {0}

ScriptsTyped ==
  /\ backup.step \in {"idle", "count", "metric"}
  /\ backup.step # "idle" => backup.n \in Archives
  /\ restore \in [step : {"idle", "fill", "compare", "restored", "mismatch", "refused"},
                  a : Archives, m : Archives, target : Databases]
  /\ backup = [step |-> backup.step, n |-> backup.n, left |-> backup.left, rows |-> backup.rows]
  /\ contents = [d \in Databases |-> contents[d]]
  /\ archive = [n \in Archives |-> archive[n]]
  /\ manifest = [n \in Archives |-> manifest[n]]
  /\ dumped = [n \in Archives |-> dumped[n]]

\* A file is there from the dump on.
ArchivesAreDumped == \A n \in Archives : dumped[n] = Absent => archive[n] = Absent

\* A manifest holds the digest of what was dumped.
ManifestsAreTrue ==
  \A n \in Archives :
    manifest[n] # NoManifest => manifest[n].digest = dumped[n] /\ Filled(dumped[n])

\* The archive of a backup whose manifest is being written is as it was dumped.
BackupOnItsWay ==
  /\ backup.step = "count" =>
       /\ Filled(dumped[backup.n]) /\ archive[backup.n] = dumped[backup.n]
       /\ manifest[backup.n] = NoManifest
  /\ backup.step = "metric" => manifest[backup.n] # NoManifest

\* A restore past its digest works on the dump its manifest names.
RestoreOnItsWay ==
  /\ restore.step \in {"fill", "compare", "restored", "mismatch"} =>
       restore.target # "live" /\ manifest[restore.m] # NoManifest
  /\ restore.step = "fill" =>
       archive[restore.a] # Absent /\ archive[restore.a] = dumped[restore.m]
  /\ restore.step \in {"compare", "restored", "mismatch"} =>
       contents[restore.target] = dumped[restore.m]
  /\ restore.step = "mismatch" => dumped[restore.m].rows # manifest[restore.m].rows

MetricNamesBackup == metric # 0 => metric \in Archives /\ manifest[metric] # NoManifest

BackupInduction ==
  /\ ScriptsTyped /\ Filled(Live) /\ ArchivesAreDumped /\ ManifestsAreTrue
  /\ BackupOnItsWay /\ RestoreOnItsWay /\ MetricNamesBackup

-----------------------------------------------------------------------------
(* Backups: every step keeps their invariant                               *)

LEMMA AbsentIsEmpty ==
  /\ Absent.at = 0 /\ \A file : Filled(file) => file # Absent
  /\ NoManifest.digest = Absent
BY DEF Filled, Absent, Content, NoManifest

LEMMA WriteKeeps ==
  ASSUME BackupInduction, NEW t \in TableNames, Write(t)
  PROVE  BackupInduction'
<1>1. UNCHANGED <<archive, manifest, metric, backup, restore, dumped>>
  BY DEF Write
<1>2. PICK rows : contents' = [contents EXCEPT !["live"] = Content(Live.at + 1, rows)]
  BY DEF Write
<1>3. Filled(Content(Live.at + 1, rows))
  BY DEF BackupInduction, Filled, Content
<1>4. /\ contents = [d \in Databases |-> contents[d]] /\ "live" \in Databases
  BY DEF BackupInduction, ScriptsTyped, Databases
<1>5. /\ contents' = [d \in Databases |-> contents'[d]]
      /\ contents'["live"] = Content(Live.at + 1, rows)
      /\ \A d \in Databases \ {"live"} : contents'[d] = contents[d]
  BY <1>2, <1>4
<1>6. ScriptsTyped' /\ Filled(Live)'
  BY <1>1, <1>3, <1>5 DEF BackupInduction, ScriptsTyped, Live, Filled
<1>7. ArchivesAreDumped' /\ ManifestsAreTrue' /\ BackupOnItsWay' /\ MetricNamesBackup'
  BY <1>1 DEF BackupInduction, ArchivesAreDumped, ManifestsAreTrue, BackupOnItsWay, MetricNamesBackup
<1>8. RestoreOnItsWay'
  <2>1. restore.target \in Databases
    BY DEF BackupInduction, ScriptsTyped
  <2> QED
    BY <1>1, <1>5, <2>1 DEF BackupInduction, RestoreOnItsWay
<1> QED
  BY <1>6, <1>7, <1>8 DEF BackupInduction

LEMMA DumpKeeps ==
  ASSUME BackupInduction, NEW n \in Archives, Dump(n)
  PROVE  BackupInduction'
<1>1. /\ backup.step = "idle" /\ dumped[n] = Absent
      /\ archive' = [archive EXCEPT ![n] = Live] /\ dumped' = [dumped EXCEPT ![n] = Live]
      /\ backup' = [step |-> "count", n |-> n, left |-> Tables, rows |-> NoRows]
      /\ UNCHANGED <<contents, manifest, metric, restore>>
  BY DEF Dump, Taken
<1>2. /\ archive = [k \in Archives |-> archive[k]] /\ dumped = [k \in Archives |-> dumped[k]]
      /\ Filled(Live) /\ Live' = Live
  BY <1>1 DEF BackupInduction, ScriptsTyped, Live
<1>3. /\ archive' = [k \in Archives |-> archive'[k]] /\ dumped' = [k \in Archives |-> dumped'[k]]
      /\ archive'[n] = Live /\ dumped'[n] = Live
      /\ \A k \in Archives \ {n} : archive'[k] = archive[k] /\ dumped'[k] = dumped[k]
  BY <1>1, <1>2
<1>4. manifest[n] = NoManifest
  BY <1>1, AbsentIsEmpty DEF BackupInduction, ManifestsAreTrue
<1>5. /\ backup'.step = "count" /\ backup'.n = n
      /\ backup' = [step |-> backup'.step, n |-> backup'.n, left |-> backup'.left, rows |-> backup'.rows]
  BY <1>1
<1>6. ScriptsTyped' /\ Filled(Live)'
  BY <1>1, <1>2, <1>3, <1>5 DEF BackupInduction, ScriptsTyped, Filled
<1>7. ArchivesAreDumped' /\ ManifestsAreTrue'
  BY <1>1, <1>2, <1>3, <1>4, AbsentIsEmpty
     DEF BackupInduction, ArchivesAreDumped, ManifestsAreTrue, Filled
<1>8. BackupOnItsWay' /\ MetricNamesBackup'
  BY <1>1, <1>2, <1>3, <1>4, <1>5 DEF BackupInduction, BackupOnItsWay, MetricNamesBackup, Filled
<1>9. RestoreOnItsWay'
  <2>1. restore.a \in Archives /\ restore.m \in Archives
    BY DEF BackupInduction, ScriptsTyped
  <2>2. manifest[restore.m] # NoManifest => restore.m # n
    BY <1>4
  <2>3. restore.step = "fill" => restore.a # n
    BY <1>1, <2>1 DEF BackupInduction, RestoreOnItsWay, ArchivesAreDumped
  <2> QED
    BY <1>1, <1>3, <2>1, <2>2, <2>3 DEF BackupInduction, RestoreOnItsWay
<1> QED
  BY <1>6, <1>7, <1>8, <1>9 DEF BackupInduction

\* A step of the backup script that leaves the files alone.
LEMMA BackupGoesOn ==
  ASSUME BackupInduction, UNCHANGED <<contents, archive, manifest, restore, dumped>>,
         backup' = [step |-> backup'.step, n |-> backup'.n, left |-> backup'.left, rows |-> backup'.rows],
         backup'.step = "idle" \/ (backup'.step = backup.step /\ backup'.n = backup.n),
         metric' = metric \/ (backup.step = "metric" /\ metric' = backup.n)
  PROVE  BackupInduction'
<1>1. ScriptsTyped' /\ Filled(Live)'
  BY DEF BackupInduction, ScriptsTyped, Filled, Live
<1>2. ArchivesAreDumped' /\ ManifestsAreTrue' /\ RestoreOnItsWay'
  BY DEF BackupInduction, ArchivesAreDumped, ManifestsAreTrue, RestoreOnItsWay
<1>3. BackupOnItsWay'
  BY DEF BackupInduction, BackupOnItsWay
<1>4. MetricNamesBackup'
  BY DEF BackupInduction, BackupOnItsWay, MetricNamesBackup, ScriptsTyped
<1> QED
  BY <1>1, <1>2, <1>3, <1>4 DEF BackupInduction

LEMMA CountKeeps ==
  ASSUME BackupInduction, Count
  PROVE  BackupInduction'
<1>1. /\ backup' = [backup EXCEPT !.rows[Head(backup.left)] = Live.rows[Head(backup.left)], !.left = Tail(@)]
      /\ UNCHANGED <<contents, archive, manifest, metric, restore, dumped>>
  BY DEF Count
<1>2. backup = [step |-> backup.step, n |-> backup.n, left |-> backup.left, rows |-> backup.rows]
  BY DEF BackupInduction, ScriptsTyped
<1>3. /\ backup'.step = backup.step /\ backup'.n = backup.n
      /\ backup' = [step |-> backup'.step, n |-> backup'.n, left |-> backup'.left, rows |-> backup'.rows]
  BY <1>1, <1>2
<1> QED
  BY <1>1, <1>3, BackupGoesOn

LEMMA WriteMetricKeeps ==
  ASSUME BackupInduction, WriteMetric
  PROVE  BackupInduction'
BY BackupGoesOn DEF WriteMetric, MetricIsDue, IdleBackup

LEMMA BackupDiesKeeps ==
  ASSUME BackupInduction, BackupDies
  PROVE  BackupInduction'
BY BackupGoesOn DEF BackupDies, IdleBackup

LEMMA WriteManifestKeeps ==
  ASSUME BackupInduction, WriteManifest
  PROVE  BackupInduction'
<1> DEFINE n == backup.n
           written == [digest |-> archive[n], rows |-> backup.rows]
<1>1. /\ backup.step = "count" /\ n \in Archives /\ manifest[n] = NoManifest
      /\ Filled(dumped[n]) /\ archive[n] = dumped[n]
      /\ manifest' = [manifest EXCEPT ![n] = written] /\ backup' = [backup EXCEPT !.step = "metric"]
      /\ UNCHANGED <<contents, archive, metric, restore, dumped>>
  BY DEF WriteManifest, digestOf, BackupInduction, BackupOnItsWay, ScriptsTyped
<1>2. written.digest = dumped[n] /\ written # NoManifest
  BY <1>1, AbsentIsEmpty
<1> HIDE DEF written
<1>3. /\ manifest' = [k \in Archives |-> manifest'[k]] /\ manifest'[n] = written
      /\ \A k \in Archives \ {n} : manifest'[k] = manifest[k]
  <2>1. manifest = [k \in Archives |-> manifest[k]]
    BY DEF BackupInduction, ScriptsTyped
  <2> QED
    BY <1>1, <2>1
<1>4. /\ backup'.step = "metric" /\ backup'.n = n
      /\ backup' = [step |-> backup'.step, n |-> backup'.n, left |-> backup'.left, rows |-> backup'.rows]
  <2>1. backup = [step |-> backup.step, n |-> backup.n, left |-> backup.left, rows |-> backup.rows]
    BY DEF BackupInduction, ScriptsTyped
  <2> QED
    BY <1>1, <2>1
<1> HIDE DEF n
<1>5. ScriptsTyped' /\ Filled(Live)'
  BY <1>1, <1>3, <1>4 DEF BackupInduction, ScriptsTyped, Filled, Live
<1>6. ArchivesAreDumped' /\ ManifestsAreTrue'
  BY <1>1, <1>2, <1>3 DEF BackupInduction, ArchivesAreDumped, ManifestsAreTrue
<1>7. BackupOnItsWay' /\ MetricNamesBackup'
  BY <1>1, <1>2, <1>3, <1>4 DEF BackupInduction, BackupOnItsWay, MetricNamesBackup
<1>8. RestoreOnItsWay'
  <2>1. manifest[restore.m] # NoManifest => restore.m # n
    BY <1>1
  <2>2. restore.m \in Archives
    BY DEF BackupInduction, ScriptsTyped
  <2> QED
    BY <1>1, <1>3, <2>1, <2>2 DEF BackupInduction, RestoreOnItsWay
<1> QED
  BY <1>5, <1>6, <1>7, <1>8 DEF BackupInduction

LEMMA DamageKeeps ==
  ASSUME BackupInduction, NEW n \in Archives, Damage(n)
  PROVE  BackupInduction'
<1>1. /\ manifest[n] # NoManifest /\ restore.step # "fill"
      /\ archive' = [archive EXCEPT ![n].damaged = TRUE]
      /\ UNCHANGED <<contents, manifest, metric, backup, restore, dumped>>
  BY DEF Damage
<1>2. /\ archive' = [k \in Archives |-> archive'[k]]
      /\ \A k \in Archives \ {n} : archive'[k] = archive[k]
  <2>1. archive = [k \in Archives |-> archive[k]]
    BY DEF BackupInduction, ScriptsTyped
  <2> QED
    BY <1>1, <2>1
<1>3. ScriptsTyped' /\ Filled(Live)'
  BY <1>1, <1>2 DEF BackupInduction, ScriptsTyped, Filled, Live
<1>4. ArchivesAreDumped'
  <2>1. dumped[n] # Absent
    BY <1>1, AbsentIsEmpty DEF BackupInduction, ManifestsAreTrue
  <2> QED
    BY <1>1, <1>2, <2>1 DEF BackupInduction, ArchivesAreDumped
<1>5. ManifestsAreTrue' /\ MetricNamesBackup'
  BY <1>1 DEF BackupInduction, ManifestsAreTrue, MetricNamesBackup
<1>6. BackupOnItsWay'
  <2>1. backup.step = "count" => backup.n # n /\ backup.n \in Archives
    BY <1>1 DEF BackupInduction, BackupOnItsWay, ScriptsTyped
  <2> QED
    BY <1>1, <1>2, <2>1 DEF BackupInduction, BackupOnItsWay
<1>7. RestoreOnItsWay'
  BY <1>1 DEF BackupInduction, RestoreOnItsWay
<1> QED
  BY <1>3, <1>4, <1>5, <1>6, <1>7 DEF BackupInduction

\* A step of the restore script that leaves the backups alone.
LEMMA RestoreGoesOn ==
  ASSUME BackupInduction, UNCHANGED <<archive, manifest, metric, backup, dumped>>,
         contents' = [d \in Databases |-> contents'[d]], Live' = Live,
         restore' \in [step : {"idle", "fill", "compare", "restored", "mismatch", "refused"},
                       a : Archives, m : Archives, target : Databases],
         RestoreOnItsWay'
  PROVE  BackupInduction'
<1>1. ScriptsTyped' /\ Filled(Live)'
  BY DEF BackupInduction, ScriptsTyped, Filled
<1>2. ArchivesAreDumped' /\ ManifestsAreTrue' /\ BackupOnItsWay' /\ MetricNamesBackup'
  BY DEF BackupInduction, ArchivesAreDumped, ManifestsAreTrue, BackupOnItsWay, MetricNamesBackup
<1> QED
  BY <1>1, <1>2 DEF BackupInduction

LEMMA BeginRestoreKeeps ==
  ASSUME BackupInduction, NEW a \in Archives, NEW m \in Archives, NEW target \in Databases,
         BeginRestore(a, m, target)
  PROVE  BackupInduction'
<1> DEFINE step == IF TargetAllowed(target) /\ DigestMatches(a, m) THEN "fill" ELSE "refused"
<1>1. /\ archive[a] # Absent /\ manifest[m] # NoManifest
      /\ restore' = [step |-> step, a |-> a, m |-> m, target |-> target]
      /\ UNCHANGED <<contents, archive, manifest, metric, backup, dumped>>
  BY DEF BeginRestore
<1>2. step \in {"fill", "refused"} /\ (step = "fill" => target # "live" /\ archive[a] = manifest[m].digest)
  BY DEF TargetAllowed, DigestMatches, digestOf
<1> HIDE DEF step
<1>3. /\ restore'.step = step /\ restore'.a = a /\ restore'.m = m /\ restore'.target = target
      /\ restore' \in [step : {"idle", "fill", "compare", "restored", "mismatch", "refused"},
                       a : Archives, m : Archives, target : Databases]
  BY <1>1, <1>2
<1>4. step = "fill" => archive[a] = dumped[m]
  BY <1>1, <1>2 DEF BackupInduction, ManifestsAreTrue
<1>5. RestoreOnItsWay'
  BY <1>1, <1>2, <1>3, <1>4 DEF RestoreOnItsWay
<1>6. contents' = [d \in Databases |-> contents'[d]] /\ Live' = Live
  BY <1>1 DEF BackupInduction, ScriptsTyped, Live
<1> QED
  BY <1>1, <1>3, <1>5, <1>6, RestoreGoesOn

LEMMA FillKeeps ==
  ASSUME BackupInduction, Fill
  PROVE  BackupInduction'
<1>1. /\ restore.step = "fill" /\ restore.target # "live" /\ manifest[restore.m] # NoManifest
      /\ archive[restore.a] = dumped[restore.m]
      /\ restore \in [step : {"idle", "fill", "compare", "restored", "mismatch", "refused"},
                      a : Archives, m : Archives, target : Databases]
      /\ contents = [d \in Databases |-> contents[d]]
      /\ UNCHANGED <<archive, manifest, metric, backup, dumped>>
  BY DEF Fill, BackupInduction, RestoreOnItsWay, ScriptsTyped
<1>2. \/ /\ contents' = [contents EXCEPT ![restore.target] = archive[restore.a]]
         /\ restore' = [restore EXCEPT !.step = "compare"]
      \/ /\ contents' = [contents EXCEPT ![restore.target] = Content(0, NoRows)]
         /\ restore' = [restore EXCEPT !.step = "refused"]
  BY Zenon DEF Fill, Restored
<1>3. PICK file : \E step \in {"compare", "refused"} :
        /\ contents' = [contents EXCEPT ![restore.target] = file]
        /\ restore' = [restore EXCEPT !.step = step]
        /\ step = "compare" => file = archive[restore.a]
  BY <1>2, "refused" # "compare", Zenon
<1>4. PICK step \in {"compare", "refused"} :
        /\ contents' = [contents EXCEPT ![restore.target] = file]
        /\ restore' = [restore EXCEPT !.step = step]
        /\ step = "compare" => file = archive[restore.a]
  BY <1>3
<1>5. /\ restore'.step = step /\ restore'.a = restore.a /\ restore'.m = restore.m
      /\ restore'.target = restore.target
      /\ restore' \in [step : {"idle", "fill", "compare", "restored", "mismatch", "refused"},
                       a : Archives, m : Archives, target : Databases]
  BY <1>1, <1>4
<1>6. /\ contents' = [d \in Databases |-> contents'[d]] /\ contents'[restore.target] = file
      /\ contents'["live"] = contents["live"]
  BY <1>1, <1>4 DEF Databases
<1>7. RestoreOnItsWay'
  BY <1>1, <1>4, <1>5, <1>6 DEF RestoreOnItsWay
<1> QED
  BY <1>1, <1>5, <1>6, <1>7, RestoreGoesOn DEF Live

LEMMA CompareKeeps ==
  ASSUME BackupInduction, Compare
  PROVE  BackupInduction'
<1>1. /\ restore.step = "compare" /\ restore.target # "live" /\ manifest[restore.m] # NoManifest
      /\ contents[restore.target] = dumped[restore.m]
      /\ restore \in [step : {"idle", "fill", "compare", "restored", "mismatch", "refused"},
                      a : Archives, m : Archives, target : Databases]
      /\ contents = [d \in Databases |-> contents[d]]
      /\ UNCHANGED <<contents, archive, manifest, metric, backup, dumped>>
  BY DEF Compare, BackupInduction, RestoreOnItsWay, ScriptsTyped
<1>2. PICK step \in {"restored", "mismatch"} :
        /\ restore' = [restore EXCEPT !.step = step]
        /\ step = "mismatch" => contents[restore.target].rows # manifest[restore.m].rows
  BY DEF Compare
<1>3. /\ restore'.step = step /\ restore'.a = restore.a /\ restore'.m = restore.m
      /\ restore'.target = restore.target
      /\ restore' \in [step : {"idle", "fill", "compare", "restored", "mismatch", "refused"},
                       a : Archives, m : Archives, target : Databases]
  BY <1>1, <1>2
<1>4. RestoreOnItsWay'
  BY <1>1, <1>2, <1>3 DEF RestoreOnItsWay
<1> QED
  BY <1>1, <1>3, <1>4, RestoreGoesOn DEF Live

-----------------------------------------------------------------------------
(* Backups: theorem                                                        *)

LEMMA BackupStarts ==
  ASSUME BackupInit
  PROVE  BackupInduction
<1>1. /\ \A n \in Archives : archive[n] = Absent /\ manifest[n] = NoManifest /\ dumped[n] = Absent
      /\ metric = 0 /\ backup = IdleBackup /\ restore = NoRestore
      /\ contents["live"] = Content(1, NoRows)
  BY DEF BackupInit, Databases
<1>2. backup.step = "idle" /\ restore.step = "idle" /\ Filled(contents["live"])
  BY <1>1 DEF IdleBackup, NoRestore, Filled, Content
<1>3. ScriptsTyped
  BY <1>1, <1>2, BackupAssumption DEF BackupInit, ScriptsTyped, IdleBackup, Archives, NoRestore, Databases
<1> QED
  BY <1>1, <1>2, <1>3
     DEF BackupInduction, Live, ArchivesAreDumped, ManifestsAreTrue, BackupOnItsWay, RestoreOnItsWay,
         MetricNamesBackup

LEMMA BackupStep ==
  ASSUME BackupInduction, [BackupNext]_backupVars
  PROVE  BackupInduction'
<1>1. CASE UNCHANGED backupVars
  <2>1. UNCHANGED <<contents, archive, manifest, metric, backup, restore, dumped>>
    BY <1>1 DEF backupVars
  <2>2. backup = [step |-> backup.step, n |-> backup.n, left |-> backup.left, rows |-> backup.rows]
    BY DEF BackupInduction, ScriptsTyped
  <2> QED
    BY <2>1, <2>2, BackupGoesOn
<1> QED
  BY <1>1, WriteKeeps, DumpKeeps, DamageKeeps, CountKeeps, WriteManifestKeeps, WriteMetricKeeps,
     BackupDiesKeeps, BeginRestoreKeeps, FillKeeps, CompareKeeps DEF BackupNext

\* What a restore reports as restored is the dump its manifest names and nothing else, a
\* quiet backup comes back, and the metric names a backup that is whole, however the
\* scripts are cut short and whatever is written meanwhile (backup/create.ts, restore.ts).
THEOREM BackupsComeBack == BackupSpec => []BackupsAreKept
<1>1. BackupInit => BackupInduction
  BY BackupStarts
<1>2. BackupInduction /\ [BackupNext]_backupVars => BackupInduction'
  BY BackupStep
<1>3. BackupInduction => BackupsAreKept
  BY DEF BackupInduction, ScriptsTyped, RestoreOnItsWay, MetricNamesBackup, BackupsAreKept,
         RestoredIsTheDump, QuietBackupsComeBack, MetricMeansBackup
<1> QED
  BY <1>1, <1>2, <1>3, PTL DEF BackupSpec
=============================================================================
