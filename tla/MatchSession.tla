---------------------------- MODULE MatchSession ----------------------------
(***************************************************************************)
(* One player's session in a match: the browser's match channel            *)
(* (apps/web/src/match), the connection, and what the gateway and the      *)
(* clock broadcaster do for it (apps/server/src/socket).                   *)
(*                                                                         *)
(* A match is its log: an entry for each version, so a snapshot is a       *)
(* prefix of it, and the board a client shows can be compared with the     *)
(* board it should show.  MatchRuntime models how an entry is committed;   *)
(* here a command commits and is published in one step: a transaction that *)
(* waited for its row lock has several round trips left, so commits of one *)
(* match are published in their order.  A sync takes no lock: it reads,    *)
(* joins the room and answers in three steps, and the rest of the world    *)
(* goes on in between.  Connections and the process come and go.           *)
(*                                                                         *)
(* Me is the player whose browser is modelled; the opponent acts at the    *)
(* server.  Requests of one connection are tasks of the server from the    *)
(* moment they are sent (one that is lost on the way is a task that        *)
(* disappears); `down` is the ordered stream of what the server emits.     *)
(***************************************************************************)
EXTENDS Integers, Sequences, SequencesExt

CONSTANTS
  MaxMatches,  \* bound: the first match and the rematches after it
  MaxVersion,  \* bound: the move to this version decides the first match,
               \* and the first move its rematch
  MaxCommands, \* bound: commands Me issues
  MaxFaults    \* bound: lost connections, restarts, failed settlements, unreadable payloads

ASSUME BoundsAssumption ==
  /\ MaxMatches \in Nat \ {0}
  /\ {MaxVersion, MaxCommands, MaxFaults} \subseteq Nat

Match == 1..MaxMatches
None == 0           \* no match, no command
Untracked == -1
NotDue == -1

VARIABLES
  \* the database
  log,       \* per match, the entries committed so far; its length is the version
  due,       \* per match, the version whose turn has used up its clock
  \* the server process
  current,   \* the newest match
  tracked,   \* ClockBroadcaster.tracked: the version whose clock is watched
  tasks,     \* handlers and settlements in progress
  \* the connection
  link,      \* is it up
  conn,      \* its number: a socket is one connection
  room,      \* the match room this socket is in
  attached,  \* session.attached of this socket
  down,      \* what the server has emitted to it and the client has not read
  \* the client
  ch,        \* MatchChannelState
  screen,    \* the matchId the hook is called with
  opening,   \* how far `open` is: "no", "auth", "sync"
  sent,      \* commands issued so far: the next identifier is sent + 1
  faults     \* what has gone wrong so far

server == <<log, due, current, tracked, tasks>>
wire == <<link, conn, room, attached, down>>
client == <<ch, screen, opening, sent>>
vars == <<server, wire, client, faults>>

-----------------------------------------------------------------------------
(* Entries, snapshots, results.                                            *)

\* A move that goes on, a move that decides, a resignation, a timeout.
Kind == {"move", "win", "resign", "timeout"}
Entry == [kind : Kind, cmd : 0..MaxCommands]

Version(m) == Len(log[m])
OverIn(entries) == entries # <<>> /\ Last(entries).kind # "move"
Over(m) == OverIn(log[m])
Snap(m) == [match |-> m, log |-> log[m]]
NoSnap == [match |-> None, log |-> <<>>]

\* What a move of match m aimed at version v turns out to be.
IsRematch(m) == m > 1 /\ log[m - 1] # <<>>
MoveAt(m, v) == IF v + 1 = MaxVersion \/ IsRematch(m) THEN "win" ELSE "move"

\* Me moves first in every match; sides alternate.
MyTurn(m) == Version(m) % 2 = 0

NoPending == [id |-> None, match |-> None, expected |-> 0, kind |-> "move"]

\* CommandResult: the acknowledgement, the snapshot it read, what the room hears.
Result(ack, snap, publish, ended) ==
  [ack |-> ack, snap |-> snap, publish |-> publish, ended |-> ended]

Sync(tag, m) == [kind |-> "sync", pc |-> "received", conn |-> conn, tag |-> tag,
                 match |-> m, snap |-> NoSnap]
Command(cmd) == [kind |-> "command", pc |-> "received", conn |-> conn, cmd |-> cmd]
Settlement(m) == [kind |-> "settle", pc |-> "received", match |-> m]

-----------------------------------------------------------------------------
(* The reducer of match/channel.ts: one operator per event.                *)

\* A pending command is done with once the board is past the version it expects.
ClearPendingFor(c, version) ==
  IF c.pending # NoPending /\ c.pending.expected < version THEN NoPending ELSE c.pending

InputLocked(c) == c.pending # NoPending \/ c.phase # "ready"

InitialChannel(phase) ==
  [match |-> None, log |-> <<>>, pending |-> NoPending, phase |-> phase,
   resync |-> FALSE, ended |-> FALSE]

\* Mutant: a snapshot of the held match is applied whatever its version.
AnySnapshot(c, s) ==
  [c EXCEPT !.match = s.match, !.log = s.log, !.resync = FALSE,
            !.pending = ClearPendingFor(c, Len(s.log))]

OnSnapshot(c, s) ==
  IF c.match # None /\ c.match # s.match
    THEN [InitialChannel(c.phase) EXCEPT !.match = s.match, !.log = s.log]
  ELSE IF c.match # None /\ Len(s.log) < Len(c.log) THEN c
  ELSE [c EXCEPT !.match = s.match, !.log = s.log, !.resync = FALSE,
                 !.pending = ClearPendingFor(c, Len(s.log))]

OnMoveCommitted(c, e) ==
  IF c.match = None \/ e.match # c.match THEN c
  ELSE IF e.version <= Len(c.log) THEN [c EXCEPT !.pending = ClearPendingFor(c, e.version)]
  ELSE IF e.version # Len(c.log) + 1 THEN [c EXCEPT !.resync = TRUE]
  ELSE [c EXCEPT !.log = Append(c.log, e.entry), !.pending = ClearPendingFor(c, e.version)]

OnClockSync(c, e) ==
  IF e.match = c.match /\ e.version > Len(c.log) THEN [c EXCEPT !.resync = TRUE] ELSE c

OnEnded(c, e) ==
  IF c.match # None /\ e.match # c.match THEN c
  ELSE [c EXCEPT !.ended = TRUE, !.pending = NoPending,
                 !.resync = c.match = None \/ Len(c.log) < e.version]

\* A refusal that carries a snapshot replaces the held one, whatever its version.
OnAnswered(c, a) ==
  IF c.pending # NoPending /\ a.cmd # c.pending.id THEN c
  ELSE IF a.ack = "ok" THEN [c EXCEPT !.pending = NoPending]
  ELSE IF a.snap = NoSnap THEN [c EXCEPT !.pending = NoPending, !.resync = TRUE]
  ELSE [c EXCEPT !.pending = NoPending, !.resync = FALSE,
                 !.match = a.snap.match, !.log = a.snap.log]

Reduce(c, msg) ==
  CASE msg.type \in {"snapshot", "synced"} -> OnSnapshot(c, msg.snap)
    [] msg.type = "move"     -> OnMoveCommitted(c, msg)
    [] msg.type = "clock"    -> OnClockSync(c, msg)
    [] msg.type = "ended"    -> OnEnded(c, msg)
    [] msg.type = "answered" -> OnAnswered(c, msg)

-----------------------------------------------------------------------------
(* The hook: after each render its resync effect runs if what it depends on *)
(* has changed.                                                            *)

\* The request the effect sends when the channel goes from `ch` to c.
Resync(c) ==
  IF c.resync /\ c.phase = "ready" /\ <<c.resync, c.phase>> # <<ch.resync, ch.phase>>
    THEN {Sync("effect", screen)} ELSE {}

\* Mutant: a pending command is never sent again.
NeverRetry(snap) == {}

\* retryPending, called with the snapshot the sync of `open` returned.  The
\* pending command is read before the answer's render.
RetryPending(snap) ==
  IF /\ ch.pending # NoPending
     /\ ch.pending.match = snap.match
     /\ ch.pending.expected = Len(snap.log)
    THEN {Command(ch.pending)} ELSE {}

-----------------------------------------------------------------------------
(* What the gateway emits.                                                 *)

\* To the room of match m: this socket hears it if it is there.
Heard(m, msgs) == IF link /\ room = m THEN msgs ELSE <<>>

\* Mutant: only a match that is tracked already is kept up to date.
TrackKnown(snap) ==
  [tracked EXCEPT ![snap.match] =
     IF OverIn(snap.log) \/ @ = Untracked THEN Untracked ELSE Len(snap.log)]

\* ClockBroadcaster.track: the last snapshot tracked wins, not the newest.
Track(snap) ==
  [tracked EXCEPT ![snap.match] = IF OverIn(snap.log) THEN Untracked ELSE Len(snap.log)]

MoveEvent(snap) ==
  [type |-> "move", match |-> snap.match, version |-> Len(snap.log), entry |-> Last(snap.log)]
EndedEvent(snap) == [type |-> "ended", match |-> snap.match, version |-> Len(snap.log)]
SnapshotEvent(snap) == [type |-> "snapshot", snap |-> snap]

\* `settle` in gateway.ts: the room hears the move, or the snapshot of a
\* resignation, then the end.
Publication(r) ==
  (CASE r.publish = "move"     -> <<MoveEvent(r.snap)>>
     [] r.publish = "snapshot" -> <<SnapshotEvent(r.snap)>>
     [] r.publish = "nothing"  -> <<>>)
  \o (IF r.ended THEN <<EndedEvent(r.snap)>> ELSE <<>>)

-----------------------------------------------------------------------------
TypeOK ==
  /\ log \in [Match -> Seq(Entry)]
  /\ due \in [Match -> Nat \cup {NotDue}]
  /\ current \in Match
  /\ tracked \in [Match -> Nat \cup {Untracked}]
  /\ \A m \in Match : tracked[m] # Untracked =>
       tracked[m] <= Version(m) /\ ~OverIn(SubSeq(log[m], 1, tracked[m]))
  /\ \A t \in tasks : t.kind \in {"sync", "command", "settle"} /\ t.pc \in
       {"received", "read", "attached"}
  /\ link \in BOOLEAN /\ conn \in Nat /\ room \in 0..MaxMatches /\ attached \subseteq Match
  /\ \A i \in DOMAIN down : down[i].type \in
       {"snapshot", "synced", "move", "clock", "ended", "answered"}
  /\ ch.match \in 0..MaxMatches /\ ch.log \in Seq(Entry)
  /\ ch.phase \in {"authenticating", "ready", "reconnecting"}
  /\ ch.pending = NoPending \/ ch.pending.id \in 1..sent
  /\ screen \in Match /\ opening \in {"no", "auth", "sync"}
  /\ sent \in 0..MaxCommands
  /\ faults \in Seq({"settlement", "payload", "loss"}) /\ Len(faults) <= MaxFaults

\* A pairing has just been published: the socket is in the room, match:found
\* is on its way, and the match screen opens.
JustPaired ==
  /\ current = MaxMatches /\ sent = 0
  /\ log = [m \in Match |-> <<>>]
  /\ ch = InitialChannel("authenticating")
  /\ opening = "auth"
  /\ down = <<SnapshotEvent(Snap(current))>>

\* Me has resigned the first match and sees its end; a rematch may come.
JustFinished ==
  /\ current = 1 /\ MaxMatches > 1 /\ sent = MaxCommands
  /\ log = [m \in Match |-> IF m = 1 THEN <<[kind |-> "resign", cmd |-> sent]>> ELSE <<>>]
  /\ ch = [InitialChannel("ready") EXCEPT !.match = 1, !.log = log[1], !.ended = TRUE]
  /\ opening = "no"
  /\ down = <<>>

Init ==
  /\ sent \in {0, MaxCommands}
  /\ JustPaired \/ JustFinished
  /\ due = [m \in Match |-> NotDue]
  /\ tracked = [m \in Match |-> IF m = current /\ ~Over(m) THEN 0 ELSE Untracked]
  /\ tasks = {}
  /\ link = TRUE
  /\ conn = 1
  /\ room = current
  /\ attached = {}
  /\ screen = current
  /\ faults = <<>>

Fault(kind) == Len(faults) < MaxFaults /\ faults' = Append(faults, kind)

-----------------------------------------------------------------------------
(* Committing, under the row lock (see MatchRuntime for the transactions). *)

TimedOut(m) == due[m] = Version(m)

SnapAfter(m, entry) == [match |-> m, log |-> Append(log[m], entry)]

TimeoutEntry == [kind |-> "timeout", cmd |-> None]

Refusal(cmd) ==
  IF      \E i \in DOMAIN log[cmd.match] : log[cmd.match][i].cmd = cmd.id THEN "duplicate-command"
  ELSE IF Over(cmd.match)                                THEN "match-ended"
  ELSE IF TimedOut(cmd.match)                            THEN "clock-expired"
  ELSE IF cmd.expected # Version(cmd.match)              THEN "stale-version"
  ELSE IF cmd.kind # "resign" /\ ~MyTurn(cmd.match)      THEN "not-your-turn"
  ELSE "commit"

\* What the result of a command at match m is, if `entry` is what it would commit.
CommandResult(refusal, m, entry, publish) ==
  IF refusal = "clock-expired"
    THEN Result(refusal, SnapAfter(m, TimeoutEntry), "nothing", TRUE)
  ELSE IF refusal # "commit" THEN Result(refusal, Snap(m), "nothing", FALSE)
  ELSE Result("ok", SnapAfter(m, entry), publish, entry.kind # "move")

CommitResult(r) == log' = [log EXCEPT ![r.snap.match] = r.snap.log]

Answer(t, r) ==
  IF link /\ t.conn = conn
    THEN <<[type |-> "answered", cmd |-> t.cmd.id, ack |-> r.ack,
            snap |-> IF r.ack = "ok" THEN NoSnap ELSE r.snap]>>
    ELSE <<>>

\* A command of Me: runCommand, then `settle` in gateway.ts (track, publish to the
\* room, acknowledge).
HandleCommand(t) ==
  /\ t \in tasks /\ t.kind = "command"
  /\ LET cmd == t.cmd
         r   == CommandResult(Refusal(cmd), cmd.match, [kind |-> cmd.kind, cmd |-> cmd.id],
                              IF cmd.kind = "resign" THEN "snapshot" ELSE "move")
     IN  /\ CommitResult(r)
         /\ tracked' = Track(r.snap)
         /\ down' = down \o Heard(cmd.match, Publication(r)) \o Answer(t, r)
  /\ tasks' = tasks \ {t}
  /\ UNCHANGED <<due, current, link, conn, room, attached, client, faults>>

\* The same for the opponent, whose request and acknowledgement are elsewhere:
\* only what it commits and publishes is seen here.
OpponentCommand(resigns) ==
  LET m    == current
      kind == IF resigns THEN "resign" ELSE MoveAt(m, Version(m))
      r    == CommandResult(IF TimedOut(m) THEN "clock-expired" ELSE "commit", m,
                            [kind |-> kind, cmd |-> None],
                            IF resigns THEN "snapshot" ELSE "move")
  IN  /\ ~Over(m)
      /\ resigns \/ ~MyTurn(m)
      /\ CommitResult(r)
      /\ tracked' = Track(r.snap)
      /\ down' = down \o Heard(m, Publication(r))
      /\ UNCHANGED <<due, current, tasks, link, conn, room, attached, client, faults>>

-----------------------------------------------------------------------------
(* match:sync.                                                             *)

\* getSnapshotForActor reads the row; other reads follow before it returns.
SyncRead(t) ==
  /\ t \in tasks /\ t.kind = "sync" /\ t.pc = "received"
  /\ tasks' = (tasks \ {t}) \cup {[t EXCEPT !.pc = "read", !.snap = Snap(t.match)]}
  /\ UNCHANGED <<log, due, current, tracked, wire, client, faults>>

\* match:snapshot and the acknowledgement carry one snapshot: one message.
SyncAnswer(t) == <<[type |-> "synced", tag |-> t.tag, snap |-> t.snap]>>

\* attach: this room and no other.
Attach(t) == IF link /\ t.conn = conn THEN t.match ELSE room

\* attach, track, and recordAttachment, which writes a row the first time.
SyncAttach(t) ==
  /\ t \in tasks /\ t.kind = "sync" /\ t.pc = "read"
  /\ room' = Attach(t)
  /\ tracked' = Track(t.snap)
  /\ IF link /\ t.conn = conn /\ t.match \notin attached
       THEN /\ attached' = attached \cup {t.match}
            /\ tasks' = (tasks \ {t}) \cup {[t EXCEPT !.pc = "attached"]}
            /\ UNCHANGED down
       ELSE /\ down' = down \o (IF link /\ t.conn = conn THEN SyncAnswer(t) ELSE <<>>)
            /\ tasks' = tasks \ {t}
            /\ UNCHANGED attached
  /\ UNCHANGED <<log, due, current, link, conn, client, faults>>

\* The row is written: the snapshot read before is emitted and acknowledged.
SyncEmit(t) ==
  /\ t \in tasks /\ t.kind = "sync" /\ t.pc = "attached"
  /\ down' = down \o (IF link /\ t.conn = conn THEN SyncAnswer(t) ELSE <<>>)
  /\ tasks' = tasks \ {t}
  /\ UNCHANGED <<log, due, current, tracked, link, conn, room, attached, client, faults>>

-----------------------------------------------------------------------------
(* The clock: time passes, and the gateway's tick.                         *)

\* The clock of the turn runs out.
Elapse ==
  /\ ~Over(current)
  /\ due' = [due EXCEPT ![current] = Version(current)]
  /\ UNCHANGED <<log, current, tracked, tasks, wire, client, faults>>

\* Has the watched clock run out?  One of a turn that is over, still watched because
\* of a late snapshot, does so sooner or later.
WatchedRunsOut(m) == tracked[m] = Version(m) => TimedOut(m)
WatchedRuns(m) == tracked[m] = Version(m) => ~TimedOut(m)

\* ClockBroadcaster.tick, a match whose watched clock ran out: it is no longer
\* tracked, and its settlement begins.
TickExpired(m) ==
  /\ tracked[m] # Untracked
  /\ WatchedRunsOut(m)
  /\ tracked' = [tracked EXCEPT ![m] = Untracked]
  /\ tasks' = tasks \cup {Settlement(m)}
  /\ UNCHANGED <<log, due, current, wire, client, faults>>

\* ClockBroadcaster.tick, a reading that is due.  One of a version the client
\* holds moves its clocks only, which are not modelled.  Bound: one reading at a
\* time is on its way.
TickSync(m) ==
  /\ tracked[m] # Untracked
  /\ WatchedRuns(m)
  /\ link /\ room = m
  /\ ch.match = m => tracked[m] > Len(ch.log)
  /\ \A i \in DOMAIN down : down[i].type # "clock"
  /\ down' = Append(down, [type |-> "clock", match |-> m, version |-> tracked[m]])
  /\ UNCHANGED <<server, link, conn, room, attached, client, faults>>

\* settleExpiredClock reads the status and the clock again, and the tick tracks,
\* publishes and ends what it got back.
SettleExpired(t) ==
  /\ t \in tasks /\ t.kind = "settle"
  /\ LET m      == t.match
         runOut == ~Over(m) /\ TimedOut(m)
         snap   == IF runOut THEN SnapAfter(m, TimeoutEntry) ELSE Snap(m)
         r      == Result("none", snap, "snapshot", runOut)
     IN  /\ CommitResult(r)
         /\ tracked' = Track(snap)
         /\ down' = down \o Heard(m, Publication(r))
  /\ tasks' = tasks \ {t}
  /\ UNCHANGED <<due, current, link, conn, room, attached, client, faults>>

\* The transaction fails: the tick logs it and goes on.
FailSettle(t) ==
  /\ t \in tasks /\ t.kind = "settle"
  /\ Fault("settlement")
  /\ tasks' = tasks \ {t}
  /\ UNCHANGED <<log, due, current, tracked, wire, client>>

\* publishSeatedMatch, of the rematch of a finished match: the sockets of both
\* players join its room and hear match:found, and its clock is watched.
SeatRematch ==
  /\ current < MaxMatches
  /\ Over(current)
  /\ current' = current + 1
  /\ tracked' = Track(Snap(current'))
  /\ IF link /\ opening # "auth"
       THEN room' = current' /\ down' = Append(down, SnapshotEvent(Snap(current')))
       ELSE UNCHANGED <<room, down>>
  /\ UNCHANGED <<log, due, tasks, link, conn, attached, client, faults>>

-----------------------------------------------------------------------------
(* The connection and the process.                                         *)

Disconnected ==
  /\ link
  /\ Fault("loss")
  /\ link' = FALSE
  /\ room' = None
  /\ attached' = {}
  /\ down' = <<>>
  /\ ch' = [ch EXCEPT !.phase = "reconnecting"]
  /\ opening' = "no"
  /\ UNCHANGED <<conn, screen, sent>>

\* The connection is lost, with everything emitted to it that was not read; a
\* request may or may not have reached the server.  A handler that has only its
\* answer left to give has nobody to give it to.
Drop ==
  /\ Disconnected
  /\ \E lost \in SUBSET {t \in tasks : t.pc = "received" /\ t.kind # "settle"} :
       tasks' = {t \in tasks \ lost : t.pc # "attached"}
  /\ UNCHANGED <<log, due, current, tracked>>

\* The transport reconnects by itself; "connected" starts `open`.
Connect ==
  /\ ~link
  /\ link' = TRUE
  /\ conn' = conn + 1
  /\ ch' = [ch EXCEPT !.phase = "authenticating"]
  /\ opening' = "auth"
  /\ UNCHANGED <<server, room, attached, down, screen, sent, faults>>

\* A new process: nothing in memory survives, and recoverUnfinishedMatches
\* settles the matches whose clock has run out before anyone is served.
Restart ==
  /\ Disconnected
  /\ tasks' = {}
  /\ tracked' = [m \in Match |-> Untracked]
  /\ log' = [m \in Match |-> IF m = current /\ ~Over(m) /\ TimedOut(m)
                               THEN Append(log[m], TimeoutEntry) ELSE log[m]]
  /\ UNCHANGED <<due, current>>

-----------------------------------------------------------------------------
(* The client.                                                             *)

\* `open` goes on: the handshake is answered, the phase is ready, match:sync is sent.
Authenticated ==
  /\ link /\ opening = "auth"
  /\ opening' = "sync"
  /\ ch' = [ch EXCEPT !.phase = "ready"]
  /\ tasks' = tasks \cup {Sync("open", screen)} \cup Resync(ch')
  /\ UNCHANGED <<log, due, current, tracked, wire, screen, sent, faults>>

\* The next message is read: it goes through the reducer, and the answer to the
\* sync of `open` lets it finish with its one retry.
Receive ==
  /\ link /\ down # <<>>
  /\ LET msg   == Head(down)
         opens == msg.type = "synced" /\ msg.tag = "open" /\ msg.snap.match = screen
     IN  /\ ch' = Reduce(ch, msg)
         /\ opening' = IF opens THEN "no" ELSE opening
         /\ tasks' = tasks \cup Resync(ch') \cup (IF opens THEN RetryPending(msg.snap) ELSE {})
  /\ down' = Tail(down)
  /\ UNCHANGED <<log, due, current, tracked, link, conn, room, attached, screen, sent, faults>>

\* The next message does not parse: it is discarded, and a snapshot asked for.
Discard ==
  /\ link /\ down # <<>>
  /\ Head(down).type \in {"snapshot", "move", "clock", "ended"}
  /\ Fault("payload")
  /\ ch' = [ch EXCEPT !.resync = TRUE]
  /\ tasks' = tasks \cup Resync(ch')
  /\ down' = Tail(down)
  /\ UNCHANGED <<log, due, current, tracked, link, conn, room, attached, screen, opening, sent>>

\* The rematch screen: the hook runs `open` again for the other match.
Navigate ==
  /\ ch.match > screen
  /\ screen' = ch.match
  /\ IF link THEN /\ ch' = [ch EXCEPT !.phase = "authenticating"] /\ opening' = "auth"
     ELSE UNCHANGED <<ch, opening>>
  /\ UNCHANGED <<server, wire, sent, faults>>

\* submitMove and resign: one command at a time, against the held version.
Submit(resigns) ==
  /\ sent < MaxCommands
  /\ ch.match # None /\ ~InputLocked(ch)
  /\ sent' = sent + 1
  /\ ch' = [ch EXCEPT !.pending = [id |-> sent', match |-> ch.match,
                                   expected |-> Len(ch.log),
                                   kind |-> IF resigns THEN "resign" ELSE MoveAt(ch.match, Len(ch.log))]]
  /\ tasks' = tasks \cup {Command(ch'.pending)}
  /\ UNCHANGED <<log, due, current, tracked, wire, screen, opening, faults>>

Handler(t) == \/ HandleCommand(t) \/ SettleExpired(t)
              \/ SyncRead(t) \/ SyncAttach(t) \/ SyncEmit(t)

Next ==
  \/ \E t \in tasks : Handler(t) \/ FailSettle(t)
  \/ \E resigns \in BOOLEAN : OpponentCommand(resigns) \/ Submit(resigns)
  \/ \E m \in Match : TickExpired(m) \/ TickSync(m)
  \/ Elapse
  \/ SeatRematch
  \/ Drop \/ Connect \/ Restart
  \/ Authenticated \/ Receive \/ Discard \/ Navigate

Spec == Init /\ [][Next]_vars

\* Time passes, the interval ticks, handlers finish, the transport reconnects and
\* delivers.  Nobody has to play, and nothing else has to happen.
Fairness ==
  /\ WF_vars(\E t \in tasks : Handler(t))
  /\ WF_vars(Elapse)
  /\ WF_vars(\E m \in Match : TickExpired(m))
  /\ WF_vars(\E m \in Match : TickSync(m))
  /\ WF_vars(Connect) /\ WF_vars(Authenticated) /\ WF_vars(Receive)

FairSpec == Spec /\ Fairness

-----------------------------------------------------------------------------
(* Properties. *)

\* The board the client shows is a board the match had: whatever was lost,
\* repeated or overtaken, no event is applied to a board it does not follow
\* (channel.ts, "never patched in").
BoardWasReal == ch.match # None => IsPrefix(ch.log, log[ch.match])

\* Within a match the board a player sees never goes back (match/channel.ts).
BoardNeverGoesBack ==
  [][ch'.match = ch.match => Len(ch'.log) >= Len(ch.log)]_vars

Logged(cmd) == \E i \in DOMAIN log[cmd.match] : log[cmd.match][i].cmd = cmd.id

\* When the lock on the board is released, the command behind it is decided: it is
\* in the log, or the version it expects is gone and it can never be
\* (clearPendingFor, docs/adr/0011).
LockReleasedWhenDecided ==
  [][(ch.pending # NoPending /\ ch'.pending # ch.pending /\ ch'.match = ch.match)
       => \/ Logged(ch.pending)
          \/ Over(ch.pending.match)
          \/ Version(ch.pending.match) > ch.pending.expected
          \/ ch.pending.kind # "resign" /\ ~MyTurn(ch.pending.match)]_vars

\* A player is never locked out of the board for good: every command is answered,
\* or its fate is learned from a snapshot.
EveryLockIsReleased == ch.pending # NoPending ~> ch.pending = NoPending

\* The match on a player's screen ends though nobody moves, because its clock is watched and settled,
\* or read again at boot (gateway.ts tick, recoverUnfinishedMatches).  A settlement
\* the database refuses is not tried again: nothing is promised then.
EveryMatchEnds == \A m \in Match :
  screen = m ~> Over(m) \/ Contains(faults, "settlement")

\* What a player sees of a match is a board it had, never an older one than before, and
\* behind a lock that is released lies a command whose fate is sealed (channel.ts).
ScreenFollowsTheMatch == []BoardWasReal /\ BoardNeverGoesBack /\ LockReleasedWhenDecided
=============================================================================
