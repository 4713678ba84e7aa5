---------------------------- MODULE MatchRuntime ----------------------------
(***************************************************************************)
(* One match as apps/server/src/match/runtime.ts keeps it: the row of      *)
(* `matches`, the rows of `match_events`, and the transactions that commit *)
(* moves, resignations and timeouts.                                       *)
(*                                                                         *)
(* A transaction reads the server clock first and takes the row lock       *)
(* afterwards, so two steps model it: one reads `clock` into the attempt as    *)
(* `now`, the Execute... step holds the lock, runs the whole body and      *)
(* commits.  Everything between the lock and the commit touches only the   *)
(* locked match and is invisible until the commit, so it is one step; the  *)
(* time between reading the clock and being granted the lock is not.       *)
(*                                                                         *)
(* The board is abstracted: a command is evaluated only at the version it  *)
(* expects, one version has one board, so what `applyMove` says of a       *)
(* command is fixed when the command is issued (its `verdict`).  The       *)
(* version it expects may be one no transaction has committed yet: the     *)
(* envelope admits any, and only the check under the lock compares it.     *)
(***************************************************************************)
EXTENDS Integers, FiniteSets

CONSTANTS
  Commands,    \* command identifiers the two clients may issue
  Attempts,    \* handler invocations that may be in flight at once
  Settlers,    \* settleExpiredClock calls that may be in flight at once
  Verdicts,    \* what game-core may say of a move: a subset of Verdict
  FirstPlayers,\* who createMatch may give the first turn
  Budget,      \* timeControlSeconds * 1000, in clock ticks
  MaxAhead,    \* bound: how far past the committed version a command may name one
  MaxTime      \* bound: the clock stops here

ASSUME BudgetAssumption == Budget \in Nat \ {0}
ASSUME MaxTimeAssumption == MaxTime \in Nat
ASSUME MaxAheadAssumption == MaxAhead \in Nat

Player == {"light", "dark"}

Opponent(p) == IF p = "light" THEN "dark" ELSE "light"

\* What game-core's applyMove answers for a move, and the result it implies.
Verdict == {"illegal", "continues", "mover-wins", "opponent-wins", "draw"}
ASSUME VerdictsAssumption == Verdicts \subseteq Verdict
ASSUME FirstPlayersAssumption == FirstPlayers \subseteq Player

OutcomeOfGameState(verdict, mover) ==
  IF      verdict = "mover-wins"    THEN [result |-> mover, reason |-> "line"]
  ELSE IF verdict = "opponent-wins" THEN [result |-> Opponent(mover), reason |-> "revealed-line"]
  ELSE IF verdict = "draw"          THEN [result |-> "draw", reason |-> "repetition"]
  ELSE                                   [result |-> "none", reason |-> "none"]

Null == -1
NoCommand == "no-command"
\* Identifiers are the clients' UUIDs; the events of the server itself carry none.
ASSUME CommandsAssumption == NoCommand \notin Commands

VARIABLES
  clock,              \* the server's wall clock
  status,             \* "absent" before createMatch commits, then "active", "completed"
  version,            \* state_version
  activePlayer,
  remaining,          \* light_remaining_ms and dark_remaining_ms
  startedAt,
  turnStartedAt,      \* Null once the match is over
  lastClockCommitAt,
  moveCount,
  result,
  endReason,
  events,             \* the rows of match_events for this match
  completions,        \* how many times `settle` ran ratings and achievements
  commands,           \* what each issued command asks for
  attempt,            \* the handler invocations that wait for the row lock
  settler,            \* the pending settleExpiredClock calls: their `now`, or Null
  answers             \* acknowledgements sent; some never arrive

matchRow == <<status, version, activePlayer, remaining, startedAt, turnStartedAt,
              lastClockCommitAt, moveCount, result, endReason, events, completions>>
vars == <<clock, matchRow, commands, attempt, settler, answers>>

-----------------------------------------------------------------------------
Rejection == {"not-authorized", "duplicate-command", "match-ended", "clock-expired",
              "stale-version", "not-your-turn", "illegal-move"}
Command == [side : Player \cup {"none"}, kind : {"move", "resign"},
            expected : Nat, verdict : Verdict,
            ahead : BOOLEAN]  \* history: named a version to come when first delivered
Event == [seq : Nat, cmd : Commands \cup {NoCommand}, side : Player \cup {"none"},
          type : {"match-created", "move", "resignation", "timeout"},
          at : Nat]           \* created_at, the `now` of its transaction
\* `shown` is the new version of a commit, or the version of the snapshot that comes
\* with "stale-version"; the snapshots of other refusals are left out.
Answer == [cmd : Commands, ack : Rejection \cup {"ok"}, shown : Nat]

Idle == [pc |-> "idle"]
Waiting == [cmd : Commands, now : Nat]

TypeOK ==
  /\ clock \in Nat
  /\ status \in {"absent", "active", "completed"}
  /\ version \in Nat
  /\ activePlayer \in Player
  /\ remaining \in [Player -> Int]
  /\ startedAt \in Nat
  /\ turnStartedAt \in Nat \cup {Null}
  /\ lastClockCommitAt \in Nat
  /\ moveCount \in Nat
  /\ result \in Player \cup {"none", "draw"}
  /\ endReason \in {"none", "line", "revealed-line", "repetition", "resignation", "timeout"}
  /\ events \subseteq Event
  /\ completions \in Nat
  /\ commands \in [Commands -> Command \cup {Idle}]
  /\ attempt \in [Attempts -> Waiting \cup {Idle}]
  /\ settler \in [Settlers -> Nat \cup {Null}]
  /\ answers \subseteq Answer

Init ==
  /\ clock = 0
  /\ status = "absent"
  /\ version = 0
  /\ activePlayer \in FirstPlayers
  /\ remaining = [p \in Player |-> Budget]
  /\ startedAt = 0
  /\ turnStartedAt = Null
  /\ lastClockCommitAt = 0
  /\ moveCount = 0
  /\ result = "none"
  /\ endReason = "none"
  /\ events = {}
  /\ completions = 0
  /\ commands = [c \in Commands |-> Idle]
  /\ attempt = [a \in Attempts |-> Idle]
  /\ settler = [s \in Settlers |-> Null]
  /\ answers = {}

-----------------------------------------------------------------------------
(* match/clock.ts, read at a transaction's own `now`. *)

\* Mutant: the elapsed time is measured from the start of the match.
ElapsedSinceStart(now) == now - startedAt

Elapsed(now) == IF now > turnStartedAt THEN now - turnStartedAt ELSE 0

EffectiveRemaining(now) ==
  IF status = "active" /\ turnStartedAt # Null
    THEN remaining[activePlayer] - Elapsed(now)
    ELSE remaining[activePlayer]

Expired(now) == EffectiveRemaining(now) <= 0

\* Mutant: the move that ends a turn is not charged.
ChargeNothing(now) == remaining

ChargeActiveSide(now) ==
  [remaining EXCEPT ![activePlayer] =
     IF EffectiveRemaining(now) > 0 THEN EffectiveRemaining(now) ELSE 0]

ZeroActiveSide == [remaining EXCEPT ![activePlayer] = 0]

-----------------------------------------------------------------------------
(* The three commits.  Each inserts its event at sequence version + 1 and  *)
(* writes the patch; `Patch` is what they share.                           *)

Patch(now, clocks, player, outcome, event) ==
  /\ version' = version + 1
  /\ events' = events \cup {event}
  /\ remaining' = clocks
  /\ activePlayer' = player
  /\ lastClockCommitAt' = now
  /\ result' = outcome.result
  /\ endReason' = outcome.reason
  /\ IF outcome.result = "none"
       THEN /\ status' = "active"
            /\ turnStartedAt' = now
            /\ completions' = completions
       ELSE /\ status' = "completed"
            /\ turnStartedAt' = Null
            /\ completions' = completions + 1
  /\ UNCHANGED startedAt

CommitMove(c, now) ==
  LET cmd     == commands[c]
      outcome == OutcomeOfGameState(cmd.verdict, cmd.side)
  IN  /\ Patch(now, ChargeActiveSide(now),
               IF outcome.result = "none" THEN Opponent(activePlayer) ELSE activePlayer,
               outcome,
               [seq |-> version + 1, cmd |-> c, side |-> cmd.side, type |-> "move",
                at |-> now])
      /\ moveCount' = moveCount + 1

CommitResignation(c, now) ==
  LET side == commands[c].side
  IN  /\ Patch(now, ChargeActiveSide(now), activePlayer,
               [result |-> Opponent(side), reason |-> "resignation"],
               [seq |-> version + 1, cmd |-> c, side |-> side, type |-> "resignation",
                at |-> now])
      /\ UNCHANGED moveCount

CommitTimeout(now) ==
  /\ Patch(now, ZeroActiveSide, activePlayer,
           [result |-> Opponent(activePlayer), reason |-> "timeout"],
           [seq |-> version + 1, cmd |-> NoCommand, side |-> "none", type |-> "timeout",
            at |-> now])
  /\ UNCHANGED moveCount

-----------------------------------------------------------------------------
(* runCommand's checks, in the order the code makes them.                  *)

\* Mutants: only a version of the past is stale; the turn is not checked.
Outdated(cmd) == cmd.expected < version
NeverOutOfTurn(cmd) == FALSE

AlreadyLogged(c) == \E e \in events : e.cmd = c
Ended == status # "active"
Stale(cmd) == cmd.expected # version
OutOfTurn(cmd) == cmd.kind = "move" /\ activePlayer # cmd.side

\* The first check that refuses command c at `now`; "commit" when none does.
Refusal(c, now) ==
  LET cmd == commands[c]
  IN  IF      status = "absent" \/ cmd.side = "none"        THEN "not-authorized"
      ELSE IF AlreadyLogged(c)                              THEN "duplicate-command"
      ELSE IF Ended                                         THEN "match-ended"
      ELSE IF Expired(now)                                  THEN "clock-expired"
      ELSE IF Stale(cmd)                                    THEN "stale-version"
      ELSE IF OutOfTurn(cmd)                                THEN "not-your-turn"
      ELSE IF cmd.kind = "move" /\ cmd.verdict = "illegal"  THEN "illegal-move"
      ELSE "commit"

\* Mutant: the status is not read again under the lock.
RanOutAnyStatus(now) == Expired(now)

\* settleExpiredClock's test, made again under the lock.
RanOut(now) == status = "active" /\ Expired(now)

-----------------------------------------------------------------------------
(* The environment: time passes. *)

Tick ==
  /\ clock < MaxTime
  /\ clock' = clock + 1
  /\ UNCHANGED <<matchRow, commands, attempt, settler, answers>>

-----------------------------------------------------------------------------
(* createMatch: `now` is read before the transaction, so the match may      *)
(* start earlier than the instant its row becomes visible.                  *)
CreateMatch ==
  /\ status = "absent"
  /\ \E now \in 0..clock :
       /\ startedAt' = now
       /\ turnStartedAt' = now
       /\ lastClockCommitAt' = now
  /\ status' = "active"
  /\ events' = {[seq |-> 0, cmd |-> NoCommand, side |-> "none", type |-> "match-created",
                 at |-> startedAt']}
  /\ UNCHANGED <<clock, version, activePlayer, remaining, moveCount, result, endReason,
                 completions, commands, attempt, settler, answers>>

(* runCommand up to lockMatchForUpdate: the clock is read, the lock is not  *)
(* held.  The command arrives for the first time, naming a version its      *)
(* client had been shown or one still to come.  A caller without a seat has *)
(* side "none"; it is refused before anything it asks is read, so one such  *)
(* command will do.                                                         *)
ReceiveCommand(a, c) ==
  /\ attempt[a] = Idle
  /\ commands[c] = Idle
  /\ status # "absent"
  /\ \E cmd \in [side : Player \cup {"none"}, kind : {"move", "resign"},
                 expected : 0..(version + MaxAhead), verdict : Verdicts \cup {"continues"},
                 ahead : BOOLEAN] :
       /\ cmd.ahead <=> cmd.expected > version
       /\ cmd.kind = "resign" => cmd.verdict = "continues"
       /\ cmd.side = "none" => cmd.kind = "resign" /\ cmd.expected = 0
       /\ commands' = [commands EXCEPT ![c] = cmd]
  /\ attempt' = [attempt EXCEPT ![a] = [cmd |-> c, now |-> clock]]
  /\ UNCHANGED <<clock, matchRow, settler, answers>>

\* The same, for a command delivered again under the same identifier.
RetryCommand(a, c) ==
  /\ attempt[a] = Idle
  /\ commands[c] # Idle
  /\ attempt' = [attempt EXCEPT ![a] = [cmd |-> c, now |-> clock]]
  /\ UNCHANGED <<clock, matchRow, commands, settler, answers>>

\* runCommand from the granted lock to the commit, with the answer it returns.
ExecuteCommand(a) ==
  /\ attempt[a] # Idle
  /\ LET c       == attempt[a].cmd
          now     == attempt[a].now
          refusal == Refusal(c, now)
      IN  /\ IF refusal = "clock-expired" THEN CommitTimeout(now)
             ELSE IF refusal # "commit" THEN UNCHANGED matchRow
             ELSE IF commands[c].kind = "move" THEN CommitMove(c, now)
             ELSE CommitResignation(c, now)
          /\ answers' = answers \cup
               {[cmd |-> c,
                 ack |-> IF refusal = "commit" THEN "ok" ELSE refusal,
                 shown |-> IF refusal \in {"commit", "stale-version"} THEN version' ELSE 0]}
  /\ attempt' = [attempt EXCEPT ![a] = Idle]
  /\ UNCHANGED <<clock, commands, settler>>

\* The attempt fails before its commit: its transaction rolls back.
AbortCommand(a) ==
  /\ attempt[a] # Idle
  /\ attempt' = [attempt EXCEPT ![a] = Idle]
  /\ UNCHANGED <<clock, matchRow, commands, settler, answers>>

\* settleExpiredClock up to the lock, from a tick or from recovery on boot.
BeginSettle(s) ==
  /\ settler[s] = Null
  /\ settler' = [settler EXCEPT ![s] = clock]
  /\ UNCHANGED <<clock, matchRow, commands, attempt, answers>>

\* settleExpiredClock under the lock: status and clock are read again there.
ExecuteSettle(s) ==
  /\ settler[s] # Null
  /\ IF RanOut(settler[s])
       THEN CommitTimeout(settler[s])
       ELSE UNCHANGED matchRow
  /\ settler' = [settler EXCEPT ![s] = Null]
  /\ UNCHANGED <<clock, commands, attempt, answers>>

\* The process stops: every transaction in flight rolls back, the row stays.
Crash ==
  /\ attempt' = [a \in Attempts |-> Idle]
  /\ settler' = [s \in Settlers |-> Null]
  /\ UNCHANGED <<clock, matchRow, commands, answers>>

Next ==
  \/ Tick
  \/ CreateMatch
  \/ \E a \in Attempts, c \in Commands : ReceiveCommand(a, c)
  \/ \E a \in Attempts, c \in Commands : RetryCommand(a, c)
  \/ \E a \in Attempts : ExecuteCommand(a)
  \/ \E a \in Attempts : AbortCommand(a)
  \/ \E s \in Settlers : BeginSettle(s)
  \/ \E s \in Settlers : ExecuteSettle(s)
  \/ Crash

Spec == Init /\ [][Next]_vars

-----------------------------------------------------------------------------
(* Properties. *)

\* Event f was committed at an instant before that of the event it follows: its
\* transaction had read the clock first, and charged its turn nothing.
ReachesBack(f) == \E e \in events : f.seq = e.seq + 1 /\ f.at < e.at

\* Between them the clocks never lose less than the time since the match began,
\* and exactly that as long as no event reaches back: no turn is free, none is
\* charged twice, and a refused, replayed or rolled back command moves no clock.
\* After an event that reaches back, the time it reaches over is charged to the
\* opponent a second time (chargeActiveSide, the patch's turnStartedAt).
ClockConservation ==
  status = "active" =>
    LET accounted == remaining["light"] + remaining["dark"] + (turnStartedAt - startedAt)
    IN  /\ accounted <= 2 * Budget
        /\ (\A f \in events : ~ReachesBack(f)) => accounted = 2 * Budget

\* Only a command that named a version still to come can reach back: a timeout, or a
\* command of a client that answered what it had been shown, never does.
InstantsAscend ==
  \A f \in events : ReachesBack(f) => f.cmd # NoCommand /\ commands[f.cmd].ahead

\* While a match runs both sides have time left, and no clock is ever stored
\* negative: an exhausted clock is a finished match.
NoExhaustedClockRuns ==
  \A p \in Player : remaining[p] >= 0 /\ (status = "active" => remaining[p] > 0)

\* Before createMatch commits nothing has been spent, logged or asked.
NothingBeforeTheMatch ==
  status = "absent" =>
    /\ remaining = [p \in Player |-> Budget]
    /\ version = 0 /\ events = {} /\ completions = 0
    /\ \A c \in Commands : commands[c] = Idle

\* No instant the server has written or is holding lies in its own future, and
\* only a running match has a turn.
InstantsArePast ==
  /\ status = "active" <=> turnStartedAt # Null
  /\ turnStartedAt <= clock
  /\ \A a \in Attempts : attempt[a] # Idle => attempt[a].now <= clock
  /\ \A s \in Settlers : settler[s] <= clock

\* A running turn began at the instant of the last event.  A copy that can still
\* commit read the clock after that, unless its command named a version to come: a
\* copy that read it earlier expects a version that is gone.
CurrentCopiesAreFresh ==
  /\ \A e \in events : (status = "active" /\ e.seq = version) => e.at = turnStartedAt
  /\ \A c \in Commands :
       (commands[c] # Idle /\ ~commands[c].ahead) => commands[c].expected <= version
  /\ \A a \in Attempts : attempt[a] # Idle =>
       /\ commands[attempt[a].cmd] # Idle
       /\ (status = "active" /\ ~commands[attempt[a].cmd].ahead
              /\ commands[attempt[a].cmd].expected = version)
            => attempt[a].now >= turnStartedAt

\* The log so far ends at the version, with commands that were issued.
EventsAreCommitted ==
  /\ status # "absent" => \E e \in events : e.seq = version
  /\ \A e \in events : e.seq <= version /\ (e.cmd # NoCommand => commands[e.cmd] # Idle)

\* The event log and the row tell the same story: one event per sequence up to
\* the version, one per command however often it was delivered, each right after
\* the version its command named; moves alternate, and the side to move follows
\* from the log (docs/adr/0010).
LogMatchesRow ==
  status # "absent" =>
    /\ {e.seq : e \in events} = 0..version
    /\ \A e, f \in events :
         (e.seq = f.seq \/ (e.cmd = f.cmd /\ e.cmd # NoCommand)) => e = f
    /\ \A e \in events : e.cmd # NoCommand => e.seq = commands[e.cmd].expected + 1
    /\ \A e, f \in events :
         (e.type = "move" /\ f.type = "move" /\ f.seq = e.seq + 1) => f.side = Opponent(e.side)
    /\ moveCount = Cardinality({e \in events : e.type = "move"})
    /\ \A e \in events :
         (status = "active" /\ e.type = "move" /\ e.seq = version)
           => activePlayer = Opponent(e.side)

\* The refusal of a command that names a version after the one the refusal shows.
TooEarly(r) == r.ack = "stale-version" /\ commands[r.cmd].expected > r.shown

\* What a client was told stays true: "ok" names the version whose event the
\* command is, "duplicate-command" that it is in the log, and a command refused on
\* its merits never takes effect later, not even through a copy still waiting for
\* the lock.  The one refusal that promises nothing is that of a command too early.
AnswersStayTrue ==
  \A r \in answers :
    /\ r.ack = "ok" => \E e \in events : e.cmd = r.cmd /\ e.seq = r.shown
    /\ r.ack = "duplicate-command" => AlreadyLogged(r.cmd)
    /\ (r.ack \notin {"ok", "duplicate-command"} /\ AlreadyLogged(r.cmd))
         => TooEarly(r)

\* A match is completed once: ratings and achievements run in exactly one of the
\* transactions that race to end it.
CompletedOnce ==
  /\ completions <= 1
  /\ status = "completed" <=> completions = 1
  /\ status = "completed" <=> endReason # "none"

\* The strengthening that makes the clock properties inductive: an attempt is
\* only as old as the version it expects, so no charge of a command that named a
\* committed version reaches before its turn.
ClockInduction ==
  /\ TypeOK
  /\ NothingBeforeTheMatch
  /\ InstantsArePast
  /\ EventsAreCommitted
  /\ CurrentCopiesAreFresh
  /\ NoExhaustedClockRuns
  /\ ClockConservation
  /\ InstantsAscend
  /\ CompletedOnce

\* Nobody loses on time before the time is really gone: when a timeout commits,
\* the wall clock has passed the end of the stored time of the side to move.
TimeoutIsEarned ==
  [][(endReason' = "timeout" /\ endReason # "timeout")
       => /\ clock - turnStartedAt >= remaining[activePlayer]
          /\ result' = Opponent(activePlayer)]_vars

\* A finished match is never reopened or rewritten, whatever is still in flight.
CompletedIsFinal == [][status = "completed" => UNCHANGED matchRow]_vars

\* The two clocks are charged for the time that passed, to the unit unless a command
\* named a version to come, never for less, and never run dry under a match that is
\* still played, whatever races (clock.ts, runtime.ts transact).
ClocksAreTrue == ClockConservation /\ NoExhaustedClockRuns /\ InstantsAscend
=============================================================================
