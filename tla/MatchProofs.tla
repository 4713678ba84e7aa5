----------------------------- MODULE MatchProofs -----------------------------
(***************************************************************************)
(* Theorems about a match and about what its end leaves.  Of                *)
(* MatchRuntime.tla: for every number of commands, of concurrent handlers   *)
(* and of settlements, every time control and every length of match, types  *)
(* are preserved, the clocks lose the time that has passed, no less, and a  *)
(* match is completed once.  Of Ratings.tla and Leaderboard.tla: the        *)
(* transactions that complete matches implement the book of RatingBook.tla, *)
(* each of them leaves all it has to leave or nothing, and the pages of a   *)
(* leaderboard tell what the board told.                                    *)
(***************************************************************************)
EXTENDS MatchRuntime, Ratings, Leaderboard, FiniteSetTheorems, SequenceTheorems, WellFoundedInduction, TLAPS

-----------------------------------------------------------------------------
(* The match: its clocks, its log and its answers.                          *)

\* What is true when runCommand reaches the timeout, and when it commits: the
\* conditions the earlier checks leave behind.
LEMMA RefusalMeaning ==
  ASSUME NEW c \in Commands, NEW now \in Nat
  PROVE  /\ Refusal(c, now) = "clock-expired" =>
              /\ status = "active"
              /\ Expired(now)
         /\ Refusal(c, now) = "commit" =>
              /\ status = "active"
              /\ ~Expired(now)
              /\ ~AlreadyLogged(c)
              /\ commands[c].side # "none"
              /\ commands[c].expected = version
BY DEF Refusal, Ended, Stale

\* Every answer of runCommand is a rejection of the protocol or a commit.
LEMMA RefusalType ==
  ASSUME NEW c \in Commands, NEW now \in Nat
  PROVE  Refusal(c, now) \in Rejection \cup {"commit"}
BY DEF Refusal, Rejection

\* The result and the reason of an outcome are "none" together, and a mover
\* with a seat always gets a legal pair (outcomeOfGameState).
LEMMA OutcomeType ==
  ASSUME NEW verdict \in Verdict, NEW mover \in Player
  PROVE  /\ OutcomeOfGameState(verdict, mover).result \in Player \cup {"none", "draw"}
         /\ OutcomeOfGameState(verdict, mover).reason \in {"none", "line", "revealed-line", "repetition"}
         /\ OutcomeOfGameState(verdict, mover).result = "none" <=>
              OutcomeOfGameState(verdict, mover).reason = "none"
BY DEF OutcomeOfGameState, Player, Opponent, Verdict

\* What charging the active side does to the two clocks while it has time left:
\* it takes the elapsed time from that side, from nobody else, and leaves some.
LEMMA ChargeTakesElapsed ==
  ASSUME TypeOK, NoExhaustedClockRuns, status = "active",
         turnStartedAt \in Nat, NEW now \in Nat
  PROVE  /\ ChargeActiveSide(now) \in [Player -> Int]
         /\ \A p \in Player : ChargeActiveSide(now)[p] >= 0
         /\ ~Expired(now) =>
              /\ \A p \in Player : ChargeActiveSide(now)[p] > 0
              /\ ChargeActiveSide(now)["light"] + ChargeActiveSide(now)["dark"]
                   = remaining["light"] + remaining["dark"] - Elapsed(now)
<1>1. EffectiveRemaining(now) \in Int
  BY DEF TypeOK, EffectiveRemaining, Elapsed, Null
<1>2. EffectiveRemaining(now) = remaining[activePlayer] - Elapsed(now)
  BY DEF EffectiveRemaining, Null
<1>3. Elapsed(now) \in Nat
  BY DEF Elapsed
<1> QED
  BY <1>1, <1>2, <1>3
  DEF TypeOK, NoExhaustedClockRuns, ChargeActiveSide, Expired, Player

LEMMA ZeroKeepsSigns ==
  ASSUME TypeOK, NoExhaustedClockRuns
  PROVE  /\ ZeroActiveSide \in [Player -> Int]
         /\ \A p \in Player : ZeroActiveSide[p] >= 0
BY DEF TypeOK, NoExhaustedClockRuns, ZeroActiveSide, Player

-----------------------------------------------------------------------------
(* ClockInduction is inductive. *)

\* Every commit preserves the invariant, whatever it writes, if the clocks it
\* writes are sound and the turn it charged began before its `now`.  Attempts
\* and settlements may end in the same step; none begins.
LEMMA PatchPreservesInduction ==
  ASSUME ClockInduction,
         status = "active",
         NEW now \in Nat, now <= clock,
         NEW clocks \in [Player -> Int],
         \A p \in Player : clocks[p] >= 0,
         NEW player \in Player,
         NEW outcome,
         outcome.result \in Player \cup {"none", "draw"},
         outcome.reason \in {"none", "line", "revealed-line", "repetition",
                             "resignation", "timeout"},
         outcome.result = "none" <=> outcome.reason = "none",
         outcome.result = "none" =>
           /\ \A p \in Player : clocks[p] > 0
           /\ clocks["light"] + clocks["dark"]
                = remaining["light"] + remaining["dark"] - Elapsed(now),
         NEW event \in Event, event.seq = version + 1, event.at = now,
         now < turnStartedAt => event.cmd # NoCommand /\ commands[event.cmd].ahead,
         event.cmd # NoCommand => commands[event.cmd] # Idle,
         Patch(now, clocks, player, outcome, event),
         moveCount' \in Nat,
         UNCHANGED <<clock, commands>>,
         attempt' \in [Attempts -> Waiting \cup {Idle}],
         \A a \in Attempts : attempt'[a] \in {attempt[a], Idle},
         settler' \in [Settlers -> Nat \cup {Null}],
         \A s \in Settlers : settler'[s] \in {settler[s], Null},
         answers' \subseteq Answer
  PROVE  ClockInduction'
<1>0. /\ TypeOK /\ version' = version + 1 /\ events' = events \cup {event}
      /\ remaining' = clocks /\ activePlayer' = player
      /\ lastClockCommitAt' = now
      /\ result' = outcome.result /\ endReason' = outcome.reason
      /\ startedAt' = startedAt
  BY DEF ClockInduction, Patch
<1>1. \/ /\ outcome.result = "none"
         /\ status' = "active" /\ turnStartedAt' = now /\ completions' = completions
      \/ /\ outcome.result # "none"
         /\ status' = "completed" /\ turnStartedAt' = Null
         /\ completions' = completions + 1
  BY DEF Patch
<1>2. TypeOK'
  BY <1>0, <1>1 DEF TypeOK
<1>3. NothingBeforeTheMatch'
  BY <1>1 DEF NothingBeforeTheMatch
<1>4. InstantsArePast'
  BY <1>0, <1>1 DEF ClockInduction, InstantsArePast, TypeOK, Null, Waiting
<1>11. /\ version \in Nat /\ turnStartedAt \in Nat /\ events \subseteq Event
       /\ \A e \in events : e.seq \in Nat /\ e.at \in Nat /\ e.seq <= version
       /\ \A e \in events : e.cmd # NoCommand => commands[e.cmd] # Idle
       /\ \A e \in events : e.seq = version => e.at = turnStartedAt
  BY <1>0 DEF ClockInduction, TypeOK, InstantsArePast, EventsAreCommitted,
              CurrentCopiesAreFresh, Event
<1>12. EventsAreCommitted'
  BY <1>0, <1>11 DEF EventsAreCommitted
\* Only the new event can reach back further than those before it did.
<1>13. \A f \in events' : ReachesBack(f)' =>
         \/ f \in events /\ ReachesBack(f)
         \/ f = event /\ now < turnStartedAt
  BY <1>0, <1>11 DEF ReachesBack
<1>14. \A f \in events : ReachesBack(f) => ReachesBack(f)'
  BY <1>0 DEF ReachesBack
<1>15. (now < turnStartedAt) => ReachesBack(event)'
  <2> SUFFICES ASSUME now < turnStartedAt PROVE ReachesBack(event)'
    OBVIOUS
  <2>1. PICK e \in events : e.seq = version
    BY DEF ClockInduction, EventsAreCommitted
  <2> QED
    BY <1>0, <1>11, <2>1 DEF ReachesBack
<1>16. InstantsAscend'
  BY <1>0, <1>13 DEF ClockInduction, InstantsAscend
<1>5. CurrentCopiesAreFresh'
  <2>1. \A c \in Commands : (commands'[c] # Idle /\ ~commands'[c].ahead) =>
          /\ commands'[c].expected <= version
          /\ commands'[c].expected \in Nat
    BY DEF ClockInduction, CurrentCopiesAreFresh, TypeOK, Command
  <2>4. \A e \in events' : (status' = "active" /\ e.seq = version') => e.at = turnStartedAt'
    BY <1>0, <1>1, <1>11
  <2>2. \A a \in Attempts : attempt'[a] # Idle =>
          /\ attempt[a] # Idle /\ attempt'[a] = attempt[a]
          /\ attempt'[a].cmd \in Commands
    BY <1>0 DEF TypeOK, Waiting
  <2>3. version \in Nat
    BY <1>0 DEF TypeOK
  <2> QED
    BY <1>0, <2>1, <2>2, <2>3, <2>4 DEF ClockInduction, CurrentCopiesAreFresh
<1>6. NoExhaustedClockRuns'
  BY <1>0, <1>1 DEF NoExhaustedClockRuns
<1>7. ClockConservation'
  <2> SUFFICES ASSUME status' = "active" PROVE ClockConservation'
    BY DEF ClockConservation
  <2> DEFINE accounted == remaining["light"] + remaining["dark"] + (turnStartedAt - startedAt)
             after == clocks["light"] + clocks["dark"] + (now - startedAt)
  <2>1. /\ accounted <= 2 * Budget
        /\ (\A f \in events : ~ReachesBack(f)) => accounted = 2 * Budget
    BY DEF ClockInduction, ClockConservation
  <2>2. /\ remaining["light"] \in Int /\ remaining["dark"] \in Int /\ startedAt \in Nat
        /\ clocks["light"] \in Int /\ clocks["dark"] \in Int
    BY <1>0 DEF TypeOK, Player
  <2>3. clocks["light"] + clocks["dark"] = remaining["light"] + remaining["dark"] - Elapsed(now)
    BY <1>1
  <2>4. /\ after <= accounted
        /\ now >= turnStartedAt => after = accounted
    BY <1>11, <2>2, <2>3 DEF Elapsed
  <2>5. after <= 2 * Budget
    BY <1>11, <2>1, <2>2, <2>4, BudgetAssumption
  <2>6. (\A f \in events' : ~ReachesBack(f)') => after = 2 * Budget
    <3> SUFFICES ASSUME \A f \in events' : ~ReachesBack(f)' PROVE after = 2 * Budget
      OBVIOUS
    <3>1. now >= turnStartedAt
      BY <1>0, <1>11, <1>15
    <3>2. \A f \in events : ~ReachesBack(f)
      BY <1>0, <1>14
    <3> QED
      BY <2>1, <2>4, <3>1, <3>2
  <2>7. remaining'["light"] + remaining'["dark"] + (turnStartedAt' - startedAt') = after
    BY <1>0, <1>1
  <2> HIDE DEF after, accounted
  <2> QED
    BY <2>5, <2>6, <2>7 DEF ClockConservation
<1>8. CompletedOnce'
  BY <1>0, <1>1 DEF ClockInduction, CompletedOnce, TypeOK
<1> QED
  BY <1>2, <1>3, <1>4, <1>5, <1>6, <1>7, <1>8, <1>12, <1>16 DEF ClockInduction

LEMMA InitInduction == Init => ClockInduction
<1> SUFFICES ASSUME Init PROVE ClockInduction
  OBVIOUS
<1>1. activePlayer \in Player
  BY FirstPlayersAssumption DEF Init
<1>2. TypeOK
  BY <1>1, BudgetAssumption DEF Init, TypeOK, Null
<1>3. NothingBeforeTheMatch /\ CurrentCopiesAreFresh /\ InstantsArePast
  BY DEF Init, NothingBeforeTheMatch, CurrentCopiesAreFresh, InstantsArePast, Null
<1>4. /\ NoExhaustedClockRuns /\ ClockConservation /\ CompletedOnce
      /\ EventsAreCommitted /\ InstantsAscend
  BY BudgetAssumption
  DEF Init, NoExhaustedClockRuns, ClockConservation, CompletedOnce, EventsAreCommitted,
      InstantsAscend
<1> QED
  BY <1>2, <1>3, <1>4 DEF ClockInduction

\* A timeout commits with the clock of the side to move at zero.
LEMMA TimeoutPreservesInduction ==
  ASSUME ClockInduction, status = "active",
         NEW now \in Nat, now <= clock, Expired(now),
         CommitTimeout(now),
         UNCHANGED <<clock, commands>>,
         attempt' \in [Attempts -> Waiting \cup {Idle}],
         \A a \in Attempts : attempt'[a] \in {attempt[a], Idle},
         settler' \in [Settlers -> Nat \cup {Null}],
         \A s \in Settlers : settler'[s] \in {settler[s], Null},
         answers' \subseteq Answer
  PROVE  ClockInduction'
<1> DEFINE outcome == [result |-> Opponent(activePlayer), reason |-> "timeout"]
           event == [seq |-> version + 1, cmd |-> NoCommand, side |-> "none",
                     type |-> "timeout", at |-> now]
<1>1. TypeOK /\ NoExhaustedClockRuns
  BY DEF ClockInduction
\* An expired clock has time to have spent, so its instant lies after the turn began.
<1>5. now > turnStartedAt
  <2>1. turnStartedAt \in Nat /\ remaining[activePlayer] \in Int /\ remaining[activePlayer] > 0
    BY <1>1 DEF ClockInduction, InstantsArePast, TypeOK, NoExhaustedClockRuns
  <2> QED
    BY <2>1 DEF Expired, EffectiveRemaining, Elapsed, Null
<1>2. /\ outcome.result \in Player /\ outcome.result # "none"
      /\ outcome.reason = "timeout"
  BY DEF Opponent, Player
<1>3. /\ event \in Event /\ event.seq = version + 1 /\ event.at = now
      /\ event.cmd = NoCommand
  BY <1>1 DEF TypeOK, Event
<1>4. /\ Patch(now, ZeroActiveSide, activePlayer, outcome, event)
      /\ moveCount' \in Nat /\ activePlayer \in Player
  BY <1>1 DEF CommitTimeout, TypeOK
<1>6. turnStartedAt \in Nat
  BY <1>1 DEF ClockInduction, InstantsArePast, TypeOK
<1> HIDE DEF outcome, event
<1> QED
  BY <1>1, <1>2, <1>3, <1>4, <1>5, <1>6, ZeroKeepsSigns, PatchPreservesInduction
\* A resignation charges the side to move and ends the match.
LEMMA ResignationPreservesInduction ==
  ASSUME ClockInduction, status = "active",
         NEW now \in Nat, now <= clock,
         NEW c \in Commands, commands[c] # Idle, commands[c].side \in Player,
         commands[c].ahead \/ now >= turnStartedAt,
         CommitResignation(c, now),
         UNCHANGED <<clock, commands>>,
         attempt' \in [Attempts -> Waiting \cup {Idle}],
         \A a \in Attempts : attempt'[a] \in {attempt[a], Idle},
         UNCHANGED settler,
         answers' \subseteq Answer
  PROVE  ClockInduction'
<1> DEFINE outcome == [result |-> Opponent(commands[c].side), reason |-> "resignation"]
           event == [seq |-> version + 1, cmd |-> c, side |-> commands[c].side,
                     type |-> "resignation", at |-> now]
<1>1. TypeOK /\ NoExhaustedClockRuns /\ turnStartedAt \in Nat
  BY DEF ClockInduction, InstantsArePast, TypeOK
<1>2. /\ outcome.result \in Player /\ outcome.result # "none"
      /\ outcome.reason = "resignation"
  BY DEF Opponent, Player
<1>3. event \in Event /\ event.seq = version + 1 /\ event.at = now /\ event.cmd = c
  BY <1>1 DEF TypeOK, Event
<1>4. /\ Patch(now, ChargeActiveSide(now), activePlayer, outcome, event)
      /\ moveCount' \in Nat /\ activePlayer \in Player
  BY <1>1 DEF CommitResignation, TypeOK
<1>5. /\ settler' \in [Settlers -> Nat \cup {Null}]
      /\ \A s \in Settlers : settler'[s] \in {settler[s], Null}
  BY <1>1 DEF TypeOK
<1>6. (now < turnStartedAt) => event.cmd # NoCommand /\ commands[event.cmd].ahead
  BY <1>1, <1>3, CommandsAssumption
<1>7. /\ ChargeActiveSide(now) \in [Player -> Int]
      /\ \A p \in Player : ChargeActiveSide(now)[p] >= 0
  BY <1>1, ChargeTakesElapsed
<1> HIDE DEF outcome, event
<1> QED
  BY <1>1, <1>2, <1>3, <1>4, <1>5, <1>6, <1>7, PatchPreservesInduction

\* A move charges its turn; if the match goes on, the next turn begins at the
\* instant the charge ended.
LEMMA MovePreservesInduction ==
  ASSUME ClockInduction, status = "active",
         NEW now \in Nat, now <= clock,
         ~Expired(now),
         NEW c \in Commands, commands[c] # Idle, commands[c].side \in Player,
         commands[c].verdict \in Verdict, commands[c].ahead \/ now >= turnStartedAt,
         CommitMove(c, now),
         UNCHANGED <<clock, commands>>,
         attempt' \in [Attempts -> Waiting \cup {Idle}],
         \A a \in Attempts : attempt'[a] \in {attempt[a], Idle},
         UNCHANGED settler,
         answers' \subseteq Answer
  PROVE  ClockInduction'
<1> DEFINE outcome == OutcomeOfGameState(commands[c].verdict, commands[c].side)
           event == [seq |-> version + 1, cmd |-> c, side |-> commands[c].side,
                     type |-> "move", at |-> now]
           player == IF outcome.result = "none" THEN Opponent(activePlayer) ELSE activePlayer
<1>1. TypeOK /\ NoExhaustedClockRuns /\ turnStartedAt \in Nat
  BY DEF ClockInduction, InstantsArePast, TypeOK
<1>2. /\ outcome.result \in Player \cup {"none", "draw"}
      /\ outcome.reason \in {"none", "line", "revealed-line", "repetition"}
      /\ outcome.result = "none" <=> outcome.reason = "none"
  BY OutcomeType
<1>3. event \in Event /\ event.seq = version + 1 /\ event.at = now /\ event.cmd = c
  BY <1>1 DEF TypeOK, Event
<1>4. player \in Player
  BY <1>1 DEF TypeOK, Opponent, Player
<1>5. /\ Patch(now, ChargeActiveSide(now), player, outcome, event)
      /\ moveCount' \in Nat
  BY <1>1 DEF CommitMove, TypeOK
<1>6. (now < turnStartedAt) => event.cmd # NoCommand /\ commands[event.cmd].ahead
  BY <1>1, <1>3, CommandsAssumption
<1>7. /\ ChargeActiveSide(now) \in [Player -> Int]
      /\ \A p \in Player : ChargeActiveSide(now)[p] >= 0
      /\ \A p \in Player : ChargeActiveSide(now)[p] > 0
      /\ ChargeActiveSide(now)["light"] + ChargeActiveSide(now)["dark"]
           = remaining["light"] + remaining["dark"] - Elapsed(now)
  BY <1>1, ChargeTakesElapsed
<1>8. /\ settler' \in [Settlers -> Nat \cup {Null}]
      /\ \A s \in Settlers : settler'[s] \in {settler[s], Null}
  BY <1>1 DEF TypeOK
<1> HIDE DEF outcome, event, player
<1> QED
  BY <1>2, <1>3, <1>4, <1>5, <1>6, <1>7, <1>8, PatchPreservesInduction

\* Steps that leave the row alone preserve the invariant when what they hold in
\* flight is typed, past and fresh.
LEMMA RowUntouchedPreservesInduction ==
  ASSUME ClockInduction, TypeOK', UNCHANGED matchRow, clock' >= clock,
         \A c \in Commands : commands[c] # Idle => commands'[c] = commands[c],
         \A c \in Commands :
           (commands'[c] # Idle /\ ~commands'[c].ahead) => commands'[c].expected <= version,
         status = "absent" => UNCHANGED commands,
         \A a \in Attempts : attempt'[a] # Idle =>
           /\ attempt'[a].now <= clock'
           /\ commands'[attempt'[a].cmd] # Idle
           /\ (status = "active" /\ ~commands'[attempt'[a].cmd].ahead
                  /\ commands'[attempt'[a].cmd].expected = version)
                => attempt'[a].now >= turnStartedAt,
         \A s \in Settlers : settler'[s] <= clock'
  PROVE  ClockInduction'
<1>1. TypeOK
  BY DEF ClockInduction
<1>2. NothingBeforeTheMatch'
  BY DEF ClockInduction, NothingBeforeTheMatch, matchRow
<1>3. InstantsArePast'
  BY <1>1 DEF ClockInduction, InstantsArePast, matchRow, TypeOK, Null
<1>4. CurrentCopiesAreFresh'
  BY DEF ClockInduction, CurrentCopiesAreFresh, matchRow
<1>5. NoExhaustedClockRuns' /\ ClockConservation' /\ CompletedOnce'
  BY DEF ClockInduction, NoExhaustedClockRuns, ClockConservation, CompletedOnce, ReachesBack,
         matchRow
<1>6. \A e \in events : e.cmd # NoCommand => e.cmd \in Commands /\ commands'[e.cmd] = commands[e.cmd]
  BY <1>1 DEF ClockInduction, EventsAreCommitted, TypeOK, Event
<1>7. EventsAreCommitted' /\ InstantsAscend'
  BY <1>6 DEF ClockInduction, EventsAreCommitted, InstantsAscend, ReachesBack, matchRow
<1> QED
  BY <1>2, <1>3, <1>4, <1>5, <1>7 DEF ClockInduction
LEMMA StepPreservesInduction == ClockInduction /\ [Next]_vars => ClockInduction'
<1> SUFFICES ASSUME ClockInduction, [Next]_vars PROVE ClockInduction'
  OBVIOUS
<1>0. /\ TypeOK
      /\ NothingBeforeTheMatch /\ InstantsArePast /\ CurrentCopiesAreFresh
  BY DEF ClockInduction
<1>1. CASE Tick
  <2>1. TypeOK' /\ clock' = clock + 1
    BY <1>0, <1>1 DEF TypeOK, Tick, matchRow
  <2>2. /\ clock' >= clock
        /\ \A s \in Settlers : settler'[s] <= clock'
        /\ \A a \in Attempts : attempt'[a] # Idle => attempt'[a].now <= clock'
    BY <1>0, <1>1, <2>1 DEF Tick, InstantsArePast, TypeOK, Waiting, Null
  <2> QED
    BY <1>0, <1>1, <2>1, <2>2, RowUntouchedPreservesInduction
    DEF Tick, CurrentCopiesAreFresh
<1>2. CASE CreateMatch
  <2>1. TypeOK' /\ NoExhaustedClockRuns' /\ ClockConservation' /\ CompletedOnce'
    BY <1>0, <1>2, BudgetAssumption
    DEF TypeOK, CreateMatch, Event, NothingBeforeTheMatch, NoExhaustedClockRuns,
        ClockConservation, CompletedOnce, ClockInduction, Player
  <2>5. EventsAreCommitted' /\ InstantsAscend'
    BY <1>0, <1>2
    DEF CreateMatch, NothingBeforeTheMatch, EventsAreCommitted, InstantsAscend, ReachesBack
  <2>2. InstantsArePast' /\ NothingBeforeTheMatch'
    BY <1>0, <1>2 DEF CreateMatch, InstantsArePast, NothingBeforeTheMatch, TypeOK, Null
  <2>3. \A a \in Attempts : attempt[a] = Idle
    BY <1>0, <1>2 DEF CreateMatch, NothingBeforeTheMatch, CurrentCopiesAreFresh, TypeOK, Waiting
  <2>4. CurrentCopiesAreFresh'
    BY <1>0, <1>2, <2>3 DEF CreateMatch, CurrentCopiesAreFresh
  <2> QED
    BY <2>1, <2>2, <2>4, <2>5 DEF ClockInduction
<1>3. ASSUME NEW a \in Attempts, NEW c \in Commands, ReceiveCommand(a, c)
      PROVE ClockInduction'
  <2>1. PICK cmd \in [side : Player \cup {"none"}, kind : {"move", "resign"},
                      expected : 0..(version + MaxAhead),
                      verdict : Verdicts \cup {"continues"}, ahead : BOOLEAN] :
          /\ cmd.ahead <=> cmd.expected > version
          /\ commands' = [commands EXCEPT ![c] = cmd]
    BY <1>3 DEF ReceiveCommand
  <2>2. cmd \in Command /\ (~cmd.ahead => cmd.expected <= version)
    <3>1. version \in Nat /\ cmd.expected \in 0..(version + MaxAhead)
      BY <1>0, <2>1 DEF TypeOK
    <3>2. cmd.verdict \in Verdict
      BY <2>1, VerdictsAssumption DEF Verdict
    <3> QED
      BY <2>1, <3>1, <3>2, MaxAheadAssumption DEF Command
  <2>3. cmd # Idle
    <3>1. "side" \in DOMAIN cmd /\ "side" \notin DOMAIN Idle
      BY <2>2 DEF Command, Idle
    <3> QED
      BY <3>1
  <2>4. TypeOK'
    BY <1>0, <1>3, <2>1, <2>2 DEF TypeOK, ReceiveCommand, matchRow, Waiting
  <2>5. attempt' = [attempt EXCEPT ![a] = [cmd |-> c, now |-> clock]]
    BY <1>3 DEF ReceiveCommand
  <2>6. ASSUME NEW b \in Attempts, attempt'[b] # Idle
        PROVE  /\ attempt'[b].now <= clock'
               /\ commands'[attempt'[b].cmd] # Idle
               /\ (status = "active" /\ ~commands'[attempt'[b].cmd].ahead
                      /\ commands'[attempt'[b].cmd].expected = version)
                    => attempt'[b].now >= turnStartedAt
    <3>1. CASE b = a
      BY <1>0, <1>3, <2>1, <2>3, <2>5, <3>1
      DEF ReceiveCommand, TypeOK, InstantsArePast, Null
    <3>2. CASE b # a
      <4>1. attempt'[b] = attempt[b] /\ attempt[b] # Idle /\ attempt[b].cmd \in Commands
        BY <1>0, <2>5, <2>6, <3>2 DEF TypeOK, Waiting
      <4>2. attempt[b].cmd # c
        BY <1>0, <1>3, <4>1 DEF ReceiveCommand, CurrentCopiesAreFresh
      <4>3. commands'[attempt[b].cmd] = commands[attempt[b].cmd]
        BY <1>0, <2>1, <4>1, <4>2 DEF TypeOK
      <4> QED
        BY <1>0, <1>3, <4>1, <4>3 DEF ReceiveCommand, CurrentCopiesAreFresh, InstantsArePast
    <3> QED
      BY <3>1, <3>2
  <2>7. \A d \in Commands :
          (commands'[d] # Idle /\ ~commands'[d].ahead) => commands'[d].expected <= version
    BY <1>0, <2>1, <2>2 DEF TypeOK, CurrentCopiesAreFresh
  <2>10. \A d \in Commands : commands[d] # Idle => commands'[d] = commands[d]
    BY <1>0, <1>3, <2>1 DEF TypeOK, ReceiveCommand
  <2>8. /\ UNCHANGED matchRow /\ clock' = clock /\ status # "absent"
        /\ \A s \in Settlers : settler'[s] <= clock'
    BY <1>0, <1>3 DEF ReceiveCommand, InstantsArePast
  <2>9. clock' >= clock
    BY <1>0, <2>8 DEF TypeOK
  <2> QED
    BY <2>4, <2>6, <2>7, <2>8, <2>9, <2>10, RowUntouchedPreservesInduction
<1>4. ASSUME NEW a \in Attempts, NEW c \in Commands, RetryCommand(a, c)
      PROVE ClockInduction'
  <2>1. TypeOK' /\ clock' >= clock
    BY <1>0, <1>4 DEF TypeOK, RetryCommand, matchRow, Waiting
  <2>2. attempt' = [attempt EXCEPT ![a] = [cmd |-> c, now |-> clock]]
    BY <1>4 DEF RetryCommand
  <2>3. ASSUME NEW b \in Attempts, attempt'[b] # Idle
        PROVE  /\ attempt'[b].now <= clock'
               /\ commands'[attempt'[b].cmd] # Idle
               /\ (status = "active" /\ ~commands'[attempt'[b].cmd].ahead
                      /\ commands'[attempt'[b].cmd].expected = version)
                    => attempt'[b].now >= turnStartedAt
    BY <1>0, <1>4, <2>2, <2>3
    DEF RetryCommand, TypeOK, InstantsArePast, CurrentCopiesAreFresh, Null
  <2> QED
    BY <1>0, <1>4, <2>1, <2>3, RowUntouchedPreservesInduction
    DEF RetryCommand, CurrentCopiesAreFresh, InstantsArePast
<1>5. ASSUME NEW a \in Attempts, ExecuteCommand(a) PROVE ClockInduction'
  <2> DEFINE c == attempt[a].cmd
             now == attempt[a].now
  <2>1. /\ attempt[a] # Idle /\ c \in Commands /\ now \in Nat /\ now <= clock
        /\ commands[c] \in Command /\ commands[c] # Idle
        /\ (status = "active" /\ commands[c].expected = version)
             => commands[c].ahead \/ now >= turnStartedAt
    BY <1>0, <1>5 DEF ExecuteCommand, TypeOK, Waiting, InstantsArePast, CurrentCopiesAreFresh
  <2>2. /\ attempt' = [attempt EXCEPT ![a] = Idle]
        /\ UNCHANGED <<clock, commands, settler>>
    BY <1>5 DEF ExecuteCommand
  <2>3. /\ attempt' \in [Attempts -> Waiting \cup {Idle}]
        /\ \A b \in Attempts : attempt'[b] \in {attempt[b], Idle}
    BY <1>0, <2>2 DEF TypeOK
  <2>4. answers' = answers \cup
          {[cmd |-> c,
            ack |-> IF Refusal(c, now) = "commit" THEN "ok" ELSE Refusal(c, now),
            shown |-> IF Refusal(c, now) \in {"commit", "stale-version"} THEN version' ELSE 0]}
    BY <1>5 DEF ExecuteCommand
  <2>5. ASSUME version' \in Nat PROVE answers' \subseteq Answer
    <3>1. /\ (IF Refusal(c, now) = "commit" THEN "ok" ELSE Refusal(c, now))
               \in Rejection \cup {"ok"}
          /\ (IF Refusal(c, now) \in {"commit", "stale-version"} THEN version' ELSE 0) \in Nat
      BY <2>1, <2>5, RefusalType
    <3> QED
      BY <1>0, <2>1, <2>4, <3>1 DEF TypeOK, Answer
  <2>6. CASE Refusal(c, now) = "clock-expired"
    <3>1. CommitTimeout(now)
      BY <1>5, <2>6 DEF ExecuteCommand
    <3>2. answers' \subseteq Answer
      BY <1>0, <2>5, <3>1 DEF CommitTimeout, Patch, TypeOK
    <3>3. /\ settler' \in [Settlers -> Nat \cup {Null}]
          /\ \A s \in Settlers : settler'[s] \in {settler[s], Null}
      BY <1>0, <2>2 DEF TypeOK
    <3> QED
      BY <2>1, <2>2, <2>3, <2>6, <3>1, <3>2, <3>3, RefusalMeaning, TimeoutPreservesInduction
  <2>7. CASE Refusal(c, now) = "commit" /\ commands[c].kind = "move"
    <3>1. CommitMove(c, now)
      BY <1>5, <2>7 DEF ExecuteCommand
    <3>2. answers' \subseteq Answer
      BY <1>0, <2>5, <3>1 DEF CommitMove, Patch, TypeOK
    <3>3. commands[c].side \in Player /\ commands[c].verdict \in Verdict
      BY <2>1, <2>7, RefusalMeaning DEF Command
    <3> HIDE DEF c, now
    <3> QED
      BY <2>1, <2>2, <2>3, <2>7, <3>1, <3>2, <3>3, RefusalMeaning, MovePreservesInduction
  <2>8. CASE Refusal(c, now) = "commit" /\ commands[c].kind # "move"
    <3>1. CommitResignation(c, now)
      BY <1>5, <2>8 DEF ExecuteCommand
    <3>2. answers' \subseteq Answer
      BY <1>0, <2>5, <3>1 DEF CommitResignation, Patch, TypeOK
    <3>3. commands[c].side \in Player
      BY <2>1, <2>8, RefusalMeaning DEF Command
    <3> HIDE DEF c, now
    <3> QED
      BY <2>1, <2>2, <2>3, <2>8, <3>1, <3>2, <3>3, RefusalMeaning,
         ResignationPreservesInduction
  <2>9. CASE Refusal(c, now) \notin {"clock-expired", "commit"}
    <3>1. UNCHANGED matchRow
      BY <1>5, <2>9 DEF ExecuteCommand
    <3>2. answers' \subseteq Answer
      BY <1>0, <2>5, <3>1 DEF matchRow, TypeOK
    <3>3. TypeOK' /\ clock' >= clock
      BY <1>0, <2>2, <2>3, <3>1, <3>2 DEF TypeOK, matchRow
    <3> QED
      BY <1>0, <2>2, <2>3, <3>1, <3>3, RowUntouchedPreservesInduction
      DEF CurrentCopiesAreFresh, InstantsArePast
  <2> QED
    BY <2>6, <2>7, <2>8, <2>9
<1>6. ASSUME NEW a \in Attempts, AbortCommand(a) PROVE ClockInduction'
  <2>1. TypeOK' /\ clock' >= clock
    BY <1>0, <1>6 DEF TypeOK, AbortCommand, matchRow
  <2> QED
    BY <1>0, <1>6, <2>1, RowUntouchedPreservesInduction
    DEF AbortCommand, CurrentCopiesAreFresh, InstantsArePast, TypeOK
<1>7. ASSUME NEW s \in Settlers, BeginSettle(s) PROVE ClockInduction'
  <2>1. TypeOK' /\ clock' >= clock
    BY <1>0, <1>7 DEF TypeOK, BeginSettle, matchRow
  <2> QED
    BY <1>0, <1>7, <2>1, RowUntouchedPreservesInduction
    DEF BeginSettle, CurrentCopiesAreFresh, InstantsArePast, TypeOK
<1>8. ASSUME NEW s \in Settlers, ExecuteSettle(s) PROVE ClockInduction'
  <2>1. /\ settler' = [settler EXCEPT ![s] = Null]
        /\ UNCHANGED <<clock, commands, attempt, answers>>
        /\ settler[s] \in Nat /\ settler[s] <= clock
    BY <1>0, <1>8 DEF ExecuteSettle, TypeOK, InstantsArePast
  <2>2. /\ settler' \in [Settlers -> Nat \cup {Null}]
        /\ \A t \in Settlers : settler'[t] \in {settler[t], Null}
    BY <1>0, <2>1 DEF TypeOK
  <2>3. CASE status = "active" /\ Expired(settler[s])
    <3>1. CommitTimeout(settler[s])
        BY <1>8, <2>3 DEF ExecuteSettle, RanOut
    <3> QED
      BY <1>0, <2>1, <2>2, <2>3, <3>1, TimeoutPreservesInduction DEF TypeOK
  <2>4. CASE ~(status = "active" /\ Expired(settler[s]))
    <3>1. UNCHANGED matchRow
      BY <1>8, <2>4 DEF ExecuteSettle, RanOut
    <3>2. TypeOK' /\ clock' >= clock
      BY <1>0, <2>1, <2>2, <3>1 DEF TypeOK, matchRow
    <3>3. \A t \in Settlers : settler'[t] <= clock'
      BY <1>0, <2>1, <2>2 DEF InstantsArePast, TypeOK, Null
    <3> QED
      BY <1>0, <2>1, <3>1, <3>2, <3>3, RowUntouchedPreservesInduction
      DEF CurrentCopiesAreFresh, InstantsArePast
  <2> QED
    BY <2>3, <2>4
<1>9. CASE Crash
  <2>1. TypeOK' /\ clock' >= clock
    BY <1>0, <1>9 DEF TypeOK, Crash, matchRow
  <2> QED
    BY <1>0, <1>9, <2>1, RowUntouchedPreservesInduction
    DEF Crash, CurrentCopiesAreFresh, InstantsArePast, TypeOK, Null
<1>10. CASE UNCHANGED vars
  BY <1>10
  DEF vars, matchRow, ClockInduction, TypeOK, NothingBeforeTheMatch, InstantsArePast,
      CurrentCopiesAreFresh, NoExhaustedClockRuns, ClockConservation, CompletedOnce,
      EventsAreCommitted, InstantsAscend, ReachesBack
<1> QED
  BY <1>1, <1>2, <1>3, <1>4, <1>5, <1>6, <1>7, <1>8, <1>9, <1>10 DEF Next

-----------------------------------------------------------------------------
(* Theorems. *)

\* In every run of every size the match stays inside the inductive invariant.
THEOREM InductionHolds == Spec => []ClockInduction
BY InitInduction, StepPreservesInduction, PTL DEF Spec

\* The row, the attempts in flight and the answers keep their types.
THEOREM TypeCorrect == Spec => []TypeOK
<1>1. ClockInduction => TypeOK
  BY DEF ClockInduction
<1> QED
  BY <1>1, InductionHolds, PTL

\* However many handlers race for the row lock, the two clocks of a running match
\* have lost no less than the time since it began, and exactly that time as long as
\* no event reaches back.
THEOREM ClocksAreConserved == Spec => []ClockConservation
<1>1. ClockInduction => ClockConservation
  BY DEF ClockInduction
<1> QED
  BY <1>1, InductionHolds, PTL

\* No stored clock is negative and no running match has an exhausted one.
THEOREM ExhaustedClocksEnd == Spec => []NoExhaustedClockRuns
<1>1. ClockInduction => NoExhaustedClockRuns
  BY DEF ClockInduction
<1> QED
  BY <1>1, InductionHolds, PTL

\* Ratings and achievements run in one transaction of a match at most.
THEOREM CompletionRunsOnce == Spec => []CompletedOnce
<1>1. ClockInduction => CompletedOnce
  BY DEF ClockInduction
<1> QED
  BY <1>1, InductionHolds, PTL

\* A completed match is final: only a transaction that found it active under
\* the lock writes the row.
THEOREM CompletedNeverChanges == Spec => CompletedIsFinal
<1>1. ClockInduction /\ [Next]_vars => [status = "completed" => UNCHANGED matchRow]_vars
  <2> SUFFICES ASSUME ClockInduction, Next, status = "completed"
               PROVE UNCHANGED matchRow
    BY DEF vars
  <2>1. ASSUME NEW a \in Attempts, ExecuteCommand(a) PROVE UNCHANGED matchRow
    <3>1. attempt[a].cmd \in Commands /\ attempt[a].now \in Nat
      BY <2>1 DEF ClockInduction, TypeOK, ExecuteCommand, Waiting
    <3>2. Refusal(attempt[a].cmd, attempt[a].now) \notin {"clock-expired", "commit"}
      BY <3>1, RefusalMeaning
    <3> QED
      BY <2>1, <3>2 DEF ExecuteCommand
  <2>2. ASSUME NEW s \in Settlers, ExecuteSettle(s) PROVE UNCHANGED matchRow
    BY <2>2 DEF ExecuteSettle, RanOut
  <2> QED
    BY <2>1, <2>2
    DEF Next, Tick, CreateMatch, ReceiveCommand, RetryCommand, AbortCommand, BeginSettle, Crash
<1> QED
  BY <1>1, InductionHolds, PTL DEF Spec, CompletedIsFinal

\* A timeout is only ever committed once the stored time of the side to move
\* has really passed on the wall clock, however stale the settlement's `now`.
THEOREM TimeoutsAreEarned == Spec => TimeoutIsEarned
<1> DEFINE RanOutOnly == (endReason' = "timeout" /\ endReason # "timeout")
                       => /\ clock - turnStartedAt >= remaining[activePlayer]
                          /\ result' = Opponent(activePlayer)
<1>1. ASSUME ClockInduction, status = "active", NEW now \in Nat, now <= clock,
             Expired(now), CommitTimeout(now)
      PROVE  RanOutOnly
  <2>1. turnStartedAt \in Nat /\ remaining[activePlayer] \in Int
        /\ remaining[activePlayer] > 0 /\ clock \in Nat
    BY <1>1 DEF ClockInduction, InstantsArePast, TypeOK, NoExhaustedClockRuns
  <2>2. remaining[activePlayer] - Elapsed(now) <= 0
    BY <1>1, <2>1 DEF Expired, EffectiveRemaining, Null
  <2>3. clock - turnStartedAt >= remaining[activePlayer]
    BY <1>1, <2>1, <2>2 DEF Elapsed
  <2> QED
    BY <1>1, <2>3 DEF CommitTimeout, Patch
<1>2. ClockInduction /\ [Next]_vars => [RanOutOnly]_vars
  <2> SUFFICES ASSUME ClockInduction, Next PROVE RanOutOnly
    BY DEF vars
  <2>1. ASSUME NEW a \in Attempts, ExecuteCommand(a) PROVE RanOutOnly
    <3> DEFINE c == attempt[a].cmd
               now == attempt[a].now
    <3>1. /\ c \in Commands /\ now \in Nat /\ now <= clock
          /\ commands[c] \in Command
      BY <2>1 DEF ClockInduction, TypeOK, ExecuteCommand, Waiting, InstantsArePast,
                  CurrentCopiesAreFresh
    <3>2. CASE Refusal(c, now) = "clock-expired"
      BY <1>1, <2>1, <3>1, <3>2, RefusalMeaning DEF ExecuteCommand
    <3>3. CASE Refusal(c, now) = "commit" /\ commands[c].kind = "move"
      <4>1. commands[c].side \in Player /\ commands[c].verdict \in Verdict
        BY <3>1, <3>3, RefusalMeaning DEF Command
      <4>2. OutcomeOfGameState(commands[c].verdict, commands[c].side).reason # "timeout"
        BY <4>1, OutcomeType
      <4> QED
        BY <2>1, <3>3, <4>2 DEF ExecuteCommand, CommitMove, Patch
    <3>4. CASE Refusal(c, now) = "commit" /\ commands[c].kind # "move"
      BY <2>1, <3>4 DEF ExecuteCommand, CommitResignation, Patch
    <3>5. CASE Refusal(c, now) \notin {"clock-expired", "commit"}
      BY <2>1, <3>5 DEF ExecuteCommand, matchRow
    <3> QED
      BY <3>2, <3>3, <3>4, <3>5
  <2>2. ASSUME NEW s \in Settlers, ExecuteSettle(s) PROVE RanOutOnly
    <3>1. settler[s] \in Nat /\ settler[s] <= clock
      BY <2>2 DEF ClockInduction, TypeOK, ExecuteSettle, InstantsArePast
    <3> QED
      BY <1>1, <2>2, <3>1 DEF ExecuteSettle, RanOut, matchRow
  <2> QED
    BY <2>1, <2>2
    DEF Next, Tick, CreateMatch, ReceiveCommand, RetryCommand, AbortCommand, BeginSettle,
        Crash, matchRow
<1> HIDE DEF RanOutOnly
<1>3. Spec => [][RanOutOnly]_vars
  BY <1>2, InductionHolds, PTL DEF Spec
<1> QED
  BY <1>3 DEF RanOutOnly, TimeoutIsEarned

\* The clocks are true as a whole: never charged for less than the time that passed,
\* nor for more unless a command named a version to come, and never dry in play.
THEOREM ClocksAreTrueAlways == Spec => []ClocksAreTrue
<1>1. ClockInduction => ClocksAreTrue
  BY DEF ClockInduction, ClocksAreTrue
<1> QED
  BY <1>1, InductionHolds, PTL

-----------------------------------------------------------------------------
(* The log and the answers.  LogMatchesRow and AnswersStayTrue are not      *)
(* inductive alone: that a refused command never commits later rests on why *)
(* it was refused, and on versions only growing.  A command that is too     *)
(* early is the one for which they have not grown enough yet.               *)

\* A reason for which command c will not commit from this row on.
Hopeless(c) ==
  \/ commands[c].side = "none"
  \/ status = "completed"
  \/ commands[c].expected < version
  \/ commands[c].expected = version /\ OutOfTurn(commands[c])
  \/ commands[c].kind = "move" /\ commands[c].verdict = "illegal"

\* Only commands of the two players are logged.
LoggedHadASeat ==
  \A c \in Commands : AlreadyLogged(c) => commands[c] # Idle /\ commands[c].side # "none"

\* Whatever was refused on its merits still is without hope, or was too early.
StillRefused(r) ==
  r.ack \notin {"ok", "duplicate-command"} =>
    commands[r.cmd] # Idle /\ (Hopeless(r.cmd) \/ TooEarly(r))

RefusedIsHopeless == \A r \in answers : StillRefused(r)

\* One answer of AnswersStayTrue.
AnswerIsTrue(r) ==
  /\ r.ack = "ok" => \E e \in events : e.cmd = r.cmd /\ e.seq = r.shown
  /\ r.ack = "duplicate-command" => AlreadyLogged(r.cmd)
  /\ (r.ack \notin {"ok", "duplicate-command"} /\ AlreadyLogged(r.cmd)) => TooEarly(r)

NoAnswersBeforeTheMatch == status = "absent" => answers = {} /\ moveCount = 0

LogInduction ==
  /\ IsFiniteSet(events)
  /\ LogMatchesRow
  /\ AnswersStayTrue
  /\ LoggedHadASeat
  /\ RefusedIsHopeless
  /\ NoAnswersBeforeTheMatch

\* One more event at the next sequence keeps the log in step with the row, if its
\* command is new to the log, named the version it follows, and a move is the move
\* of the side whose turn it was.
LEMMA EventKeepsLog ==
  ASSUME ClockInduction, IsFiniteSet(events), LogMatchesRow, status = "active",
         UNCHANGED commands,
         NEW event \in Event, event.seq = version + 1,
         version' = version + 1, events' = events \cup {event},
         \A e \in events : e.cmd = event.cmd => e.cmd = NoCommand,
         event.cmd # NoCommand => commands[event.cmd].expected = version,
         event.type = "move" =>
           /\ event.side = activePlayer /\ moveCount' = moveCount + 1
           /\ status' = "active" => activePlayer' = Opponent(activePlayer),
         event.type # "move" => moveCount' = moveCount
  PROVE  IsFiniteSet(events)' /\ LogMatchesRow'
<1>1. /\ version \in Nat /\ activePlayer \in Player /\ events \subseteq Event /\ moveCount \in Nat
  BY DEF ClockInduction, TypeOK
<1>2. /\ {e.seq : e \in events} = 0..version
      /\ \A e, f \in events : e.seq = f.seq => e = f
      /\ \A e, f \in events : (e.cmd = f.cmd /\ e.cmd # NoCommand) => e = f
      /\ \A e \in events : e.cmd # NoCommand => e.seq = commands[e.cmd].expected + 1
      /\ \A e, f \in events :
           (e.type = "move" /\ f.type = "move" /\ f.seq = e.seq + 1) => f.side = Opponent(e.side)
      /\ moveCount = Cardinality({e \in events : e.type = "move"})
      /\ \A e \in events :
           (e.type = "move" /\ e.seq = version) => activePlayer = Opponent(e.side)
  BY DEF LogMatchesRow
<1>3. \A e \in events : e.seq \in 0..version
  BY <1>2
<1>4. IsFiniteSet(events')
  BY FS_AddElement
<1>5. {e.seq : e \in events'} = 0..version'
  <2>1. {e.seq : e \in events'} = {e.seq : e \in events} \cup {version + 1}
    OBVIOUS
  <2>2. 0..(version + 1) = (0..version) \cup {version + 1}
    BY <1>1
  <2> QED
    BY <1>2, <2>1, <2>2
<1>6. \A e, f \in events' :
        (e.seq = f.seq \/ (e.cmd = f.cmd /\ e.cmd # NoCommand)) => e = f
  BY <1>1, <1>2, <1>3
<1>10. \A e \in events' : e.cmd # NoCommand => e.seq = commands'[e.cmd].expected + 1
  BY <1>2
<1>7. \A e, f \in events' :
        (e.type = "move" /\ f.type = "move" /\ f.seq = e.seq + 1) => f.side = Opponent(e.side)
  <2> SUFFICES ASSUME NEW e \in events', NEW f \in events',
                      e.type = "move", f.type = "move", f.seq = e.seq + 1
               PROVE  f.side = Opponent(e.side)
    OBVIOUS
  <2>1. e.seq \in Nat /\ f.seq \in Nat
    BY <1>1, <1>3
  <2>2. e \in events
    BY <1>1, <1>3, <2>1
  <2>3. CASE f \in events
    BY <1>2, <2>2, <2>3
  <2>4. CASE f = event
    <3>1. e.seq = version
      BY <1>1, <2>1, <2>4
    <3> QED
      BY <1>2, <2>2, <2>4, <3>1
  <2> QED
    BY <2>3, <2>4
<1>8. moveCount' = Cardinality({e \in events' : e.type = "move"})
  <2> DEFINE moves == {e \in events : e.type = "move"}
  <2>1. IsFiniteSet(moves)
    BY FS_Subset
  <2>2. event \notin moves
    BY <1>1, <1>3
  <2>3. CASE event.type = "move"
    <3>1. {e \in events' : e.type = "move"} = moves \cup {event}
      BY <2>3
    <3>2. Cardinality(moves \cup {event}) = Cardinality(moves) + 1
      BY <2>1, <2>2, FS_AddElement
    <3> QED
      BY <1>2, <2>3, <3>1, <3>2
  <2>4. CASE event.type # "move"
    <3>1. {e \in events' : e.type = "move"} = moves
      BY <2>4
    <3> QED
      BY <1>2, <2>4, <3>1
  <2> QED
    BY <2>3, <2>4
<1>9. \A e \in events' :
        (status' = "active" /\ e.type = "move" /\ e.seq = version')
          => activePlayer' = Opponent(e.side)
  <2> SUFFICES ASSUME NEW e \in events', status' = "active", e.type = "move", e.seq = version + 1
               PROVE  activePlayer' = Opponent(e.side)
    OBVIOUS
  <2>1. e = event
    BY <1>1, <1>3
  <2> QED
    BY <2>1
<1> QED
  BY <1>4, <1>5, <1>6, <1>7, <1>8, <1>9, <1>10 DEF LogMatchesRow

\* A commit makes no earlier answer false: the command that commits was not hopeless,
\* and one that expected the version before it is hopeless afterwards.
LEMMA CommitKeepsAnswers ==
  ASSUME ClockInduction, LogInduction, status = "active", status' # "absent",
         NEW event \in Event, version' = version + 1, events' = events \cup {event},
         UNCHANGED commands,
         event.cmd # NoCommand =>
           /\ commands[event.cmd] # Idle /\ ~Hopeless(event.cmd)
  PROVE  /\ \A r \in answers : AnswerIsTrue(r)' /\ StillRefused(r)'
         /\ LoggedHadASeat'
<1>1. /\ version \in Nat /\ answers \subseteq Answer /\ events \subseteq Event
      /\ commands \in [Commands -> Command \cup {Idle}]
      /\ \A c \in Commands : commands[c] # Idle => commands[c].expected \in Nat
  BY DEF ClockInduction, TypeOK, Command
<1>2. ASSUME NEW r \in answers PROVE AnswerIsTrue(r)' /\ StillRefused(r)'
  <2>1. AnswerIsTrue(r) /\ StillRefused(r) /\ r.cmd \in Commands
    BY <1>1 DEF LogInduction, AnswersStayTrue, RefusedIsHopeless, AnswerIsTrue, Answer
  <2>2. TooEarly(r)' <=> TooEarly(r)
    BY DEF TooEarly
  <2>3. (commands[r.cmd] # Idle /\ Hopeless(r.cmd)) => Hopeless(r.cmd)'
    BY <1>1, <2>1 DEF Hopeless
  <2>4. StillRefused(r)'
    BY <2>1, <2>2, <2>3 DEF StillRefused
  <2>5. AlreadyLogged(r.cmd) => AlreadyLogged(r.cmd)'
    BY DEF AlreadyLogged
  <2>6. ASSUME r.ack \notin {"ok", "duplicate-command"}, AlreadyLogged(r.cmd)'
        PROVE  TooEarly(r)'
    <3>1. CASE AlreadyLogged(r.cmd)
      BY <2>1, <2>2, <2>6, <3>1 DEF AnswerIsTrue
    <3>2. CASE ~AlreadyLogged(r.cmd)
      <4>1. event.cmd = r.cmd /\ r.cmd # NoCommand
        BY <2>1, <2>6, <3>2, CommandsAssumption DEF AlreadyLogged
      <4> QED
        BY <2>1, <2>2, <2>6, <4>1 DEF StillRefused
    <3> QED
      BY <3>1, <3>2
  <2>7. r.ack = "ok" => \E e \in events' : e.cmd = r.cmd /\ e.seq = r.shown
    BY <2>1 DEF AnswerIsTrue
  <2>8. (r.ack = "duplicate-command") => AlreadyLogged(r.cmd)'
    BY <2>1, <2>5 DEF AnswerIsTrue
  <2>9. AnswerIsTrue(r)'
    BY <2>6, <2>7, <2>8 DEF AnswerIsTrue
  <2> QED
    BY <2>4, <2>9
<1>5. LoggedHadASeat'
  BY <1>1, CommandsAssumption DEF LogInduction, LoggedHadASeat, AlreadyLogged, Hopeless
<1> QED
  BY <1>2, <1>5

\* Steps that write neither the row nor an answer, and change no command already issued.
LEMMA RowUntouchedKeepsLog ==
  ASSUME LogInduction, TypeOK, UNCHANGED <<matchRow, answers>>,
         \A c \in Commands : commands[c] # Idle => commands'[c] = commands[c]
  PROVE  LogInduction'
<1>4. \A r \in answers : r.cmd \in Commands /\ AnswerIsTrue(r) /\ StillRefused(r)
  BY DEF LogInduction, TypeOK, Answer, AnswersStayTrue, RefusedIsHopeless, AnswerIsTrue
<1>5. \A e \in events : e.cmd # NoCommand => commands'[e.cmd] = commands[e.cmd]
  BY DEF LogInduction, LoggedHadASeat, AlreadyLogged, TypeOK, Event
<1>1. IsFiniteSet(events)' /\ LogMatchesRow' /\ NoAnswersBeforeTheMatch'
  BY <1>5 DEF LogInduction, LogMatchesRow, NoAnswersBeforeTheMatch, matchRow
<1>2. LoggedHadASeat'
  BY DEF LogInduction, LoggedHadASeat, AlreadyLogged, matchRow
<1>3. RefusedIsHopeless'
  <2> SUFFICES ASSUME NEW r \in answers, r.ack \notin {"ok", "duplicate-command"}
               PROVE  commands'[r.cmd] # Idle /\ (Hopeless(r.cmd)' \/ TooEarly(r)')
    BY DEF RefusedIsHopeless, StillRefused
  <2>1. r.cmd \in Commands /\ commands[r.cmd] # Idle /\ (Hopeless(r.cmd) \/ TooEarly(r))
    BY <1>4 DEF StillRefused
  <2> QED
    BY <2>1 DEF Hopeless, OutOfTurn, TooEarly, matchRow
<1>6. AnswersStayTrue'
  <2> SUFFICES ASSUME NEW r \in answers PROVE AnswerIsTrue(r)'
    BY DEF AnswersStayTrue, AnswerIsTrue
  <2>1. (r.ack \notin {"ok", "duplicate-command"} /\ TooEarly(r)) => TooEarly(r)'
    BY <1>4 DEF StillRefused, TooEarly
  <2> QED
    BY <1>4, <2>1 DEF AnswerIsTrue, AlreadyLogged, matchRow
<1> QED
  BY <1>1, <1>2, <1>3, <1>6 DEF LogInduction

\* A timeout is logged by the server itself and leaves every command without hope.
LEMMA TimeoutKeepsLog ==
  ASSUME ClockInduction, LogInduction, status = "active", NEW now \in Nat,
         CommitTimeout(now), UNCHANGED commands
  PROVE  /\ IsFiniteSet(events)' /\ LogMatchesRow' /\ LoggedHadASeat'
         /\ status' = "completed"
         /\ \A c \in Commands : (\E e \in events' : e.cmd = c) => AlreadyLogged(c)
         /\ \A r \in answers : AnswerIsTrue(r)' /\ StillRefused(r)'
<1> DEFINE event == [seq |-> version + 1, cmd |-> NoCommand, side |-> "none",
                     type |-> "timeout", at |-> now]
<1>1. /\ version' = version + 1 /\ events' = events \cup {event} /\ moveCount' = moveCount
  BY DEF CommitTimeout, Patch
<1>2. status' = "completed"
  BY DEF CommitTimeout, Patch, Opponent
<1>3. event \in Event
  BY DEF ClockInduction, TypeOK, Event
<1>4. /\ event.seq = version + 1 /\ event.cmd = NoCommand /\ event.type = "timeout"
  OBVIOUS
<1> HIDE DEF event
<1>5. IsFiniteSet(events)' /\ LogMatchesRow'
  BY <1>1, <1>2, <1>3, <1>4, EventKeepsLog DEF LogInduction
<1>6. \A c \in Commands : (\E e \in events' : e.cmd = c) => AlreadyLogged(c)
  BY <1>1, <1>4, CommandsAssumption DEF AlreadyLogged
<1> QED
  BY <1>1, <1>2, <1>3, <1>4, <1>5, <1>6, CommitKeepsAnswers
LEMMA InitLog == Init => LogInduction
<1> SUFFICES ASSUME Init PROVE LogInduction
  OBVIOUS
<1>1. IsFiniteSet(events)
  BY FS_EmptySet DEF Init
<1> QED
  BY <1>1
  DEF Init, LogInduction, LogMatchesRow, AnswersStayTrue, LoggedHadASeat, RefusedIsHopeless,
      NoAnswersBeforeTheMatch, AlreadyLogged

LEMMA StepKeepsLog == ClockInduction /\ LogInduction /\ [Next]_vars => LogInduction'
<1> SUFFICES ASSUME ClockInduction, LogInduction, [Next]_vars PROVE LogInduction'
  OBVIOUS
<1>0. TypeOK /\ CurrentCopiesAreFresh /\ NothingBeforeTheMatch
  BY DEF ClockInduction
<1>1. CASE Tick
  BY <1>0, <1>1, RowUntouchedKeepsLog DEF Tick
<1>2. CASE CreateMatch
  <2> DEFINE created == [seq |-> 0, cmd |-> NoCommand, side |-> "none", type |-> "match-created",
                         at |-> startedAt']
  <2>1. /\ status = "absent" /\ status' = "active" /\ events' = {created} /\ answers' = {}
        /\ version' = 0 /\ moveCount' = moveCount
    BY <1>0, <1>2
    DEF CreateMatch, LogInduction, NoAnswersBeforeTheMatch, NothingBeforeTheMatch
  <2>2. moveCount = 0
    BY <2>1 DEF LogInduction, NoAnswersBeforeTheMatch
  <2>3. IsFiniteSet(events')
    BY <2>1, FS_Singleton
  <2>4. LogMatchesRow'
    <3>1. 0..0 = {0} /\ {e \in {created} : e.type = "move"} = {}
      OBVIOUS
    <3>2. {e.seq : e \in {created}} = {0}
      OBVIOUS
    <3>3. moveCount' = Cardinality({e \in events' : e.type = "move"})
      BY <2>1, <2>2, <3>1, FS_EmptySet
    <3>4. {e.seq : e \in events'} = 0..version'
      BY <2>1, <3>1, <3>2
    <3> HIDE DEF created
    <3>5. created.type # "move" /\ created.cmd = NoCommand
      BY DEF created
    <3> QED
      BY <2>1, <3>3, <3>4, <3>5 DEF LogMatchesRow
  <2> QED
    BY <2>1, <2>3, <2>4, CommandsAssumption
    DEF LogInduction, AnswersStayTrue, LoggedHadASeat, AlreadyLogged, RefusedIsHopeless,
        StillRefused, NoAnswersBeforeTheMatch
<1>3. ASSUME NEW a \in Attempts, NEW c \in Commands, ReceiveCommand(a, c)
      PROVE LogInduction'
  BY <1>0, <1>3, RowUntouchedKeepsLog DEF ReceiveCommand, TypeOK
<1>4. ASSUME NEW a \in Attempts, NEW c \in Commands, RetryCommand(a, c)
      PROVE LogInduction'
  BY <1>0, <1>4, RowUntouchedKeepsLog DEF RetryCommand
<1>5. ASSUME NEW a \in Attempts, ExecuteCommand(a) PROVE LogInduction'
  <2> DEFINE c == attempt[a].cmd
             now == attempt[a].now
  <2>1. /\ c \in Commands /\ now \in Nat /\ commands[c] \in Command /\ commands[c] # Idle
        /\ UNCHANGED commands
    BY <1>0, <1>5 DEF ExecuteCommand, TypeOK, Waiting, CurrentCopiesAreFresh
  <2>2. status # "absent"
    BY <1>0, <2>1 DEF NothingBeforeTheMatch
  <2>3. answers' = answers \cup
          {[cmd |-> c,
            ack |-> IF Refusal(c, now) = "commit" THEN "ok" ELSE Refusal(c, now),
            shown |-> IF Refusal(c, now) \in {"commit", "stale-version"} THEN version' ELSE 0]}
    BY <1>5 DEF ExecuteCommand
  <2> HIDE DEF c, now
  <2>4. CASE Refusal(c, now) = "clock-expired"
    <3>1. CommitTimeout(now) /\ status = "active"
      BY <1>5, <2>1, <2>4, RefusalMeaning DEF ExecuteCommand, c, now
    <3>2. ~AlreadyLogged(c)
      BY <2>4 DEF Refusal
    <3>8. answers' = answers \cup {[cmd |-> c, ack |-> "clock-expired", shown |-> 0]}
      BY <2>3, <2>4
    <3>9. PICK r : r = [cmd |-> c, ack |-> "clock-expired", shown |-> 0]
      OBVIOUS
    <3>3. r.cmd = c /\ r.ack = "clock-expired" /\ answers' = answers \cup {r}
      BY <3>8, <3>9
    <3>4. ~\E e \in events' : e.cmd = r.cmd
      BY <2>1, <3>1, <3>2, <3>3, TimeoutKeepsLog
    <3>5. status' = "completed" /\ commands'[r.cmd] # Idle
      BY <2>1, <3>1, <3>3, TimeoutKeepsLog
    <3>6. AnswerIsTrue(r)' /\ StillRefused(r)'
      BY <3>3, <3>4, <3>5 DEF AnswerIsTrue, StillRefused, AlreadyLogged, Hopeless
    <3>7. \A q \in answers' : AnswerIsTrue(q)' /\ StillRefused(q)'
      BY <2>1, <3>1, <3>3, <3>6, TimeoutKeepsLog
    <3> QED
      BY <2>1, <3>1, <3>7, TimeoutKeepsLog
      DEF LogInduction, AnswersStayTrue, AnswerIsTrue, RefusedIsHopeless,
          NoAnswersBeforeTheMatch
  <2>5. CASE Refusal(c, now) = "commit"
    <3> DEFINE type == IF commands[c].kind = "move" THEN "move" ELSE "resignation"
               event == [seq |-> version + 1, cmd |-> c, side |-> commands[c].side,
                         type |-> type, at |-> now]
    <3>1. /\ status = "active" /\ ~AlreadyLogged(c) /\ ~Hopeless(c)
          /\ commands[c].expected = version
      BY <1>0, <2>1, <2>5 DEF Refusal, Ended, Hopeless, Stale, TypeOK
    <3>2. /\ version' = version + 1 /\ events' = events \cup {event}
          /\ status' \in {"active", "completed"}
          /\ commands[c].kind = "move" => moveCount' = moveCount + 1
          /\ commands[c].kind # "move" => moveCount' = moveCount
      BY <1>5, <2>5 DEF ExecuteCommand, CommitMove, CommitResignation, Patch, c, now
    <3>3. event \in Event
      BY <1>0, <2>1 DEF TypeOK, Event, Command
    <3>4. commands[c].kind = "move" =>
            /\ commands[c].side = activePlayer
            /\ status' = "active" => activePlayer' = Opponent(activePlayer)
      BY <1>5, <2>5, <3>1 DEF ExecuteCommand, CommitMove, Patch, Hopeless, OutOfTurn, c, now
    <3>10. c # NoCommand
      BY <2>1, CommandsAssumption
    <3>5. /\ event.seq = version + 1 /\ event.cmd = c
          /\ event.type = "move" <=> commands[c].kind = "move"
          /\ event.side = commands[c].side
      OBVIOUS
    <3> HIDE DEF event
    <3>6. IsFiniteSet(events)' /\ LogMatchesRow'
      BY <2>1, <3>1, <3>2, <3>3, <3>4, <3>5, EventKeepsLog DEF LogInduction, AlreadyLogged
    <3>7. /\ \A r \in answers : AnswerIsTrue(r)' /\ StillRefused(r)'
          /\ LoggedHadASeat'
      BY <2>1, <3>1, <3>2, <3>3, <3>5, CommitKeepsAnswers
    <3>8. event \in events' /\ event.cmd = c /\ event.seq = version'
      BY <3>2, <3>5
    <3>9. \A r \in answers' : AnswerIsTrue(r)' /\ StillRefused(r)'
      BY <2>3, <2>5, <3>7, <3>8 DEF AnswerIsTrue, StillRefused
    <3> QED
      BY <3>2, <3>6, <3>7, <3>9
      DEF LogInduction, AnswersStayTrue, AnswerIsTrue, RefusedIsHopeless,
          NoAnswersBeforeTheMatch
  <2>6. CASE Refusal(c, now) \notin {"clock-expired", "commit"}
    <3>1. UNCHANGED matchRow
      BY <1>5, <2>6 DEF ExecuteCommand, c, now
    <3>2. IsFiniteSet(events)' /\ LogMatchesRow' /\ LoggedHadASeat' /\ NoAnswersBeforeTheMatch'
      BY <2>1, <2>2, <3>1
      DEF matchRow, LogInduction, LogMatchesRow, LoggedHadASeat, AlreadyLogged,
          NoAnswersBeforeTheMatch
    <3>3. Refusal(c, now) = "duplicate-command" <=> AlreadyLogged(c)
      BY <2>1, <2>2 DEF Refusal, LogInduction, LoggedHadASeat
    <3> DEFINE r == [cmd |-> c, ack |-> Refusal(c, now),
                     shown |-> IF Refusal(c, now) = "stale-version" THEN version ELSE 0]
    <3>4. answers' = answers \cup {r}
      BY <2>3, <2>6, <3>1 DEF matchRow
    <3>5. /\ r.cmd = c /\ r.ack = Refusal(c, now)
          /\ r.ack = "stale-version" => r.shown = version
      OBVIOUS
    <3>6. Refusal(c, now) # "ok"
      BY DEF Refusal
    <3> HIDE DEF r
    <3>7. \/ r.ack = "duplicate-command"
          \/ Hopeless(c) \/ TooEarly(r)
      BY <1>0, <2>1, <2>2, <2>6, <3>5
      DEF Refusal, Ended, Hopeless, Stale, TooEarly, TypeOK, Command
    <3>8. AnswerIsTrue(r) /\ StillRefused(r)
      BY <2>1, <3>3, <3>5, <3>6, <3>7 DEF AnswerIsTrue, StillRefused
    <3>9. \A q \in answers' : AnswerIsTrue(q) /\ StillRefused(q)
      BY <3>4, <3>8 DEF LogInduction, AnswersStayTrue, AnswerIsTrue, RefusedIsHopeless
    <3>10. \A q : /\ AnswerIsTrue(q)' <=> AnswerIsTrue(q)
                  /\ StillRefused(q)' <=> StillRefused(q)
      BY <2>1, <3>1
      DEF AnswerIsTrue, StillRefused, AlreadyLogged, TooEarly, Hopeless, OutOfTurn, matchRow
    <3> QED
      BY <3>1, <3>2, <3>9, <3>10
      DEF LogInduction, AnswersStayTrue, AnswerIsTrue, RefusedIsHopeless, matchRow
  <2> QED
    BY <2>4, <2>5, <2>6
<1>6. ASSUME NEW a \in Attempts, AbortCommand(a) PROVE LogInduction'
  BY <1>0, <1>6, RowUntouchedKeepsLog DEF AbortCommand
<1>7. ASSUME NEW s \in Settlers, BeginSettle(s) PROVE LogInduction'
  BY <1>0, <1>7, RowUntouchedKeepsLog DEF BeginSettle
<1>8. ASSUME NEW s \in Settlers, ExecuteSettle(s) PROVE LogInduction'
  <2>1. settler[s] \in Nat /\ UNCHANGED <<commands, answers>>
    BY <1>0, <1>8 DEF ExecuteSettle, TypeOK
  <2>2. CASE RanOut(settler[s])
    <3>1. CommitTimeout(settler[s]) /\ status = "active"
      BY <1>8, <2>2 DEF ExecuteSettle, RanOut
    <3> QED
      BY <2>1, <3>1, TimeoutKeepsLog
      DEF LogInduction, AnswersStayTrue, AnswerIsTrue, RefusedIsHopeless,
          NoAnswersBeforeTheMatch
  <2>3. CASE ~RanOut(settler[s])
    BY <1>0, <1>8, <2>1, <2>3, RowUntouchedKeepsLog DEF ExecuteSettle
  <2> QED
    BY <2>2, <2>3
<1>9. CASE Crash
  BY <1>0, <1>9, RowUntouchedKeepsLog DEF Crash
<1>10. CASE UNCHANGED vars
  BY <1>0, <1>10, RowUntouchedKeepsLog DEF vars
<1> QED
  BY <1>1, <1>2, <1>3, <1>4, <1>5, <1>6, <1>7, <1>8, <1>9, <1>10 DEF Next

\* For any number of commands, copies and settlements the log and the row tell one story:
\* one event per version, one per command and right after the version it named, turns
\* that alternate.
THEOREM LogAlwaysMatchesRow == Spec => []LogMatchesRow
<1>1. Spec => []LogInduction
  BY InitLog, StepKeepsLog, InductionHolds, PTL DEF Spec
<1>2. LogInduction => LogMatchesRow
  BY DEF LogInduction
<1> QED
  BY <1>1, <1>2, PTL

\* What a client was told stays true, whatever copies of its command are still waiting:
\* of the refusals, only that of a command too early may be followed by its commit.
THEOREM AnswersAreKept == Spec => []AnswersStayTrue
<1>1. Spec => []LogInduction
  BY InitLog, StepKeepsLog, InductionHolds, PTL DEF Spec
<1>2. LogInduction => AnswersStayTrue
  BY DEF LogInduction
<1> QED
  BY <1>1, <1>2, PTL

-----------------------------------------------------------------------------
(* The ratings a match that is over leaves.                                 *)

\* The points expected of a rating against another are a whole number: the product is rounded.
ExpectedIsWhole == \A a, b \in Nat : Expected(a, b) \in Int

LEMMA StartingRow == StartingAggregate \in RatingRows
  BY EloAssumption DEF StartingAggregate, RatingRows

LEMMA StreaksAreWhole ==
  ASSUME NEW streak \in Int, NEW outcome \in Outcomes
  PROVE  NextStreak(streak, outcome) \in Int
  BY DEF NextStreak, Outcomes

\* A rating never falls below the floor, so it stays a natural number.
LEMMA RatingsStayWhole ==
  ASSUME ExpectedIsWhole, NEW rating \in Nat, NEW opponent \in Nat, NEW outcome \in Outcomes
  PROVE  NextRating(rating, opponent, outcome) \in Nat
<1>1. Expected(rating, opponent) \in Int
  BY DEF ExpectedIsWhole
<1>2. Scored(outcome) \in Nat
  BY EloAssumption DEF Scored, Outcomes
<1>3. ASSUME NEW x \in Int
      PROVE  (IF x < MinimumRating THEN MinimumRating ELSE x) \in Nat
  BY EloAssumption
<1> QED
  BY <1>1, <1>2, <1>3 DEF NextRating

\* What a result makes of a row, field by field.
LEMMA ResultsMakeRows ==
  ASSUME NEW row \in RatingRows, NEW outcome \in Outcomes, NEW rating \in Nat
  PROVE  /\ ApplyResult(row, outcome, rating) \in RatingRows
         /\ ApplyResult(row, outcome, rating).rating = rating
         /\ ApplyResult(row, outcome, rating).games = row.games + 1
         /\ ApplyResult(row, outcome, rating).wins =
              row.wins + (IF outcome = "win" THEN 1 ELSE 0)
         /\ ApplyResult(row, outcome, rating).losses =
              row.losses + (IF outcome = "loss" THEN 1 ELSE 0)
         /\ ApplyResult(row, outcome, rating).draws =
              row.draws + (IF outcome = "draw" THEN 1 ELSE 0)
<1> DEFINE streak == NextStreak(row.streak, outcome)
<1>1. row.streak \in Int /\ row.best \in Nat /\ row.games \in Nat /\ row.wins \in Nat
      /\ row.losses \in Nat /\ row.draws \in Nat
  BY DEF RatingRows
<1>2. streak \in Int
  BY <1>1, StreaksAreWhole
<1> HIDE DEF streak
<1>3. (IF streak > row.best THEN streak ELSE row.best) \in Nat
  BY <1>1, <1>2
<1>4. ApplyResult(row, outcome, rating) =
        [rating |-> rating, games |-> row.games + 1,
         wins |-> row.wins + (IF outcome = "win" THEN 1 ELSE 0),
         losses |-> row.losses + (IF outcome = "loss" THEN 1 ELSE 0),
         draws |-> row.draws + (IF outcome = "draw" THEN 1 ELSE 0),
         streak |-> streak, best |-> IF streak > row.best THEN streak ELSE row.best]
  BY DEF ApplyResult, streak
<1> QED
  BY <1>1, <1>2, <1>3, <1>4 DEF RatingRows

LEMMA OutcomesAreOutcomes ==
  ASSUME NEW verdict, NEW side
  PROVE  OutcomeOf(verdict, side) \in Outcomes
  BY DEF OutcomeOf, Outcomes

-----------------------------------------------------------------------------
(* The inductive invariant: what a transaction has read and written is what the book says. *)

Steps == {"lock", "upsert", "gather", "award", "commit"}
Transactions ==
  [pc : Steps, side : Sides, result : Results, reason : Reasons, toLock : SUBSET Accounts, missing : SUBSET Accounts,
   read : [Sides -> RatingRows], wrote : SUBSET (Accounts \X RatingRows),
   todo : SUBSET Codes, won : SUBSET (Accounts \X Codes)]
MatchRows == [status : {"active", "completed"}, result : Results \cup {"none"},
              reason : Reasons \cup {"none"}]
LockKeys == Accounts \X (Codes \cup {"rating"})

Typed ==
  /\ rows \in [Matches -> MatchRows]
  /\ ratings \in [Accounts -> Aggregates]
  /\ tx \in [Matches -> {NoTransaction} \cup Transactions]
  /\ owner \in [LockKeys -> Matches \cup {Nobody}]

\* A correction in progress is one an administrator may make, of an account with a row.
CorrectionsStand ==
  \A c \in correction :
    /\ c.user \in Accounts /\ c.after \in Nat /\ <<c.user, c.after>> \in Corrections
    /\ ratings[c.user] # Unrated

\* A lock belongs to a transaction that is running.
OwnersRun == \A k \in LockKeys : owner[k] # Nobody => tx[owner[k]] # NoTransaction

\* A row once written is never taken away.
RowsStay == \A u \in Accounts : Opening[u] # Unrated => ratings[u] # Unrated

\* What an account stands at, if those in `missing` had no row.
Standing(u, missing) ==
  IF u \in missing \/ ratings[u] = Unrated THEN StartingAggregate ELSE ratings[u]

\* The row a seat is to have, and the seats whose row has been written.
After(m, side) ==
  LET outcome == OutcomeOf(tx[m].result, side)
  IN  ApplyResult(tx[m].read[side], outcome,
                  NextRating(tx[m].read[side].rating, tx[m].read[Other(side)].rating, outcome))
WrittenSides(m) ==
  IF ~RatedPair(m) \/ tx[m].pc = "lock" THEN {}
  ELSE IF tx[m].pc = "upsert" THEN {"light"} ELSE Sides

\* What a transaction has of a seat: the start, if there was no row when it began; otherwise
\* there is a row, and once it is locked what was read of it stands.
ReadTrue(m, side) ==
  LET u == SeatOf(m, side)
  IN  IF u \in tx[m].missing
      THEN tx[m].read[side] = StartingAggregate /\ u \notin tx[m].toLock
      ELSE /\ ratings[u] # Unrated
           /\ u \in tx[m].toLock \/ (tx[m].read[side] = ratings[u] /\ owner[RowOf(u)] = m)

\* A running transaction has its match still to complete, those it found without a row never
\* had one at the beginning, and what it wrote follows from what it has of both seats.
Runs(m) ==
  /\ rows[m].status = "active"
  /\ tx[m].pc \in {"lock", "upsert"} => RatedPair(m)
  /\ tx[m].pc # "lock" => tx[m].toLock = {}
  /\ \A u \in tx[m].toLock : ratings[u] # Unrated
  /\ tx[m].pc = "award" => IsAccount(m, tx[m].side)
  /\ tx[m].wrote = {<<SeatOf(m, s), After(m, s)>> : s \in WrittenSides(m)}
  /\ \A s \in WrittenSides(m) : owner[RowOf(SeatOf(m, s))] = m
  /\ \A u \in tx[m].missing : RatedPair(m) /\ u \in Pair(m) /\ Opening[u] = Unrated
  /\ RatedPair(m) => \A s \in Sides : ReadTrue(m, s)

BookInduction ==
  /\ Typed /\ CorrectionsStand /\ OwnersRun /\ RowsStay
  /\ \A m \in Matches : tx[m] # NoTransaction => Runs(m)

-----------------------------------------------------------------------------
(* Lemmas. *)

LEMMA TransactionFields ==
  ASSUME NEW t \in Transactions
  PROVE  /\ t # NoTransaction /\ t.pc # "idle"
         /\ t.pc \in Steps /\ t.side \in Sides /\ t.result \in Results /\ t.reason \in Reasons
         /\ t.toLock \subseteq Accounts /\ t.missing \subseteq Accounts /\ t.read \in [Sides -> RatingRows]
         /\ t.wrote \subseteq Accounts \X RatingRows
         /\ t.todo \subseteq Codes /\ t.won \subseteq Accounts \X Codes
<1>1. t.pc # "idle"
  BY DEF Transactions, Steps
<1>2. t # NoTransaction
  BY <1>1 DEF NoTransaction
<1> QED
  BY <1>1, <1>2 DEF Transactions

\* A match whose transaction is somewhere has a transaction.
LEMMA Running ==
  ASSUME Typed, NEW m \in Matches, tx[m] # NoTransaction \/ tx[m].pc # "idle"
  PROVE  tx[m] \in Transactions
<1>1. NoTransaction.pc = "idle"
  BY DEF NoTransaction
<1> QED
  BY <1>1 DEF Typed

LEMMA IdleIsIdle ==
  ASSUME Typed, NEW m \in Matches, NEW p \in Steps, tx[m].pc = p
  PROVE  tx[m] \in Transactions
  BY Running DEF Steps

LEMMA SeatKeys ==
  ASSUME NEW m \in Matches, RatedPair(m), NEW s \in Sides
  PROVE  SeatOf(m, s) \in Accounts /\ RowOf(SeatOf(m, s)) \in LockKeys
  BY DEF RatedPair, IsAccount, RowOf, LockKeys

\* What a seat is to have is a row.
LEMMA AfterIsARow ==
  ASSUME ExpectedIsWhole, Typed, NEW m \in Matches, tx[m] # NoTransaction, NEW s \in Sides
  PROVE  /\ After(m, s) \in RatingRows
         /\ After(m, s).games = tx[m].read[s].games + 1
         /\ LET o == OutcomeOf(tx[m].result, s)
            IN  /\ o \in Outcomes
                /\ After(m, s).wins = tx[m].read[s].wins + (IF o = "win" THEN 1 ELSE 0)
                /\ After(m, s).losses = tx[m].read[s].losses + (IF o = "loss" THEN 1 ELSE 0)
                /\ After(m, s).draws = tx[m].read[s].draws + (IF o = "draw" THEN 1 ELSE 0)
<1>1. tx[m].read \in [Sides -> RatingRows] /\ tx[m].result \in Results
  BY Running, TransactionFields
<1>2. Other(s) \in Sides
  BY DEF Other, Sides
<1> DEFINE o == OutcomeOf(tx[m].result, s)
           mine == tx[m].read[s]
           hers == tx[m].read[Other(s)]
<1>3. mine \in RatingRows /\ hers \in RatingRows /\ o \in Outcomes
  BY <1>1, <1>2, OutcomesAreOutcomes
<1>4. mine.rating \in Nat /\ hers.rating \in Nat
  BY <1>3 DEF RatingRows
<1>5. o = OutcomeOf(tx[m].result, s) /\ mine = tx[m].read[s]
  OBVIOUS
<1>6. After(m, s) = ApplyResult(mine, o, NextRating(mine.rating, hers.rating, o))
  BY DEF After
<1> HIDE DEF o, mine, hers
<1>7. NextRating(mine.rating, hers.rating, o) \in Nat
  BY <1>3, <1>4, RatingsStayWhole
<1>8. /\ After(m, s) \in RatingRows
      /\ After(m, s).games = mine.games + 1
      /\ After(m, s).wins = mine.wins + (IF o = "win" THEN 1 ELSE 0)
      /\ After(m, s).losses = mine.losses + (IF o = "loss" THEN 1 ELSE 0)
      /\ After(m, s).draws = mine.draws + (IF o = "draw" THEN 1 ELSE 0)
  BY <1>3, <1>6, <1>7, ResultsMakeRows
<1> QED
  BY <1>3, <1>5, <1>8

\* A transaction that nothing touches goes on as it was: its own rows cannot be written by others.
LEMMA OthersRunOn ==
  ASSUME Typed, NEW m \in Matches, tx[m] # NoTransaction, Runs(m),
         tx'[m] = tx[m], rows'[m] = rows[m],
         \A k \in LockKeys : owner[k] = m => owner'[k] = m,
         \A u \in Accounts : ratings[u] # Unrated => ratings'[u] # Unrated,
         \A s \in Sides : RatedPair(m) /\ owner[RowOf(SeatOf(m, s))] = m
           => ratings'[SeatOf(m, s)] = ratings[SeatOf(m, s)]
  PROVE  Runs(m)'
<1>1. tx[m] \in Transactions /\ tx[m].toLock \subseteq Accounts
  BY Running, TransactionFields
<1>2. WrittenSides(m)' = WrittenSides(m) /\ \A s \in Sides : After(m, s)' = After(m, s)
  BY DEF WrittenSides, After
<1>3. WrittenSides(m) \subseteq Sides /\ (WrittenSides(m) # {} => RatedPair(m))
  BY DEF WrittenSides, Sides
<1>4. (tx[m].wrote = {<<SeatOf(m, s), After(m, s)>> : s \in WrittenSides(m)})'
  BY <1>2, <1>3 DEF Runs
<1>5. (\A s \in WrittenSides(m) : owner[RowOf(SeatOf(m, s))] = m)'
  BY <1>2, <1>3, SeatKeys DEF Runs
<1>6. ASSUME RatedPair(m), NEW s \in Sides
      PROVE  ReadTrue(m, s)'
  <2>1. ReadTrue(m, s)
    BY <1>6 DEF Runs
  <2> QED
    BY <1>6, <2>1, SeatKeys DEF ReadTrue
<1>7. /\ (rows[m].status = "active")'
      /\ (tx[m].pc \in {"lock", "upsert"} => RatedPair(m))'
      /\ (tx[m].pc # "lock" => tx[m].toLock = {})'
      /\ (\A u \in tx[m].toLock : ratings[u] # Unrated)'
      /\ (tx[m].pc = "award" => IsAccount(m, tx[m].side))'
      /\ (\A u \in tx[m].missing : RatedPair(m) /\ u \in Pair(m) /\ Opening[u] = Unrated)'
  BY <1>1 DEF Runs, Pair
<1> QED
  BY <1>4, <1>5, <1>6, <1>7 DEF Runs

\* A step of one transaction that writes no table: only its own record and its own locks move.
LEMMA StepOfOne ==
  ASSUME RatingsConstants, BookInduction, NEW m \in Matches, NEW t \in {NoTransaction} \cup Transactions,
         rows' = rows, ratings' = ratings, correction' = correction,
         tx' = [tx EXCEPT ![m] = t],
         owner' \in [LockKeys -> Matches \cup {Nobody}],
         \A k \in LockKeys : owner'[k] # m => owner'[k] = owner[k] \/ owner'[k] = Nobody,
         \A k \in LockKeys : owner[k] \in {m, Nobody} \/ owner'[k] = owner[k],
         \A k \in LockKeys : t = NoTransaction => owner'[k] # m,
         t # NoTransaction => Runs(m)'
  PROVE  BookInduction'
<1>1. tx' \in [Matches -> {NoTransaction} \cup Transactions] /\ tx'[m] = t
      /\ \A n \in Matches \ {m} : tx'[n] = tx[n]
  BY DEF BookInduction, Typed
<1>2. Typed' /\ CorrectionsStand' /\ RowsStay'
  BY <1>1 DEF BookInduction, Typed, CorrectionsStand, RowsStay
<1>3. OwnersRun'
  <2> SUFFICES ASSUME NEW k \in LockKeys, owner'[k] # Nobody
               PROVE  tx'[owner'[k]] # NoTransaction
    BY DEF OwnersRun
  <2>1. CASE owner'[k] = m
    BY <1>1, <2>1
  <2>2. CASE owner'[k] # m
    <3>1. owner'[k] = owner[k] /\ owner[k] \in Matches
      BY <2>2
    <3> QED
      BY <1>1, <2>2, <3>1 DEF BookInduction, OwnersRun
  <2> QED
    BY <2>1, <2>2
<1>4. ASSUME NEW n \in Matches \ {m}, tx'[n] # NoTransaction
      PROVE  Runs(n)'
  <2>1. tx'[n] = tx[n] /\ tx[n] # NoTransaction /\ Runs(n) /\ Typed
    BY <1>1, <1>4 DEF BookInduction
  <2>2. \A k \in LockKeys : owner[k] = n => owner'[k] = n
    BY DEF BookInduction, Typed, RatingsConstants
  <2> QED
    BY <2>1, <2>2, OthersRunOn
<1> QED
  BY <1>1, <1>2, <1>3, <1>4 DEF BookInduction

-----------------------------------------------------------------------------
(* The steps of a completion. *)

LEMMA BeginRuns ==
  ASSUME RatingsConstants, BookInduction, NEW m \in Matches,
         NEW verdict \in Results, NEW reason \in Reasons, Begin(m, verdict, reason)
  PROVE  BookInduction'
<1> DEFINE t == [pc |-> IF RatedPair(m) THEN "lock" ELSE "gather", side |-> "light",
                 result |-> verdict, reason |-> reason,
                 toLock |-> IF RatedPair(m) THEN RowsToLock(m) ELSE {},
                 missing |-> IF RatedPair(m) THEN Pair(m) \ RowsToLock(m) ELSE {},
                 read |-> [s \in Sides |-> StartingAggregate],
                 wrote |-> {}, todo |-> {}, won |-> {}]
<1>1. tx' = [tx EXCEPT ![m] = t] /\ rows[m].status = "active"
      /\ rows' = rows /\ ratings' = ratings /\ correction' = correction /\ owner' = owner
  BY DEF Begin, ledger
<1>2. RatedPair(m) => RowsToLock(m) \subseteq Accounts /\ Pair(m) \subseteq Accounts
  BY SeatKeys DEF RowsToLock, Pair
<1>3. t \in Transactions
  BY <1>2, StartingRow DEF Transactions, Steps, Sides
<1>4. tx'[m] = t
  BY <1>1, <1>3 DEF BookInduction, Typed
<1>5. \A k \in LockKeys : owner[k] # m
  BY DEF Begin, BookInduction, OwnersRun, RatingsConstants
<1>6. ASSUME RatedPair(m), NEW s \in Sides
      PROVE  ReadTrue(m, s)'
  <2>1. SeatOf(m, s) \in Pair(m)
    BY DEF Pair
  <2> QED
    BY <1>1, <1>4, <1>6, <2>1 DEF ReadTrue, RowsToLock
<1>7. /\ \A u \in RowsToLock(m) : ratings[u] # Unrated
      /\ \A u \in Pair(m) \ RowsToLock(m) : ratings[u] = Unrated
  BY DEF RowsToLock
<1>8. (\A u \in tx[m].missing : RatedPair(m) /\ u \in Pair(m) /\ Opening[u] = Unrated)'
  BY <1>2, <1>4, <1>7 DEF BookInduction, RowsStay, Pair
<1>9. Runs(m)'
  BY <1>1, <1>4, <1>6, <1>7, <1>8 DEF Runs, WrittenSides
<1> HIDE DEF t
<1> QED
  BY <1>1, <1>3, <1>5, <1>9, StepOfOne DEF BookInduction, Typed

\* Taking a free lock takes it from nobody.
LEMMA LockTaken ==
  ASSUME BookInduction, NEW m \in Matches, NEW key \in LockKeys, Free(key, m),
         NEW holder \in {m, Nobody}, owner' = [owner EXCEPT ![key] = holder]
  PROVE  /\ owner' \in [LockKeys -> Matches \cup {Nobody}]
         /\ owner'[key] = holder
         /\ \A k \in LockKeys \ {key} : owner'[k] = owner[k]
         /\ \A k \in LockKeys : owner'[k] # m => owner'[k] = owner[k] \/ owner'[k] = Nobody
         /\ \A k \in LockKeys : owner[k] \in {m, Nobody} \/ owner'[k] = owner[k]
  BY DEF BookInduction, Typed, Free

LEMMA LockRatingRuns ==
  ASSUME RatingsConstants, BookInduction, NEW m \in Matches, LockRating(m)
  PROVE  BookInduction'
<1>1. PICK u \in First(tx[m].toLock) :
        /\ Free(RowOf(u), m)
        /\ owner' = [owner EXCEPT ![RowOf(u)] = m]
        /\ tx' = [tx EXCEPT ![m].toLock = @ \ {u},
                            ![m].read = [s \in Sides |-> IF SeatOf(m, s) = u THEN ratings[u] ELSE @[s]]]
  BY DEF LockRating
<1>2. tx[m] \in Transactions /\ tx[m].pc = "lock" /\ Runs(m) /\ RatedPair(m)
      /\ rows' = rows /\ ratings' = ratings /\ correction' = correction
  BY IdleIsIdle, TransactionFields DEF LockRating, BookInduction, Runs, Steps, ledger
<1>3. u \in Accounts /\ u \in tx[m].toLock /\ ratings[u] # Unrated
  BY <1>1, <1>2, TransactionFields DEF First, Runs
<1>4. ratings[u] \in RatingRows /\ RowOf(u) \in LockKeys
  BY <1>3 DEF BookInduction, Typed, Aggregates, RowOf, LockKeys
<1> DEFINE newRead == [s \in Sides |-> IF SeatOf(m, s) = u THEN ratings[u] ELSE tx[m].read[s]]
           t == [tx[m] EXCEPT !.toLock = @ \ {u}, !.read = newRead]
<1>5. newRead \in [Sides -> RatingRows]
  BY <1>2, <1>4, TransactionFields
<1>6. tx' = [tx EXCEPT ![m] = t]
  BY <1>1, <1>2 DEF BookInduction, Typed
<1> HIDE DEF newRead
<1>7. /\ t \in Transactions /\ t.pc = "lock" /\ t.toLock = tx[m].toLock \ {u} /\ t.read = newRead
      /\ t.wrote = tx[m].wrote /\ t.side = tx[m].side /\ t.missing = tx[m].missing
  BY <1>2, <1>5 DEF Transactions
<1> HIDE DEF t
<1>8. tx'[m] = t
  BY <1>6 DEF BookInduction, Typed
<1>9. /\ owner' \in [LockKeys -> Matches \cup {Nobody}]
      /\ owner'[RowOf(u)] = m
      /\ \A k \in LockKeys \ {RowOf(u)} : owner'[k] = owner[k]
      /\ \A k \in LockKeys : owner'[k] # m => owner'[k] = owner[k] \/ owner'[k] = Nobody
      /\ \A k \in LockKeys : owner[k] \in {m, Nobody} \/ owner'[k] = owner[k]
  BY <1>1, <1>4, LockTaken
<1>10. ASSUME NEW s \in Sides
       PROVE  ReadTrue(m, s)'
  <2>1. ReadTrue(m, s) /\ newRead[s] = IF SeatOf(m, s) = u THEN ratings[u] ELSE tx[m].read[s]
    BY <1>2 DEF Runs, newRead
  <2>2. CASE SeatOf(m, s) = u
    BY <1>2, <1>3, <1>7, <1>8, <1>9, <2>1, <2>2 DEF ReadTrue
  <2>3. CASE SeatOf(m, s) # u
    <3>1. RowOf(SeatOf(m, s)) \in LockKeys /\ RowOf(SeatOf(m, s)) # RowOf(u)
      BY <1>2, <2>3, SeatKeys DEF RowOf
    <3> QED
      BY <1>2, <1>7, <1>8, <1>9, <2>1, <2>3, <3>1 DEF ReadTrue
  <2> QED
    BY <2>2, <2>3
<1>11. (\A v \in tx[m].missing : RatedPair(m) /\ v \in Pair(m) /\ Opening[v] = Unrated)'
  BY <1>2, <1>7, <1>8 DEF Runs, Pair
<1>12. (tx[m].wrote = {<<SeatOf(m, s), After(m, s)>> : s \in WrittenSides(m)})'
       /\ WrittenSides(m)' = {}
  BY <1>2, <1>7, <1>8 DEF Runs, WrittenSides
<1>13. Runs(m)'
  BY <1>2, <1>7, <1>8, <1>10, <1>11, <1>12 DEF Runs
<1> QED
  BY <1>2, <1>6, <1>7, <1>9, <1>13, StepOfOne, TransactionFields

LEMMA UpsertRatingRuns ==
  ASSUME RatingsConstants, ExpectedIsWhole, BookInduction, NEW m \in Matches, NEW side \in Sides,
         UpsertRating(m, side)
  PROVE  BookInduction'
<1> DEFINE u == SeatOf(m, side)
           p == IF side = "light" THEN "upsert" ELSE "gather"
           w == tx[m].wrote \cup {<<u, After(m, side)>>}
           t == [tx[m] EXCEPT !.pc = p, !.wrote = w]
<1>1. /\ IF side = "light" THEN tx[m].pc = "lock" /\ tx[m].toLock = {} ELSE tx[m].pc = "upsert"
      /\ Free(RowOf(u), m)
      /\ owner' = [owner EXCEPT ![RowOf(u)] = m]
      /\ tx' = [tx EXCEPT ![m].pc = p, ![m].wrote = @ \cup {<<u, After(m, side)>>}]
      /\ rows' = rows /\ ratings' = ratings /\ correction' = correction
  BY DEF UpsertRating, After, ledger
<1>2. tx[m] \in Transactions /\ Runs(m) /\ RatedPair(m) /\ tx[m].toLock = {}
  BY <1>1, IdleIsIdle, TransactionFields DEF BookInduction, Runs, Steps
<1>3. u \in Accounts /\ RowOf(u) \in LockKeys /\ After(m, side) \in RatingRows
  BY <1>2, SeatKeys, AfterIsARow, TransactionFields DEF BookInduction
<1>4. w \subseteq Accounts \X RatingRows /\ p \in Steps
  BY <1>2, <1>3, TransactionFields DEF Steps
<1>5. tx' = [tx EXCEPT ![m] = t]
  BY <1>1, <1>2 DEF BookInduction, Typed
<1> HIDE DEF w, p
<1>6. /\ t \in Transactions /\ t.pc = p /\ t.toLock = {} /\ t.read = tx[m].read
      /\ t.wrote = w /\ t.side = tx[m].side /\ t.result = tx[m].result
      /\ t.missing = tx[m].missing
  BY <1>2, <1>4 DEF Transactions
<1> HIDE DEF t
<1>7. tx'[m] = t
  BY <1>5 DEF BookInduction, Typed
<1> HIDE DEF u
<1>8. /\ owner' \in [LockKeys -> Matches \cup {Nobody}]
      /\ owner'[RowOf(u)] = m
      /\ \A k \in LockKeys \ {RowOf(u)} : owner'[k] = owner[k]
      /\ \A k \in LockKeys : owner'[k] # m => owner'[k] = owner[k] \/ owner'[k] = Nobody
      /\ \A k \in LockKeys : owner[k] \in {m, Nobody} \/ owner'[k] = owner[k]
  BY <1>1, <1>3, LockTaken
<1>9. \A k \in LockKeys : owner[k] = m => owner'[k] = m
  BY <1>8
<1>10. WrittenSides(m)' = WrittenSides(m) \cup {side} /\ WrittenSides(m) \subseteq Sides
  BY <1>1, <1>2, <1>6, <1>7 DEF WrittenSides, Sides, p
<1>11. \A s \in Sides : After(m, s)' = After(m, s)
  BY <1>6, <1>7 DEF After
<1>12. (tx[m].wrote = {<<SeatOf(m, s), After(m, s)>> : s \in WrittenSides(m)})'
  <2>1. tx'[m].wrote = {<<SeatOf(m, s), After(m, s)>> : s \in WrittenSides(m)}
                          \cup {<<SeatOf(m, side), After(m, side)>>}
    BY <1>2, <1>6, <1>7 DEF Runs, w, u
  <2>2. tx'[m].wrote = {<<SeatOf(m, s), After(m, s)>> : s \in WrittenSides(m) \cup {side}}
    BY <2>1
  <2> QED
    BY <1>10, <1>11, <2>2
<1>13. (\A s \in WrittenSides(m) : owner[RowOf(SeatOf(m, s))] = m)'
  <2>1. \A s \in WrittenSides(m) : owner[RowOf(SeatOf(m, s))] = m
    BY <1>2 DEF Runs
  <2> QED
    BY <1>2, <1>8, <1>9, <1>10, <2>1, SeatKeys DEF u
<1>14. (/\ \A s \in Sides : ReadTrue(m, s)
        /\ \A v \in tx[m].missing : RatedPair(m) /\ v \in Pair(m) /\ Opening[v] = Unrated)'
  <2>1. \A s \in Sides : ReadTrue(m, s)
    BY <1>2 DEF Runs
  <2>2. \A s \in Sides : ReadTrue(m, s)'
    BY <1>1, <1>2, <1>6, <1>7, <1>9, <2>1, SeatKeys DEF ReadTrue
  <2>3. \A v \in tx[m].missing : RatedPair(m) /\ v \in Pair(m) /\ Opening[v] = Unrated
    BY <1>2 DEF Runs
  <2> QED
    BY <1>6, <1>7, <2>2, <2>3 DEF Pair
<1>15. (tx[m].pc # "award" /\ tx[m].toLock = {} /\ rows[m].status = "active")'
  <2>1. p # "award"
    BY DEF p
  <2>2. rows[m].status = "active"
    BY <1>2 DEF Runs
  <2> QED
    BY <1>1, <1>6, <1>7, <2>1, <2>2
<1>16. Runs(m)'
  BY <1>2, <1>12, <1>13, <1>14, <1>15 DEF Runs
<1> QED
  BY <1>1, <1>5, <1>6, <1>8, <1>16, StepOfOne, TransactionFields, ZenonT(60)

\* A transaction past its ratings goes on without touching them.
LEMMA RunsPastRatings ==
  ASSUME BookInduction, NEW m \in Matches, tx[m].pc \in {"gather", "award"},
         ratings' = ratings, rows' = rows, tx'[m] \in Transactions,
         tx'[m].pc \in {"gather", "award", "commit"}, tx'[m].toLock = tx[m].toLock,
         tx'[m].read = tx[m].read, tx'[m].wrote = tx[m].wrote, tx'[m].result = tx[m].result,
         tx'[m].missing = tx[m].missing,
         tx'[m].pc = "award" => IsAccount(m, tx'[m].side),
         RatedPair(m) => \A s \in Sides : owner[RowOf(SeatOf(m, s))] = m
                                          => owner'[RowOf(SeatOf(m, s))] = m
  PROVE  Runs(m)'
<1>1. tx[m] \in Transactions /\ Runs(m)
  BY IdleIsIdle, TransactionFields DEF BookInduction, Steps
<1>2. WrittenSides(m)' = WrittenSides(m) /\ \A s \in Sides : After(m, s)' = After(m, s)
  BY DEF WrittenSides, After
<1>3. WrittenSides(m) \subseteq Sides /\ (WrittenSides(m) # {} => RatedPair(m))
  BY DEF WrittenSides, Sides
<1>4. (tx[m].wrote = {<<SeatOf(m, s), After(m, s)>> : s \in WrittenSides(m)})'
  BY <1>1, <1>2, <1>3 DEF Runs
<1>5. (\A s \in WrittenSides(m) : owner[RowOf(SeatOf(m, s))] = m)'
  BY <1>1, <1>2, <1>3 DEF Runs
<1>6. (/\ RatedPair(m) => \A s \in Sides : ReadTrue(m, s)
       /\ \A v \in tx[m].missing : RatedPair(m) /\ v \in Pair(m) /\ Opening[v] = Unrated)'
  <2>1. RatedPair(m) => \A s \in Sides : ReadTrue(m, s)
    BY <1>1 DEF Runs
  <2>2. RatedPair(m) => \A s \in Sides : ReadTrue(m, s)'
    BY <2>1 DEF ReadTrue
  <2>3. \A v \in tx[m].missing : RatedPair(m) /\ v \in Pair(m) /\ Opening[v] = Unrated
    BY <1>1 DEF Runs
  <2> QED
    BY <2>2, <2>3 DEF Pair
<1> QED
  BY <1>1, <1>4, <1>5, <1>6 DEF Runs

LEMMA EarnedAreCodes ==
  ASSUME NEW m, NEW side
  PROVE  Earned(m, side) \subseteq Codes
  BY DEF Earned

LEMMA WhereAwarding ==
  ASSUME NEW side \in Sides, NEW todo
  PROVE  /\ Awarding(side, todo) \in {"gather", "award", "commit"}
         /\ Seated(side, todo) \in Sides
         /\ Awarding(side, todo) = "award" => todo # {} /\ Seated(side, todo) = side
  BY DEF Awarding, Seated, Sides

LEMMA GatherRuns ==
  ASSUME RatingsConstants, BookInduction, NEW m \in Matches, NEW side \in Sides, Gather(m, side)
  PROVE  BookInduction'
<1> DEFINE todo == IF IsAccount(m, side) THEN Earned(m, side) \cap enabled ELSE {}
           t == [tx[m] EXCEPT !.pc = Awarding(side, todo), !.side = Seated(side, todo), !.todo = todo]
<1>1. /\ tx[m].pc = "gather"
      /\ tx' = [tx EXCEPT ![m].pc = Awarding(side, todo), ![m].side = Seated(side, todo), ![m].todo = todo]
      /\ rows' = rows /\ ratings' = ratings /\ correction' = correction /\ owner' = owner
  BY DEF Gather, ledger
<1>2. todo \subseteq Codes /\ (todo # {} => IsAccount(m, side))
  BY EarnedAreCodes
<1> HIDE DEF todo
<1>3. tx[m] \in Transactions /\ tx' = [tx EXCEPT ![m] = t]
  BY <1>1, IdleIsIdle DEF BookInduction, Typed, Steps
<1>4. /\ t \in Transactions /\ t.pc = Awarding(side, todo) /\ t.side = Seated(side, todo)
      /\ t.toLock = tx[m].toLock /\ t.read = tx[m].read /\ t.wrote = tx[m].wrote
      /\ t.result = tx[m].result /\ t.missing = tx[m].missing
  BY <1>2, <1>3, WhereAwarding DEF Transactions, Steps
<1> HIDE DEF t
<1>5. tx'[m] = t
  BY <1>3 DEF BookInduction, Typed
<1>6. t.pc \in {"gather", "award", "commit"} /\ (t.pc = "award" => IsAccount(m, t.side))
  <2>1. /\ Awarding(side, todo) \in {"gather", "award", "commit"}
        /\ Awarding(side, todo) = "award" => todo # {} /\ Seated(side, todo) = side
    BY WhereAwarding
  <2> QED
    BY <1>2, <1>4, <2>1
<1>7. /\ tx'[m] \in Transactions /\ tx'[m].pc \in {"gather", "award", "commit"}
      /\ tx'[m].toLock = tx[m].toLock /\ tx'[m].read = tx[m].read
      /\ tx'[m].wrote = tx[m].wrote /\ tx'[m].result = tx[m].result
      /\ tx'[m].missing = tx[m].missing
      /\ tx'[m].pc = "award" => IsAccount(m, tx'[m].side)
  BY <1>4, <1>5, <1>6
<1>8. Runs(m)'
  <2>1. tx[m].pc \in {"gather", "award"} /\ ratings' = ratings /\ rows' = rows
    BY <1>1
  <2>2. RatedPair(m) => \A s \in Sides : owner[RowOf(SeatOf(m, s))] = m
                                         => owner'[RowOf(SeatOf(m, s))] = m
    BY <1>1
  <2> QED
    BY <1>7, <2>1, <2>2, RunsPastRatings
<1>9. t # NoTransaction
  BY <1>4, TransactionFields
<1>10. owner' \in [LockKeys -> Matches \cup {Nobody}]
  BY <1>1 DEF BookInduction, Typed
<1>11. rows' = rows /\ ratings' = ratings /\ correction' = correction
  BY <1>1
<1>12. /\ \A k \in LockKeys : owner'[k] # m => owner'[k] = owner[k] \/ owner'[k] = Nobody
       /\ \A k \in LockKeys : owner[k] \in {m, Nobody} \/ owner'[k] = owner[k]
  BY <1>1
<1>13. t \in {NoTransaction} \cup Transactions /\ tx' = [tx EXCEPT ![m] = t]
  BY <1>3, <1>4
<1>14. \A k \in LockKeys : t = NoTransaction => owner'[k] # m
  BY <1>9
<1> QED
  BY <1>8, <1>10, <1>11, <1>12, <1>13, <1>14, StepOfOne

LEMMA AwardRuns ==
  ASSUME RatingsConstants, BookInduction, NEW m \in Matches, NEW side \in Sides, NEW code \in Codes,
         Award(m, side, code)
  PROVE  BookInduction'
<1> DEFINE key == <<SeatOf(m, side), code>>
           todo == tx[m].todo \ {code}
           won == IF Held(key[1], code) THEN tx[m].won ELSE tx[m].won \cup {key}
           holder == IF Held(key[1], code) THEN Nobody ELSE m
           t == [tx[m] EXCEPT !.pc = Awarding(side, todo), !.side = Seated(side, todo), !.todo = todo,
                              !.won = won]
<1>1. /\ tx[m].pc = "award" /\ tx[m].side = side
      /\ Free(key, m)
      /\ tx' = [tx EXCEPT ![m].pc = Awarding(side, todo), ![m].side = Seated(side, todo), ![m].todo = todo,
                          ![m].won = IF Held(key[1], code) THEN @ ELSE @ \cup {key}]
      /\ owner' = [owner EXCEPT ![key] = holder]
      /\ rows' = rows /\ ratings' = ratings /\ correction' = correction
  BY DEF Award, ledger
<1>2. tx[m] \in Transactions /\ tx' = [tx EXCEPT ![m] = t]
  BY <1>1, IdleIsIdle DEF BookInduction, Typed, Steps
<1>3. IsAccount(m, side)
  BY <1>1, <1>2, TransactionFields DEF BookInduction, Runs
<1>4. key \in LockKeys /\ key \in Accounts \X Codes /\ holder \in {m, Nobody}
  BY <1>3 DEF IsAccount, LockKeys
<1>5. todo \subseteq Codes /\ won \subseteq Accounts \X Codes
  BY <1>2, <1>4, TransactionFields
<1>6. \A u \in Accounts : RowOf(u) \in LockKeys /\ RowOf(u) # key
  BY DEF RowOf, LockKeys, RatingsConstants
<1> HIDE DEF todo, won, key, holder
<1>7. /\ t \in Transactions /\ t.pc = Awarding(side, todo) /\ t.side = Seated(side, todo)
      /\ t.toLock = tx[m].toLock /\ t.read = tx[m].read /\ t.wrote = tx[m].wrote
      /\ t.result = tx[m].result /\ t.missing = tx[m].missing
  BY <1>2, <1>5, WhereAwarding DEF Transactions, Steps
<1> HIDE DEF t
<1>8. tx'[m] = t
  BY <1>2 DEF BookInduction, Typed
<1>9. t.pc \in {"gather", "award", "commit"} /\ (t.pc = "award" => IsAccount(m, t.side))
  <2>1. /\ Awarding(side, todo) \in {"gather", "award", "commit"}
        /\ Awarding(side, todo) = "award" => todo # {} /\ Seated(side, todo) = side
    BY WhereAwarding
  <2> QED
    BY <1>3, <1>7, <2>1
<1>10. /\ tx'[m] \in Transactions /\ tx'[m].pc \in {"gather", "award", "commit"}
       /\ tx'[m].toLock = tx[m].toLock /\ tx'[m].read = tx[m].read
       /\ tx'[m].wrote = tx[m].wrote /\ tx'[m].result = tx[m].result
       /\ tx'[m].missing = tx[m].missing
       /\ tx'[m].pc = "award" => IsAccount(m, tx'[m].side)
  BY <1>7, <1>8, <1>9
<1>11. /\ owner' \in [LockKeys -> Matches \cup {Nobody}]
       /\ \A k \in LockKeys \ {key} : owner'[k] = owner[k]
       /\ \A k \in LockKeys : owner'[k] # m => owner'[k] = owner[k] \/ owner'[k] = Nobody
       /\ \A k \in LockKeys : owner[k] \in {m, Nobody} \/ owner'[k] = owner[k]
  BY <1>1, <1>4, LockTaken
<1>12. RatedPair(m) => \A s \in Sides : owner[RowOf(SeatOf(m, s))] = m
                                        => owner'[RowOf(SeatOf(m, s))] = m
  BY <1>6, <1>11, SeatKeys
<1>13. Runs(m)'
  <2>1. tx[m].pc \in {"gather", "award"} /\ ratings' = ratings /\ rows' = rows
    BY <1>1
  <2> QED
    BY <1>10, <1>12, <2>1, RunsPastRatings
<1>14. t # NoTransaction /\ rows' = rows /\ ratings' = ratings /\ correction' = correction
  BY <1>1, <1>7, TransactionFields
<1>15. t \in {NoTransaction} \cup Transactions /\ tx' = [tx EXCEPT ![m] = t]
  BY <1>2, <1>7
<1>16. \A k \in LockKeys : t = NoTransaction => owner'[k] # m
  BY <1>14
<1> QED
  BY <1>11, <1>13, <1>14, <1>15, <1>16, StepOfOne

LEMMA ReleasedLocks ==
  ASSUME BookInduction, NEW m \in Matches, owner' = Released(m)
  PROVE  /\ owner' \in [LockKeys -> Matches \cup {Nobody}]
         /\ \A k \in LockKeys : owner'[k] = IF owner[k] = m THEN Nobody ELSE owner[k]
  BY DEF BookInduction, Typed, Released

LEMMA AbortRuns ==
  ASSUME RatingsConstants, BookInduction, NEW m \in Matches, Abort(m)
  PROVE  BookInduction'
<1>1. /\ tx' = [tx EXCEPT ![m] = NoTransaction] /\ owner' = Released(m)
      /\ rows' = rows /\ ratings' = ratings /\ correction' = correction
  BY DEF Abort, ledger
<1>2. m # Nobody
  BY DEF RatingsConstants
<1>3. /\ owner' \in [LockKeys -> Matches \cup {Nobody}]
      /\ \A k \in LockKeys : owner'[k] = IF owner[k] = m THEN Nobody ELSE owner[k]
  BY <1>1, ReleasedLocks
<1>4. /\ \A k \in LockKeys : owner'[k] # m => owner'[k] = owner[k] \/ owner'[k] = Nobody
      /\ \A k \in LockKeys : owner[k] \in {m, Nobody} \/ owner'[k] = owner[k]
      /\ \A k \in LockKeys : owner'[k] # m
  BY <1>2, <1>3
<1> DEFINE t == NoTransaction
<1>5. t \in {NoTransaction} \cup Transactions /\ t = NoTransaction /\ tx' = [tx EXCEPT ![m] = t]
  BY <1>1
<1> HIDE DEF t
<1> QED
  BY <1>1, <1>3, <1>4, <1>5, StepOfOne

\* What a transaction past its ratings sees of them: the rows it wrote and nothing else new.
LEMMA SeesWhatItWrote ==
  ASSUME RatingsConstants, ExpectedIsWhole, BookInduction, NEW m \in Matches,
         tx[m].pc \in {"gather", "award", "commit"}
  PROVE  /\ tx[m] \in Transactions /\ Runs(m)
         /\ RatedPair(m) => \A s \in Sides : /\ RatingSeen(m, SeatOf(m, s)) = After(m, s)
                                             /\ After(m, s) \in RatingRows
                                             /\ tx[m].read[s] =
                                                  Standing(SeatOf(m, s), tx[m].missing)
                                             /\ owner[RowOf(SeatOf(m, s))] = m
         /\ \A u : (RatedPair(m) => \A s \in Sides : u # SeatOf(m, s))
                   => RatingSeen(m, u) = ratings[u]
<1>1. tx[m] \in Transactions /\ Runs(m) /\ tx[m] # NoTransaction
  BY IdleIsIdle, TransactionFields DEF BookInduction, Steps
<1>2. tx[m].toLock = {} /\ WrittenSides(m) = IF RatedPair(m) THEN Sides ELSE {}
  BY <1>1 DEF Runs, WrittenSides
<1>3. tx[m].wrote = {<<SeatOf(m, s), After(m, s)>> : s \in WrittenSides(m)}
  BY <1>1 DEF Runs
<1>4. ASSUME RatedPair(m), NEW s \in Sides
      PROVE  RatingSeen(m, SeatOf(m, s)) = After(m, s)
  <2>1. <<SeatOf(m, s), After(m, s)>> \in tx[m].wrote
    BY <1>2, <1>3, <1>4
  <2>2. \A w \in tx[m].wrote : w[1] = SeatOf(m, s) => w = <<SeatOf(m, s), After(m, s)>>
    <3> SUFFICES ASSUME NEW t \in Sides, SeatOf(m, t) = SeatOf(m, s)
                 PROVE  t = s
      BY <1>2, <1>3, <1>4
    <3>1. SeatOf(m, "light") # SeatOf(m, "dark")
      BY <1>4 DEF RatingsConstants
    <3> QED
      BY <3>1 DEF Sides
  <2>3. (CHOOSE w \in tx[m].wrote : w[1] = SeatOf(m, s)) = <<SeatOf(m, s), After(m, s)>>
    BY <2>1, <2>2
  <2>4. \E w \in tx[m].wrote : w[1] = SeatOf(m, s)
    BY <2>1
  <2>5. RatingSeen(m, SeatOf(m, s)) = <<SeatOf(m, s), After(m, s)>>[2]
    BY <2>3, <2>4 DEF RatingSeen
  <2> QED
    BY <2>5
<1>5. ASSUME NEW u, RatedPair(m) => \A s \in Sides : u # SeatOf(m, s)
      PROVE  RatingSeen(m, u) = ratings[u]
  <2>1. ~ \E w \in tx[m].wrote : w[1] = u
    BY <1>2, <1>3, <1>5
  <2> QED
    BY <2>1 DEF RatingSeen
<1>6. RatedPair(m) => \A s \in Sides : /\ After(m, s) \in RatingRows
                                       /\ tx[m].read[s] =
                                            Standing(SeatOf(m, s), tx[m].missing)
                                       /\ owner[RowOf(SeatOf(m, s))] = m
  BY <1>1, <1>2, AfterIsARow DEF BookInduction, Runs, ReadTrue, Standing
<1> QED
  BY <1>1, <1>4, <1>5, <1>6

LEMMA CommitRuns ==
  ASSUME RatingsConstants, ExpectedIsWhole, BookInduction, NEW m \in Matches, Commit(m)
  PROVE  BookInduction'
<1>1. /\ tx[m].pc = "commit" /\ rows' = Seen(m)
      /\ ratings' = [u \in Accounts |-> RatingSeen(m, u)]
      /\ owner' = Released(m)
      /\ tx' = [tx EXCEPT ![m] = NoTransaction]
      /\ correction' = correction
  BY DEF Commit
<1>2. /\ tx[m] \in Transactions /\ Runs(m)
      /\ RatedPair(m) => \A s \in Sides : /\ RatingSeen(m, SeatOf(m, s)) = After(m, s)
                                          /\ After(m, s) \in RatingRows
                                          /\ owner[RowOf(SeatOf(m, s))] = m
      /\ \A u : (RatedPair(m) => \A s \in Sides : u # SeatOf(m, s))
                => RatingSeen(m, u) = ratings[u]
  BY <1>1, SeesWhatItWrote
<1>3. /\ owner' \in [LockKeys -> Matches \cup {Nobody}]
      /\ \A k \in LockKeys : owner'[k] = IF owner[k] = m THEN Nobody ELSE owner[k]
  BY <1>1, ReleasedLocks
<1>4. ASSUME NEW u \in Accounts
      PROVE  /\ ratings'[u] \in Aggregates
             /\ ratings[u] # Unrated => ratings'[u] # Unrated
             /\ ratings'[u] # ratings[u] =>
                  RatedPair(m) /\ \E s \in Sides : u = SeatOf(m, s)
  <2>1. ratings'[u] = RatingSeen(m, u)
    BY <1>1
  <2>2. Unrated \notin RatingRows
    BY DEF RatingsConstants
  <2>3. ratings[u] \in Aggregates
    BY DEF BookInduction, Typed
  <2> QED
    BY <1>2, <2>1, <2>2, <2>3 DEF Aggregates
<1>5. /\ tx' \in [Matches -> {NoTransaction} \cup Transactions]
      /\ tx'[m] = NoTransaction /\ \A n \in Matches \ {m} : tx'[n] = tx[n]
  BY <1>1 DEF BookInduction, Typed
<1>6. rows' \in [Matches -> MatchRows] /\ \A n \in Matches \ {m} : rows'[n] = rows[n]
  BY <1>1, <1>2, TransactionFields DEF BookInduction, Typed, Seen, MatchRows
<1>7. Typed'
  BY <1>1, <1>3, <1>4, <1>5, <1>6 DEF Typed
<1>8. CorrectionsStand' /\ RowsStay'
  BY <1>1, <1>4 DEF BookInduction, CorrectionsStand, RowsStay
<1>9. OwnersRun'
  BY <1>3, <1>5 DEF BookInduction, OwnersRun, Typed
<1>10. ASSUME NEW n \in Matches \ {m}, tx'[n] # NoTransaction
       PROVE  Runs(n)'
  <2>1. tx'[n] = tx[n] /\ tx[n] # NoTransaction /\ rows'[n] = rows[n] /\ Runs(n) /\ Typed
    BY <1>5, <1>6, <1>10 DEF BookInduction
  <2>2. \A k \in LockKeys : owner[k] = n => owner'[k] = n
    BY <1>3
  <2>3. ASSUME NEW s \in Sides, RatedPair(n), owner[RowOf(SeatOf(n, s))] = n
        PROVE  ratings'[SeatOf(n, s)] = ratings[SeatOf(n, s)]
    BY <1>2, <1>4, <2>3, SeatKeys
  <2> QED
    BY <1>4, <2>1, <2>2, <2>3, OthersRunOn
<1> QED
  BY <1>5, <1>7, <1>8, <1>9, <1>10 DEF BookInduction

-----------------------------------------------------------------------------
(* The steps of an administrator, and the induction. *)

LEMMA ReadForCorrectionRuns ==
  ASSUME BookInduction, NEW c \in Corrections, RatingsConstants, ReadForCorrection(c[1], c[2])
  PROVE  BookInduction'
<1>1. /\ correction' = {[user |-> c[1], before |-> ratings[c[1]].rating, after |-> c[2]]}
      /\ ratings[c[1]] # Unrated
      /\ UNCHANGED <<rows, ratings, tx, owner>>
  BY DEF ReadForCorrection, ledger
<1>2. c[1] \in Accounts /\ c[2] \in Nat /\ c = <<c[1], c[2]>>
  BY DEF RatingsConstants
<1>3. CorrectionsStand'
  BY <1>1, <1>2 DEF CorrectionsStand
<1>4. Typed' /\ OwnersRun' /\ RowsStay'
  BY <1>1 DEF BookInduction, Typed, OwnersRun, RowsStay
<1>5. ASSUME NEW m \in Matches, tx'[m] # NoTransaction
      PROVE  Runs(m)'
  BY <1>1, <1>5, OthersRunOn DEF BookInduction
<1> QED
  BY <1>3, <1>4, <1>5 DEF BookInduction

LEMMA WriteCorrectionRuns ==
  ASSUME RatingsConstants, BookInduction, NEW c \in correction, WriteCorrection(c)
  PROVE  BookInduction'
<1>1. /\ owner[RowOf(c.user)] = Nobody
      /\ ratings' = [ratings EXCEPT ![c.user].rating = c.after]
      /\ correction' = {}
      /\ UNCHANGED <<rows, tx, owner>>
  BY DEF WriteCorrection
<1>2. c.user \in Accounts /\ c.after \in Nat /\ ratings[c.user] # Unrated
  BY DEF BookInduction, CorrectionsStand
<1>3. ratings[c.user] \in RatingRows /\ ratings \in [Accounts -> Aggregates]
  BY <1>2 DEF BookInduction, Typed, Aggregates
<1>4. [ratings[c.user] EXCEPT !.rating = c.after] \in RatingRows
  BY <1>2, <1>3 DEF RatingRows
<1>5. /\ ratings'[c.user] = [ratings[c.user] EXCEPT !.rating = c.after]
      /\ \A u \in Accounts \ {c.user} : ratings'[u] = ratings[u]
      /\ ratings' \in [Accounts -> Aggregates]
  BY <1>1, <1>2, <1>3, <1>4 DEF Aggregates
<1>6. \A u \in Accounts : ratings[u] # Unrated => ratings'[u] # Unrated
  BY <1>4, <1>5 DEF RatingsConstants
<1>7. Typed' /\ CorrectionsStand' /\ OwnersRun' /\ RowsStay'
  BY <1>1, <1>5, <1>6 DEF BookInduction, Typed, CorrectionsStand, OwnersRun, RowsStay
<1>8. ASSUME NEW m \in Matches, tx'[m] # NoTransaction
      PROVE  Runs(m)'
  <2>1. \A s \in Sides : RatedPair(m) /\ owner[RowOf(SeatOf(m, s))] = m
           => ratings'[SeatOf(m, s)] = ratings[SeatOf(m, s)]
    <3> SUFFICES ASSUME NEW s \in Sides, RatedPair(m), owner[RowOf(SeatOf(m, s))] = m
                 PROVE  ratings'[SeatOf(m, s)] = ratings[SeatOf(m, s)]
      OBVIOUS
    <3>1. SeatOf(m, s) # c.user
      BY <1>1, <1>2 DEF RatingsConstants
    <3> QED
      BY <1>5, <3>1, SeatKeys
  <2>2. Typed /\ tx[m] # NoTransaction /\ Runs(m) /\ tx'[m] = tx[m] /\ rows'[m] = rows[m]
        /\ \A k \in LockKeys : owner[k] = m => owner'[k] = m
    BY <1>1, <1>8 DEF BookInduction
  <2> QED
    BY <1>6, <2>1, <2>2, OthersRunOn
<1> QED
  BY <1>7, <1>8 DEF BookInduction

LEMMA LedgerUntouched ==
  ASSUME BookInduction, UNCHANGED <<rows, ratings, tx, owner, correction>>
  PROVE  BookInduction'
<1>1. Typed' /\ CorrectionsStand' /\ OwnersRun' /\ RowsStay'
  BY DEF BookInduction, Typed, CorrectionsStand, OwnersRun, RowsStay
<1>2. ASSUME NEW m \in Matches, tx'[m] # NoTransaction
      PROVE  Runs(m)'
  BY <1>2, OthersRunOn DEF BookInduction
<1> QED
  BY <1>1, <1>2 DEF BookInduction

LEMMA BookBegins ==
  ASSUME RatingsConstants, RInit
  PROVE  BookInduction
<1>1. Typed
  BY DEF RInit, RatingsConstants, Typed, MatchRows, LockKeys, Aggregates
<1>2. CorrectionsStand /\ OwnersRun /\ RowsStay /\ \A m \in Matches : tx[m] = NoTransaction
  BY DEF RInit, CorrectionsStand, OwnersRun, RowsStay, LockKeys
<1> QED
  BY <1>1, <1>2 DEF BookInduction

LEMMA BookStep ==
  ASSUME RatingsConstants, ExpectedIsWhole, BookInduction, [RNext]_rvars
  PROVE  BookInduction'
<1>1. ASSUME NEW m \in Matches, Complete(m)
      PROVE  BookInduction'
  <2>1. CASE \E verdict \in Results, reason \in Reasons : Begin(m, verdict, reason)
    BY <2>1, BeginRuns
  <2>2. CASE LockRating(m)
    BY <2>2, LockRatingRuns
  <2>3. CASE \E s \in Sides : UpsertRating(m, s)
    BY <2>3, UpsertRatingRuns
  <2>4. CASE \E s \in Sides : Gather(m, s)
    BY <2>4, GatherRuns
  <2>5. CASE \E s \in Sides : \E code \in Codes : Award(m, s, code)
    BY <2>5, AwardRuns
  <2>6. CASE Commit(m)
    BY <2>6, CommitRuns
  <2>7. CASE Abort(m)
    BY <2>7, AbortRuns
  <2> QED
    BY <1>1, <2>1, <2>2, <2>3, <2>4, <2>5, <2>6, <2>7 DEF Complete
<1>2. ASSUME Administer
      PROVE  BookInduction'
  <2>1. CASE \E c \in Corrections : ReadForCorrection(c[1], c[2])
    BY <2>1, ReadForCorrectionRuns
  <2>2. CASE \E c \in correction : WriteCorrection(c)
    BY <2>2, WriteCorrectionRuns
  <2>3. CASE \E code \in Switched : SwitchAchievement(code)
    BY <2>3, LedgerUntouched DEF SwitchAchievement, ledger
  <2> QED
    BY <1>2, <2>1, <2>2, <2>3 DEF Administer
<1>3. CASE UNCHANGED rvars
  BY <1>3, LedgerUntouched DEF rvars, ledger
<1> QED
  BY <1>1, <1>2, <1>3 DEF RNext

\* What is assumed of the constants, beside the invariant: it stays as it is.
Assured == RatingsConstants /\ ExpectedIsWhole /\ BookInduction

LEMMA BookAlwaysHolds ==
  RatingsConstants /\ ExpectedIsWhole /\ RSpec => []Assured
<1>1. RatingsConstants /\ ExpectedIsWhole /\ RInit => Assured
  BY BookBegins DEF Assured
<1>2. Assured /\ [RNext]_rvars => Assured'
  BY BookStep DEF Assured
<1> QED
  BY <1>1, <1>2, PTL DEF RSpec

-----------------------------------------------------------------------------
(* The refinement: a completion that commits is an entry in the book. *)

Entered == {m \in RatedMatches : rows[m].status = "completed"}

\* The book reckons with the same arithmetic.
LEMMA SameArithmetic ==
  /\ \A a, b, o : Book!NextRating(a, b, o) = NextRating(a, b, o)
  /\ \A a, o, r : Book!ApplyResult(a, o, r) = ApplyResult(a, o, r)
  /\ \A r, s : Book!OutcomeOf(r, s) = OutcomeOf(r, s)
  /\ \A s : Book!Other(s) = Other(s)
  /\ Book!StartingAggregate = StartingAggregate /\ Book!Results = Results
<1>1. \A o : Book!Scored(o) = Scored(o)
  BY DEF Book!Scored, Scored
<1>2. \A k, o : Book!NextStreak(k, o) = NextStreak(k, o)
  BY DEF Book!NextStreak, NextStreak
<1> QED
  BY <1>1, <1>2 DEF Book!NextRating, NextRating, Book!ApplyResult, ApplyResult, Book!OutcomeOf,
     OutcomeOf, Book!Other, Other, Book!StartingAggregate, StartingAggregate, Book!Results, Results

\* Who had no row when a completion began.
Unseen == UNION {{m} \X tx[m].missing : m \in {n \in RatedMatches : tx[n] # NoTransaction}}

LEMMA UnseenOf ==
  ASSUME NEW m
  PROVE  /\ Book!Of(m) = {p \in Unseen : p[1] = m}
         /\ Book!Of(m) = IF m \in RatedMatches /\ tx[m] # NoTransaction
                         THEN {m} \X tx[m].missing ELSE {}
         /\ m \in RatedMatches /\ tx[m] # NoTransaction
              => {p[2] : p \in Book!Of(m)} = tx[m].missing
<1>1. Book!Of(m) = {p \in Unseen : p[1] = m}
  BY DEF Book!Of, Unseen
<1>2. ASSUME NEW p
      PROVE  p \in Unseen <=> \E n \in RatedMatches : tx[n] # NoTransaction /\ p \in {n} \X tx[n].missing
  BY DEF Unseen
<1>3. CASE m \in RatedMatches /\ tx[m] # NoTransaction
  <2>1. \A p : p \in Book!Of(m) <=> p \in {m} \X tx[m].missing
    BY <1>1, <1>2, <1>3
  <2>2. Book!Of(m) = {m} \X tx[m].missing
    BY <2>1
  <2>3. {p[2] : p \in Book!Of(m)} = tx[m].missing
    <3>1. \A u \in tx[m].missing : <<m, u>> \in Book!Of(m) /\ <<m, u>>[2] = u
      BY <2>2
    <3>2. \A p \in Book!Of(m) : p[2] \in tx[m].missing
      BY <2>2
    <3> QED
      BY <3>1, <3>2
  <2> QED
    BY <1>1, <1>3, <2>2, <2>3
<1>4. CASE ~(m \in RatedMatches /\ tx[m] # NoTransaction)
  <2>1. \A p : p \notin Book!Of(m)
    BY <1>1, <1>2, <1>4
  <2> QED
    BY <1>1, <1>4, <2>1
<1> QED
  BY <1>3, <1>4

\* A step of one transaction moves only what is known of its own match.
LEMMA UnseenMoves ==
  ASSUME NEW m \in Matches, \A n \in Matches \ {m} : tx'[n] = tx[n]
  PROVE  Unseen' = (Unseen \ Book!Of(m)) \cup
                   (IF RatedPair(m) /\ tx'[m] # NoTransaction THEN {m} \X tx'[m].missing ELSE {})
<1>1. ASSUME NEW p
      PROVE  p \in Unseen <=> \E n \in RatedMatches : tx[n] # NoTransaction /\ p \in {n} \X tx[n].missing
  BY DEF Unseen
<1>2. ASSUME NEW p
      PROVE  p \in Unseen' <=>
               \E n \in RatedMatches : tx'[n] # NoTransaction /\ p \in {n} \X tx'[n].missing
  BY DEF Unseen, RatedMatches, RatedPair, IsAccount, SeatOf
<1>3. Book!Of(m) = {p \in Unseen : p[1] = m}
  BY UnseenOf
<1>4. ASSUME NEW p
      PROVE  p \in Unseen' <=>
               p \in (Unseen \ Book!Of(m)) \cup
                     (IF RatedPair(m) /\ tx'[m] # NoTransaction THEN {m} \X tx'[m].missing ELSE {})
  <2>1. CASE p[1] = m
    BY <1>2, <1>3, <2>1 DEF RatedMatches
  <2>2. CASE p[1] # m
    <3>1. p \in Unseen' <=> p \in Unseen
      BY <1>1, <1>2, <2>2 DEF RatedMatches
    <3> QED
      BY <1>3, <2>2, <3>1
  <2> QED
    BY <2>1, <2>2
<1> QED
  BY <1>4

\* A transaction that goes on knows what it knew; one of a match nobody is rated for knows nothing.
LEMMA UnseenStands ==
  ASSUME NEW m \in Matches, \A n \in Matches \ {m} : tx'[n] = tx[n],
         \/ ~RatedPair(m)
         \/ tx[m] # NoTransaction /\ tx'[m] # NoTransaction /\ tx'[m].missing = tx[m].missing
  PROVE  Unseen' = Unseen
<1>1. /\ Book!Of(m) = {p \in Unseen : p[1] = m}
      /\ Book!Of(m) = IF m \in RatedMatches /\ tx[m] # NoTransaction
                      THEN {m} \X tx[m].missing ELSE {}
  BY UnseenOf
<1>2. m \in RatedMatches <=> RatedPair(m)
  BY DEF RatedMatches
<1>3. Book!Of(m) \subseteq Unseen
  BY <1>1
<1>4. Unseen' = (Unseen \ Book!Of(m)) \cup
                (IF RatedPair(m) /\ tx'[m] # NoTransaction THEN {m} \X tx'[m].missing ELSE {})
  BY UnseenMoves
<1>5. Book!Of(m) =
        IF RatedPair(m) /\ tx'[m] # NoTransaction THEN {m} \X tx'[m].missing ELSE {}
  BY <1>1, <1>2
<1>6. Unseen' = (Unseen \ Book!Of(m)) \cup Book!Of(m)
  BY <1>4, <1>5
<1> QED
  BY <1>3, <1>6

LEMMA CommitsAreEntries ==
  ASSUME Assured, NEW m \in Matches, Commit(m), NEW verdict, verdict = tx[m].result
  PROVE  IF RatedPair(m) THEN Book!Enter(m, verdict) /\ verdict \in Results
                         ELSE UNCHANGED <<ratings, Entered, Unseen>>
<1>1. /\ tx[m].pc = "commit" /\ rows' = Seen(m)
      /\ ratings' = [u \in Accounts |-> RatingSeen(m, u)]
      /\ tx' = [tx EXCEPT ![m] = NoTransaction]
  BY DEF Commit
<1>2. /\ tx[m] \in Transactions /\ Runs(m)
      /\ RatedPair(m) => \A s \in Sides : /\ RatingSeen(m, SeatOf(m, s)) = After(m, s)
                                          /\ tx[m].read[s] = Standing(SeatOf(m, s), tx[m].missing)
      /\ \A u : (RatedPair(m) => \A s \in Sides : u # SeatOf(m, s))
                => RatingSeen(m, u) = ratings[u]
  BY <1>1, SeesWhatItWrote DEF Assured
<1>3. /\ rows[m].status = "active" /\ rows'[m].status = "completed"
      /\ \A n \in Matches \ {m} : rows'[n] = rows[n]
  BY <1>1, <1>2 DEF Runs, Seen, Assured, BookInduction, Typed
<1>4. tx'[m] = NoTransaction /\ \A n \in Matches \ {m} : tx'[n] = tx[n]
  BY <1>1 DEF Assured, BookInduction, Typed
<1>5. CASE RatedPair(m)
  <2> DEFINE missing == {p[2] : p \in Book!Of(m)}
  <2>1. m \notin Entered /\ Entered' = Entered \cup {m}
    BY <1>3, <1>5 DEF Entered, RatedMatches
  <2>2. missing = tx[m].missing
    <3>1. m \in RatedMatches /\ tx[m] # NoTransaction
      BY <1>2, <1>5, TransactionFields DEF RatedMatches
    <3> QED
      BY <3>1, UnseenOf
  <2>3. Unseen' = Unseen \ Book!Of(m)
    BY <1>4, UnseenMoves
  <2> HIDE DEF missing
  <2>4. \A s \in Sides : After(m, s) = Book!Moved(m, s, verdict, missing)
    <3> SUFFICES ASSUME NEW s \in Sides
                 PROVE  After(m, s) = Book!Moved(m, s, verdict, missing)
      OBVIOUS
    <3>1. Other(s) \in Sides
      BY DEF Other, Sides
    <3>2. \A u : Book!Standing(u, missing) = Standing(u, missing)
      BY SameArithmetic DEF Book!Standing, Standing
    <3>3. tx[m].read[s] = Standing(SeatOf(m, s), missing)
          /\ tx[m].read[Other(s)] = Standing(SeatOf(m, Other(s)), missing)
      BY <1>2, <1>5, <2>2, <3>1
    <3> QED
      BY <3>2, <3>3, SameArithmetic DEF After, Book!Moved
  <2>5. ratings' = [u \in Accounts |->
                      CASE u = SeatOf(m, "light") -> Book!Moved(m, "light", verdict, missing)
                        [] u = SeatOf(m, "dark")  -> Book!Moved(m, "dark", verdict, missing)
                        [] OTHER -> ratings[u]]
    <3>1. SeatOf(m, "light") # SeatOf(m, "dark")
      BY <1>5 DEF Assured, RatingsConstants
    <3>2. ASSUME NEW u \in Accounts
          PROVE  RatingSeen(m, u) =
                   CASE u = SeatOf(m, "light") -> Book!Moved(m, "light", verdict, missing)
                     [] u = SeatOf(m, "dark")  -> Book!Moved(m, "dark", verdict, missing)
                     [] OTHER -> ratings[u]
      BY <1>2, <1>5, <2>4, <3>1 DEF Sides
    <3> QED
      BY <1>1, <3>2
  <2>6. Book!EnterFrom(m, verdict, missing)
    BY <2>1, <2>5 DEF Book!EnterFrom, Entered
  <2>7. Book!Enter(m, verdict)
    BY <2>3, <2>6 DEF Book!Enter, Unseen, missing
  <2> QED
    BY <1>2, <1>5, <2>7, TransactionFields
<1>6. CASE ~RatedPair(m)
  <2>1. ratings' = ratings
    BY <1>1, <1>2, <1>6 DEF Assured, BookInduction, Typed
  <2>2. Entered' = Entered
    BY <1>3, <1>6 DEF Entered, RatedMatches
  <2>3. Unseen' = Unseen
    BY <1>4, <1>6, UnseenStands
  <2> QED
    BY <1>6, <2>1, <2>2, <2>3
<1> QED
  BY <1>5, <1>6

\* A completion that begins is begun in the book; one that is given up is given up there.
LEMMA BeginningsAreBegun ==
  ASSUME Assured, NEW m \in Matches, NEW verdict \in Results, NEW reason \in Reasons,
         Begin(m, verdict, reason)
  PROVE  IF RatedPair(m) THEN Book!Begin(m) ELSE UNCHANGED <<ratings, rows, Unseen>>
<1>1. /\ UNCHANGED <<ratings, rows>> /\ rows[m].status = "active"
      /\ \A n \in Matches \ {m} : tx'[n] = tx[n]
      /\ tx'[m].missing = IF RatedPair(m) THEN Pair(m) \ RowsToLock(m) ELSE {}
      /\ tx'[m].pc # "idle"
  BY DEF Begin, ledger, Assured, BookInduction, Typed
<1>2. tx'[m] # NoTransaction
  BY <1>1 DEF NoTransaction
<1>3. CASE RatedPair(m)
  <2>1. Unseen' = (Unseen \ Book!Of(m)) \cup ({m} \X (Pair(m) \ RowsToLock(m)))
    BY <1>1, <1>2, <1>3, UnseenMoves
  <2>2. Pair(m) \ RowsToLock(m) =
          {v \in {SeatOf(m, "light"), SeatOf(m, "dark")} : ratings[v] = Unrated}
    BY DEF Pair, RowsToLock, Sides
  <2>3. \A S : {m} \X S = {<<m, u>> : u \in S}
    OBVIOUS
  <2>4. m \notin Entered
    BY <1>1 DEF Entered
  <2>5. Unseen' = (Unseen \ Book!Of(m)) \cup
                  {<<m, u>> : u \in {v \in {SeatOf(m, "light"), SeatOf(m, "dark")} : ratings[v] = Unrated}}
    BY <2>1, <2>2, <2>3
  <2>6. UNCHANGED <<ratings, Entered>>
    BY <1>1 DEF Entered, RatedMatches
  <2> QED
    BY <1>3, <2>4, <2>5, <2>6 DEF Book!Begin, Entered, Unseen
<1>4. CASE ~RatedPair(m)
  BY <1>1, <1>4, UnseenStands
<1> QED
  BY <1>3, <1>4

LEMMA AbortsAreGivenUp ==
  ASSUME Assured, NEW m \in Matches, Abort(m)
  PROVE  IF RatedPair(m) THEN Book!GiveUp(m) ELSE UNCHANGED <<ratings, rows, Unseen>>
<1>1. /\ UNCHANGED <<ratings, rows>> /\ tx'[m] = NoTransaction
      /\ \A n \in Matches \ {m} : tx'[n] = tx[n]
  BY DEF Abort, ledger, Assured, BookInduction, Typed
<1>2. CASE RatedPair(m)
  <2>1. Unseen' = Unseen \ Book!Of(m)
    BY <1>1, UnseenMoves
  <2>2. UNCHANGED <<ratings, Entered>>
    BY <1>1 DEF Entered, RatedMatches
  <2> QED
    BY <1>2, <2>1, <2>2 DEF Book!GiveUp, Entered, Unseen
<1>3. CASE ~RatedPair(m)
  BY <1>1, <1>3, UnseenStands
<1> QED
  BY <1>2, <1>3

\* Gathering and awarding forget nothing of who had no row.
LEMMA GatherKeeps ==
  ASSUME tx \in [Matches -> {NoTransaction} \cup Transactions], NEW m \in Matches,
         tx[m] \in Transactions, NEW side \in Sides, Gather(m, side)
  PROVE  /\ \A n \in Matches \ {m} : tx'[n] = tx[n]
         /\ tx'[m].missing = tx[m].missing /\ tx'[m].pc \in Steps
<1> DEFINE todo == IF IsAccount(m, side) THEN Earned(m, side) \cap enabled ELSE {}
<1>1. tx' = [tx EXCEPT ![m].pc = Awarding(side, todo), ![m].side = Seated(side, todo), ![m].todo = todo]
  BY DEF Gather
<1> HIDE DEF todo
<1>2. Awarding(side, todo) \in Steps
  BY WhereAwarding DEF Steps
<1> QED
  BY <1>1, <1>2 DEF Transactions

LEMMA AwardKeeps ==
  ASSUME tx \in [Matches -> {NoTransaction} \cup Transactions], NEW m \in Matches,
         tx[m] \in Transactions, NEW side \in Sides, NEW code \in Codes, Award(m, side, code)
  PROVE  /\ \A n \in Matches \ {m} : tx'[n] = tx[n]
         /\ tx'[m].missing = tx[m].missing /\ tx'[m].pc \in Steps
<1> DEFINE key == <<SeatOf(m, side), code>>
           todo == tx[m].todo \ {code}
<1>1. tx' = [tx EXCEPT ![m].pc = Awarding(side, todo), ![m].side = Seated(side, todo), ![m].todo = todo,
                       ![m].won = IF Held(key[1], code) THEN @ ELSE @ \cup {key}]
  BY DEF Award
<1> HIDE DEF key, todo
<1>2. Awarding(side, todo) \in Steps
  BY WhereAwarding DEF Steps
<1> QED
  BY <1>1, <1>2 DEF Transactions

\* The other steps of a completion write nothing a reader of the book could see.
LEMMA OtherStepsAreQuiet ==
  ASSUME Assured, NEW m \in Matches,
         \/ LockRating(m)
         \/ \E s \in Sides : UpsertRating(m, s) \/ Gather(m, s) \/ \E code \in Codes : Award(m, s, code)
  PROVE  UNCHANGED <<ratings, rows, Unseen>>
<1>1. UNCHANGED <<ratings, rows>> /\ tx[m].pc \in Steps
  BY DEF LockRating, UpsertRating, Gather, Award, ledger, Steps
<1>2. tx[m] \in Transactions /\ tx[m] # NoTransaction
  BY <1>1, IdleIsIdle, TransactionFields DEF Assured, BookInduction
<1>3. tx \in [Matches -> {NoTransaction} \cup Transactions]
  BY DEF Assured, BookInduction, Typed
<1>4. /\ \A n \in Matches \ {m} : tx'[n] = tx[n]
      /\ tx'[m].missing = tx[m].missing /\ tx'[m].pc \in Steps
  <2>1. CASE LockRating(m)
    <3>1. PICK u :
            tx' = [tx EXCEPT ![m].toLock = @ \ {u},
                             ![m].read = [s \in Sides |-> IF SeatOf(m, s) = u THEN ratings[u] ELSE @[s]]]
      BY <2>1 DEF LockRating
    <3> QED
      BY <1>1, <1>2, <1>3, <3>1 DEF Transactions
  <2>2. ASSUME NEW s \in Sides, UpsertRating(m, s)
        PROVE  /\ \A n \in Matches \ {m} : tx'[n] = tx[n]
               /\ tx'[m].missing = tx[m].missing /\ tx'[m].pc \in Steps
    <3> DEFINE p == IF s = "light" THEN "upsert" ELSE "gather"
               w == {<<SeatOf(m, s), After(m, s)>>}
    <3>1. tx' = [tx EXCEPT ![m].pc = p, ![m].wrote = @ \cup w] /\ p \in Steps
      BY <2>2 DEF UpsertRating, After, Steps
    <3> HIDE DEF p, w
    <3> QED
      BY <1>2, <1>3, <3>1 DEF Transactions
  <2>3. ASSUME NEW s \in Sides, Gather(m, s)
        PROVE  /\ \A n \in Matches \ {m} : tx'[n] = tx[n]
               /\ tx'[m].missing = tx[m].missing /\ tx'[m].pc \in Steps
    BY <1>2, <1>3, <2>3, GatherKeeps
  <2>4. ASSUME NEW s \in Sides, NEW code \in Codes, Award(m, s, code)
        PROVE  /\ \A n \in Matches \ {m} : tx'[n] = tx[n]
               /\ tx'[m].missing = tx[m].missing /\ tx'[m].pc \in Steps
    BY <1>2, <1>3, <2>4, AwardKeeps
  <2> QED
    BY <2>1, <2>2, <2>3, <2>4
<1>5. tx'[m] # NoTransaction
  BY <1>4 DEF NoTransaction, Steps
<1> QED
  BY <1>1, <1>2, <1>4, <1>5, UnseenStands

LEMMA StepsKeepTheBook ==
  ASSUME Assured, [RNext]_rvars
  PROVE  [Book!Next]_(Book!vars)
<1>1. ASSUME UNCHANGED <<ratings, rows, Unseen>>
      PROVE  UNCHANGED Book!vars
  BY <1>1 DEF Book!vars, RatedMatches, Unseen
<1>2. ASSUME NEW m \in Matches, Complete(m)
      PROVE  [Book!Next]_(Book!vars)
  <2>1. CASE Commit(m)
    <3>1. CASE RatedPair(m)
      <4>1. PICK verdict : verdict = tx[m].result
        OBVIOUS
      <4>2. Book!Enter(m, verdict) /\ verdict \in Book!Results
        BY <2>1, <3>1, <4>1, CommitsAreEntries, SameArithmetic
      <4>3. m \in RatedMatches
        BY <3>1 DEF RatedMatches
      <4> QED
        BY <4>2, <4>3 DEF Book!Next
    <3>2. CASE ~RatedPair(m)
      BY <2>1, <3>2, CommitsAreEntries DEF Book!vars, Entered, Unseen
    <3> QED
      BY <3>1, <3>2
  <2>2. CASE \E verdict \in Results, reason \in Reasons : Begin(m, verdict, reason)
    <3>1. IF RatedPair(m) THEN Book!Begin(m) ELSE UNCHANGED <<ratings, rows, Unseen>>
      BY <2>2, BeginningsAreBegun
    <3>2. RatedPair(m) => m \in RatedMatches
      BY DEF RatedMatches
    <3>3. CASE RatedPair(m)
      BY <3>1, <3>2, <3>3 DEF Book!Next
    <3>4. CASE ~RatedPair(m)
      BY <1>1, <3>1, <3>4
    <3> QED
      BY <3>3, <3>4
  <2>3. CASE Abort(m)
    <3>1. IF RatedPair(m) THEN Book!GiveUp(m) ELSE UNCHANGED <<ratings, rows, Unseen>>
      BY <2>3, AbortsAreGivenUp
    <3>2. RatedPair(m) => m \in RatedMatches
      BY DEF RatedMatches
    <3>3. CASE RatedPair(m)
      BY <3>1, <3>2, <3>3 DEF Book!Next
    <3>4. CASE ~RatedPair(m)
      BY <1>1, <3>1, <3>4
    <3> QED
      BY <3>3, <3>4
  <2>4. CASE \/ LockRating(m)
             \/ \E s \in Sides : UpsertRating(m, s) \/ Gather(m, s)
                                 \/ \E code \in Codes : Award(m, s, code)
    <3>1. UNCHANGED <<ratings, rows, Unseen>>
      BY <2>4, OtherStepsAreQuiet
    <3> QED
      BY <1>1, <3>1
  <2> QED
    BY <1>2, <2>1, <2>2, <2>3, <2>4 DEF Complete
<1>3. ASSUME NEW c \in correction, WriteCorrection(c)
      PROVE  Book!Next
  <2>1. /\ c.user \in Accounts /\ <<c.user, c.after>> \in Corrections /\ ratings[c.user] # Unrated
        /\ ratings' = [ratings EXCEPT ![c.user].rating = c.after] /\ UNCHANGED <<rows, tx>>
    BY <1>3 DEF WriteCorrection, Assured, BookInduction, CorrectionsStand
  <2>2. Book!Correct(c.user, c.after)
    BY <2>1 DEF Book!Correct, RatedMatches
  <2> QED
    BY <2>1, <2>2 DEF Book!Next
<1>4. ASSUME Administer
      PROVE  [Book!Next]_(Book!vars)
  <2>1. CASE \E c \in correction : WriteCorrection(c)
    BY <1>3, <2>1
  <2>2. CASE ~ \E c \in correction : WriteCorrection(c)
    <3>1. UNCHANGED <<ratings, rows, tx>>
      BY <1>4, <2>2 DEF Administer, ReadForCorrection, SwitchAchievement, ledger
    <3> QED
      BY <1>1, <3>1 DEF Unseen
  <2> QED
    BY <2>1, <2>2
<1>5. CASE UNCHANGED rvars
  BY <1>1, <1>5 DEF rvars, ledger, Unseen
<1> QED
  BY <1>2, <1>4, <1>5 DEF RNext

\* The transactions implement the book: whichever completions run at once, wait for each other,
\* are chosen as victims or fail, and whatever administrators correct meanwhile, each commit
\* enters one match from the ratings both players have at that moment; only an account whose
\* completion found no row of it starts over (applyRatingsForCompletion, lockRatingsForUpdate,
\* upsertRating, adjustRating).
THEOREM RatingsImplementTheBook ==
  RatingsConstants /\ ExpectedIsWhole /\ RSpec => ImplementsBook
<1>1. RInit => Book!Init
  BY DEF RInit, Book!Init, RatedMatches
<1>2. Assured /\ [RNext]_rvars => [Book!Next]_(Book!vars)
  BY StepsKeepTheBook
<1> QED
  BY <1>1, <1>2, BookAlwaysHolds, PTL DEF RSpec, ImplementsBook, Book!Spec

-----------------------------------------------------------------------------
(* A completion is whole: the invariant of the audit, the badges and who deserves them. *)

\* Every audit row belongs to a completed ranked match and to the player of its side.
AuditTyped ==
  /\ IsFiniteSet(changes)
  /\ \A c \in changes :
       /\ c.match \in Matches /\ RatedPair(c.match) /\ rows[c.match].status = "completed"
       /\ c.side \in Sides /\ c.user = SeatOf(c.match, c.side)
       /\ c.before \in Nat /\ c.after \in Nat /\ c.outcome \in Outcomes
\* The rows that count are rows of the audit; whoever appears in it has a rating, and whoever
\* got one appears in a match that found none.
AuditTells ==
  /\ counted \subseteq changes
  /\ \A c \in changes : ratings[c.user] # Unrated
  /\ \A u \in Accounts :
       Opening[u] = Unrated /\ ratings[u] # Unrated => \E d \in changes : d.user = u /\ d.unseen
AwardsTyped ==
  \A a \in awards : a.user \in Accounts /\ a.code \in Codes /\ a.match \in Matches

\* What the facts a transaction sees say for a badge.
Deserves(m, u, code) ==
  /\ \E s \in Sides : SeatOf(m, s) = u
  /\ code = "first-victory" => WonBy(m, u) # {}
  /\ code = "getting-started" => Cardinality(Played(m, u)) >= Milestone
  /\ code = "time-keeper" =>
       tx[m].result \in Sides /\ SeatOf(m, tx[m].result) = u /\ tx[m].reason = "timeout"
  /\ code = "four-ways" => Categories \subseteq UNION {Card[n].lines : n \in WonBy(m, u)}

\* The seats whose facts have been gathered.
Gathered(m, s) ==
  \/ tx[m].pc = "commit"
  \/ tx[m].pc = "award" /\ (s = "light" \/ tx[m].side = "dark")
  \/ tx[m].pc = "gather" /\ s = "light" /\ tx[m].side = "dark"

\* A badge a transaction is inserting is its own, new and deserved, and no seat it has gathered
\* for goes without the badge its wins are worth.
Badges(m) ==
  /\ tx[m].pc \in {"lock", "upsert"} => tx[m].side = "light"
  /\ \A w \in tx[m].won : owner[w] = m /\ ~Held(w[1], w[2]) /\ Deserves(m, w[1], w[2])
  /\ \A s \in Sides : tx[m].pc = "award" /\ tx[m].side = s =>
                       \A c \in tx[m].todo : Deserves(m, SeatOf(m, s), c)
  /\ RatedPair(m) /\ "contender" \notin Switched =>
       \A s \in Sides :
         Gathered(m, s) /\ After(m, s).wins >= Milestone =>
           \/ <<SeatOf(m, s), "contender">> \in tx[m].won
           \/ Held(SeatOf(m, s), "contender")
           \/ tx[m].pc = "award" /\ tx[m].side = s /\ "contender" \in tx[m].todo

Tables ==
  /\ AuditTyped /\ AuditTells /\ AwardsTyped /\ Codes \ Switched \subseteq enabled
  /\ ReplayReproduces /\ ResultsCarryRatings /\ AwardsAreDeserved /\ MilestonesArePaid

WholeInduction ==
  /\ Assured /\ Tables
  /\ \A m \in Matches : tx[m] # NoTransaction => Badges(m)

\* A completed match stays as it is.
RowsGrow == \A n \in Matches : rows[n].status = "completed" => rows'[n] = rows[n]

LEMMA FactsGrow ==
  ASSUME NEW m \in Matches, NEW u, Typed, RowsGrow, tx'[m].result = tx[m].result,
         tx'[m].reason = tx[m].reason, Typed'
  PROVE  /\ Played(m, u) \subseteq Played(m, u)' /\ WonBy(m, u) \subseteq WonBy(m, u)'
         /\ IsFiniteSet(Matches) => /\ IsFiniteSet(Played(m, u)')
                                    /\ Cardinality(Played(m, u)) <= Cardinality(Played(m, u)')
                                    /\ Cardinality(Played(m, u)) \in Nat
                                    /\ Cardinality(Played(m, u)') \in Nat
<1>1. \A n \in Matches : Seen(m)[n].status = "completed" => Seen(m)'[n] = Seen(m)[n]
  BY DEF Typed, RowsGrow, Seen
<1>2. Played(m, u) \subseteq Played(m, u)' /\ WonBy(m, u) \subseteq WonBy(m, u)'
  BY <1>1 DEF Played, WonBy
<1>3. Played(m, u)' \subseteq Matches
  BY DEF Played
<1> QED
  BY <1>2, <1>3, FS_Subset, FS_CardinalityType

LEMMA DesertGrows ==
  ASSUME RatingsConstants, NEW m \in Matches, NEW u, NEW code, Typed, RowsGrow, Typed',
         tx'[m].result = tx[m].result, tx'[m].reason = tx[m].reason, Deserves(m, u, code)
  PROVE  Deserves(m, u, code)'
<1>1. /\ Played(m, u) \subseteq Played(m, u)' /\ WonBy(m, u) \subseteq WonBy(m, u)'
      /\ Cardinality(Played(m, u)) <= Cardinality(Played(m, u)')
      /\ Cardinality(Played(m, u)) \in Nat /\ Cardinality(Played(m, u)') \in Nat
  BY FactsGrow DEF RatingsConstants
<1>2. Milestone \in Nat
  BY DEF RatingsConstants
<1>3. (code = "first-victory" => WonBy(m, u) # {})'
  BY <1>1 DEF Deserves
<1>4. (code = "getting-started" => Cardinality(Played(m, u)) >= Milestone)'
  BY <1>1, <1>2 DEF Deserves
<1>5. (code = "time-keeper" =>
         tx[m].result \in Sides /\ SeatOf(m, tx[m].result) = u /\ tx[m].reason = "timeout")'
  BY DEF Deserves
<1>6. (code = "four-ways" => Categories \subseteq UNION {Card[n].lines : n \in WonBy(m, u)})'
  BY <1>1 DEF Deserves
<1> QED
  BY <1>3, <1>4, <1>5, <1>6 DEF Deserves

\* A transaction that is not touched keeps its badges: nobody inserts a key it holds.
LEMMA OthersKeepBadges ==
  ASSUME RatingsConstants, NEW m \in Matches, Typed, Typed', tx[m] # NoTransaction, Badges(m), RowsGrow,
         tx'[m] = tx[m],
         \A k \in LockKeys : owner[k] = m => /\ owner'[k] = m
                                             /\ ~Held(k[1], k[2]) => ~Held(k[1], k[2])',
         \A u \in Accounts : Held(u, "contender") => Held(u, "contender")'
  PROVE  Badges(m)'
<1>1. tx[m] \in Transactions /\ tx[m].won \subseteq Accounts \X Codes
  BY Running, TransactionFields
<1>2. \A w \in tx[m].won : w \in LockKeys
  BY <1>1 DEF LockKeys
<1>3. (\A w \in tx[m].won : owner[w] = m /\ ~Held(w[1], w[2]) /\ Deserves(m, w[1], w[2]))'
  <2> SUFFICES ASSUME NEW w \in tx[m].won
               PROVE  owner'[w] = m /\ ~Held(w[1], w[2])' /\ Deserves(m, w[1], w[2])'
    OBVIOUS
  <2>1. owner[w] = m /\ ~Held(w[1], w[2]) /\ Deserves(m, w[1], w[2])
    BY DEF Badges
  <2>2. Deserves(m, w[1], w[2])'
    BY <2>1, DesertGrows
  <2>3. w \in LockKeys
    BY <1>2
  <2> QED
    BY <2>1, <2>2, <2>3
<1>4. (\A s \in Sides : tx[m].pc = "award" /\ tx[m].side = s =>
                          \A c \in tx[m].todo : Deserves(m, SeatOf(m, s), c))'
  <2> SUFFICES ASSUME NEW s \in Sides, tx[m].pc = "award", tx[m].side = s, NEW c \in tx[m].todo
               PROVE  Deserves(m, SeatOf(m, s), c)'
    OBVIOUS
  <2>1. Deserves(m, SeatOf(m, s), c)
    BY DEF Badges
  <2> QED
    BY <2>1, DesertGrows
<1>5. /\ \A s \in Sides : After(m, s)' = After(m, s) /\ (Gathered(m, s)' <=> Gathered(m, s))
      /\ (tx[m].pc \in {"lock", "upsert"} => tx[m].side = "light")'
  BY DEF After, Gathered, Badges
<1>6. (RatedPair(m) /\ "contender" \notin Switched =>
        \A s \in Sides :
          Gathered(m, s) /\ After(m, s).wins >= Milestone =>
            \/ <<SeatOf(m, s), "contender">> \in tx[m].won
            \/ Held(SeatOf(m, s), "contender")
            \/ tx[m].pc = "award" /\ tx[m].side = s /\ "contender" \in tx[m].todo)'
  <2> SUFFICES ASSUME RatedPair(m), "contender" \notin Switched, NEW s \in Sides,
                      Gathered(m, s)', After(m, s)'.wins >= Milestone
               PROVE  \/ <<SeatOf(m, s), "contender">> \in tx[m].won
                      \/ Held(SeatOf(m, s), "contender")'
                      \/ tx[m].pc = "award" /\ tx[m].side = s /\ "contender" \in tx[m].todo
    BY DEF Sides
  <2>1. SeatOf(m, s) \in Accounts
    BY SeatKeys
  <2> QED
    BY <1>5, <2>1 DEF Badges
<1> QED
  BY <1>3, <1>4, <1>5, <1>6 DEF Badges

\* A step that completes no match leaves the audit and the badges as they are.
LEMMA TablesKept ==
  ASSUME Tables, UNCHANGED <<rows, changes, counted, awards>>, Codes \ Switched \subseteq enabled',
         \A u \in Accounts :
           /\ ratings'[u] = Unrated <=> ratings[u] = Unrated
           /\ ratings[u] # Unrated =>
                /\ ratings'[u].games = ratings[u].games /\ ratings'[u].wins = ratings[u].wins
                /\ ratings'[u].losses = ratings[u].losses /\ ratings'[u].draws = ratings[u].draws
  PROVE  Tables'
<1>1. AuditTyped' /\ AwardsTyped'
  BY DEF Tables, AuditTyped, AwardsTyped
<1>2. AuditTells'
  <2>1. \A c \in changes : c.user \in Accounts
    BY SeatKeys DEF Tables, AuditTyped
  <2> QED
    BY <2>1 DEF Tables, AuditTells
<1>3. \A u, outcomes : CountOf(u, outcomes)' = CountOf(u, outcomes)
  BY DEF CountOf
<1>4. ReplayReproduces'
  <2>1. ASSUME NEW u \in Accounts
        PROVE  (LET now == IF ratings[u] = Unrated THEN StartingAggregate ELSE ratings[u]
                IN  /\ now.games  = OpeningOf(u).games  + CountOf(u, Outcomes)
                    /\ now.wins   = OpeningOf(u).wins   + CountOf(u, {"win"})
                    /\ now.losses = OpeningOf(u).losses + CountOf(u, {"loss"})
                    /\ now.draws  = OpeningOf(u).draws  + CountOf(u, {"draw"}))'
    BY <1>3 DEF Tables, ReplayReproduces
  <2> QED
    BY <2>1 DEF Tables, ReplayReproduces
<1>5. ResultsCarryRatings'
  BY DEF Tables, ResultsCarryRatings
<1>6. AwardsAreDeserved'
  BY ZenonT(60) DEF Tables, AwardsAreDeserved, Wins
<1>7. MilestonesArePaid'
  BY <1>3 DEF Tables, MilestonesArePaid, Held
<1> QED
  BY <1>1, <1>2, <1>4, <1>5, <1>6, <1>7 DEF Tables

\* A step of one transaction that completes no match: the others keep what they have.
LEMMA WholeStepOfOne ==
  ASSUME WholeInduction, Assured', NEW m \in Matches,
         UNCHANGED <<rows, changes, counted, awards, ratings, enabled>>,
         \A n \in Matches \ {m} : tx'[n] = tx[n],
         \A k \in LockKeys : owner[k] \notin {m, Nobody} => owner'[k] = owner[k],
         tx'[m] # NoTransaction => Badges(m)'
  PROVE  WholeInduction'
<1>1. Tables'
  BY TablesKept DEF WholeInduction, Tables
<1>2. ASSUME NEW n \in Matches \ {m}, tx'[n] # NoTransaction
      PROVE  Badges(n)'
  <2>1. /\ RatingsConstants /\ Typed /\ Typed' /\ tx[n] # NoTransaction /\ Badges(n) /\ RowsGrow
        /\ tx'[n] = tx[n]
    BY <1>2 DEF WholeInduction, Assured, BookInduction, RowsGrow
  <2>2. n # Nobody /\ n # m
    BY <2>1 DEF RatingsConstants
  <2>3. \A u, code : Held(u, code)' <=> Held(u, code)
    BY DEF Held
  <2>4. \A k \in LockKeys : owner[k] = n => /\ owner'[k] = n
                                            /\ ~Held(k[1], k[2]) => ~Held(k[1], k[2])'
    BY <2>2, <2>3
  <2> QED
    BY <2>1, <2>3, <2>4, OthersKeepBadges
<1> QED
  BY <1>1, <1>2 DEF WholeInduction

\* Before the facts are gathered there is no badge to speak of.
LEMMA BadgesWait ==
  ASSUME WholeInduction, Assured', NEW m \in Matches, tx[m].pc \in {"lock", "upsert"},
         UNCHANGED <<rows, awards>>,
         tx'[m].pc \in {"lock", "upsert", "gather"}, tx'[m].side = tx[m].side,
         tx'[m].won = tx[m].won, tx'[m].result = tx[m].result, tx'[m].reason = tx[m].reason,
         \A k \in LockKeys : owner[k] = m => owner'[k] = m
  PROVE  Badges(m)'
<1>1. /\ RatingsConstants /\ Typed /\ Typed' /\ tx[m] \in Transactions /\ RowsGrow
  BY IdleIsIdle DEF WholeInduction, Assured, BookInduction, Steps, RowsGrow
<1>2. Badges(m) /\ tx[m].side = "light" /\ tx[m].won \subseteq Accounts \X Codes
  BY <1>1, TransactionFields DEF WholeInduction, Badges
<1>3. (\A w \in tx[m].won : owner[w] = m /\ ~Held(w[1], w[2]) /\ Deserves(m, w[1], w[2]))'
  <2> SUFFICES ASSUME NEW w \in tx[m].won
               PROVE  owner'[w] = m /\ ~Held(w[1], w[2])' /\ Deserves(m, w[1], w[2])'
    OBVIOUS
  <2>1. owner[w] = m /\ ~Held(w[1], w[2]) /\ Deserves(m, w[1], w[2]) /\ w \in LockKeys
    BY <1>2 DEF Badges, LockKeys
  <2>2. Deserves(m, w[1], w[2])'
    BY <1>1, <2>1, DesertGrows
  <2> QED
    BY <2>1, <2>2 DEF Held
<1>4. \A s \in Sides : ~Gathered(m, s)'
  BY <1>2 DEF Gathered
<1> QED
  BY <1>2, <1>3, <1>4 DEF Badges

LEMMA WholeBegin ==
  ASSUME WholeInduction, Assured', NEW m \in Matches,
         NEW verdict \in Results, NEW reason \in Reasons, Begin(m, verdict, reason)
  PROVE  WholeInduction'
<1>1. /\ UNCHANGED <<rows, changes, counted, awards, ratings, enabled, owner>>
      /\ \A n \in Matches \ {m} : tx'[n] = tx[n]
      /\ tx'[m].pc \in {"lock", "gather"} /\ tx'[m].side = "light" /\ tx'[m].won = {}
  BY DEF Begin, ledger, WholeInduction, Assured, BookInduction, Typed
<1>2. \A s \in Sides : ~Gathered(m, s)'
  BY <1>1 DEF Gathered
<1>3. Badges(m)'
  BY <1>1, <1>2 DEF Badges
<1> QED
  BY <1>1, <1>3, WholeStepOfOne

LEMMA WholeLockRating ==
  ASSUME WholeInduction, Assured', NEW m \in Matches, LockRating(m)
  PROVE  WholeInduction'
<1>1. PICK u \in First(tx[m].toLock) :
        /\ Free(RowOf(u), m)
        /\ owner' = [owner EXCEPT ![RowOf(u)] = m]
        /\ tx' = [tx EXCEPT ![m].toLock = @ \ {u},
                            ![m].read = [s \in Sides |-> IF SeatOf(m, s) = u THEN ratings[u] ELSE @[s]]]
  BY DEF LockRating
<1>2. tx[m].pc = "lock" /\ UNCHANGED <<rows, changes, counted, awards, ratings, enabled>>
  BY DEF LockRating, ledger
<1>3. tx[m] \in Transactions
  BY <1>2, IdleIsIdle DEF WholeInduction, Assured, BookInduction, Steps
<1>4. \A n \in Matches \ {m} : tx'[n] = tx[n]
  BY <1>1 DEF WholeInduction, Assured, BookInduction, Typed
<1>5. /\ tx'[m].pc = tx[m].pc /\ tx'[m].side = tx[m].side /\ tx'[m].won = tx[m].won
      /\ tx'[m].result = tx[m].result /\ tx'[m].reason = tx[m].reason
  <2>1. tx \in [Matches -> {NoTransaction} \cup Transactions]
    BY DEF WholeInduction, Assured, BookInduction, Typed
  <2> DEFINE newRead == [s \in Sides |-> IF SeatOf(m, s) = u THEN ratings[u] ELSE tx[m].read[s]]
  <2>2. tx'[m] = [tx[m] EXCEPT !.toLock = @ \ {u}, !.read = newRead]
    BY <1>1, <1>3, <2>1
  <2> HIDE DEF newRead
  <2> QED
    BY <1>3, <2>2 DEF Transactions
<1>6. /\ \A k \in LockKeys : owner[k] = m => owner'[k] = m
      /\ \A k \in LockKeys : owner[k] \notin {m, Nobody} => owner'[k] = owner[k]
  BY <1>1 DEF WholeInduction, Assured, BookInduction, Typed, Free
<1>7. Badges(m)'
  BY <1>2, <1>5, <1>6, BadgesWait
<1> QED
  BY <1>2, <1>4, <1>6, <1>7, WholeStepOfOne

LEMMA WholeUpsertRating ==
  ASSUME WholeInduction, Assured', NEW m \in Matches, NEW side \in Sides, UpsertRating(m, side)
  PROVE  WholeInduction'
<1> DEFINE p == IF side = "light" THEN "upsert" ELSE "gather"
           w == tx[m].wrote \cup {<<SeatOf(m, side), After(m, side)>>}
           t == [tx[m] EXCEPT !.pc = p, !.wrote = w]
<1>1. /\ tx[m].pc \in {"lock", "upsert"} /\ Free(RowOf(SeatOf(m, side)), m)
      /\ owner' = [owner EXCEPT ![RowOf(SeatOf(m, side))] = m]
      /\ UNCHANGED <<rows, changes, counted, awards, ratings, enabled>>
  BY DEF UpsertRating, ledger, Sides
<1>2. tx' = [tx EXCEPT ![m].pc = p, ![m].wrote = @ \cup {<<SeatOf(m, side), After(m, side)>>}]
  BY DEF UpsertRating, After
<1>3. tx[m] \in Transactions
  BY <1>1, IdleIsIdle DEF WholeInduction, Assured, BookInduction, Steps
<1>4. tx' = [tx EXCEPT ![m] = t]
  BY <1>2, <1>3 DEF WholeInduction, Assured, BookInduction, Typed
<1> HIDE DEF p, w
<1>5. /\ t.pc = p /\ t.side = tx[m].side /\ t.won = tx[m].won
      /\ t.result = tx[m].result /\ t.reason = tx[m].reason
  BY <1>3 DEF Transactions
<1> HIDE DEF t
<1>6. tx'[m] = t /\ \A n \in Matches \ {m} : tx'[n] = tx[n]
  BY <1>4 DEF WholeInduction, Assured, BookInduction, Typed
<1>7. /\ \A k \in LockKeys : owner[k] = m => owner'[k] = m
      /\ \A k \in LockKeys : owner[k] \notin {m, Nobody} => owner'[k] = owner[k]
  BY <1>1 DEF WholeInduction, Assured, BookInduction, Typed, Free
<1>8. tx'[m].pc \in {"lock", "upsert", "gather"}
  BY <1>5, <1>6 DEF p
<1>9. /\ tx'[m].side = tx[m].side /\ tx'[m].won = tx[m].won
      /\ tx'[m].result = tx[m].result /\ tx'[m].reason = tx[m].reason
  BY <1>5, <1>6
<1>10. Badges(m)'
  BY <1>1, <1>7, <1>8, <1>9, BadgesWait
<1> QED
  BY <1>1, <1>6, <1>7, <1>10, WholeStepOfOne

LEMMA WholeAbort ==
  ASSUME WholeInduction, Assured', NEW m \in Matches, Abort(m)
  PROVE  WholeInduction'
<1>1. /\ UNCHANGED <<rows, changes, counted, awards, ratings, enabled>> /\ owner' = Released(m)
      /\ tx'[m] = NoTransaction /\ \A n \in Matches \ {m} : tx'[n] = tx[n]
  BY DEF Abort, ledger, WholeInduction, Assured, BookInduction, Typed
<1>2. \A k \in LockKeys : owner[k] \notin {m, Nobody} => owner'[k] = owner[k]
  BY <1>1, ReleasedLocks DEF WholeInduction, Assured
<1> QED
  BY <1>1, <1>2, WholeStepOfOne

\* What a seat has earned its account deserves.
LEMMA EarnedIsDeserved ==
  ASSUME NEW m, NEW side \in Sides, NEW code \in Earned(m, side)
  PROVE  Deserves(m, SeatOf(m, side), code)
<1> DEFINE u == SeatOf(m, side)
<1>1. code = "first-victory" => WonBy(m, u) # {}
  BY DEF Earned
<1>2. code = "getting-started" => Cardinality(Played(m, u)) >= Milestone
  BY DEF Earned
<1>3. code = "time-keeper" =>
        tx[m].result \in Sides /\ SeatOf(m, tx[m].result) = u /\ tx[m].reason = "timeout"
  BY DEF Earned
<1>4. code = "four-ways" => Categories \subseteq UNION {Card[n].lines : n \in WonBy(m, u)}
  BY DEF Earned
<1> QED
  BY <1>1, <1>2, <1>3, <1>4 DEF Deserves

\* A seat whose new row reaches the milestone has earned the badge for it.
LEMMA WinsAreEarned ==
  ASSUME Assured, NEW m \in Matches, tx[m].pc = "gather", RatedPair(m), NEW side \in Sides,
         After(m, side).wins >= Milestone
  PROVE  "contender" \in Earned(m, side)
<1>1. RatingSeen(m, SeatOf(m, side)) = After(m, side) /\ After(m, side) # Unrated
  BY SeesWhatItWrote DEF Assured, RatingsConstants
<1>2. "contender" \in Codes
  BY DEF Assured, RatingsConstants
<1> QED
  BY <1>1, <1>2 DEF Earned

\* Gathering and awarding leave the matches, the badges of the tables and what was read alone.
LEMMA FactsStand ==
  ASSUME WholeInduction, Assured', NEW m \in Matches, tx[m].pc \in {"gather", "award"},
         UNCHANGED <<rows, awards>>,
         tx'[m].result = tx[m].result, tx'[m].reason = tx[m].reason, tx'[m].read = tx[m].read
  PROVE  /\ \A u, code : Deserves(m, u, code) => Deserves(m, u, code)'
         /\ \A u, code : Held(u, code)' <=> Held(u, code)
         /\ \A s \in Sides : After(m, s)' = After(m, s)
         /\ tx[m] \in Transactions /\ Badges(m) /\ RatingsConstants
<1>1. /\ RatingsConstants /\ Typed /\ Typed' /\ tx[m] \in Transactions /\ RowsGrow /\ Badges(m)
  BY IdleIsIdle, TransactionFields DEF WholeInduction, Assured, BookInduction, Steps, RowsGrow
<1>2. ASSUME NEW u, NEW code, Deserves(m, u, code)
      PROVE  Deserves(m, u, code)'
  BY <1>1, <1>2, DesertGrows
<1>3. \A s \in Sides : After(m, s)' = After(m, s)
  BY DEF After
<1>4. \A u, code : Held(u, code)' <=> Held(u, code)
  BY DEF Held
<1> QED
  BY <1>1, <1>2, <1>3, <1>4

LEMMA WholeGather ==
  ASSUME WholeInduction, Assured', NEW m \in Matches, NEW side \in Sides, Gather(m, side)
  PROVE  WholeInduction'
<1> DEFINE todo == IF IsAccount(m, side) THEN Earned(m, side) \cap enabled ELSE {}
           t == [tx[m] EXCEPT !.pc = Awarding(side, todo), !.side = Seated(side, todo), !.todo = todo]
<1>1. tx[m].pc = "gather" /\ tx[m].side = side
      /\ UNCHANGED <<rows, changes, counted, awards, ratings, enabled, owner>>
  BY DEF Gather, ledger
<1>2. tx' = [tx EXCEPT ![m].pc = Awarding(side, todo), ![m].side = Seated(side, todo), ![m].todo = todo]
  BY DEF Gather
<1>3. \A c \in todo : Deserves(m, SeatOf(m, side), c)
  BY EarnedIsDeserved
<1>4. RatedPair(m) /\ "contender" \notin Switched /\ After(m, side).wins >= Milestone
      => "contender" \in todo
  <2> SUFFICES ASSUME RatedPair(m), "contender" \notin Switched, After(m, side).wins >= Milestone
               PROVE  "contender" \in todo
    OBVIOUS
  <2>1. "contender" \in Earned(m, side)
    BY <1>1, WinsAreEarned DEF WholeInduction
  <2>2. "contender" \in enabled
    BY DEF WholeInduction, Tables, Assured, RatingsConstants
  <2>3. IsAccount(m, side)
    BY DEF RatedPair
  <2> QED
    BY <2>1, <2>2, <2>3
<1> HIDE DEF todo
<1>5. tx[m] \in Transactions /\ tx' = [tx EXCEPT ![m] = t]
  BY <1>1, <1>2, IdleIsIdle DEF WholeInduction, Assured, BookInduction, Typed, Steps
<1>6. /\ t.pc = Awarding(side, todo) /\ t.side = Seated(side, todo) /\ t.todo = todo
      /\ t.won = tx[m].won /\ t.read = tx[m].read
      /\ t.result = tx[m].result /\ t.reason = tx[m].reason
  BY <1>5 DEF Transactions
<1> HIDE DEF t
<1>7. tx'[m] = t /\ \A n \in Matches \ {m} : tx'[n] = tx[n]
  BY <1>5 DEF WholeInduction, Assured, BookInduction, Typed
<1>8. /\ tx'[m].pc = Awarding(side, todo) /\ tx'[m].side = Seated(side, todo)
      /\ tx'[m].todo = todo /\ tx'[m].won = tx[m].won /\ tx'[m].read = tx[m].read
      /\ tx'[m].result = tx[m].result /\ tx'[m].reason = tx[m].reason
  BY <1>6, <1>7
<1>9. /\ \A u, code : Deserves(m, u, code) => Deserves(m, u, code)'
      /\ \A u, code : Held(u, code)' <=> Held(u, code)
      /\ \A s \in Sides : After(m, s)' = After(m, s)
      /\ Badges(m)
  BY <1>1, <1>8, FactsStand
<1>10. (\A w \in tx[m].won : owner[w] = m /\ ~Held(w[1], w[2]) /\ Deserves(m, w[1], w[2]))'
  BY <1>1, <1>8, <1>9 DEF Badges
<1>11. (\A s \in Sides : tx[m].pc = "award" /\ tx[m].side = s =>
                           \A c \in tx[m].todo : Deserves(m, SeatOf(m, s), c))'
  <2> SUFFICES ASSUME NEW s \in Sides, tx'[m].pc = "award", tx'[m].side = s, NEW c \in todo
               PROVE  Deserves(m, SeatOf(m, s), c)'
    BY <1>8
  <2>1. s = side
    BY <1>8, WhereAwarding
  <2> QED
    BY <1>3, <1>9, <2>1
<1>12. ASSUME RatedPair(m), "contender" \notin Switched, NEW s \in Sides,
              Gathered(m, s)', After(m, s).wins >= Milestone
       PROVE  \/ <<SeatOf(m, s), "contender">> \in tx[m].won
              \/ Held(SeatOf(m, s), "contender")
              \/ tx'[m].pc = "award" /\ tx'[m].side = s /\ "contender" \in todo
  <2>1. CASE s = side
    <3>1. "contender" \in todo
      BY <1>4, <1>12, <2>1
    <3>2. tx'[m].pc = "award" /\ tx'[m].side = side
      BY <1>8, <3>1 DEF Awarding, Seated
    <3> QED
      BY <2>1, <3>1, <3>2
  <2>2. CASE s # side
    <3>1. s = "light" /\ side = "dark"
      BY <1>8, <1>12, <2>2 DEF Gathered, Awarding, Seated, Sides
    <3>2. Gathered(m, s)
      BY <1>1, <3>1 DEF Gathered
    <3> QED
      BY <1>1, <1>9, <1>12, <3>2 DEF Badges
  <2> QED
    BY <2>1, <2>2
<1>13. (RatedPair(m) /\ "contender" \notin Switched =>
         \A s \in Sides :
           Gathered(m, s) /\ After(m, s).wins >= Milestone =>
             \/ <<SeatOf(m, s), "contender">> \in tx[m].won
             \/ Held(SeatOf(m, s), "contender")
             \/ tx[m].pc = "award" /\ tx[m].side = s /\ "contender" \in tx[m].todo)'
  BY <1>8, <1>9, <1>12 DEF Sides
<1>14. (tx[m].pc \in {"lock", "upsert"} => tx[m].side = "light")'
  BY <1>8, WhereAwarding
<1>15. Badges(m)'
  BY <1>10, <1>11, <1>13, <1>14 DEF Badges
<1> QED
  BY <1>1, <1>7, <1>15, WholeStepOfOne

LEMMA WholeAward ==
  ASSUME WholeInduction, Assured', NEW m \in Matches, NEW side \in Sides, NEW code \in Codes,
         Award(m, side, code)
  PROVE  WholeInduction'
<1> DEFINE key == <<SeatOf(m, side), code>>
           todo == tx[m].todo \ {code}
           won == IF Held(key[1], code) THEN tx[m].won ELSE tx[m].won \cup {key}
           holder == IF Held(key[1], code) THEN Nobody ELSE m
           t == [tx[m] EXCEPT !.pc = Awarding(side, todo), !.side = Seated(side, todo), !.todo = todo,
                              !.won = won]
<1>1. /\ tx[m].pc = "award" /\ tx[m].side = side /\ code \in tx[m].todo /\ Free(key, m)
      /\ owner' = [owner EXCEPT ![key] = holder]
      /\ UNCHANGED <<rows, changes, counted, awards, ratings, enabled>>
  BY DEF Award, ledger
<1>2. tx' = [tx EXCEPT ![m].pc = Awarding(side, todo), ![m].side = Seated(side, todo), ![m].todo = todo,
                       ![m].won = IF Held(key[1], code) THEN @ ELSE @ \cup {key}]
  BY DEF Award
<1>3. tx[m] \in Transactions /\ tx' = [tx EXCEPT ![m] = t]
  BY <1>1, <1>2, IdleIsIdle DEF WholeInduction, Assured, BookInduction, Typed, Steps
<1>4. key \in LockKeys /\ key[1] = SeatOf(m, side) /\ key[2] = code
  <2>1. IsAccount(m, side)
    BY <1>1, <1>3, TransactionFields DEF WholeInduction, Assured, BookInduction, Runs
  <2> QED
    BY <2>1 DEF IsAccount, LockKeys
<1>5. won \subseteq tx[m].won \cup {key} /\ tx[m].won \subseteq won
      /\ (~Held(SeatOf(m, side), code) => key \in won /\ holder = m)
      /\ (Held(SeatOf(m, side), code) => won = tx[m].won /\ holder = Nobody)
  BY <1>4
<1>6. todo \subseteq tx[m].todo /\ \A c \in tx[m].todo : c # code => c \in todo
  OBVIOUS
<1> HIDE DEF key, todo, won, holder
<1>7. /\ t.pc = Awarding(side, todo) /\ t.side = Seated(side, todo) /\ t.todo = todo
      /\ t.won = won /\ t.read = tx[m].read
      /\ t.result = tx[m].result /\ t.reason = tx[m].reason
  BY <1>3 DEF Transactions
<1> HIDE DEF t
<1>8. tx'[m] = t /\ \A n \in Matches \ {m} : tx'[n] = tx[n]
  BY <1>3 DEF WholeInduction, Assured, BookInduction, Typed
<1>9. /\ tx'[m].pc = Awarding(side, todo) /\ tx'[m].side = Seated(side, todo)
      /\ tx'[m].todo = todo /\ tx'[m].won = won /\ tx'[m].read = tx[m].read
      /\ tx'[m].result = tx[m].result /\ tx'[m].reason = tx[m].reason
  BY <1>7, <1>8
<1>10. /\ \A u, c : Deserves(m, u, c) => Deserves(m, u, c)'
       /\ \A u, c : Held(u, c)' <=> Held(u, c)
       /\ \A s \in Sides : After(m, s)' = After(m, s)
       /\ Badges(m)
  BY <1>1, <1>9, FactsStand
<1>11. /\ owner'[key] = holder
       /\ \A k \in LockKeys \ {key} : owner'[k] = owner[k]
       /\ \A k \in LockKeys : owner[k] \notin {m, Nobody} => owner'[k] = owner[k]
  <2>1. owner \in [LockKeys -> Matches \cup {Nobody}]
    BY DEF WholeInduction, Assured, BookInduction, Typed
  <2> QED
    BY <1>1, <1>4, <2>1 DEF Free
<1>12. (\A w \in tx[m].won : owner[w] = m /\ ~Held(w[1], w[2]) /\ Deserves(m, w[1], w[2]))'
  <2> SUFFICES ASSUME NEW w \in won
               PROVE  owner'[w] = m /\ ~Held(w[1], w[2])' /\ Deserves(m, w[1], w[2])'
    BY <1>9
  <2>1. CASE w = key
    <3>1. ~Held(w[1], w[2])
      BY <1>4, <1>5, <1>10, <2>1 DEF Badges
    <3>2. Deserves(m, SeatOf(m, side), code)
      BY <1>1, <1>10 DEF Badges
    <3> QED
      BY <1>4, <1>5, <1>10, <1>11, <2>1, <3>1, <3>2
  <2>2. CASE w # key
    <3>1. w \in tx[m].won /\ w \in LockKeys
      BY <1>3, <1>5, <2>2, TransactionFields DEF LockKeys
    <3>2. owner[w] = m /\ ~Held(w[1], w[2]) /\ Deserves(m, w[1], w[2])
      BY <1>10, <3>1 DEF Badges
    <3> QED
      BY <1>10, <1>11, <2>2, <3>1, <3>2
  <2> QED
    BY <2>1, <2>2
<1>13. (\A s \in Sides : tx[m].pc = "award" /\ tx[m].side = s =>
                           \A c \in tx[m].todo : Deserves(m, SeatOf(m, s), c))'
  <2> SUFFICES ASSUME NEW s \in Sides, tx'[m].pc = "award", tx'[m].side = s, NEW c \in todo
               PROVE  Deserves(m, SeatOf(m, s), c)'
    BY <1>9
  <2>1. s = side
    BY <1>9, WhereAwarding
  <2>2. Deserves(m, SeatOf(m, side), c)
    BY <1>1, <1>6, <1>10 DEF Badges
  <2> QED
    BY <1>10, <2>1, <2>2
<1>14. ASSUME RatedPair(m), "contender" \notin Switched, NEW s \in Sides,
              Gathered(m, s)', After(m, s).wins >= Milestone
       PROVE  \/ <<SeatOf(m, s), "contender">> \in won
              \/ Held(SeatOf(m, s), "contender")
              \/ tx'[m].pc = "award" /\ tx'[m].side = s /\ "contender" \in todo
  <2>1. Gathered(m, s)
    BY <1>1, <1>9, <1>14 DEF Gathered, Awarding, Seated, Sides
  <2>2. \/ <<SeatOf(m, s), "contender">> \in tx[m].won
        \/ Held(SeatOf(m, s), "contender")
        \/ side = s /\ "contender" \in tx[m].todo
    BY <1>1, <1>10, <1>14, <2>1 DEF Badges
  <2>3. CASE side = s /\ "contender" \in tx[m].todo /\ code = "contender"
    BY <1>5, <2>3 DEF key
  <2>4. CASE side = s /\ "contender" \in tx[m].todo /\ code # "contender"
    <3>1. "contender" \in todo
      BY <1>6, <2>4
    <3>2. tx'[m].pc = "award" /\ tx'[m].side = side
      BY <1>9, <3>1 DEF Awarding, Seated
    <3> QED
      BY <2>4, <3>1, <3>2
  <2> QED
    BY <1>5, <2>2, <2>3, <2>4
<1>15. (RatedPair(m) /\ "contender" \notin Switched =>
         \A s \in Sides :
           Gathered(m, s) /\ After(m, s).wins >= Milestone =>
             \/ <<SeatOf(m, s), "contender">> \in tx[m].won
             \/ Held(SeatOf(m, s), "contender")
             \/ tx[m].pc = "award" /\ tx[m].side = s /\ "contender" \in tx[m].todo)'
  BY <1>9, <1>10, <1>14 DEF Sides
<1>16. (tx[m].pc \in {"lock", "upsert"} => tx[m].side = "light")'
  BY <1>9, WhereAwarding
<1>17. Badges(m)'
  BY <1>12, <1>13, <1>15, <1>16 DEF Badges
<1> QED
  BY <1>1, <1>8, <1>11, <1>17, WholeStepOfOne

-----------------------------------------------------------------------------
(* The commit. *)

\* What is known when a transaction commits.
LEMMA AtCommit ==
  ASSUME WholeInduction, NEW m \in Matches, Commit(m)
  PROVE  /\ tx[m] \in Transactions /\ Runs(m) /\ Badges(m) /\ tx[m].pc = "commit"
         /\ rows[m].status = "active" /\ rows'[m].status = "completed"
         /\ rows'[m].result = tx[m].result /\ rows'[m].reason = tx[m].reason
         /\ rows' = Seen(m)
         /\ \A n \in Matches \ {m} : rows'[n] = rows[n]
         /\ RowsGrow
         /\ RatedPair(m) => changes' = changes \cup {Change(m, "light"), Change(m, "dark")}
         /\ RatedPair(m) => counted' = {c \in counted : c.user \notin tx[m].missing}
                                        \cup {Change(m, "light"), Change(m, "dark")}
         /\ ~RatedPair(m) => changes' = changes /\ counted' = counted
         /\ \A s \in Sides : Change(m, s) \notin changes
<1>1. tx[m].pc = "commit" /\ rows' = Seen(m)
      /\ changes' = changes \cup Audit(m)
      /\ counted' = {c \in counted : c.user \notin tx[m].missing} \cup Audit(m)
  BY DEF Commit
<1>2. tx[m] \in Transactions /\ tx[m] # NoTransaction
  BY <1>1, IdleIsIdle, TransactionFields DEF WholeInduction, Assured, BookInduction, Steps
<1>3. Runs(m) /\ Badges(m) /\ rows[m].status = "active"
  BY <1>2 DEF WholeInduction, Assured, BookInduction, Runs
<1>4. /\ rows'[m].status = "completed"
      /\ rows'[m].result = tx[m].result /\ rows'[m].reason = tx[m].reason
      /\ \A n \in Matches \ {m} : rows'[n] = rows[n]
  BY <1>1 DEF Seen, WholeInduction, Assured, BookInduction, Typed
<1>5. RowsGrow
  BY <1>3, <1>4 DEF RowsGrow
<1>6. Audit(m) = IF RatedPair(m) THEN {Change(m, "light"), Change(m, "dark")} ELSE {}
  BY DEF Audit, Sides
<1>7. ~RatedPair(m) => changes' = changes /\ counted' = counted
  <2>1. ~RatedPair(m) => tx[m].missing = {}
    BY <1>3 DEF Runs
  <2> QED
    BY <1>1, <1>6, <2>1
<1>8. ASSUME NEW s \in Sides
      PROVE  Change(m, s) \notin changes
  <2>1. Change(m, s).match = m
    BY DEF Change
  <2> QED
    BY <1>3, <2>1 DEF WholeInduction, Tables, AuditTyped
<1> QED
  BY <1>1, <1>2, <1>3, <1>4, <1>5, <1>6, <1>7, <1>8

\* The audit rows of a commit, field by field.
LEMMA ChangeFields ==
  ASSUME WholeInduction, NEW m \in Matches, Commit(m), RatedPair(m), NEW s \in Sides
  PROVE  /\ Change(m, s).match = m /\ Change(m, s).side = s /\ Change(m, s).user = SeatOf(m, s)
         /\ Change(m, s).before \in Nat /\ Change(m, s).after \in Nat
         /\ Change(m, s).before = tx[m].read[s].rating
         /\ Change(m, s).opponentBefore = tx[m].read[Other(s)].rating
         /\ Change(m, s).outcome = OutcomeOf(tx[m].result, s)
         /\ Change(m, s).outcome \in Outcomes
         /\ Change(m, s).unseen <=> SeatOf(m, s) \in tx[m].missing
<1>1. /\ Change(m, s).match = m /\ Change(m, s).side = s /\ Change(m, s).user = SeatOf(m, s)
      /\ Change(m, s).before = tx[m].read[s].rating
      /\ Change(m, s).opponentBefore = tx[m].read[Other(s)].rating
      /\ Change(m, s).outcome = OutcomeOf(tx[m].result, s)
      /\ Change(m, s).after = NextRating(tx[m].read[s].rating, tx[m].read[Other(s)].rating,
                                         OutcomeOf(tx[m].result, s))
      /\ Change(m, s).unseen <=> SeatOf(m, s) \in tx[m].missing
  BY DEF Change
<1>2. tx[m].read \in [Sides -> RatingRows] /\ Other(s) \in Sides
  BY AtCommit, TransactionFields DEF Other, Sides
<1>3. tx[m].read[s].rating \in Nat /\ tx[m].read[Other(s)].rating \in Nat
  BY <1>2 DEF RatingRows
<1>4. OutcomeOf(tx[m].result, s) \in Outcomes
  BY OutcomesAreOutcomes
<1>5. NextRating(tx[m].read[s].rating, tx[m].read[Other(s)].rating, OutcomeOf(tx[m].result, s)) \in Nat
  BY <1>3, <1>4, RatingsStayWhole DEF WholeInduction, Assured
<1> QED
  BY <1>1, <1>3, <1>4, <1>5

LEMMA AuditGrows ==
  ASSUME WholeInduction, NEW m \in Matches, Commit(m)
  PROVE  AuditTyped'
<1>1. IsFiniteSet(changes')
  <2>1. IsFiniteSet({Change(m, "light")}) /\ IsFiniteSet({Change(m, "dark")})
    BY FS_Singleton
  <2>2. IsFiniteSet(changes)
    BY DEF WholeInduction, Tables, AuditTyped
  <2>3. IsFiniteSet((changes \cup {Change(m, "light")}) \cup {Change(m, "dark")})
    BY <2>1, <2>2, FS_Union
  <2>4. changes' = changes \/ changes' = (changes \cup {Change(m, "light")}) \cup {Change(m, "dark")}
    BY AtCommit
  <2> QED
    BY <2>2, <2>3, <2>4
<1>2. ASSUME NEW c \in changes'
      PROVE  /\ c.match \in Matches /\ RatedPair(c.match) /\ rows'[c.match].status = "completed"
             /\ c.side \in Sides /\ c.user = SeatOf(c.match, c.side)
             /\ c.before \in Nat /\ c.after \in Nat /\ c.outcome \in Outcomes
  <2>1. CASE c \in changes
    BY <2>1, AtCommit DEF WholeInduction, Tables, AuditTyped, RowsGrow
  <2>2. CASE c \notin changes
    <3>1. PICK s \in Sides : RatedPair(m) /\ c = Change(m, s)
      BY <2>2, AtCommit DEF Sides
    <3> QED
      BY <3>1, AtCommit, ChangeFields
  <2> QED
    BY <2>1, <2>2
<1> QED
  BY <1>1, <1>2 DEF AuditTyped

\* A commit adds one to the counts of both players and nothing to anybody else's; an account
\* that starts over counts this match alone.
LEMMA EntryCounts ==
  ASSUME WholeInduction, NEW m \in Matches, Commit(m), NEW u, NEW outcomes
  PROVE  /\ CountOf(u, outcomes) \in Nat
         /\ \A s \in Sides : RatedPair(m) /\ u = SeatOf(m, s) =>
              CountOf(u, outcomes)' =
                (IF u \in tx[m].missing THEN 0 ELSE CountOf(u, outcomes))
                + (IF OutcomeOf(tx[m].result, s) \in outcomes THEN 1 ELSE 0)
         /\ (RatedPair(m) => \A s \in Sides : u # SeatOf(m, s))
              => CountOf(u, outcomes)' = CountOf(u, outcomes)
<1> DEFINE mine == {c \in counted : c.user = u /\ c.outcome \in outcomes}
           kept == IF u \in tx[m].missing THEN {} ELSE mine
           then == {c \in counted' : c.user = u /\ c.outcome \in outcomes}
<1>1. CountOf(u, outcomes) = Cardinality(mine) /\ CountOf(u, outcomes)' = Cardinality(then)
  BY DEF CountOf
<1>2. IsFiniteSet(mine)
  BY FS_Subset DEF WholeInduction, Tables, AuditTyped, AuditTells
<1>3. CountOf(u, outcomes) \in Nat
  BY <1>1, <1>2, FS_CardinalityType
<1>4. IsFiniteSet(kept)
      /\ Cardinality(kept) = IF u \in tx[m].missing THEN 0 ELSE CountOf(u, outcomes)
  BY <1>1, <1>2, FS_EmptySet
<1>5. ASSUME NEW s \in Sides, RatedPair(m), u = SeatOf(m, s)
      PROVE  CountOf(u, outcomes)' =
               (IF u \in tx[m].missing THEN 0 ELSE CountOf(u, outcomes))
               + (IF OutcomeOf(tx[m].result, s) \in outcomes THEN 1 ELSE 0)
  <2>1. /\ counted' = {c \in counted : c.user \notin tx[m].missing}
                      \cup {Change(m, "light"), Change(m, "dark")}
        /\ Change(m, s) \notin counted
    BY <1>5, AtCommit DEF WholeInduction, Tables, AuditTells
  <2>2. SeatOf(m, "light") # SeatOf(m, "dark")
    BY <1>5 DEF WholeInduction, Assured, RatingsConstants
  <2>3. /\ Change(m, s).user = u /\ Change(m, s).outcome = OutcomeOf(tx[m].result, s)
        /\ \A r \in Sides : r # s => Change(m, r).user # u
    BY <1>5, <2>2, ChangeFields DEF Sides
  <2>4. \A c \in {Change(m, "light"), Change(m, "dark")} : c.user = u => c = Change(m, s)
    BY <2>3 DEF Sides
  <2>5. then = kept \cup (IF OutcomeOf(tx[m].result, s) \in outcomes THEN {Change(m, s)} ELSE {})
    <3>1. CASE u \in tx[m].missing
      BY <2>1, <2>3, <2>4, <3>1 DEF Sides
    <3>2. CASE u \notin tx[m].missing
      BY <2>1, <2>3, <2>4, <3>2 DEF Sides
    <3> QED
      BY <3>1, <3>2
  <2>6. CASE OutcomeOf(tx[m].result, s) \in outcomes
    <3>1. then = kept \cup {Change(m, s)} /\ Change(m, s) \notin kept
      BY <2>1, <2>5, <2>6
    <3> QED
      BY <1>1, <1>4, <2>6, <3>1, FS_AddElement
  <2>7. CASE OutcomeOf(tx[m].result, s) \notin outcomes
    <3>1. then = kept
      BY <2>5, <2>7
    <3>2. CountOf(u, outcomes)' = Cardinality(kept) /\ Cardinality(kept) \in Nat
      BY <1>1, <1>4, <3>1, FS_CardinalityType
    <3> HIDE DEF kept
    <3> QED
      BY <1>4, <2>7, <3>2
  <2> QED
    BY <2>6, <2>7
<1>6. ASSUME RatedPair(m) => \A s \in Sides : u # SeatOf(m, s)
      PROVE  CountOf(u, outcomes)' = CountOf(u, outcomes)
  <2>1. u \notin tx[m].missing
    BY <1>6, AtCommit DEF Runs, Pair
  <2>2. then = mine
    BY <1>6, <2>1, AtCommit, ChangeFields DEF Sides
  <2> QED
    BY <1>1, <2>2
<1> QED
  BY <1>3, <1>5, <1>6

\* What the ratings say after a commit: the new row of a player, the old one of anybody else.
LEMMA RatingsAfterCommit ==
  ASSUME WholeInduction, NEW m \in Matches, Commit(m), NEW u \in Accounts
  PROVE  /\ \A s \in Sides : RatedPair(m) /\ u = SeatOf(m, s) =>
              /\ ratings'[u] = After(m, s) /\ ratings'[u] # Unrated
              /\ After(m, s) \in RatingRows /\ tx[m].read[s] = Standing(u, tx[m].missing)
         /\ (RatedPair(m) => \A s \in Sides : u # SeatOf(m, s)) => ratings'[u] = ratings[u]
<1>1. ratings'[u] = RatingSeen(m, u) /\ tx[m].pc = "commit"
  BY DEF Commit
<1>2. RatingsConstants /\ ExpectedIsWhole /\ BookInduction /\ Unrated \notin RatingRows
  BY DEF WholeInduction, Assured, RatingsConstants
<1> QED
  BY <1>1, <1>2, SeesWhatItWrote

LEMMA StandingsAreRows ==
  ASSUME Assured, NEW u \in Accounts, NEW missing
  PROVE  Standing(u, missing) \in RatingRows /\ OpeningOf(u) \in RatingRows
  BY StartingRow DEF Assured, BookInduction, Typed, RatingsConstants, Aggregates, Standing, OpeningOf

\* What the audit adds up to for an account, one figure at a time.
LEMMA ReckonedAfterCommit ==
  ASSUME WholeInduction, NEW m \in Matches, Commit(m), NEW u \in Accounts
  PROVE  (LET now == IF ratings[u] = Unrated THEN StartingAggregate ELSE ratings[u]
          IN  /\ now.games  = OpeningOf(u).games  + CountOf(u, Outcomes)
              /\ now.wins   = OpeningOf(u).wins   + CountOf(u, {"win"})
              /\ now.losses = OpeningOf(u).losses + CountOf(u, {"loss"})
              /\ now.draws  = OpeningOf(u).draws  + CountOf(u, {"draw"}))'
<1> DEFINE missing == tx[m].missing
           before(n) == IF u \in missing THEN 0 ELSE n
<1>1. /\ Standing(u, {}).games  = OpeningOf(u).games  + CountOf(u, Outcomes)
      /\ Standing(u, {}).wins   = OpeningOf(u).wins   + CountOf(u, {"win"})
      /\ Standing(u, {}).losses = OpeningOf(u).losses + CountOf(u, {"loss"})
      /\ Standing(u, {}).draws  = OpeningOf(u).draws  + CountOf(u, {"draw"})
  BY DEF WholeInduction, Tables, ReplayReproduces, Standing
<1>2. /\ OpeningOf(u).games \in Nat /\ OpeningOf(u).wins \in Nat
      /\ OpeningOf(u).losses \in Nat /\ OpeningOf(u).draws \in Nat
  BY StandingsAreRows DEF WholeInduction, RatingRows
<1>3. /\ CountOf(u, Outcomes) \in Nat /\ CountOf(u, {"win"}) \in Nat
      /\ CountOf(u, {"loss"}) \in Nat /\ CountOf(u, {"draw"}) \in Nat
  BY EntryCounts
<1>4. /\ Standing(u, missing).games  = OpeningOf(u).games  + before(CountOf(u, Outcomes))
      /\ Standing(u, missing).wins   = OpeningOf(u).wins   + before(CountOf(u, {"win"}))
      /\ Standing(u, missing).losses = OpeningOf(u).losses + before(CountOf(u, {"loss"}))
      /\ Standing(u, missing).draws  = OpeningOf(u).draws  + before(CountOf(u, {"draw"}))
  <2>1. CASE u \in missing
    <3>1. Opening[u] = Unrated
      BY <2>1, AtCommit DEF Runs
    <3>2. Standing(u, missing) = OpeningOf(u)
      BY <2>1, <3>1 DEF Standing, OpeningOf
    <3> QED
      BY <1>2, <2>1, <3>2
  <2>2. CASE u \notin missing
    <3>1. Standing(u, missing) = Standing(u, {})
      BY <2>2 DEF Standing
    <3> QED
      BY <1>1, <2>2, <3>1
  <2> QED
    BY <2>1, <2>2
<1>5. /\ before(CountOf(u, Outcomes)) \in Nat /\ before(CountOf(u, {"win"})) \in Nat
      /\ before(CountOf(u, {"loss"})) \in Nat /\ before(CountOf(u, {"draw"})) \in Nat
  BY <1>3
<1>6. ASSUME NEW s \in Sides, RatedPair(m), u = SeatOf(m, s)
      PROVE  /\ Standing(u, {})'.games  = OpeningOf(u).games  + CountOf(u, Outcomes)'
             /\ Standing(u, {})'.wins   = OpeningOf(u).wins   + CountOf(u, {"win"})'
             /\ Standing(u, {})'.losses = OpeningOf(u).losses + CountOf(u, {"loss"})'
             /\ Standing(u, {})'.draws  = OpeningOf(u).draws  + CountOf(u, {"draw"})'
  <2> DEFINE o == OutcomeOf(tx[m].result, s)
  <2>1. Standing(u, {})' = After(m, s) /\ tx[m].read[s] = Standing(u, missing)
    BY <1>6, RatingsAfterCommit DEF Standing
  <2>2. /\ o \in Outcomes
        /\ After(m, s).games = Standing(u, missing).games + 1
        /\ After(m, s).wins = Standing(u, missing).wins + (IF o = "win" THEN 1 ELSE 0)
        /\ After(m, s).losses = Standing(u, missing).losses + (IF o = "loss" THEN 1 ELSE 0)
        /\ After(m, s).draws = Standing(u, missing).draws + (IF o = "draw" THEN 1 ELSE 0)
    BY <2>1, AfterIsARow, AtCommit, TransactionFields DEF WholeInduction, Assured, BookInduction
  <2>3. /\ CountOf(u, Outcomes)' = before(CountOf(u, Outcomes)) + (IF o \in Outcomes THEN 1 ELSE 0)
        /\ CountOf(u, {"win"})' = before(CountOf(u, {"win"})) + (IF o \in {"win"} THEN 1 ELSE 0)
        /\ CountOf(u, {"loss"})' = before(CountOf(u, {"loss"})) + (IF o \in {"loss"} THEN 1 ELSE 0)
        /\ CountOf(u, {"draw"})' = before(CountOf(u, {"draw"})) + (IF o \in {"draw"} THEN 1 ELSE 0)
    BY <1>6, EntryCounts
  <2> HIDE DEF o, before, missing
  <2>4. Standing(u, {})'.games = OpeningOf(u).games + CountOf(u, Outcomes)'
    BY <1>2, <1>4, <1>5, <2>1, <2>2, <2>3
  <2>5. Standing(u, {})'.wins = OpeningOf(u).wins + CountOf(u, {"win"})'
    BY <1>2, <1>4, <1>5, <2>1, <2>2, <2>3
  <2>6. Standing(u, {})'.losses = OpeningOf(u).losses + CountOf(u, {"loss"})'
    BY <1>2, <1>4, <1>5, <2>1, <2>2, <2>3
  <2>7. Standing(u, {})'.draws = OpeningOf(u).draws + CountOf(u, {"draw"})'
    BY <1>2, <1>4, <1>5, <2>1, <2>2, <2>3
  <2> QED
    BY <2>4, <2>5, <2>6, <2>7
<1>7. ASSUME RatedPair(m) => \A s \in Sides : u # SeatOf(m, s)
      PROVE  /\ Standing(u, {})'.games  = OpeningOf(u).games  + CountOf(u, Outcomes)'
             /\ Standing(u, {})'.wins   = OpeningOf(u).wins   + CountOf(u, {"win"})'
             /\ Standing(u, {})'.losses = OpeningOf(u).losses + CountOf(u, {"loss"})'
             /\ Standing(u, {})'.draws  = OpeningOf(u).draws  + CountOf(u, {"draw"})'
  <2>1. Standing(u, {})' = Standing(u, {})
    BY <1>7, RatingsAfterCommit DEF Standing
  <2>2. /\ CountOf(u, Outcomes)' = CountOf(u, Outcomes)
        /\ CountOf(u, {"win"})' = CountOf(u, {"win"})
        /\ CountOf(u, {"loss"})' = CountOf(u, {"loss"})
        /\ CountOf(u, {"draw"})' = CountOf(u, {"draw"})
    BY <1>7, EntryCounts
  <2> QED
    BY <1>1, <2>1, <2>2
<1>8. OpeningOf(u)' = OpeningOf(u)
  BY DEF OpeningOf
<1> QED
  BY <1>6, <1>7, <1>8 DEF Standing

\* After a commit whoever it rates has a row, and those it found without one are in its audit.
LEMMA AuditTellsAfterCommit ==
  ASSUME WholeInduction, NEW m \in Matches, Commit(m)
  PROVE  AuditTells'
<1>1. counted' \subseteq changes'
  BY AtCommit DEF WholeInduction, Tables, AuditTells
<1>2. ASSUME NEW u \in Accounts, ratings[u] # Unrated
      PROVE  ratings'[u] # Unrated
  BY <1>2, RatingsAfterCommit
<1>3. ASSUME NEW c \in changes'
      PROVE  ratings'[c.user] # Unrated
  <2>1. CASE c \in changes
    <3>1. c.user \in Accounts /\ ratings[c.user] # Unrated
      BY <2>1, SeatKeys DEF WholeInduction, Tables, AuditTyped, AuditTells
    <3> QED
      BY <1>2, <3>1
  <2>2. CASE c \notin changes
    <3>1. PICK s \in Sides : RatedPair(m) /\ c = Change(m, s)
      BY <2>2, AtCommit DEF Sides
    <3>2. c.user = SeatOf(m, s) /\ SeatOf(m, s) \in Accounts
      BY <3>1, ChangeFields, SeatKeys
    <3> QED
      BY <3>1, <3>2, RatingsAfterCommit
  <2> QED
    BY <2>1, <2>2
<1>4. ASSUME NEW u \in Accounts, Opening[u] = Unrated, ratings'[u] # Unrated
      PROVE  \E d \in changes' : d.user = u /\ d.unseen
  <2>1. CASE ratings[u] # Unrated
    <3>1. PICK d \in changes : d.user = u /\ d.unseen
      BY <1>4, <2>1 DEF WholeInduction, Tables, AuditTells
    <3>2. d \in changes'
      BY AtCommit
    <3> QED
      BY <3>1, <3>2
  <2>2. CASE ratings[u] = Unrated
    <3>1. PICK s \in Sides : RatedPair(m) /\ u = SeatOf(m, s)
      BY <1>4, <2>2, RatingsAfterCommit
    <3>2. u \in tx[m].missing
      <4>1. ReadTrue(m, s)
        BY <3>1, AtCommit DEF Runs
      <4> QED
        BY <2>2, <3>1, <4>1 DEF ReadTrue
    <3>3. Change(m, s) \in changes' /\ Change(m, s).user = u /\ Change(m, s).unseen
      BY <3>1, <3>2, AtCommit, ChangeFields DEF Sides
    <3> QED
      BY <3>3
  <2> QED
    BY <2>1, <2>2
<1> QED
  BY <1>1, <1>3, <1>4 DEF AuditTells

LEMMA ReplayAfterCommit ==
  ASSUME WholeInduction, NEW m \in Matches, Commit(m)
  PROVE  ReplayReproduces'
<1>1. ASSUME NEW u \in Accounts
      PROVE  (LET now == IF ratings[u] = Unrated THEN StartingAggregate ELSE ratings[u]
              IN  /\ now.games  = OpeningOf(u).games  + CountOf(u, Outcomes)
                  /\ now.wins   = OpeningOf(u).wins   + CountOf(u, {"win"})
                  /\ now.losses = OpeningOf(u).losses + CountOf(u, {"loss"})
                  /\ now.draws  = OpeningOf(u).draws  + CountOf(u, {"draw"}))'
  BY ReckonedAfterCommit
<1>2. ASSUME NEW c \in changes' \ counted'
      PROVE  \E d, e \in changes' :
               d.match # e.match /\ d.user = c.user /\ e.user = c.user /\ d.unseen /\ e.unseen
  <2>1. c \in changes /\ changes \subseteq changes'
    BY AtCommit
  <2>2. CASE c \notin counted
    BY <2>1, <2>2 DEF WholeInduction, Tables, ReplayReproduces
  <2>3. CASE c \in counted
    <3>1. c.user \in tx[m].missing
      BY <2>3, AtCommit
    <3>2. RatedPair(m) /\ c.user \in Pair(m) /\ Opening[c.user] = Unrated
      BY <3>1, AtCommit DEF Runs
    <3>3. PICK s \in Sides : SeatOf(m, s) = c.user
      BY <3>2 DEF Pair
    <3>4. PICK d \in changes : d.user = c.user /\ d.unseen
      <4>1. c.user \in Accounts /\ ratings[c.user] # Unrated
        BY <2>1, <3>2, <3>3, SeatKeys DEF WholeInduction, Tables, AuditTells
      <4> QED
        BY <3>2, <4>1 DEF WholeInduction, Tables, AuditTells
    <3>5. d.match # m
      BY <3>4, AtCommit DEF WholeInduction, Tables, AuditTyped
    <3>6. /\ Change(m, s) \in changes' /\ Change(m, s).user = c.user /\ Change(m, s).unseen
          /\ Change(m, s).match = m
      BY <3>1, <3>2, <3>3, AtCommit, ChangeFields DEF Sides
    <3> QED
      BY <2>1, <3>4, <3>5, <3>6
  <2> QED
    BY <2>2, <2>3
<1> QED
  BY <1>1, <1>2 DEF ReplayReproduces

LEMMA ResultsAfterCommit ==
  ASSUME WholeInduction, NEW m \in Matches, Commit(m)
  PROVE  ResultsCarryRatings'
<1> DEFINE of(n, side) == {c \in changes : c.match = n /\ c.side = side}
           then(n, side) == {c \in changes' : c.match = n /\ c.side = side}
           Carried(n, l, d) ==
             /\ l.opponentBefore = d.before /\ d.opponentBefore = l.before
             /\ l.outcome = OutcomeOf(rows'[n].result, "light")
             /\ d.outcome = OutcomeOf(rows'[n].result, "dark")
<1>1. \A n \in Matches :
        IF rows[n].status = "completed" /\ RatedPair(n)
        THEN \E l \in of(n, "light"), d \in of(n, "dark") :
               /\ of(n, "light") = {l} /\ of(n, "dark") = {d}
               /\ l.opponentBefore = d.before /\ d.opponentBefore = l.before
               /\ l.outcome = OutcomeOf(rows[n].result, "light")
               /\ d.outcome = OutcomeOf(rows[n].result, "dark")
        ELSE of(n, "light") \cup of(n, "dark") = {}
  BY DEF WholeInduction, Tables, ResultsCarryRatings
<1>2. ASSUME NEW n \in Matches
      PROVE  IF rows'[n].status = "completed" /\ RatedPair(n)
             THEN \E l \in then(n, "light"), d \in then(n, "dark") :
                    then(n, "light") = {l} /\ then(n, "dark") = {d} /\ Carried(n, l, d)
             ELSE then(n, "light") \cup then(n, "dark") = {}
  <2>1. CASE n # m
    <3>1. \A side : then(n, side) = of(n, side)
      <4>1. \A c \in changes' : c \in changes \/ c.match = m
        BY AtCommit, ChangeFields DEF Sides
      <4>2. changes \subseteq changes'
        BY AtCommit
      <4> QED
        BY <2>1, <4>1, <4>2
    <3>2. rows'[n] = rows[n]
      BY <2>1, AtCommit
    <3> QED
      BY <1>1, <3>1, <3>2
  <2>2. CASE n = m /\ RatedPair(m)
    <3> DEFINE l == Change(m, "light")
               d == Change(m, "dark")
    <3>1. /\ l.match = m /\ l.side = "light" /\ d.match = m /\ d.side = "dark"
          /\ l.opponentBefore = d.before /\ d.opponentBefore = l.before
          /\ l.outcome = OutcomeOf(tx[m].result, "light")
          /\ d.outcome = OutcomeOf(tx[m].result, "dark")
      BY <2>2, ChangeFields DEF Sides, Other
    <3>2. changes' = changes \cup {l, d} /\ \A c \in changes : c.match # m
      BY <2>2, AtCommit DEF WholeInduction, Tables, AuditTyped
    <3> HIDE DEF l, d
    <3>3. then(m, "light") = {l} /\ then(m, "dark") = {d}
      BY <3>1, <3>2
    <3>4. Carried(m, l, d)
      BY <3>1, AtCommit
    <3>5. rows'[m].status = "completed"
      BY AtCommit
    <3> HIDE DEF then, Carried
    <3> QED
      BY <2>2, <3>3, <3>4, <3>5
  <2>3. CASE n = m /\ ~RatedPair(m)
    BY <1>1, <2>3, AtCommit
  <2> QED
    BY <2>1, <2>2, <2>3
<1> QED
  BY <1>2 DEF ResultsCarryRatings

\* The badges a commit adds.
LEMMA AwardsAfterCommit ==
  ASSUME WholeInduction, NEW m \in Matches, Commit(m)
  PROVE  /\ \A a \in awards' : a \in awards
               \/ \E w \in tx[m].won : a = [user |-> w[1], code |-> w[2], match |-> m]
         /\ awards \subseteq awards'
         /\ \A w \in tx[m].won : [user |-> w[1], code |-> w[2], match |-> m] \in awards'
         /\ \A w \in tx[m].won : /\ w = <<w[1], w[2]>> /\ w[1] \in Accounts /\ w[2] \in Codes
                                 /\ ~Held(w[1], w[2]) /\ Deserves(m, w[1], w[2]) /\ owner[w] = m
<1>1. awards' = awards \cup {[user |-> w[1], code |-> w[2], match |-> m] : w \in tx[m].won}
  BY DEF Commit
<1>2. tx[m].won \subseteq Accounts \X Codes /\ Badges(m)
  BY AtCommit, TransactionFields
<1> QED
  BY <1>1, <1>2 DEF Badges

\* What is true of the committed matches stays true; what a transaction saw is committed.
LEMMA WinsAfterCommit ==
  ASSUME WholeInduction, NEW m \in Matches, Commit(m), NEW u
  PROVE  /\ Wins(u) \subseteq Wins(u)' /\ Wins(u)' = WonBy(m, u)
         /\ {n \in Matches : rows'[n].status = "completed" /\ \E s \in Sides : SeatOf(n, s) = u}
              = Played(m, u)
<1>1. Wins(u) \subseteq Wins(u)'
  BY AtCommit DEF RowsGrow, Wins
<1>2. Wins(u)' = WonBy(m, u)
  BY AtCommit DEF Wins, WonBy, Played
<1> QED
  BY <1>1, <1>2, AtCommit DEF Played

LEMMA DesertsAfterCommit ==
  ASSUME WholeInduction, NEW m \in Matches, Commit(m)
  PROVE  AwardsTyped' /\ AwardsAreDeserved'
<1>1. AwardsTyped'
  BY AwardsAfterCommit DEF WholeInduction, Tables, AwardsTyped
<1> DEFINE Sat(u) == {n \in Matches : rows[n].status = "completed"
                                      /\ \E s \in Sides : SeatOf(n, s) = u}
           SatThen(u) == {n \in Matches : rows'[n].status = "completed"
                                          /\ \E s \in Sides : SeatOf(n, s) = u}
<1>2. ASSUME NEW a \in awards'
      PROVE  /\ rows'[a.match].status = "completed"
             /\ \E s \in Sides : SeatOf(a.match, s) = a.user
             /\ a.code = "first-victory" => Wins(a.user)' # {}
             /\ a.code = "getting-started" => Cardinality(SatThen(a.user)) >= Milestone
             /\ a.code = "time-keeper" => a.match \in Wins(a.user)' /\ rows'[a.match].reason = "timeout"
             /\ a.code = "four-ways" => Categories \subseteq UNION {Card[n].lines : n \in Wins(a.user)'}
  <2>1. PICK u : u = a.user
    OBVIOUS
  <2>2. CASE a \in awards
    <3>1. /\ a.match \in Matches /\ rows[a.match].status = "completed"
          /\ \E s \in Sides : SeatOf(a.match, s) = u
          /\ a.code = "first-victory" => Wins(u) # {}
          /\ a.code = "getting-started" => Cardinality(Sat(u)) >= Milestone
          /\ a.code = "time-keeper" => a.match \in Wins(u) /\ rows[a.match].reason = "timeout"
          /\ a.code = "four-ways" => Categories \subseteq UNION {Card[n].lines : n \in Wins(u)}
      BY <2>1, <2>2 DEF WholeInduction, Tables, AwardsTyped, AwardsAreDeserved
    <3>2. Wins(u) \subseteq Wins(u)'
      BY WinsAfterCommit
    <3>3. RowsGrow
      BY AtCommit
    <3>4. Sat(u) \subseteq SatThen(u) /\ SatThen(u) \subseteq Matches
      BY <3>3 DEF RowsGrow
    <3>5. IsFiniteSet(Matches) /\ Milestone \in Nat
      BY DEF WholeInduction, Assured, RatingsConstants
    <3> HIDE DEF Sat, SatThen
    <3>6. Cardinality(Sat(u)) <= Cardinality(SatThen(u)) /\ Cardinality(Sat(u)) \in Nat
          /\ Cardinality(SatThen(u)) \in Nat
      BY <3>4, <3>5, FS_Subset, FS_CardinalityType
    <3>7. a.code = "getting-started" => Cardinality(SatThen(u)) >= Milestone
      BY <3>1, <3>5, <3>6
    <3> QED
      BY <2>1, <3>1, <3>2, <3>3, <3>7 DEF RowsGrow
  <2>3. CASE a \notin awards
    <3>1. PICK w \in tx[m].won : a = [user |-> w[1], code |-> w[2], match |-> m]
      BY <2>3, AwardsAfterCommit
    <3>2. a.match = m /\ a.user = w[1] /\ a.code = w[2] /\ w[1] = u
      BY <2>1, <3>1
    <3>3. Deserves(m, u, a.code)
      BY <3>2, AwardsAfterCommit
    <3>4. Wins(u)' = WonBy(m, u) /\ SatThen(u) = Played(m, u)
      BY WinsAfterCommit
    <3>5. /\ rows'[m].status = "completed" /\ rows'[m].result = tx[m].result
          /\ rows'[m].reason = tx[m].reason
      BY AtCommit
    <3> HIDE DEF SatThen
    <3>6. a.code = "time-keeper" => m \in Wins(u)' /\ rows'[m].reason = "timeout"
      BY <3>3, <3>5 DEF Deserves, Wins
    <3> QED
      BY <2>1, <3>2, <3>3, <3>4, <3>5, <3>6 DEF Deserves
  <2> QED
    BY <2>2, <2>3
<1>3. ASSUME NEW a \in awards', NEW b \in awards', b.user = a.user, b.code = a.code
      PROVE  b = a
  <2>1. ASSUME NEW x \in awards, NEW w \in tx[m].won, x.user = w[1], x.code = w[2]
        PROVE  FALSE
    BY <2>1, AwardsAfterCommit DEF Held
  <2>2. CASE a \in awards /\ b \in awards
    BY <1>3, <2>2 DEF WholeInduction, Tables, AwardsAreDeserved
  <2>3. CASE a \notin awards /\ b \notin awards
    <3>1. PICK w \in tx[m].won : a = [user |-> w[1], code |-> w[2], match |-> m]
      BY <2>3, AwardsAfterCommit
    <3>2. PICK x \in tx[m].won : b = [user |-> x[1], code |-> x[2], match |-> m]
      BY <2>3, AwardsAfterCommit
    <3> QED
      BY <1>3, <3>1, <3>2
  <2>4. CASE (a \in awards /\ b \notin awards) \/ (a \notin awards /\ b \in awards)
    <3>1. PICK x \in awards, y \in awards' : y \notin awards /\ x.user = y.user /\ x.code = y.code
      BY <1>3, <2>4
    <3>2. PICK w \in tx[m].won : y = [user |-> w[1], code |-> w[2], match |-> m]
      BY <3>1, AwardsAfterCommit
    <3> QED
      BY <2>1, <3>1, <3>2
  <2> QED
    BY <2>2, <2>3, <2>4
<1>4. AwardsAreDeserved'
  BY <1>2, <1>3 DEF AwardsAreDeserved
<1> QED
  BY <1>1, <1>4

LEMMA HeldAfterCommit ==
  ASSUME WholeInduction, NEW m \in Matches, Commit(m), NEW u, NEW code
  PROVE  /\ Held(u, code) => Held(u, code)'
         /\ <<u, code>> \in tx[m].won => Held(u, code)'
         /\ Held(u, code)' => Held(u, code) \/ <<u, code>> \in tx[m].won
<1>1. Held(u, code) => Held(u, code)'
  BY AwardsAfterCommit DEF Held
<1>2. <<u, code>> \in tx[m].won => Held(u, code)'
  <2> SUFFICES ASSUME <<u, code>> \in tx[m].won
               PROVE  \E a \in awards' : a.user = u /\ a.code = code
    BY DEF Held
  <2>1. [user |-> <<u, code>>[1], code |-> <<u, code>>[2], match |-> m] \in awards'
    BY AwardsAfterCommit
  <2> QED
    BY <2>1
<1>3. Held(u, code)' => Held(u, code) \/ <<u, code>> \in tx[m].won
  <2> SUFFICES ASSUME NEW a \in awards', a.user = u, a.code = code, a \notin awards
               PROVE  <<u, code>> \in tx[m].won
    BY DEF Held
  <2>1. PICK w \in tx[m].won : a = [user |-> w[1], code |-> w[2], match |-> m]
    BY AwardsAfterCommit
  <2>2. w = <<w[1], w[2]>> /\ w[1] = u /\ w[2] = code
    BY <2>1, AwardsAfterCommit
  <2> QED
    BY <2>2
<1> QED
  BY <1>1, <1>2, <1>3

LEMMA MilestonesAfterCommit ==
  ASSUME WholeInduction, NEW m \in Matches, Commit(m)
  PROVE  MilestonesArePaid'
<1> SUFFICES ASSUME "contender" \notin Switched, NEW u \in Accounts, ratings'[u] # Unrated,
                    ratings'[u].wins >= Milestone, CountOf(u, {"win"})' > 0
             PROVE  Held(u, "contender")'
  BY DEF MilestonesArePaid
<1>1. CASE \E s \in Sides : RatedPair(m) /\ u = SeatOf(m, s)
  <2>1. PICK s \in Sides : RatedPair(m) /\ u = SeatOf(m, s)
    BY <1>1
  <2>2. After(m, s).wins >= Milestone /\ Gathered(m, s) /\ tx[m].pc = "commit" /\ Badges(m)
    BY <2>1, RatingsAfterCommit, AtCommit DEF Gathered
  <2>3. <<u, "contender">> \in tx[m].won \/ Held(u, "contender")
    BY <2>1, <2>2 DEF Badges
  <2> QED
    BY <2>3, HeldAfterCommit
<1>2. CASE ~ \E s \in Sides : RatedPair(m) /\ u = SeatOf(m, s)
  <2>1. ratings'[u] = ratings[u] /\ CountOf(u, {"win"})' = CountOf(u, {"win"})
    BY <1>2, RatingsAfterCommit, EntryCounts
  <2>2. Held(u, "contender")
    BY <2>1 DEF WholeInduction, Tables, MilestonesArePaid
  <2> QED
    BY <2>2, HeldAfterCommit
<1> QED
  BY <1>1, <1>2

LEMMA WholeCommit ==
  ASSUME WholeInduction, Assured', NEW m \in Matches, Commit(m)
  PROVE  WholeInduction'
<1>1. enabled' = enabled /\ owner' = Released(m) /\ tx' = [tx EXCEPT ![m] = NoTransaction]
  BY DEF Commit
<1>2. Tables'
  BY <1>1, AuditGrows, AuditTellsAfterCommit, DesertsAfterCommit, ReplayAfterCommit, ResultsAfterCommit,
     MilestonesAfterCommit DEF WholeInduction, Tables
<1>3. tx'[m] = NoTransaction /\ \A n \in Matches \ {m} : tx'[n] = tx[n]
  BY <1>1 DEF WholeInduction, Assured, BookInduction, Typed
<1>4. ASSUME NEW n \in Matches \ {m}, tx'[n] # NoTransaction
      PROVE  Badges(n)'
  <2>1. /\ RatingsConstants /\ Typed /\ Typed' /\ tx[n] # NoTransaction /\ Badges(n) /\ tx'[n] = tx[n]
    BY <1>3, <1>4 DEF WholeInduction, Assured, BookInduction
  <2>2. RowsGrow
    BY AtCommit
  <2>3. ASSUME NEW k \in LockKeys, owner[k] = n
        PROVE  owner'[k] = n /\ (~Held(k[1], k[2]) => ~Held(k[1], k[2])')
    <3>1. owner'[k] = n
      BY <1>1, <2>3, ReleasedLocks DEF WholeInduction, Assured
    <3>2. k = <<k[1], k[2]>>
      BY DEF LockKeys
    <3>3. k \notin tx[m].won
      BY <2>3, AwardsAfterCommit
    <3> QED
      BY <3>1, <3>2, <3>3, HeldAfterCommit
  <2>4. \A u \in Accounts : Held(u, "contender") => Held(u, "contender")'
    BY HeldAfterCommit
  <2> QED
    BY <2>1, <2>2, <2>3, <2>4, OthersKeepBadges
<1> QED
  BY <1>2, <1>3, <1>4 DEF WholeInduction

\* A step that moves no transaction.
LEMMA WholeStandsStill ==
  ASSUME WholeInduction, Assured', UNCHANGED <<rows, changes, counted, awards, tx, owner>>, Tables'
  PROVE  WholeInduction'
<1>1. ASSUME NEW n \in Matches, tx'[n] # NoTransaction
      PROVE  Badges(n)'
  <2>1. /\ RatingsConstants /\ Typed /\ Typed' /\ tx[n] # NoTransaction /\ Badges(n) /\ RowsGrow
        /\ tx'[n] = tx[n]
    BY <1>1 DEF WholeInduction, Assured, BookInduction, RowsGrow
  <2>2. \A u, code : Held(u, code)' <=> Held(u, code)
    BY DEF Held
  <2>3. \A k \in LockKeys : owner[k] = n => /\ owner'[k] = n
                                            /\ ~Held(k[1], k[2]) => ~Held(k[1], k[2])'
    BY <2>2
  <2> QED
    BY <2>1, <2>2, <2>3, OthersKeepBadges
<1> QED
  BY <1>1 DEF WholeInduction

LEMMA WholeAdminister ==
  ASSUME WholeInduction, Assured', Administer
  PROVE  WholeInduction'
<1>1. ASSUME NEW c \in Corrections, ReadForCorrection(c[1], c[2])
      PROVE  WholeInduction'
  <2>1. UNCHANGED <<rows, changes, counted, awards, ratings, enabled, tx, owner>>
    BY <1>1 DEF ReadForCorrection, ledger
  <2> QED
    BY <2>1, TablesKept, WholeStandsStill DEF WholeInduction, Tables
<1>2. ASSUME NEW c \in correction, WriteCorrection(c)
      PROVE  WholeInduction'
  <2>1. /\ UNCHANGED <<rows, changes, counted, awards, enabled, tx, owner>>
        /\ ratings' = [ratings EXCEPT ![c.user].rating = c.after]
    BY <1>2 DEF WriteCorrection
  <2>2. /\ c.user \in Accounts /\ c.after \in Nat /\ ratings[c.user] \in RatingRows
        /\ ratings \in [Accounts -> Aggregates] /\ Unrated \notin RatingRows
    BY <1>2 DEF WholeInduction, Assured, BookInduction, CorrectionsStand, Typed, Aggregates,
       RatingsConstants
  <2> DEFINE row == [ratings[c.user] EXCEPT !.rating = c.after]
  <2>3. /\ row \in RatingRows
        /\ row.games = ratings[c.user].games /\ row.wins = ratings[c.user].wins
        /\ row.losses = ratings[c.user].losses /\ row.draws = ratings[c.user].draws
    BY <2>2 DEF RatingRows
  <2>4. ratings'[c.user] = row /\ \A u \in Accounts : u # c.user => ratings'[u] = ratings[u]
    BY <2>1, <2>2
  <2> HIDE DEF row
  <2>5. \A u \in Accounts :
           /\ ratings'[u] = Unrated <=> ratings[u] = Unrated
           /\ ratings[u] # Unrated =>
                /\ ratings'[u].games = ratings[u].games /\ ratings'[u].wins = ratings[u].wins
                /\ ratings'[u].losses = ratings[u].losses /\ ratings'[u].draws = ratings[u].draws
    BY <2>2, <2>3, <2>4
  <2>6. Tables'
    BY <2>1, <2>5, TablesKept DEF WholeInduction, Tables
  <2> QED
    BY <2>1, <2>6, WholeStandsStill
<1>3. ASSUME NEW code \in Switched, SwitchAchievement(code)
      PROVE  WholeInduction'
  <2>1. /\ UNCHANGED <<rows, changes, counted, awards, ratings, tx, owner>>
        /\ enabled' = IF code \in enabled THEN enabled \ {code} ELSE enabled \cup {code}
    BY <1>3 DEF SwitchAchievement, ledger
  <2>2. Codes \ Switched \subseteq enabled'
    BY <2>1 DEF WholeInduction, Tables
  <2>3. Tables'
    BY <2>1, <2>2, TablesKept DEF WholeInduction
  <2> QED
    BY <2>1, <2>3, WholeStandsStill
<1> QED
  BY <1>1, <1>2, <1>3 DEF Administer

LEMMA WholeBegins ==
  ASSUME RatingsConstants, ExpectedIsWhole, RInit
  PROVE  WholeInduction
<1>1. Assured
  BY BookBegins DEF Assured
<1>2. changes = {} /\ counted = {} /\ awards = {} /\ enabled = Codes /\ ratings = Opening
      /\ \A m \in Matches : tx[m] = NoTransaction /\ rows[m].status = "active"
  BY DEF RInit
<1>3. AuditTyped /\ AuditTells /\ AwardsTyped /\ AwardsAreDeserved /\ ResultsCarryRatings
  BY <1>2, FS_EmptySet DEF AuditTyped, AuditTells, AwardsTyped, AwardsAreDeserved, ResultsCarryRatings
<1>4. \A u, outcomes : CountOf(u, outcomes) = 0
  <2> SUFFICES ASSUME NEW u, NEW outcomes
               PROVE  CountOf(u, outcomes) = 0
    OBVIOUS
  <2>1. {c \in counted : c.user = u /\ c.outcome \in outcomes} = {}
    BY <1>2
  <2> QED
    BY <2>1, FS_EmptySet DEF CountOf
<1>5. ReplayReproduces
  <2> SUFFICES ASSUME NEW u \in Accounts
               PROVE  /\ OpeningOf(u).games  = OpeningOf(u).games  + CountOf(u, Outcomes)
                      /\ OpeningOf(u).wins   = OpeningOf(u).wins   + CountOf(u, {"win"})
                      /\ OpeningOf(u).losses = OpeningOf(u).losses + CountOf(u, {"loss"})
                      /\ OpeningOf(u).draws  = OpeningOf(u).draws  + CountOf(u, {"draw"})
    BY <1>2 DEF ReplayReproduces, OpeningOf
  <2>1. /\ OpeningOf(u).games \in Nat /\ OpeningOf(u).wins \in Nat
        /\ OpeningOf(u).losses \in Nat /\ OpeningOf(u).draws \in Nat
    BY <1>1, StandingsAreRows DEF RatingRows
  <2> QED
    BY <1>4, <2>1
<1>6. MilestonesArePaid
  BY <1>4 DEF MilestonesArePaid
<1> QED
  BY <1>1, <1>2, <1>3, <1>5, <1>6 DEF WholeInduction, Tables

LEMMA WholeStep ==
  ASSUME WholeInduction, [RNext]_rvars
  PROVE  WholeInduction'
<1>1. Assured'
  BY BookStep DEF WholeInduction, Assured
<1>2. ASSUME NEW m \in Matches, Complete(m)
      PROVE  WholeInduction'
  <2>1. CASE \E verdict \in Results, reason \in Reasons : Begin(m, verdict, reason)
    BY <1>1, <2>1, WholeBegin
  <2>2. CASE LockRating(m)
    BY <1>1, <2>2, WholeLockRating
  <2>3. CASE \E s \in Sides : UpsertRating(m, s)
    BY <1>1, <2>3, WholeUpsertRating
  <2>4. CASE \E s \in Sides : Gather(m, s)
    BY <1>1, <2>4, WholeGather
  <2>5. CASE \E s \in Sides : \E code \in Codes : Award(m, s, code)
    BY <1>1, <2>5, WholeAward
  <2>6. CASE Commit(m)
    BY <1>1, <2>6, WholeCommit
  <2>7. CASE Abort(m)
    BY <1>1, <2>7, WholeAbort
  <2> QED
    BY <1>2, <2>1, <2>2, <2>3, <2>4, <2>5, <2>6, <2>7 DEF Complete
<1>3. CASE UNCHANGED rvars
  <2>1. UNCHANGED <<rows, changes, counted, awards, ratings, enabled, tx, owner>>
    BY <1>3 DEF rvars, ledger
  <2> QED
    BY <1>1, <2>1, TablesKept, WholeStandsStill DEF WholeInduction, Tables
<1> QED
  BY <1>1, <1>2, <1>3, WholeAdminister DEF RNext

LEMMA TablesAreWhole ==
  ASSUME WholeInduction
  PROVE  CompletionsAreWhole
<1>1. LedgerTypeOK
  <2>1. \A m \in Matches : rows[m].status \in {"active", "completed"}
                           /\ rows[m].result \in Results \cup {"none"}
    BY DEF WholeInduction, Assured, BookInduction, Typed, MatchRows
  <2>2. \A u \in Accounts : ratings[u] \in Aggregates
    BY DEF WholeInduction, Assured, BookInduction, Typed
  <2>3. \A k \in DOMAIN owner : owner[k] # Nobody => tx[owner[k]] # NoTransaction
    BY DEF WholeInduction, Assured, BookInduction, Typed, OwnersRun
  <2> QED
    BY <2>1, <2>2, <2>3 DEF LedgerTypeOK, WholeInduction, Tables, AuditTyped, AwardsTyped
<1> QED
  BY <1>1 DEF CompletionsAreWhole, WholeInduction, Tables

\* A completion leaves its result with both audit rows, aggregates that replaying the audit
\* gives, and the badges its facts deserve, or nothing: whichever completions run at once, wait
\* for each other, are chosen as victims or fail, and whatever administrators do meanwhile
\* (applyRatingsForCompletion, awardAchievementsForCompletion, settle).
THEOREM CompletionsAreAlwaysWhole ==
  RatingsConstants /\ ExpectedIsWhole /\ RSpec => []CompletionsAreWhole
<1>1. RatingsConstants /\ ExpectedIsWhole /\ RInit => WholeInduction
  BY WholeBegins
<1>2. WholeInduction /\ [RNext]_rvars => WholeInduction'
  BY WholeStep
<1>3. WholeInduction => CompletionsAreWhole
  BY TablesAreWhole
<1> QED
  BY <1>1, <1>2, <1>3, PTL DEF RSpec

-----------------------------------------------------------------------------
(* The pages of a leaderboard: the order of its keys. *)

BoardKeys == Int \X Int \X Int \X Int \X Players

\* A key is past another when it differs first by being greater.
LEMMA PastMeans ==
  ASSUME NEW k \in BoardKeys, NEW c \in BoardKeys
  PROVE  Past(k, c) <=> \/ k[1] > c[1]
                        \/ k[1] = c[1] /\ k[2] > c[2]
                        \/ k[1] = c[1] /\ k[2] = c[2] /\ k[3] > c[3]
                        \/ k[1] = c[1] /\ k[2] = c[2] /\ k[3] = c[3] /\ k[4] > c[4]
                        \/ k[1] = c[1] /\ k[2] = c[2] /\ k[3] = c[3] /\ k[4] = c[4] /\ k[5] > c[5]
<1>1. DOMAIN k = 1..5 /\ 1..5 = {1, 2, 3, 4, 5}
  BY DEF BoardKeys
<1>2. /\ 1..(1 - 1) = {} /\ 1..(2 - 1) = {1} /\ 1..(3 - 1) = {1, 2} /\ 1..(4 - 1) = {1, 2, 3}
      /\ 1..(5 - 1) = {1, 2, 3, 4}
  OBVIOUS
<1>3. Past(k, c) <=> \E i \in {1, 2, 3, 4, 5} : k[i] > c[i] /\ \A j \in 1..(i - 1) : k[j] = c[j]
  BY <1>1 DEF Past
<1> QED
  BY <1>2, <1>3

\* Being past is a strict total order.
LEMMA PastOrders ==
  /\ \A k \in BoardKeys : ~Past(k, k)
  /\ \A j, k \in BoardKeys : Past(j, k) => ~Past(k, j)
  /\ \A j, k \in BoardKeys : j = k \/ Past(j, k) \/ Past(k, j)
  /\ \A j, k, l \in BoardKeys : Past(j, k) /\ Past(k, l) => Past(j, l)
<1>1. \A k \in BoardKeys : k[1] \in Int /\ k[2] \in Int /\ k[3] \in Int /\ k[4] \in Int
                           /\ k[5] \in Int /\ k = <<k[1], k[2], k[3], k[4], k[5]>>
  <2> TAKE k \in BoardKeys
  <2>1. k[1] \in Int /\ k[2] \in Int /\ k[3] \in Int /\ k[4] \in Int /\ k[5] \in Players
    BY DEF BoardKeys
  <2>2. k = <<k[1], k[2], k[3], k[4], k[5]>>
    BY DEF BoardKeys
  <2>3. Players \subseteq Int
    BY BoardAssumption
  <2> QED
    BY <2>1, <2>2, <2>3
<1>2. \A j, k \in BoardKeys :
        j[1] = k[1] /\ j[2] = k[2] /\ j[3] = k[3] /\ j[4] = k[4] /\ j[5] = k[5] => j = k
  BY <1>1
<1>3. \A k \in BoardKeys : ~Past(k, k)
  BY <1>1, PastMeans
<1>4. \A j, k \in BoardKeys : Past(j, k) => ~Past(k, j)
  BY <1>1, PastMeans
<1>5. \A j, k \in BoardKeys : j = k \/ Past(j, k) \/ Past(k, j)
  BY <1>1, <1>2, PastMeans
<1>6. \A j, k, l \in BoardKeys : Past(j, k) /\ Past(k, l) => Past(j, l)
  BY <1>1, PastMeans
<1> QED
  BY <1>3, <1>4, <1>5, <1>6

-----------------------------------------------------------------------------
(* The first keys of a set. *)

\* A set of naturals has a least one.
LEMMA LeastNatural ==
  ASSUME NEW S \in SUBSET Nat, S # {}
  PROVE  \E m \in S : \A n \in S : m <= n
<1> DEFINE less == {p \in Nat \X Nat : p[1] < p[2]}
<1>1. less = OpToRel(<, Nat)
  BY Zenon DEF OpToRel
<1>2. IsWellFoundedOn(less, Nat)
  BY <1>1, NatLessThanWellFounded, Zenon
<1>3. \A m, n \in Nat : n < m => <<n, m>> \in less
  OBVIOUS
<1> HIDE DEF less
<1>4. PICK m \in S : \A n \in S : ~ (<<n, m>> \in less)
  BY <1>2, WFMin
<1>5. \A n \in S : n \in Nat /\ m \in Nat /\ ~ (n < m)
  BY <1>3, <1>4
<1> QED
  BY <1>5

\* Whoever is ahead has fewer ahead.
LEMMA RanksRise ==
  ASSUME NEW S \in SUBSET BoardKeys, IsFiniteSet(S)
  PROVE  /\ \A k \in S : IsFiniteSet(Ahead(k, S)) /\ Cardinality(Ahead(k, S)) \in Nat
         /\ \A j, k \in S : Past(k, j) => Cardinality(Ahead(j, S)) < Cardinality(Ahead(k, S))
<1>1. \A k \in S : IsFiniteSet(Ahead(k, S)) /\ Cardinality(Ahead(k, S)) \in Nat
  <2> TAKE k \in S
  <2>1. Ahead(k, S) \in SUBSET S
    BY DEF Ahead
  <2> QED
    BY <2>1, FS_Subset, FS_CardinalityType
<1>2. ASSUME NEW j \in S, NEW k \in S, Past(k, j)
      PROVE  Cardinality(Ahead(j, S)) < Cardinality(Ahead(k, S))
  <2>1. Ahead(j, S) \subseteq Ahead(k, S)
    BY <1>2, PastOrders DEF Ahead
  <2>2. j \in Ahead(k, S) /\ j \notin Ahead(j, S)
    BY <1>2, PastOrders DEF Ahead
  <2>3. Cardinality(Ahead(j, S)) <= Cardinality(Ahead(k, S))
        /\ Cardinality(Ahead(j, S)) # Cardinality(Ahead(k, S))
    BY <1>1, <2>1, <2>2, FS_Subset
  <2> QED
    BY <1>1, <2>3
<1> QED
  BY <1>1, <1>2

\* The keys with fewer than n ahead of them are the first n, or all.
LEMMA FirstOf ==
  ASSUME NEW S \in SUBSET BoardKeys, IsFiniteSet(S), NEW n \in Nat \ {0},
         NEW P, P = {k \in S : Cardinality(Ahead(k, S)) < n}
  PROVE  /\ IsFiniteSet(P) /\ Cardinality(P) \in Nat /\ Cardinality(P) <= n
         /\ Cardinality(P) < n => P = S
         /\ \A k \in P, j \in S \ P : Past(j, k)
         /\ \A k \in P : Ahead(k, P) = Ahead(k, S)
<1>1. P \subseteq S /\ IsFiniteSet(P) /\ Cardinality(P) \in Nat
  BY FS_Subset, FS_CardinalityType
<1>2. \A k \in S : Cardinality(Ahead(k, S)) \in Nat
  BY RanksRise
<1>3. Cardinality(P) <= n
  <2> DEFINE f == [k \in P |-> Cardinality(Ahead(k, S))]
  <2>1. f \in [P -> 0..(n - 1)]
    BY <1>1, <1>2
  <2>2. \A j, k \in P : f[j] = f[k] => j = k
    <3> SUFFICES ASSUME NEW j \in P, NEW k \in P, j # k PROVE f[j] # f[k]
      OBVIOUS
    <3>1. Past(j, k) \/ Past(k, j)
      BY <1>1, PastOrders
    <3>2. Cardinality(Ahead(j, S)) \in Nat /\ Cardinality(Ahead(k, S)) \in Nat
      BY <1>1, <1>2
    <3>3. f[j] < f[k] \/ f[k] < f[j]
      BY <1>1, <3>1, RanksRise
    <3> QED
      BY <3>2, <3>3
  <2>3. f \in Injection(P, 0..(n - 1))
    BY <2>1, <2>2 DEF Injection, IsInjective
  <2>4. IsFiniteSet(0..(n - 1)) /\ Cardinality(0..(n - 1)) = n
    BY FS_Interval
  <2> HIDE DEF f
  <2> QED
    BY <2>3, <2>4, FS_Injection
<1>4. ASSUME P # S PROVE ~(Cardinality(P) < n)
  <2> DEFINE ranks == {Cardinality(Ahead(k, S)) : k \in S \ P}
  <2>1. ranks \in SUBSET Nat /\ ranks # {}
    BY <1>1, <1>2, <1>4
  <2>2. PICK m \in ranks : \A i \in ranks : m <= i
    BY <2>1, LeastNatural
  <2>3. PICK k \in S \ P : m = Cardinality(Ahead(k, S))
    BY <2>2
  <2>4. \A j \in S \ P : m <= Cardinality(Ahead(j, S))
    BY <2>2
  <2> HIDE DEF ranks
  <2>5. m \in Nat /\ n <= m
    BY <1>2, <2>3
  <2>6. \A j \in Ahead(k, S) : j \in P
    <3> SUFFICES ASSUME NEW j \in Ahead(k, S), j \notin P PROVE FALSE
      OBVIOUS
    <3>1. j \in S /\ Past(k, j)
      BY DEF Ahead
    <3>2. Cardinality(Ahead(j, S)) < m
      BY <2>3, <3>1, RanksRise
    <3> QED
      BY <1>2, <2>4, <2>5, <3>1, <3>2
  <2>7. m <= Cardinality(P)
    BY <1>1, <2>3, <2>6, FS_Subset
  <2> QED
    BY <1>1, <2>5, <2>7
<1>5. \A k \in P, j \in S \ P : Past(j, k)
  <2> SUFFICES ASSUME NEW k \in P, NEW j \in S \ P PROVE Past(j, k)
    OBVIOUS
  <2>1. k \in S /\ j \in S /\ j # k
    BY <1>1
  <2>2. ~Past(k, j)
    <3>1. Past(k, j) => Cardinality(Ahead(j, S)) < Cardinality(Ahead(k, S))
      BY <2>1, RanksRise
    <3> QED
      BY <1>2, <2>1, <3>1
  <2> QED
    BY <2>1, <2>2, PastOrders
<1>6. \A k \in P : Ahead(k, P) = Ahead(k, S)
  BY <1>1, <1>5, PastOrders DEF Ahead
<1> QED
  BY <1>1, <1>3, <1>4, <1>5, <1>6

-----------------------------------------------------------------------------
(* The inductive invariant: what a reader has in hand. *)

Readers == [open : BOOLEAN, period : Periods \cup {"all-time"}, cursor : BoardKeys \cup {Nowhere},
            pages : Seq(SUBSET BoardKeys), moved : SUBSET Players]

BoardTyped ==
  /\ book \in [Players -> Figures \cup {Unlisted}] /\ rated \in [Players -> Nat]
  /\ IsFiniteSet(dated) /\ \A c \in dated : c.match \in entered /\ c.day \in 0..day
  /\ suspended \subseteq Suspects /\ day \in Nat
  /\ reader \in Readers

\* The cursor is the last key of the last page.
CursorEnds(r) ==
  /\ r.pages = <<>> <=> r.cursor = Nowhere
  /\ r.cursor # Nowhere =>
       \A p \in DOMAIN r.pages : \A k \in r.pages[p] : k = r.cursor \/ Past(r.cursor, k)

Fall(pages) == \A p, q \in DOMAIN pages : p < q => \A k \in pages[p], l \in pages[q] : Past(l, k)

\* An account that kept its place is on the pages as it stands on the board.
Stand(pages, r) ==
  \A u \in Players \ r.moved : \A p \in DOMAIN pages : \A k \in pages[p] :
    AccountOf(k) = u => OnBoard(r.period, u) /\ k = SortKey(r.period, u)

\* And it is there once the cursor has passed it.
Met(r) ==
  \A u \in Players \ r.moved :
    /\ OnBoard(r.period, u) /\ r.cursor # Nowhere /\ ~Past(SortKey(r.period, u), r.cursor)
    => \E p \in DOMAIN r.pages : SortKey(r.period, u) \in r.pages[p]

\* While nothing moves, the pages are full and the board up to the cursor is on them.
CountedOn(pages, board) ==
  \A p \in DOMAIN pages : \A k \in pages[p] :
    /\ Cardinality(Ahead(k, pages[p])) \in Nat
    /\ Cardinality(Ahead(k, board)) = (p - 1) * PageSize + Cardinality(Ahead(k, pages[p]))
Counted(pages, r) == r.moved = {} => \A board \in {Board(r.period)} : CountedOn(pages, board)
Through(r) ==
  r.moved = {} =>
    Cardinality(Board(r.period) \ Behind(r.period, r.cursor)) = Len(r.pages) * PageSize

ReadingIsTrue(r) ==
  CursorEnds(r) /\ Fall(r.pages) /\ Stand(r.pages, r) /\ Met(r) /\ Counted(r.pages, r) /\ Through(r)

BoardInduction ==
  /\ BoardTyped
  /\ \A r \in {reader} : IF r.open THEN ReadingIsTrue(r) ELSE r = NoReader

\* What is on a board is on it once, under the key of an account.
LEMMA BoardFacts ==
  ASSUME BoardTyped, NEW period
  PROVE  /\ \A u \in Players : OnBoard(period, u) =>
              /\ SortKey(period, u) \in BoardKeys /\ AccountOf(SortKey(period, u)) = u
              /\ SortKey(period, u) \in Board(period)
         /\ Board(period) \in SUBSET BoardKeys /\ IsFiniteSet(Board(period))
         /\ \A k \in Board(period) :
              AccountOf(k) \in Players /\ OnBoard(period, AccountOf(k)) /\ k = SortKey(period, AccountOf(k))
<1>1. \A u \in Players : IsFiniteSet(Recorded(u)) /\ Cardinality(Recorded(u)) \in Nat
  <2> TAKE u \in Players
  <2>1. Recorded(u) \in SUBSET dated
    BY DEF Recorded
  <2> QED
    BY <2>1, FS_Subset, FS_CardinalityType DEF BoardTyped
<1>2. \A u \in Players : Cardinality({c \in Recorded(u) : c.outcome = "win"}) \in Nat
  BY <1>1, FS_Subset, FS_CardinalityType
<1>3. \A u \in Players : OnBoard(period, u) => SortKey(period, u) \in BoardKeys /\ AccountOf(SortKey(period, u)) = u
  <2> SUFFICES ASSUME NEW u \in Players, OnBoard(period, u)
               PROVE  SortKey(period, u) \in BoardKeys /\ AccountOf(SortKey(period, u)) = u
    OBVIOUS
  <2>1. book[u] \in Figures
    BY DEF OnBoard, BoardTyped
  <2>2. book[u].rating \in Nat /\ book[u].games \in Nat /\ book[u].wins \in Nat
    BY <2>1 DEF Figures
  <2>3. WinsIn(period, u) \in Nat /\ GamesIn(period, u) \in Nat
    BY <1>1, <1>2, <2>2 DEF WinsIn, GamesIn
  <2>4. /\ -book[u].rating \in Int /\ -WinsIn(period, u) \in Int /\ GamesIn(period, u) \in Int
        /\ rated[u] \in Int
    BY <2>2, <2>3 DEF BoardTyped
  <2> QED
    BY <2>4 DEF SortKey, BoardKeys, AccountOf
<1>4. \A u \in Players : OnBoard(period, u) => SortKey(period, u) \in Board(period)
  BY DEF Board
<1>5. \A k \in Board(period) : AccountOf(k) \in Players /\ OnBoard(period, AccountOf(k)) /\ k = SortKey(period, AccountOf(k))
  BY <1>3 DEF Board
<1>6. IsFiniteSet(Board(period))
  <2> DEFINE there == {v \in Players : OnBoard(period, v)}
             f     == [u \in there |-> SortKey(period, u)]
  <2>1. IsFiniteSet(there)
    BY BoardAssumption, FS_Subset
  <2>2. Board(period) = {SortKey(period, u) : u \in there}
    BY DEF Board
  <2>3. f \in Surjection(there, Board(period))
    BY <2>2 DEF Surjection
  <2> HIDE DEF there, f
  <2> QED
    BY <2>1, <2>3, FS_Surjection
<1> QED
  BY <1>3, <1>4, <1>5, <1>6

EndsAt(page, last) == \A k \in page \ {last} : Past(last, k)

\* The next page, read from the board as it is now.
LEMMA NextPage ==
  ASSUME BoardTyped, NEW r \in Readers, ReadingIsTrue(r),
         NEW page, page = Page(r.period, r.cursor), NEW pages, pages = Append(r.pages, page)
  PROVE  /\ page \subseteq BoardKeys /\ IsFiniteSet(page) /\ Cardinality(page) \in Nat
         /\ pages \in Seq(SUBSET BoardKeys)
         /\ DOMAIN pages = 1..(Len(r.pages) + 1)
         /\ Fall(pages) /\ Stand(pages, r) /\ Counted(pages, r)
         /\ Cardinality(page) < PageSize =>
              \A u \in Players \ r.moved :
                OnBoard(r.period, u) => \E p \in DOMAIN pages : SortKey(r.period, u) \in pages[p]
         /\ ~(Cardinality(page) < PageSize) =>
              \A last \in page, w \in Readers :
                /\ EndsAt(page, last) /\ w.pages = pages /\ w.cursor = last
                /\ w.moved = r.moved /\ w.period = r.period
                => ReadingIsTrue(w)
<1> DEFINE n     == Len(r.pages)
           board == Board(r.period)
           rest  == Behind(r.period, r.cursor)
<1>1. /\ r.pages \in Seq(SUBSET BoardKeys) /\ n \in Nat /\ DOMAIN r.pages = 1..n
      /\ r.cursor \in BoardKeys \cup {Nowhere} /\ r.moved \in SUBSET Players
  BY LenProperties DEF Readers
<1>2. board \in SUBSET BoardKeys /\ IsFiniteSet(board) /\ Cardinality(board) \in Nat
      /\ \A k \in board : AccountOf(k) \in Players /\ OnBoard(r.period, AccountOf(k)) /\ k = SortKey(r.period, AccountOf(k))
  BY BoardFacts, FS_CardinalityType
<1>3. /\ rest \in SUBSET board /\ rest \in SUBSET BoardKeys /\ IsFiniteSet(rest)
      /\ \A k \in board : k \in rest <=> r.cursor = Nowhere \/ Past(k, r.cursor)
  BY <1>2, FS_Subset DEF Behind
<1>4. PageSize \in Nat \ {0} /\ page = {k \in rest : Cardinality(Ahead(k, rest)) < PageSize}
  BY BoardAssumption DEF Page
<1> HIDE DEF rest, board
<1>5. /\ page \subseteq rest /\ IsFiniteSet(page) /\ Cardinality(page) \in Nat /\ Cardinality(page) <= PageSize
      /\ Cardinality(page) < PageSize => page = rest
      /\ \A k \in page, j \in rest \ page : Past(j, k)
      /\ \A k \in page : Ahead(k, page) = Ahead(k, rest)
  <2>1. PageSize \in Nat \ {0}
    BY <1>4
  <2>2. page = {k \in rest : Cardinality(Ahead(k, rest)) < PageSize}
    BY <1>4
  <2>3. rest \in SUBSET BoardKeys /\ IsFiniteSet(rest)
    BY <1>3
  <2>4. page \subseteq rest
    BY <2>2
  <2> HIDE DEF rest
  <2> QED
    BY <2>1, <2>2, <2>3, <2>4, FirstOf
<1>6. page \in SUBSET BoardKeys
  BY <1>3, <1>5
<1>7. /\ pages \in Seq(SUBSET BoardKeys) /\ Len(pages) = n + 1 /\ pages[n + 1] = page
      /\ (\A p \in 1..n : pages[p] = r.pages[p]) /\ DOMAIN pages = 1..(n + 1)
  <2>1. /\ pages \in Seq(SUBSET BoardKeys) /\ Len(pages) = n + 1 /\ pages[n + 1] = page
        /\ \A p \in 1..n : pages[p] = r.pages[p]
    BY <1>1, <1>6, AppendProperties
  <2> QED
    BY <1>1, <2>1, LenProperties
<1>8. \A p \in 1..(n + 1) : p \in 1..n \/ p = n + 1
  BY <1>1
<1>9. \A p \in 1..n : p \in 1..(n + 1) /\ r.pages[p] \in SUBSET BoardKeys /\ r.pages # <<>>
  BY <1>1, ElementOfSeq, EmptySeq
<1>10. n + 1 \in 1..(n + 1)
  BY <1>1
\* What is not behind the cursor is ahead of all that is.
<1>11. \A j \in board \ rest, k \in rest : r.cursor \in BoardKeys /\ Past(k, j) /\ ~Past(j, k)
  <2> TAKE j \in board \ rest, k \in rest
  <2>1. r.cursor \in BoardKeys /\ ~Past(j, r.cursor) /\ Past(k, r.cursor)
    BY <1>1, <1>3
  <2>2. j \in BoardKeys /\ k \in BoardKeys
    BY <1>2, <1>3
  <2>3. j = r.cursor \/ Past(r.cursor, j)
    BY <2>1, <2>2, PastOrders
  <2>4. Past(k, j)
    BY <2>1, <2>2, <2>3, PastOrders
  <2> QED
    BY <2>1, <2>2, <2>4, PastOrders
<1>12. \A p \in 1..n : \A k \in r.pages[p], l \in page : Past(l, k)
  <2> TAKE p \in 1..n
  <2> TAKE k \in r.pages[p], l \in page
  <2>1. r.cursor # Nowhere /\ (k = r.cursor \/ Past(r.cursor, k)) /\ k \in BoardKeys /\ l \in BoardKeys
    BY <1>1, <1>6, <1>9 DEF ReadingIsTrue, CursorEnds
  <2>2. Past(l, r.cursor) /\ r.cursor \in BoardKeys
    BY <1>1, <1>3, <1>5, <2>1
  <2> QED
    BY <2>1, <2>2, PastOrders
<1>13. Fall(pages)
  <2> SUFFICES ASSUME NEW p \in 1..(n + 1), NEW q \in 1..(n + 1), p < q, NEW k \in pages[p], NEW l \in pages[q]
               PROVE  Past(l, k)
    BY <1>7 DEF Fall
  <2>1. p \in 1..n
    BY <1>1
  <2>2. CASE q \in 1..n
    BY <1>1, <1>7, <2>1, <2>2 DEF ReadingIsTrue, Fall
  <2>3. CASE q = n + 1
    BY <1>7, <1>12, <2>1, <2>3
  <2> QED
    BY <1>8, <2>2, <2>3
<1>14. Stand(pages, r)
  <2> SUFFICES ASSUME NEW u \in Players \ r.moved, NEW p \in 1..(n + 1), NEW k \in pages[p], AccountOf(k) = u
               PROVE  OnBoard(r.period, u) /\ k = SortKey(r.period, u)
    BY <1>7 DEF Stand
  <2>1. CASE p \in 1..n
    BY <1>1, <1>7, <2>1 DEF ReadingIsTrue, Stand
  <2>2. CASE p = n + 1
    BY <1>2, <1>3, <1>5, <1>7, <2>2
  <2> QED
    BY <1>8, <2>1, <2>2
<1>15. Counted(pages, r)
  <2> SUFFICES ASSUME r.moved = {}, NEW p \in 1..(n + 1), NEW k \in pages[p]
               PROVE  /\ Cardinality(Ahead(k, pages[p])) \in Nat
                      /\ Cardinality(Ahead(k, board)) = (p - 1) * PageSize + Cardinality(Ahead(k, pages[p]))
    BY <1>7 DEF Counted, CountedOn, board
  <2>1. CASE p \in 1..n
    BY <1>1, <1>7, <2>1 DEF ReadingIsTrue, Counted, CountedOn, board
  <2>2. CASE p = n + 1
    <3>1. k \in page /\ k \in rest /\ k \in board
      BY <1>3, <1>5, <1>7, <2>2
    <3>2. Ahead(k, board) = (board \ rest) \cup Ahead(k, page)
      <4>1. \A j \in board : Past(k, j) <=> j \in board \ rest \/ j \in Ahead(k, rest)
        BY <1>3, <1>11, <3>1 DEF Ahead
      <4>2. Ahead(k, rest) \subseteq board
        BY <1>3 DEF Ahead
      <4> QED
        BY <1>5, <3>1, <4>1, <4>2 DEF Ahead
    <3>3. (board \ rest) \cap Ahead(k, page) = {}
      BY <1>5 DEF Ahead
    <3>4. IsFiniteSet(board \ rest) /\ Cardinality(board \ rest) = n * PageSize
      <4>1. IsFiniteSet(board \ rest)
        BY <1>2, FS_Difference
      <4> QED
        BY <4>1 DEF ReadingIsTrue, Through, board, rest
    <3>5. IsFiniteSet(Ahead(k, page)) /\ Cardinality(Ahead(k, page)) \in Nat
      <4>1. Ahead(k, page) \in SUBSET page
        BY DEF Ahead
      <4> QED
        BY <1>5, <4>1, FS_Subset, FS_CardinalityType
    <3>6. Cardinality({}) = 0
      BY FS_EmptySet
    <3>7. Cardinality((board \ rest) \cup Ahead(k, page)) =
            Cardinality(board \ rest) + Cardinality(Ahead(k, page)) - Cardinality((board \ rest) \cap Ahead(k, page))
      BY <3>4, <3>5, FS_Union
    <3>8. p - 1 = n /\ n * PageSize \in Nat
      BY <1>1, <1>4, <2>2
    <3>9. Cardinality(Ahead(k, board)) = n * PageSize + Cardinality(Ahead(k, page))
      <4> DEFINE product == n * PageSize
      <4>1. Cardinality(Ahead(k, board)) = product + Cardinality(Ahead(k, page)) - 0 /\ product \in Nat
        BY <3>2, <3>3, <3>4, <3>6, <3>7, <3>8
      <4> HIDE DEF product
      <4>2. Cardinality(Ahead(k, board)) = product + Cardinality(Ahead(k, page))
        BY <3>5, <4>1
      <4> QED
        BY <4>2 DEF product
    <3>10. pages[p] = page
      BY <1>7, <2>2
    <3> QED
      BY <3>5, <3>8, <3>9, <3>10
  <2> QED
    BY <1>8, <2>1, <2>2
<1>16. ASSUME NEW u \in Players \ r.moved, OnBoard(r.period, u), SortKey(r.period, u) \notin rest \ page
       PROVE  \E p \in 1..(n + 1) : SortKey(r.period, u) \in pages[p]
  <2> DEFINE K == SortKey(r.period, u)
  <2>1. K \in board
    BY <1>16, BoardFacts DEF board
  <2>2. CASE K \in page
    BY <1>7, <1>10, <2>2
  <2>3. CASE K \notin rest
    <3>1. r.cursor # Nowhere /\ ~Past(K, r.cursor)
      BY <1>3, <2>1, <2>3
    <3>2. \E p \in 1..n : K \in r.pages[p]
      BY <1>1, <1>16, <3>1 DEF ReadingIsTrue, Met
    <3> QED
      BY <1>7, <1>9, <3>2
  <2> QED
    BY <1>16, <2>2, <2>3
<1>17. ASSUME ~(Cardinality(page) < PageSize), NEW last \in page, EndsAt(page, last),
              NEW w \in Readers, w.pages = pages /\ w.cursor = last /\ w.moved = r.moved /\ w.period = r.period
       PROVE  ReadingIsTrue(w)
  <2>1. w.pages = pages /\ w.cursor = last /\ w.moved = r.moved /\ w.period = r.period
    BY <1>17
  <2>2. last \in BoardKeys /\ last # Nowhere /\ pages # <<>> /\ last \in rest
    <3>1. pages # <<>>
      BY <1>1, <1>7, EmptySeq
    <3>2. last \in BoardKeys
      BY <1>6
    <3>3. DOMAIN last = 1..5 /\ DOMAIN Nowhere = {} /\ 1 \in 1..5
      BY <3>2 DEF BoardKeys, Nowhere
    <3>4. last # Nowhere
      BY <3>3
    <3> QED
      BY <1>5, <3>1, <3>2, <3>4
  <2>3. Cardinality(page) = PageSize
    BY <1>4, <1>5, <1>17
  <2>4. \A j \in board : Past(j, last) <=> j \in rest \ page
    <3> SUFFICES ASSUME NEW j \in board PROVE Past(j, last) <=> j \in rest \ page
      OBVIOUS
    <3>1. CASE j \notin rest
      BY <1>11, <2>2, <3>1
    <3>2. CASE j \in rest \ page
      BY <1>5, <3>2
    <3>3. CASE j \in page
      BY <1>6, <1>17, <2>2, <3>3, PastOrders DEF EndsAt
    <3> QED
      BY <3>1, <3>2, <3>3
  <2>5. CursorEnds(w)
    <3>1. ASSUME NEW p \in 1..(n + 1), NEW k \in pages[p] PROVE k = last \/ Past(last, k)
      <4>1. CASE p \in 1..n
        BY <1>7, <1>12, <4>1
      <4>2. CASE p = n + 1
        BY <1>7, <1>17, <4>2 DEF EndsAt
      <4> QED
        BY <1>8, <4>1, <4>2
    <3> QED
      BY <1>7, <2>1, <2>2, <3>1 DEF CursorEnds
  <2>6. Fall(w.pages) /\ Stand(w.pages, w) /\ Counted(w.pages, w)
    BY <1>13, <1>14, <1>15, <2>1 DEF Stand, Counted
  <2>7. Met(w)
    <3> SUFFICES ASSUME NEW u \in Players \ r.moved, OnBoard(r.period, u), ~Past(SortKey(r.period, u), last)
                 PROVE  \E p \in 1..(n + 1) : SortKey(r.period, u) \in pages[p]
      BY <1>7, <2>1 DEF Met
    <3>1. SortKey(r.period, u) \in board
      BY BoardFacts DEF board
    <3> QED
      BY <1>16, <2>4, <3>1
  <2>8. Through(w)
    <3> SUFFICES ASSUME r.moved = {}
                 PROVE  Cardinality(board \ Behind(r.period, last)) = (n + 1) * PageSize
      BY <1>7, <2>1 DEF Through, board
    <3>1. board \ Behind(r.period, last) = (board \ rest) \cup page
      BY <1>3, <1>5, <2>2, <2>4 DEF Behind, board
    <3>2. (board \ rest) \cap page = {}
      BY <1>5
    <3>3. IsFiniteSet(board \ rest) /\ Cardinality(board \ rest) = n * PageSize
      <4>1. IsFiniteSet(board \ rest)
        BY <1>2, FS_Difference
      <4> QED
        BY <4>1 DEF ReadingIsTrue, Through, board, rest
    <3>4. Cardinality((board \ rest) \cup page) =
            Cardinality(board \ rest) + Cardinality(page) - Cardinality((board \ rest) \cap page)
      BY <1>5, <3>3, FS_Union
    <3>5. Cardinality({}) = 0
      BY FS_EmptySet
    <3>6. (n + 1) * PageSize = n * PageSize + PageSize /\ n * PageSize \in Nat
      BY <1>1, <1>4
    <3> DEFINE product == n * PageSize
    <3>7. Cardinality(board \ Behind(r.period, last)) = product + PageSize - 0 /\ product \in Nat
      BY <2>3, <3>1, <3>2, <3>3, <3>4, <3>5, <3>6
    <3>8. (n + 1) * PageSize = product + PageSize
      BY <3>6
    <3> HIDE DEF product
    <3> QED
      BY <1>4, <3>7, <3>8
  <2> QED
    BY <2>5, <2>6, <2>7, <2>8 DEF ReadingIsTrue
<1>18. ASSUME Cardinality(page) < PageSize, NEW u \in Players \ r.moved, OnBoard(r.period, u)
       PROVE  \E p \in DOMAIN pages : SortKey(r.period, u) \in pages[p]
  BY <1>5, <1>7, <1>16, <1>18
<1> QED
  BY <1>5, <1>6, <1>7, <1>13, <1>14, <1>15, <1>17, <1>18

-----------------------------------------------------------------------------
(* The board moves under its reader. *)

\* An account that kept its place is where it was.
LEMMA PlacesKept ==
  ASSUME NEW period, NEW u \in Players, PlaceOn(period, u)' = PlaceOn(period, u)
  PROVE  /\ OnBoard(period, u)' <=> OnBoard(period, u)
         /\ OnBoard(period, u) => SortKey(period, u)' = SortKey(period, u)
<1>1. SortKey(period, u) # Nowhere
  <2>1. DOMAIN SortKey(period, u) = 1..5 /\ DOMAIN Nowhere = {} /\ 1 \in 1..5
    BY DEF SortKey, Nowhere
  <2> QED
    BY <2>1
<1>2. SortKey(period, u)' # Nowhere
  <2>1. DOMAIN SortKey(period, u)' = 1..5 /\ DOMAIN Nowhere = {} /\ 1 \in 1..5
    BY DEF SortKey, Nowhere
  <2> QED
    BY <2>1
<1>3. PlaceOn(period, u) = (IF OnBoard(period, u) THEN SortKey(period, u) ELSE Nowhere)
  BY DEF PlaceOn
<1>4. PlaceOn(period, u)' = (IF OnBoard(period, u)' THEN SortKey(period, u)' ELSE Nowhere)
  BY DEF PlaceOn
<1> QED
  BY <1>1, <1>2, <1>3, <1>4

\* What a reader has in hand stays true of those that keep their places.
LEMMA ReadingOn ==
  ASSUME NEW r \in Readers, ReadingIsTrue(r), NEW w \in Readers,
         w.period = r.period, w.cursor = r.cursor, w.pages = r.pages, r.moved \subseteq w.moved,
         \A u \in Players \ w.moved : PlaceOn(r.period, u)' = PlaceOn(r.period, u)
  PROVE  ReadingIsTrue(w)'
<1>1. \A u \in Players \ w.moved :
        /\ u \in Players \ r.moved
        /\ OnBoard(r.period, u)' <=> OnBoard(r.period, u)
        /\ OnBoard(r.period, u) => SortKey(r.period, u)' = SortKey(r.period, u)
  BY PlacesKept
<1>2. w.moved = {} => r.moved = {} /\ Board(r.period)' = Board(r.period)
  <2> SUFFICES ASSUME w.moved = {} PROVE r.moved = {} /\ Board(r.period)' = Board(r.period)
    OBVIOUS
  <2>1. \A u \in Players :
          /\ OnBoard(r.period, u)' <=> OnBoard(r.period, u)
          /\ OnBoard(r.period, u) => SortKey(r.period, u)' = SortKey(r.period, u)
    BY <1>1
  <2> QED
    BY <2>1 DEF Board
<1>3. CursorEnds(w)' /\ Fall(w.pages)'
  BY DEF ReadingIsTrue, CursorEnds, Fall, Past
<1>4. Stand(w.pages, w)'
  BY <1>1 DEF ReadingIsTrue, Stand
<1>5. Met(w)'
  BY <1>1 DEF ReadingIsTrue, Met, Past
<1>6. Counted(w.pages, w)'
  <2>1. \A board : CountedOn(w.pages, board)' <=> CountedOn(w.pages, board)
    BY DEF CountedOn, Ahead, Past
  <2>2. w.moved = {} => \A board \in {Board(w.period)'} : CountedOn(w.pages, board)
    BY <1>2 DEF ReadingIsTrue, Counted
  <2> QED
    BY <2>1, <2>2 DEF Counted
<1>7. Through(w)'
  <2>1. w.moved = {} => Behind(r.period, r.cursor)' = Behind(r.period, r.cursor)
    BY <1>2 DEF Behind, Past
  <2>2. r.moved = {} => Cardinality(Board(r.period) \ Behind(r.period, r.cursor)) = Len(r.pages) * PageSize
    BY DEF ReadingIsTrue, Through
  <2>3. w.moved = {} =>
          Cardinality(Board(w.period)' \ Behind(w.period, w.cursor)') = Len(w.pages) * PageSize
    BY <1>2, <2>1, <2>2
  <2> QED
    BY <2>3 DEF Through
<1> QED
  BY <1>3, <1>4, <1>5, <1>6, <1>7 DEF ReadingIsTrue

LEMMA BoardStandsStill ==
  ASSUME UNCHANGED <<book, rated, dated, suspended, day>>, NEW r \in Readers, ReadingIsTrue(r)
  PROVE  ReadingIsTrue(r)'
<1>1. \A u \in Players : PlaceOn(r.period, u)' = PlaceOn(r.period, u)
  BY DEF PlaceOn, OnBoard, SortKey, WinsIn, GamesIn, Recorded
<1> QED
  BY <1>1, ReadingOn

LEMMA WatchedReads ==
  ASSUME BoardInduction, Watched
  PROVE  /\ reader' \in Readers
         /\ \A r \in {reader'} : IF r.open THEN ReadingIsTrue(r)' ELSE r = NoReader
<1>1. reader \in Readers
  BY DEF BoardInduction, BoardTyped
<1>2. PICK period \in {reader.period} :
        reader' = IF reader.open
                  THEN [reader EXCEPT !.moved =
                          @ \cup {u \in Players : PlaceOn(period, u) # PlaceOn(period, u)'}]
                  ELSE reader
  BY DEF Watched
<1>3. CASE reader.open
  <2> DEFINE others == {u \in Players : PlaceOn(period, u) # PlaceOn(period, u)'}
  <2>1. reader' = [reader EXCEPT !.moved = @ \cup others]
    BY <1>2, <1>3
  <2>2. \A u \in Players : u \in others <=> PlaceOn(period, u)' # PlaceOn(period, u)
    OBVIOUS
  <2>3. others \subseteq Players
    OBVIOUS
  <2> HIDE DEF others
  <2>4. /\ reader' \in Readers /\ reader'.open /\ reader'.period = reader.period
        /\ reader'.cursor = reader.cursor /\ reader'.pages = reader.pages
        /\ reader'.moved = reader.moved \cup others
    BY <1>1, <1>3, <2>1, <2>3 DEF Readers
  <2>5. PICK r, w : r = reader /\ w = reader'
    OBVIOUS
  <2>6. r \in Readers /\ ReadingIsTrue(r)
    BY <1>1, <1>3, <2>5 DEF BoardInduction
  <2>7. \A u \in Players \ w.moved : PlaceOn(r.period, u)' = PlaceOn(r.period, u)
    BY <1>2, <2>2, <2>4, <2>5
  <2>8. ReadingIsTrue(w)'
    BY <2>4, <2>5, <2>6, <2>7, ReadingOn
  <2> QED
    BY <2>4, <2>5, <2>8
<1>4. CASE ~reader.open
  <2>1. reader' = reader /\ reader = NoReader
    BY <1>2, <1>4 DEF BoardInduction
  <2> QED
    BY <1>1, <1>4, <2>1
<1> QED
  BY <1>3, <1>4

-----------------------------------------------------------------------------
(* What happens meanwhile. *)

LEMMA SameRecord ==
  /\ \A a, b, o : Record!NextRating(a, b, o) = NextRating(a, b, o)
  /\ \A a, o, r : Record!ApplyResult(a, o, r) = ApplyResult(a, o, r)
  /\ \A r, s : Record!OutcomeOf(r, s) = OutcomeOf(r, s)
  /\ Record!StartingAggregate = StartingAggregate
<1>1. \A o : Record!Scored(o) = Scored(o)
  BY DEF Record!Scored, Scored
<1>2. \A k, o : Record!NextStreak(k, o) = NextStreak(k, o)
  BY DEF Record!NextStreak, NextStreak
<1> QED
  BY <1>1, <1>2 DEF Record!NextRating, NextRating, Record!ApplyResult, ApplyResult, Record!OutcomeOf,
     OutcomeOf, Record!StartingAggregate, StartingAggregate

LEMMA FinishedFigures ==
  ASSUME ExpectedIsWhole, BoardTyped, NEW m \in Ranked, NEW verdict, NEW side \in Sides
  PROVE  \A missing : Record!Moved(m, side, verdict, missing) \in Figures
<1> TAKE missing
<1>1. Figures = RatingRows
  BY DEF Figures, RatingRows
<1>2. Seat(m, side) \in Players /\ Seat(m, Record!Other(side)) \in Players
  BY BoardAssumption DEF Sides, Record!Other
<1>3. \A u \in Players :
        Record!Standing(u, missing) \in RatingRows /\ Record!Standing(u, missing).rating \in Nat
  <2> TAKE u \in Players
  <2>1. Record!Standing(u, missing) \in RatingRows
    BY <1>1, SameRecord, StartingRow DEF Record!Standing, BoardTyped
  <2> QED
    BY <2>1 DEF RatingRows
<1> DEFINE mine == Record!Standing(Seat(m, side), missing)
           hers == Record!Standing(Seat(m, Record!Other(side)), missing)
           outcome == OutcomeOf(verdict, side)
<1>4. Record!Moved(m, side, verdict, missing) =
        ApplyResult(mine, outcome, NextRating(mine.rating, hers.rating, outcome))
  BY SameRecord DEF Record!Moved
<1>5. mine \in RatingRows /\ mine.rating \in Nat /\ hers.rating \in Nat /\ outcome \in Outcomes
  BY <1>2, <1>3, OutcomesAreOutcomes
<1> HIDE DEF mine, hers, outcome
<1>6. NextRating(mine.rating, hers.rating, outcome) \in Nat
  BY <1>5, RatingsStayWhole
<1> QED
  BY <1>1, <1>4, <1>5, <1>6, ResultsMakeRows

Kept ==
  /\ book \in [Players -> Figures \cup {Unlisted}] /\ rated \in [Players -> Nat]
  /\ IsFiniteSet(dated) /\ \A c \in dated : c.match \in entered /\ c.day \in 0..day
  /\ suspended \subseteq Suspects /\ day \in Nat

LEMMA DatesKept ==
  ASSUME BoardTyped, NEW users, Dates(users)
  PROVE  rated' \in [Players -> Nat]
<1>1. PICK moment \in 0..LastMoment :
        rated' = [u \in Players |-> IF u \in users THEN moment ELSE rated[u]]
  BY DEF Dates
<1>2. moment \in Nat
  BY BoardAssumption
<1> QED
  BY <1>1, <1>2 DEF BoardTyped

LEMMA FinishKept ==
  ASSUME ExpectedIsWhole, BoardTyped, NEW m \in Ranked, NEW verdict, Finish(m, verdict)
  PROVE  Kept'
<1>1. PICK missing :
      /\ entered' = entered \cup {m} /\ suspended' = suspended /\ day' = day
      /\ book' = [u \in Players |->
                    CASE u = Seat(m, "light") -> Record!Moved(m, "light", verdict, missing)
                      [] u = Seat(m, "dark")  -> Record!Moved(m, "dark", verdict, missing)
                      [] OTHER -> book[u]]
      /\ dated' = dated \cup {[match |-> m, user |-> Seat(m, s), day |-> day,
                               outcome |-> OutcomeOf(verdict, s)] : s \in {"light", "dark"}}
  BY DEF Finish, Record!EnterFrom
<1>2. /\ Record!Moved(m, "light", verdict, missing) \in Figures
      /\ Record!Moved(m, "dark", verdict, missing) \in Figures
  BY FinishedFigures DEF Sides
<1>3. book' \in [Players -> Figures \cup {Unlisted}]
  BY <1>1, <1>2 DEF BoardTyped
<1>4. IsFiniteSet(dated')
  <2> DEFINE row(s) == [match |-> m, user |-> Seat(m, s), day |-> day, outcome |-> OutcomeOf(verdict, s)]
  <2>1. dated' = (dated \cup {row("light")}) \cup {row("dark")}
    BY <1>1
  <2> HIDE DEF row
  <2> QED
    BY <2>1, FS_AddElement DEF BoardTyped
<1>5. \A c \in dated' : c.match \in entered' /\ c.day \in 0..day'
  BY <1>1 DEF BoardTyped
<1>6. rated' \in [Players -> Nat]
  BY DatesKept DEF Finish
<1> QED
  BY <1>1, <1>3, <1>4, <1>5, <1>6 DEF Kept, BoardTyped

LEMMA OthersKept ==
  ASSUME BoardTyped, \/ \E c \in BookCorrections : Correct(c[1], c[2])
                     \/ \E u \in Suspects : Moderate(u)
                     \/ Midnight
                     \/ UNCHANGED <<book, entered, rated, dated, suspended, day>>
  PROVE  Kept'
<1>1. ASSUME NEW c \in BookCorrections, Correct(c[1], c[2]) PROVE Kept'
  <2>1. c[1] \in Players /\ c[2] \in Nat
    BY BoardAssumption
  <2>2. /\ book[c[1]] # Unlisted /\ book' = [book EXCEPT ![c[1]].rating = c[2]]
        /\ UNCHANGED <<entered, dated, suspended, day>>
    BY <1>1 DEF Correct, Record!Correct
  <2>3. book[c[1]] \in Figures
    BY <2>1, <2>2 DEF BoardTyped
  <2>4. [book[c[1]] EXCEPT !.rating = c[2]] \in Figures
    BY <2>1, <2>3 DEF Figures
  <2>5. book' \in [Players -> Figures \cup {Unlisted}]
    BY <2>1, <2>2, <2>4 DEF BoardTyped
  <2>6. rated' \in [Players -> Nat]
    BY <1>1, DatesKept DEF Correct
  <2> QED
    BY <2>2, <2>5, <2>6 DEF Kept, BoardTyped
<1>2. ASSUME NEW u \in Suspects, Moderate(u) PROVE Kept'
  BY <1>2 DEF Moderate, Kept, BoardTyped
<1>3. CASE Midnight
  BY <1>3 DEF Midnight, Kept, BoardTyped
<1>4. CASE UNCHANGED <<book, entered, rated, dated, suspended, day>>
  BY <1>4 DEF Kept, BoardTyped
<1> QED
  BY <1>1, <1>2, <1>3, <1>4

-----------------------------------------------------------------------------
(* The reader's own steps. *)

LEMMA OpenReads ==
  ASSUME BoardInduction, NEW period \in Periods, OpenBoard(period)
  PROVE  /\ reader' \in Readers
         /\ \A r \in {reader'} : IF r.open THEN ReadingIsTrue(r)' ELSE r = NoReader
<1>1. PICK w : w = reader'
  OBVIOUS
<1>2. /\ w \in Readers /\ w.open /\ w.period = period /\ w.cursor = Nowhere /\ w.pages = <<>>
      /\ w.moved = {}
  <2>1. NoReader \in Readers
    BY EmptySeq DEF NoReader, Readers
  <2>2. w = [NoReader EXCEPT !.open = TRUE, !.period = period]
    BY <1>1 DEF OpenBoard
  <2>3. NoReader.cursor = Nowhere /\ NoReader.pages = <<>> /\ NoReader.moved = {}
    BY DEF NoReader
  <2> QED
    BY <2>1, <2>2, <2>3 DEF Readers
<1>3. ReadingIsTrue(w)
  <2>1. DOMAIN w.pages = {} /\ Len(w.pages) = 0
    BY <1>2
  <2>2. CursorEnds(w) /\ Fall(w.pages) /\ Stand(w.pages, w) /\ Counted(w.pages, w)
    <3>1. CursorEnds(w)
      BY <1>2 DEF CursorEnds
    <3>2. Fall(w.pages)
      BY <2>1 DEF Fall
    <3>3. Stand(w.pages, w)
      BY <2>1 DEF Stand
    <3>4. Counted(w.pages, w)
      BY <2>1 DEF Counted, CountedOn
    <3> QED
      BY <3>1, <3>2, <3>3, <3>4
  <2>3. Board(w.period) \ Behind(w.period, w.cursor) = {}
    BY <1>2 DEF Behind
  <2>4. Through(w)
    <3>1. Cardinality({}) = 0
      BY FS_EmptySet
    <3>2. 0 * PageSize = 0
      BY BoardAssumption
    <3> QED
      BY <2>1, <2>3, <3>1, <3>2 DEF Through
  <2>5. Met(w)
    BY <1>2 DEF Met
  <2> QED
    BY <2>2, <2>4, <2>5 DEF ReadingIsTrue
<1>4. ReadingIsTrue(w)'
  BY <1>2, <1>3, BoardStandsStill DEF OpenBoard
<1> QED
  BY <1>1, <1>2, <1>4

LEMMA ReadReads ==
  ASSUME BoardInduction, ReadPage
  PROVE  /\ reader' \in Readers
         /\ \A r \in {reader'} : IF r.open THEN ReadingIsTrue(r)' ELSE r = NoReader
<1>1. BoardTyped /\ reader \in Readers /\ reader.open
  BY Zenon DEF BoardInduction, BoardTyped, ReadPage
<1>2. PICK r : r = reader
  OBVIOUS
<1>3. r \in Readers /\ ReadingIsTrue(r)
  BY <1>1, <1>2 DEF BoardInduction
<1>4. PICK page : page = Page(r.period, r.cursor)
  OBVIOUS
<1>5. PICK pages : pages = Append(r.pages, page)
  OBVIOUS
<1>6. page \subseteq BoardKeys /\ pages \in Seq(SUBSET BoardKeys)
  BY <1>1, <1>3, <1>4, <1>5, NextPage
<1>7. CASE Cardinality(page) < PageSize
  <2>1. reader' = NoReader
    BY <1>2, <1>4, <1>7 DEF ReadPage
  <2>2. NoReader \in Readers /\ ~NoReader.open
    BY EmptySeq DEF NoReader, Readers
  <2> QED
    BY <2>1, <2>2
<1>8. CASE ~(Cardinality(page) < PageSize)
  <2>1. PICK last \in page : /\ EndsAt(page, last)
                            /\ reader' = [r EXCEPT !.pages = pages, !.cursor = last]
    <3>1. Page(reader.period, reader.cursor) = page /\ Append(reader.pages, page) = pages
      BY <1>2, <1>4, <1>5
    <3>2. \E last \in page : /\ EndsAt(page, last)
                             /\ reader' = [reader EXCEPT !.pages = pages, !.cursor = last]
      BY <1>8, <3>1, Zenon DEF ReadPage, EndsAt
    <3>3. PICK last \in page : /\ EndsAt(page, last)
                              /\ reader' = [reader EXCEPT !.pages = pages, !.cursor = last]
      BY <3>2, Zenon
    <3>4. [reader EXCEPT !.pages = pages, !.cursor = last] = [r EXCEPT !.pages = pages, !.cursor = last]
      BY <1>2
    <3> QED
      BY <3>3, <3>4, Zenon
  <2>2. PICK w : w = reader'
    OBVIOUS
  <2>3. /\ w \in Readers /\ w.open
         /\ w.pages = pages /\ w.cursor = last /\ w.moved = r.moved /\ w.period = r.period
    BY <1>1, <1>2, <1>6, <2>1, <2>2 DEF Readers
  <2>4. ReadingIsTrue(w)
    BY <1>1, <1>3, <1>4, <1>5, <1>8, <2>1, <2>3, NextPage
  <2>5. ReadingIsTrue(w)'
    BY <2>3, <2>4, BoardStandsStill, Zenon DEF ReadPage
  <2> QED
    BY <2>2, <2>3, <2>5
<1> QED
  BY <1>7, <1>8

-----------------------------------------------------------------------------
(* The induction over a reading. *)

LEMMA BoardStarts == LInit => BoardInduction
<1> SUFFICES ASSUME LInit PROVE BoardInduction
  OBVIOUS
<1>1. /\ book = OpeningBook /\ entered = {} /\ rated = [u \in Players |-> 0] /\ dated = {} /\ suspended = {} /\ day = 0 /\ reader = NoReader
  BY DEF LInit, Record!Init
<1>2. NoReader \in Readers /\ ~NoReader.open
  BY EmptySeq DEF NoReader, Readers
<1> QED
  BY <1>1, <1>2, BoardAssumption, FS_EmptySet DEF BoardInduction, BoardTyped

LEMMA BoardStep ==
  ASSUME ExpectedIsWhole, BoardInduction, [LNext]_lvars
  PROVE  BoardInduction'
<1>1. BoardTyped
  BY DEF BoardInduction
<1>2. Kept'
  <2>1. ASSUME NEW m \in Ranked, NEW verdict \in Results, Finish(m, verdict) PROVE Kept'
    BY <1>1, <2>1, FinishKept
  <2>2. ASSUME NEW period \in Periods, OpenBoard(period) PROVE Kept'
    BY <1>1, <2>2, OthersKept DEF OpenBoard
  <2>3. CASE ReadPage
    BY <1>1, <2>3, OthersKept, Zenon DEF ReadPage
  <2>4. CASE UNCHANGED lvars
    BY <1>1, <2>4, OthersKept DEF lvars
  <2> QED
    BY <1>1, <2>1, <2>2, <2>3, <2>4, OthersKept DEF LNext
<1>3. /\ reader' \in Readers
      /\ \A r \in {reader'} : IF r.open THEN ReadingIsTrue(r)' ELSE r = NoReader
  <2>1. CASE Watched
    BY <2>1, WatchedReads
  <2>2. ASSUME NEW period \in Periods, OpenBoard(period)
        PROVE  /\ reader' \in Readers
               /\ \A r \in {reader'} : IF r.open THEN ReadingIsTrue(r)' ELSE r = NoReader
    BY <2>2, OpenReads
  <2>3. CASE ReadPage
    BY <2>3, ReadReads
  <2>4. CASE UNCHANGED lvars
    <3>1. PICK w : w = reader
      OBVIOUS
    <3>2. w \in Readers /\ reader' = w /\ IF w.open THEN ReadingIsTrue(w) ELSE w = NoReader
      BY <1>1, <2>4, <3>1 DEF BoardInduction, BoardTyped, lvars
    <3>3. w.open => ReadingIsTrue(w)'
      BY <2>4, <3>2, BoardStandsStill DEF lvars
    <3> QED
      BY <3>2, <3>3
  <2> QED
    BY <2>1, <2>2, <2>3, <2>4 DEF LNext
<1>4. BoardTyped'
  BY <1>2, <1>3 DEF Kept, BoardTyped
<1> QED
  BY <1>3, <1>4 DEF BoardInduction

LEMMA BoardTells ==
  ASSUME BoardInduction
  PROVE  PagesTellTheBoard
<1>1. BoardTyped /\ reader \in Readers
  BY DEF BoardInduction, BoardTyped
<1>2. BoardTypeOK
  <2>1. reader.pages = <<>> <=> reader.cursor = Nowhere
    <3>1. CASE reader.open
      BY <3>1 DEF BoardInduction, ReadingIsTrue, CursorEnds
    <3>2. CASE ~reader.open
      BY <3>2 DEF BoardInduction, NoReader
    <3> QED
      BY <3>1, <3>2
  <2> QED
    BY <1>1, <2>1 DEF BoardTyped, BoardTypeOK, Readers
<1>3. ASSUME reader.open PROVE UnmovedAreShownOnce /\ PagesAscend /\ RankIsPosition
  <2>1. PICK r : r = reader
    OBVIOUS
  <2>2. r \in Readers /\ ReadingIsTrue(r)
    BY <1>1, <1>3, <2>1 DEF BoardInduction
  <2>3. PICK page : page = Page(r.period, r.cursor)
    OBVIOUS
  <2>4. PICK pages : pages = Append(r.pages, page)
    OBVIOUS
  <2>5. SeenPages = pages /\ (AtTheEnd => Cardinality(page) < PageSize)
    BY <2>1, <2>3, <2>4 DEF SeenPages, AtTheEnd
  <2>6. /\ pages \in Seq(SUBSET BoardKeys) /\ DOMAIN pages = 1..(Len(r.pages) + 1)
        /\ Fall(pages) /\ Stand(pages, r) /\ Counted(pages, r)
        /\ Cardinality(page) < PageSize =>
             \A u \in Players \ r.moved :
               OnBoard(r.period, u) => \E p \in DOMAIN pages : SortKey(r.period, u) \in pages[p]
    BY <1>1, <2>2, <2>3, <2>4, NextPage
  <2>7. \A p \in DOMAIN pages : pages[p] \in SUBSET BoardKeys
    BY <2>6, ElementOfSeq
  <2>8. \A p, q \in DOMAIN pages : p # q => p < q \/ q < p
    <3>1. \A p \in DOMAIN pages : p \in Int
      BY <2>6
    <3> QED
      BY <3>1
  \* One account is met on two pages only if it moved.
  <2>9. ASSUME NEW u \in Players \ r.moved, NEW p \in DOMAIN pages, NEW q \in DOMAIN pages,
               \E k \in pages[p] : AccountOf(k) = u, \E k \in pages[q] : AccountOf(k) = u
        PROVE  p = q
    <3>1. SortKey(r.period, u) \in pages[p] /\ SortKey(r.period, u) \in pages[q]
      BY <2>6, <2>9 DEF Stand
    <3>2. ~Past(SortKey(r.period, u), SortKey(r.period, u))
      BY <2>7, <3>1, PastOrders
    <3>3. ~(p < q) /\ ~(q < p)
      BY <2>6, <3>1, <3>2 DEF Fall
    <3> QED
      BY <2>8, <3>3
  <2>10. \A u \in Players : Meetings(pages, u) = {p \in DOMAIN pages : \E k \in pages[p] : AccountOf(k) = u}
    BY DEF Meetings
  <2>11. UnmovedAreShownOnce
    <3> SUFFICES ASSUME AtTheEnd, NEW u \in Players \ r.moved, OnBoard(r.period, u)
                 PROVE  \E p \in DOMAIN pages : Meetings(pages, u) = {p}
      BY <2>1, <2>5 DEF UnmovedAreShownOnce
    <3>1. PICK p \in DOMAIN pages : SortKey(r.period, u) \in pages[p]
      BY <2>5, <2>6
    <3>2. AccountOf(SortKey(r.period, u)) = u
      BY <1>1, BoardFacts
    <3>3. p \in Meetings(pages, u)
      BY <2>10, <3>1, <3>2
    <3>4. \A q \in Meetings(pages, u) : q = p
      BY <2>9, <2>10, <3>3
    <3> QED
      BY <3>3, <3>4
  <2>12. PagesAscend
    <3>1. \A p, q \in DOMAIN SeenPages : p < q => \A k \in SeenPages[p], l \in SeenPages[q] : Past(l, k)
      BY <2>5, <2>6 DEF Fall
    <3>2. \A u \in Players : \A p, q \in Meetings(pages, u) : p # q => u \in reader.moved
      BY <2>1, <2>9, <2>10
    <3> QED
      BY <2>5, <3>1, <3>2 DEF PagesAscend
  <2>13. RankIsPosition
    <3> SUFFICES ASSUME r.moved = {}, NEW p \in DOMAIN pages, NEW k \in pages[p]
                 PROVE  Rank(r.period, AccountOf(k)) = (p - 1) * PageSize + 1 + Cardinality(Ahead(k, pages[p]))
      BY <2>1, <2>5 DEF RankIsPosition
    <3>1. k \in BoardKeys /\ AccountOf(k) \in Players
      BY <2>7 DEF BoardKeys, AccountOf
    <3>2. k = SortKey(r.period, AccountOf(k))
      BY <2>6, <3>1 DEF Stand
    <3>3. Rank(r.period, AccountOf(k)) = 1 + Cardinality(Ahead(k, Board(r.period)))
      BY <3>2 DEF Rank, Ahead
    <3>4. Cardinality(Ahead(k, Board(r.period))) = (p - 1) * PageSize + Cardinality(Ahead(k, pages[p]))
      BY <2>6 DEF Counted, CountedOn
    <3>5. Cardinality(Ahead(k, pages[p])) \in Nat
      BY <2>6 DEF Counted, CountedOn
    <3>6. (p - 1) * PageSize \in Int
      BY <2>6, BoardAssumption
    <3> DEFINE before == (p - 1) * PageSize
    <3>7. Cardinality(Ahead(k, Board(r.period))) = before + Cardinality(Ahead(k, pages[p])) /\ before \in Int
      BY <3>4, <3>6
    <3> HIDE DEF before
    <3>8. Rank(r.period, AccountOf(k)) = before + 1 + Cardinality(Ahead(k, pages[p]))
      BY <3>3, <3>5, <3>7
    <3> QED
      BY <3>8 DEF before
  <2> QED
    BY <2>11, <2>12, <2>13
<1>4. ~reader.open => UnmovedAreShownOnce /\ PagesAscend /\ RankIsPosition
  BY DEF UnmovedAreShownOnce, AtTheEnd, PagesAscend, RankIsPosition
<1> QED
  BY <1>2, <1>3, <1>4 DEF PagesTellTheBoard

Reckoned == ExpectedIsWhole /\ BoardInduction

\* Whatever finishes, is corrected, suspended or begins while a board is read, the pages of the
\* reader tell what the board told: every account that kept its place is met exactly once, in
\* the board's order, and while nothing moved at the rank its profile shows
\* (readLeaderboardPage, LeaderboardService.read, readAllTimeRank).
THEOREM PagesTellTheBoardAlways == ExpectedIsWhole /\ LSpec => []PagesTellTheBoard
<1>1. ExpectedIsWhole /\ LInit => Reckoned
  BY BoardStarts DEF Reckoned
<1>2. Reckoned /\ [LNext]_lvars => Reckoned'
  BY BoardStep DEF Reckoned, ExpectedIsWhole
<1>3. Reckoned => PagesTellTheBoard
  BY BoardTells DEF Reckoned
<1> QED
  BY <1>1, <1>2, <1>3, PTL DEF LSpec
=============================================================================
