# Gobblet: models, checks and proofs

A TLA+ development of Gobblet: the rules of the game; what a match, its clock, its queue, its
rematch offers, its ratings and its players' accounts do when several requests, ticks, disconnects
and restarts meet; what the web client and the desktop application show of it; and how a version of
it is released. Modules are model-checked with TLC on small instances, and the properties that
matter most are proved with TLAPS for every value of the constants. `PROJECT.json` maps every
definition to the source lines it stands for and lists the hazards, each at its line.

Contents: 1 the system, 2 the modules, 3 the runs, 4 where the code and its own statements differ,
5 the proofs, 6 what is not modelled, 7 what is left to do.

## 1. The system and its parts

One Node process serves every match (ADR-0006, ADR-0018). It keeps the truth of matches, accounts
and ratings in PostgreSQL and everything that concerns waiting players in memory. Browsers and
desktops talk to it over HTTP and one socket.

| Part | State it keeps | Operations | Talks to |
| --- | --- | --- | --- |
| game core, `packages/game-core` | none (pure) | applyMove, legal moves, outcome, invariants, stored form | the runtime, the client |
| match runtime, `apps/server/src/match` | a row of `matches`, the rows of `match_events` | createMatch, move, resign, settleExpiredClock, recovery | transactions with a row lock; ratings and achievements inside the completing one |
| matchmaking queue, `matchmaking/service.ts`, `pairing.ts` | lists of entries by (mode, time control); the entry of each player | join, leave, tick, stopAcceptingEntries | reads identity and the runtime, calls createMatch |
| rematch offers, `matchmaking/rematch.ts` | one offer by match, one match by offering player | request, respond, sweep, cancelFor, forgetAll | the same two |
| socket gateway, `socket/gateway.ts`, `communication.ts` | sockets by actor, sessions, rooms, mutes, handlers in flight | one handler per message, ticks, drain | every service |
| clock broadcaster, `socket/clock-broadcaster.ts` | the matches to broadcast and to settle | track, tick | the gateway |
| ratings, achievements, leaderboards | `ratings`, `rating_changes`, `rating_adjustments`, `user_achievements` | written in the completing transaction; corrected by administrators; read in pages | the runtime, HTTP routes |
| identity, sessions, guests | `users`, `user_sessions`, `guest_sessions`, verification tokens, audit | register, claim, sign in and out, verify, moderate, grant | HTTP routes, the gateway's handshake |
| administration | catalogue, audit log, listings | edit, create, page through | identity, ratings |
| shutdown and bootstrap | the draining flag | drainAndClose; recovery before listening | all |
| web client, `apps/web/src` | the match channel, the search, the session store, the query cache, the profile form | reducer, resync, handshake, invalidation, save | the gateway, HTTP routes |
| desktop shell and releases | `desktop_releases`; the credential store; the update client | publish, pause, promote; ask, install, restart | administrators, the release workflow |
| deployment and backups, `ops/`, `scripts/`, `.github/workflows` | the running containers, the schema, archives | the workflow's jobs, smoke, backup, restore | the platform |

### What is hard, and what makes each part correct

* **Game core.** A long game buries and uncovers pieces; one move may complete a line and reveal
  another; repetition is counted for a side that is not the one a finished state names. Correct: no
  piece is lost or doubled, the result is the board's, nobody is ever without a move, and the stored
  form refuses damage but never a real game.
* **Match runtime.** A transaction reads the clock *before* it waits for the row lock, commands are
  retried under one identifier, the tick and a late command both find an exhausted clock, and the
  process may stop anywhere. Correct: no time is lost or charged twice, a command takes effect once,
  the log explains the row, a match ends once and for good.
* **Queue and rematch offers.** Node runs one continuation at a time, so what races is the code
  *between* awaits: several reads before an entry is made, an offer stored or a match created.
  Correct: an entry is spent once, the two structures agree, nobody waits beside an opponent for
  ever, and a rematch has two players who agreed.
* **Gateway.** Every handler is split by awaits, and a connection may close, a player be suspended
  or the process drain in any of them. Correct: presence, mutes and attendance say what happened,
  and the database pool outlives the last handler.
* **Ratings.** Completions of one account overlap under READ COMMITTED, and a row that does not
  exist cannot be locked. Correct: the tables are those of a book entered one match at a time.
* **Identity.** A claim turns a guest into an account while the guest is being seated and another
  claim runs. Correct: a history goes to one claimant, and what ends sessions ends all of them.
* **Client.** Snapshots, events and answers overtake each other or are lost; requests for one
  account are in flight while another signs in. Correct: an older board never replaces a newer
  one, no lock stays, nothing is shown to another account.
* **Releases.** The newest by publication is not the newest version; a deployment stops half way;
  the players go on writing under a backup. Correct: what is promoted was tested, a desktop never
  goes back, a green run released what it was asked to, a reported restore is the dump.

## 2. Modules

A module models one component; a `...Proofs` module extends it with theorems; an `MC_` module gives
it an instance for TLC. Where several components belong to one question, one `MC_` module composes
them, and a history of its run is one of its `part`s.

| Module | Models | Composes |
| --- | --- | --- |
| `GameCore` | the rules of a game | |
| `GameGuards` | the engine's own invariants, its transition checks, the stored form | `GameCore` |
| `MatchRuntime` | one match row, its log, its transactions | |
| `MatchSession` | one player's match channel, the connection, and what gateway and broadcaster do for it | |
| `Gateway` | connections, handshakes, presence, relays and mutes, history rows, shutdown | |
| `Pairing` | windows, compatibility, findPairing (pure) | |
| `PairingScan` | every small queue, and findPairing's loops as written | `Pairing` |
| `Matchmaking` | the queue and the gateway's calls into it | `Pairing` |
| `Rematch` | rematch offers and the gateway's calls into them | |
| `Elo` | the arithmetic of a result (pure) | |
| `RatingBook` | **abstract**: what the ratings promise, without transactions | `Elo` |
| `Ratings` | the completion transaction, corrections, achievements | `Elo`; implements `RatingBook` |
| `Leaderboard` | a reader paging through a board that moves | `RatingBook` |
| `Identity` | accounts, guests, sessions, claims, verification, moderation, grants | |
| `Catalogue` | two administrators editing the achievement catalogue | |
| `AdminPages` | the two paged administrative listings | |
| `Administration` | the catalogue and the listings, side by side | `Catalogue`, `AdminPages` |
| `AccountPages` | the query cache of the account pages and the profile form | |
| `WebClient` | one window: handshake, search, mutes, board gestures, close guard, credential store | |
| `Updates` | releases, the update endpoint, the update client | |
| `DesktopRelease` | the desktop release workflow | `Updates` |
| `Deployment` | the deploy workflow and the commands it runs | |
| `Backup` | backups and restores under writing players | |
| `GameCoreProofs` | theorems about | `GameCore`, `GameGuards` |
| `MatchProofs` | theorems about | `MatchRuntime`, `Ratings`, `Leaderboard` |
| `MatchmakingProofs` | theorems about | `Matchmaking`, `Pairing` |
| `AdministrationProofs` | theorems about | `Identity`, `Administration` |
| `ScreenProofs` | theorems about | `AccountPages`, `MatchSession` |
| `WebClientProofs` | theorems about | `WebClient` |
| `GatewayProofs` | theorems about | `Gateway`, `Rematch` |
| `ReleaseProofs` | theorems about | `DesktopRelease` (with `Updates`), `Deployment`, `Backup` |
| `MC_GameCore`, `MC_MatchRuntime`, `MC_MatchSession`, `MC_Matchmaking`, `MC_Rematch`, `MC_WebClient`, `MC_AccountPages` | instances of | the module they are named after |
| `MC_Gateway` | two parts | `Gateway`, `Rematch` |
| `MC_Accounts` | four parts | `Ratings`, `PairingScan`, `Leaderboard`, `AccountPages` |
| `MC_Administration` | two parts | `Identity`, `Administration` |
| `MC_Updates`, `MC_Releases` | one part, and three | `DesktopRelease`; with `Deployment`, `Backup` |

### How state and actions correspond to the code

**GameCore, GameGuards.** The variables are the fields of `GameState`; a step is one accepted
`applyMove`, and a refused move is no step because it returns a reason and nothing else.
`ReserveMoveLegal` and `BoardMoveLegal` are the early returns of `simulateReserveMove` and
`simulateBoardMove`; `completeMove` is what both share, with `Outcome` its order of results.
`positionKeyOf` keeps what the string key keeps: owners and sizes on the board, how many external
stacks hold how many pieces (the code sorts the numbers, the model counts them), the side to move.
Board, lines and equipment are constants. `Broken` is `collectInvariantViolations`, one field per
code it reports; `fromSerializableGameState` checks structure first and then those invariants, as
the code does; `Damaged` is what one slip makes of a stored row.

**MatchRuntime.** `status` to `events` are the columns of the row and the rows of `match_events`;
`clock` is the wall clock; `attempt` and `settler` are the transactions that have read their `now`
and wait for the lock; `answers` is every acknowledgement that was formed (the network may lose it:
a client may retry whether or not it got one). A transaction is two steps: `ReceiveCommand`,
`RetryCommand`, `BeginSettle` read the clock; `ExecuteCommand`, `ExecuteSettle` hold the lock and do
the rest, which nobody else sees before it commits. `AbortCommand` is a rollback and `Crash` is all
of them. `Refusal` is the sequence of checks of `runCommand` in the code's order. Of the board it
sees the answers of `applyMove`, fixed by the version a command expects (`verdict`). That version
may be one nobody has committed yet: the envelope's schema admits any, and only the check under the
lock compares it. `ahead` (was it to come when the command was issued), the `at` of an event (its
`now`) and the `shown` of an answer (the version it showed) are history, so that the properties can
name such a command.

**MatchSession.** A match is its log, so a snapshot is a prefix of it. Requests are tasks of the
server from the moment they are sent; `down` is the ordered stream of what the server emits. The
client's side is the channel's reducer (`Receive`), its resync and its retry after a reconnection;
the server's is `match:sync` in its three steps, the commands, `TickExpired` and `TickSync`.
`Restart` is the process's end and its recovery.

**Gateway.** `inFlight` holds a record per handler: its frame, and at which await it is (`pc`).
Each step re-reads exactly what the code re-reads there. `online`, `mutes`, `attached`, `queued`
are `socketsByActor`, the sockets' mutes, the connections that joined the match and the queue's
`byActor`; `phase` walks through `drainAndClose` and `close`. A queue join is three steps
(`SendJoin`, `ReadEligibility`, `Enter`): it asks whether the queue is open first, awaits its reads,
and makes its entry without asking again for the connection or the queue. Offers, which are stored
in the same way, are in `Rematch`.

**Pairing, Matchmaking.** `FindPairing` states which pair is chosen (the longest waiting entry that
has a candidate, and its nearest candidate, ties to the longer wait); `PairingScan` holds the two
nested loops of the code and compares them on every queue it builds. A *task* is one call in
progress: `Joins` are `join` calls, `Ticks` are `tick` calls (the interval does not wait for the
last one), `pc` the await each is at. An entry's `ticket` is a ghost that names it.

**Rematch.** A *call* is a request or a respond in progress: the list of reads it still has to make
(`todo`), then `StoreOffer` or `AcceptOffer`, then the await of createMatch. What follows the last
read is a step of its own, because the answer is already in the past when the call continues.
An offer's `number` is a ghost, and each match remembers the offer and the accepter that made it.

**Ratings, RatingBook, Leaderboard.** `tx[m]` is the completion of match `m`, statement by
statement: lock, read, write both rows, audit, award, commit. `ratings` and the audit tables hold
what is committed; a transaction keeps its writes in `tx[m]` until it commits, waits where another
holds a row or has inserted the key, and may be the victim of a deadlock. `Expected(a, b)` is a
parameter: only its rounded product with K reaches a rating. `RatingBook` enters one match at one
moment, from the ratings of that moment. Its `unseen` is the one thing it cannot promise away: an
account that had no row when a completion began is moved from the starting aggregate, whatever was
written since, because there was nothing to lock. `Ratings` refines it by what its transactions
found absent (`missing`); `counted` is history, the audit rows that the aggregates still contain. A leaderboard page is one statement, so a reader sees the book at one moment per page; rows
of equal rating are ordered by the moment they were last written (`rated`), and then by account.

**Identity.** Each request (`req[r]`) is split at every statement that another transaction can make
wait or overtake; unique keys and row locks follow PostgreSQL, a cycle of waits costs one its life.
`history`, `answers` and `asked` are ghosts: what a guest has played, how often an account was
verified.

**AccountPages, WebClient.** A cell of `cache` is the query library's copy of one query with the
versions it shows; `fetch` the request in flight; `Invalidate...` is what `api/queries.ts` does
after each event. `WebClient` is one window: a promise is a continuation waiting for the frame that
settles it, and a dropped connection loses what is in flight both ways, but frames emitted while
it is down go out first when it returns. A command carries the visit of the screen that sent it
(`mount`), since its answer settles that screen's promise and no other's; a close waits for the
answer to its own command.

**Catalogue, AdminPages, Updates, DesktopRelease, Deployment, Backup.** A request reads, then writes
in a transaction; others come between. A workflow is a list of steps, any of which may fail. A
listing keeps its pages in one infinite query that reads further, or reads all of them again. A
restored table is what the archive held, and an archive is one snapshot of tables that move on.

## 3. Runs

| Run | Shows | Bounds |
| --- | --- | --- |
| `game_core` | pieces are conserved; the result is the one board and history show; somebody can always move; the opponent's lines are only revealed; every game is stored and read back, and one slip in a row is seen | a ring of 5 squares, two neighbours a line, 3 pieces a player, limit 3, 10 plies, damage up to ply 6, where pieces have been covered from ply 4 on; 393 378 states |
| `match_runtime` | clocks are conserved, log and row agree, answers stay true, completion once, timeouts are earned; no deadlock | 2 commands, 2 handlers, 1 settlement, budget 2, clock to 2, one version ahead; 953 372 states |
| `match_session` | the board on the screen is always one the match had and never goes back; no lock stays; every match on a screen ends | a match and its rematch, 2 versions, 1 command, 1 fault |
| `gateway` | the pool outlives the handlers; attendance is true; suspension stops commands; presence agrees; mutes hold; rematches are agreed, once answered and gone | connections: 3 sockets of 2 players, 1 account, 1 channel, 2 frames. Offers: 2 calls, 2 offers, 2 matches, 1 failing createMatch; 2 102 530 states |
| `accounts` | ratings implement the book and completions are whole; pairing is fair; pages tell the board; the cache is true and only touched fields are written | 3 accounts (1 unrated, in both ranked matches), 3 matches, 1 fault, 1 correction; queues of 3 entries with 4 ratings, clock to 8; 4 accounts, pages of 2, 2 moments; 2 accounts, 2 tabs, 2 queries, 2 fields, 2 acts; 704 124 states |
| `administration` | accounts are whole and unique, claims too, suspension ends sessions; the catalogue's audit and the listings are true | 2 guests, 2 account ids, 2 requests at a time of 3, 1 ending; 2 administrators, 2 codes, 2 audit records; 3 rows, 2 moments, pages of 1; 893 933 states |
| `releases` | what is promoted was tested; a desktop never goes back and catches up; a green run released what it was asked to; production is rehearsed, saved and migrated first; a reported restore is the dump | 2 rows, 1 desktop, 1 workflow run beside 1 administrator, 3 requests, 1 time step, 1 failure; 3 commits, 2 deploy runs; 2 tables, 2 writes, 2 archives |
| `client` | a command goes out only on a connection that has shaken hands, mutes are told again, a close waits for its resignation; a search is shown and a match opens | 1 guest session, 2 connections, 3 acts; 692 539 states |
| `matchmaking` | an entry is spent once and the two structures agree; two players outside each other's first window are seated in the end | 2 players 3 windows apart, a casual and a ranked queue, 1 join, 1 tick, 2 tickets, 1 failing createMatch |
| `rematch_twice` | *violated*: NextMatchOnce | 2 calls, 3 matches |
| `rollout` | *violated*: ReachesEverybody | 1 row, 1 desktop, 1 workflow run |
| `profile_save` | *violated*: SavedIsSaid | 1 account, 1 tab, 2 acts |

**Why the bounds are enough.** The ring of `game_core` is the smallest board on which every case of
the rules happens: a reserve piece that covers under threat, a revealed line that is blocked, one
that is not, two revealed at once, lines of both players at once, and a third occurrence (the
earliest is at ply 10, with the real limit of 3). A piece is covered from the fourth ply on, so
damage up to the sixth meets stacks of two in every shape; stacks of three come at the ninth and are
left to the proof. Two commands and two handlers give a retry that races its original, two commands
that race at one version, and one that waits for a version to come; budget 2 with a clock to 2 lets
a turn be charged in part and exactly to its end. Three connections are the fewest with which one player
has a connection left when another closes. Time in the queue counts only for windows and for the
order of entries: one step between any two tells them apart. Two calls are all that can meet over
one offer; two overlapping first matches of one account beside a casual one are what loses an
update, fails in a circle and pays a milestone. A listing's page of one row makes every row a page boundary; a board of four accounts in
pages of two has an account on either side of one, and two moments make ties and break them. `MAXIMUM_WINDOW` is 400 and a window
reaches only 350 before `UNBOUNDED_AFTER_MS` lifts it, so its cap never binds; the instances keep
the same relation. The Elo K factor, the milestone and the streak are small because only their order
to each other is read. The properties of the proved modules do not rest on these bounds (section 5).

`CHECK_DEADLOCK FALSE` stands where bounds on clocks, entries, offers, acts or requests make a run
of the model stop; a real server waits there for its next request. `MatchRuntime` always has a step
left and `rollout` ends in a client that asks again, so these two check deadlock.

**Symmetry** permutes squares with the ring's own symmetries, commands, handlers, sockets of one
player, request and account ids; no run with a liveness property uses it.

**Fairness.** Players, administrators, guests and faults owe nothing: they may stop for ever.

| Module | Weak fairness of | Why the code owes it |
| --- | --- | --- |
| `MatchSession` | the handlers, time, both halves of the tick, connecting, the handshake, delivery | `setInterval` keeps ticking, an await is answered or rejected, the socket library reconnects |
| `Matchmaking` | time, the beginning of each tick, each step of a call that began | the same interval; every await of a call ends |
| `Updates` | the client's own steps: asking, being answered, agreeing, installing, restarting | the checks run on a timer; that the player agrees some time is assumed, and `CatchesUp` is about a player who does |
| `Deployment` | beginning a job and its steps | the workflow runner |
| `WebClient` | delivery, the server's answers, time | as above |

## 4. Where the code and its own statements differ

Three are runs whose one property TLC finds violated, and findings in `PROJECT.json`:

* `rematch_twice`: two accepts of one offer that overlap create two matches. `respond` says
  "Removed before the match is created, so an offer cannot be answered twice", but it forgets the
  offer after five awaits without looking again.
* `rollout`: the bundles are built to ask the beta channel, and promotion moves a row off it, so a
  desktop that did not ask before the promotion is never offered what ADR-0034 says "reaches
  everybody".
* `profile_save`: the server answers a profile change with the profile's settings, the client reads
  the answer as a whole account and shows an error for a change that was stored.

What else the models showed, by part. No property claims the contrary, and each is either harmless
to the properties checked, as said, or a behaviour a maintainer may want to know:

* **Queue** (`service.ts:112-135`): `hasUnfinishedMatch` is read several awaits before the match it
  guards, so a player who queues again while its first match is being created may get two clocks; a
  socket that closes during `join`'s reads is forgotten before the entry exists, and the entry waits
  on for a player who left (ADR-0018:63 says a disconnect removes it). What does hold,
  `NobodyIsLeftWaiting`, is that who *already* waits leaves the
  queue with the last connection; a `join` whose attempt seats two other players answers `queued` and drops the match it
  made; a join in progress enters after the drain emptied the queue.
* **Rematch**: neither `request` nor `respond` looks at the drain (`docs/operations.md:395-397`);
  two overlapping requests do not see each other and the second overwrites the first, whose player
  stays marked as waiting; an acceptance whose createMatch fails ends the offer silently.
* **Runtime**: a command that waited for the lock behind its opponent's move carries a `now` older
  than the turn it finds, which `clock.ts` counts as an anomaly; it is harmless because such a
  command is always stale (`CurrentCopiesAreFresh`), unless it named a version still to come, which
  `packages/protocol/src/envelope.ts:9` admits. Such a command may be refused as stale and commit
  when it is sent again, and it may commit with a `now` before the turn: it is then charged nothing,
  and the opponent is charged the time between a second time. The web client names the version it
  shows and never does this. `ClocksAreTrue` and `AnswersStayTrue` say what holds with such commands
  about: the clocks never lose too little, only such a command can reach back, and only its refusal
  promises nothing.
* **Gateway**: a connection that closes while its handshake reads the profile's mutes stays in
  `socketsByActor`; a sync that finishes after its connection closed writes an `attached` row that no
  `detached` one follows; mutes toggled twice may be applied out of order. The server takes a second handshake on one
  connection (`gateway.ts:382-460`) and starts a new session with nothing attached; the web client
  sends one per connection, and so does the model.
* **Match session**: a match seated just before a restart of which nobody learned is never tracked,
  so nothing settles its clock; a late answer about the old match may replace the rematch's channel.
* **Ratings**: two overlapping completions of an account *without* a row lose one update: both start
  from the starting aggregate and the second overwrites the first, so that "a replay of the ledger
  reproduces every aggregate" (`schema.ts:259`) is not true of it. It needs the queue's two clocks.
  `RatingBook` and `ReplayReproduces` say that this is all that is lost: a row of the audit stops
  counting only between two completions of one account that both found it without a row.
* **Identity**: a sign-in that overlaps a suspension leaves a live session (it may read
  and is refused play); a match seated for a guest during its claim stays with the guest; a revoked
  claimed token acts as the guest again (`resolve.ts:34`); two guests who met with both colours can
  deadlock when both claim, and one answers 500.
* **Account pages**: a second sign-out that arrives late signs out whoever is signed in by then
  (`AppShell.tsx:50-56`); edits made while a save is pending are dropped when it succeeds.
* **Client**: a leave that crosses a queued answer leaves the screen waiting (`use-queue.ts:98`); a
  refused handshake is never repeated on that connection; a resignation that crosses a move is
  rejected as stale and the window closes without it (`close-guard.ts`).
* **Game guards**: the stored form sees everything in `Damaged`, but not a *drawn* game reopened,
  nor a slip in the side to move, the ply or the counts.
* **Catalogue, releases**: an edit form keeps the values it opened with and saves all of them;
  racing creations and publications answer 500 rather than 409; a promotion's moment is read before
  its transaction.
* **Deployment, backups**: every job checks the branch out again, so what is deployed may not be the
  labelled commit; a run with `rollback` set takes any ref and skips the migrations
  (`deploy.yml:113,378-429`), and it is §9 of `docs/operations.md` that asks for the last good commit,
  the guard `RollbackIsKnown` of the model, on which `SchemaLeadsCode` rests for rollbacks; §10 names other tables than the backup's manifest does, and
  the manifest's counts are read after the dump.

## 5. The proofs

Eight modules hold theorems. Every one is about a component's own specification, with any number of
players, handlers, requests, transactions or squares; the only hypotheses are assumptions about the
constants. A `...Constants`
predicate is what a theorem asks of the constants where the instance gives them through `INSTANCE`;
the `MC_` module assumes it, so TLC evaluates it as it does every named `ASSUME`.

The arguments share a shape. The property is seldom inductive, because it speaks of rows and lists
while the steps that could break it are those of a handler that read something earlier. What is
missing is always what each handler *in flight* has established, and the inductive invariant is the
property together with that. A lemma says what one form of step preserves, one says that each
action has one of these forms, and the last goes through `Next`.

### `GameCoreProofs`: the game and its guards

For every board, every set of equally long lines, any number of stacks and sizes, any repetition
limit of at least two. Assumed: a line is one square longer than a threat (`LinesAssumption`), the
equipment is finite (`EquipmentAssumption`), and there are more squares than a player has pieces and
than there are pieces of the largest size, 16 against 12 and 6 (`RoomAssumption`).

| Theorem | Says |
| --- | --- |
| `GameTypeCorrect`, `EveryPieceOnceAlways` | `TypeOK`; every piece is at one place and stacks rise |
| `StatusMatchesBoardAlways`, `RepetitionDecidesAlways`, `ResultIsTheBoardsAlways` | the result is the board's and the history's |
| `OpponentLinesWereRevealedAlways` | a move never makes a line for the opponent, it only uncovers one |
| `SomebodyCanMoveAlways` | the player to move always has a move |
| `StoredGamesAlwaysLoad` | each game passes the engine's own invariants, so it is stored and read back as it was |
| `MovesAlwaysPassTheirChecks` | no legal move is refused by the check on transitions |
| `DamageIsAlwaysSeen`, `EarlyDamageIsAlwaysSeen` | a stored row with one slip in it is refused, at any length of game |

`SomebodyCanMoveAlways` settles open question Q4 of `docs/rules.md`, "a player with no legal move":
a largest piece is never covered, so a player who has one on the board can move it to a square that
shows none, which exists because there are more squares than largest pieces; a player who has none
on the board has untouched stacks, hence nothing on the board at all, and the other player cannot
fill it alone. Both steps are the pigeonhole theorem over the tops of stacks.
`OpponentLinesWereRevealedAlways` proves the remark of Q2; it rests on `StatusMatchesBoard`, since a
game that goes on shows no line before the move.

`DamageIsAlwaysSeen` needs what TLC cannot show beyond the first plies: that *every* slip breaks some
invariant. The places of a position and its pieces are in bijection, so one piece gone leaves another
`missing`, one more makes a `duplicate`, and an exchange on a square is not `ascending`; and a
position shows a line exactly when its status says so, so an exchanged status is `inProgress` or
`win` broken. `StoredGamesAlwaysLoad` is the other half: the same invariants hold of every game.

### `MatchProofs`: the match, its ratings and the board

#### The match

| Theorem | Says |
| --- | --- |
| `TypeCorrect`, `InductionHolds` | `TypeOK`; `ClockInduction` |
| `ClocksAreConserved`, `ExhaustedClocksEnd`, `ClocksAreTrueAlways` | the clocks never lose less than the time that passed, and exactly that unless an event reaches back, which only a command that named a version to come can do; none is negative or runs on exhausted |
| `CompletionRunsOnce`, `CompletedNeverChanges` | one transaction completes a match, and nothing changes it later |
| `TimeoutsAreEarned` | a timeout commits only after the end of the loser's time |
| `LogAlwaysMatchesRow` | one event per version, one per command and right after the version it named, alternating movers, a true count |
| `AnswersAreKept` | an acknowledgement names its event; what was refused never takes effect, unless it was refused for coming too early |

`ClockConservation` is not inductive. A commit charges `now - turnStartedAt`, and `now` was read
before the lock: were it older than the turn, the charge would be cut off at zero while
`turnStartedAt` moved back. A copy that names a committed version can no longer commit then: one that
expects the current version was received after that version was committed, so its `now` is no
earlier than the turn (`CurrentCopiesAreFresh`, with `InstantsArePast` and `NothingBeforeTheMatch`).
A copy that named a version to come can, and the theorem says what follows: the event it leaves is
earlier than the one before it (`InstantsAscend` says no other is), and from there on the accounted
time only shrinks. `ClockInduction` joins them. `AnswersAreKept` rests on each other reason for
refusing being one the row cannot leave: versions grow, a finished match stays finished, a side is a
side; a command is logged right after the version it named, so a refusal that had shown that version
or a later one stays.

#### The ratings and the board

| Theorem | Says |
| --- | --- |
| `RatingsImplementTheBook` | the refinement `RSpec => Book!Spec`, step by step: a commit is one entry of the book at that moment, everything else stutters |
| `CompletionsAreAlwaysWhole` | a completion leaves its result, both audit rows, aggregates the audit reproduces and the badges its facts deserve, or nothing |
| `PagesTellTheBoardAlways` | the pages read of a moving board descend, meet each account that kept its place exactly once, and while nothing moved show it at the rank its profile shows |

Hypotheses of the first two: `RatingsConstants` and `ExpectedIsWhole` (the expected points are
rounded). Nothing is assumed of who finishes when: `FOR UPDATE` locks nothing where there is no row,
the second of two overlapping first matches overwrites what the first wrote, and both theorems are
about that too. The book moves such an account from the start (`unseen`), and the audit rows that
still count are named (`counted`): a row leaves them only between two completions that each found the
account without a row. The run's instance has one unrated account in two ranked matches.

`BookInduction` says of each transaction that holds its locks that what it has read is what the
tables hold (`Runs`): the lock is taken before the read, so nobody wrote since. `WholeInduction` adds
what it has gathered for the badges (`Badges`), which other completions may only extend.

The board's theorem has the one hypothesis `ExpectedIsWhole` (and `BoardAssumption`: finitely many
accounts, numbered as their ids are ordered). `BoardInduction` describes an open reader: its cursor is
the last row it was shown (`CursorEnds`); pages fall along the order of the board (`Fall`); every row
shown of an account that has not moved still stands (`Stand`); an unmoved account is on exactly one
page if the cursor has passed it (`Met`) and on none before. Ranks need counting besides: while
nothing moved, the pages read hold exactly the rows up to the cursor (`Counted`, `Through`), so that
"rows before this page" plus the place on it is the number of accounts ahead, ties sharing the rank
of the first. That is a bijection between positions and a prefix of the board, and uses that a
rating in the book, once rounded, is an integer.

### `GatewayProofs`: the connections and the offers

| Theorem | Says |
| --- | --- |
| `GatewayStaysSound` | `GatewayInduction` |
| `PoolAlwaysOutlivesHandlers` | no handler and no history row is left when the pool closes |
| `SuspensionAlwaysStops` | no command sent by a suspended account is applied |
| `AttendanceIsAlwaysTrue` | one coming and one going per connection at most, no return without a departure |
| `PresenceAlwaysAgrees` | answered connections are known until they close; who waits in the queue leaves it with the last of them, and not before |
| `MutedIsAlwaysSilent` | a client told of a mute hears nothing more of the channel |
| `OffersAreAlwaysHonoured` | a rematch follows a finished match, was asked for by one of its players and accepted by the other; an answered offer is gone |

`GatewayInduction` is `Typed`, `HandlersAreKnown` (what frame and earlier awaits of each handler have
established), `SessionsComeFirst`, `OnlineIsOpen`, `ToldIsMuted`, `RowsAreOnce`, `DeparturesAreSpent`,
`SuspendedAreRefused` and `NothingAfterSettling`. The last two are where order matters: a command
that passed its check was sent before the suspension, and the wait for handlers starts after
the last connection was closed, so nothing new can begin behind it. `RematchInduction` says of each
call what its reads have shown (`CallsHaveRead`) and of each stored offer that it is honest: its
match was over and its asker played in it, whatever has happened to both since.

### `MatchmakingProofs`: the queue

| Theorem | Says |
| --- | --- |
| `EntriesAreAlwaysKept` | nobody holds two entries, list and index agree, an entry is spent on one match |
| `NobodyIsOvertaken` | in a queue of any length, when two could meet somebody is seated, and one of the seated has waited at least as long as either |
| `LongWaitsEnd` | two entries past the unbounded wait are never left unpaired |

`QueueInduction` adds to the two structures (`QueuesAgree`, `EntrySpentOnce`) that tickets are
numbered and that a match being created has taken its entries out (`EntriesAreNumbered`,
`SeatedAreMade`). `dropIneligible` removes a player *by name* after an await, whatever entry it has
by then, and the proof shows this harmless. `NobodyIsOvertaken` and `LongWaitsEnd` are lemmas about `findPairing`
itself, over the least element of a set of waits; they are the parts of `PairingIsFair` that hold of
every queue, and its comparison with the loops of the code stays with TLC.

### `AdministrationProofs`: accounts and what is kept of them

| Theorem | Says |
| --- | --- |
| `RowsAlwaysAgree` | each account has its address, name and session to itself, was made of one guest at most and verified once; its last audit record says what its row says |
| `ClaimsAreAlwaysWhole` | a claimed guest becomes one account with all it has played and the token it played with |
| `SuspensionAlwaysEndsSessions` | the transaction that suspends an account leaves no live session of it, the claimed guest's token included |
| `AdministrationIsTrue` | the last record of an achievement in the audit is its row and each is offered once; a listing read page by page descends, repeats nothing and loses no row that stood while it was read |

`IdentityInduction` has six facts about the tables and `WorksAgree`: what each request has inserted
and locked, which is what keeps a second claim of the same guest, address or name waiting until the
first is decided.

`AuditIsTrue` is of two arguments. In the catalogue, the row and its record are written in one
transaction; what a request adds is that a creation finds the key taken, so `CreatedStands` (what was
created has a row ever after) makes the invariant inductive (`CatalogueInduction`). Of the listings,
`ListingInduction` says of the pages on the screen and of those being read again alike: the cursor
is the last row (`CursorIsLast`), pages descend, and each row that stood when the reading began, and
was not rewritten since, is still to come if it is behind the cursor and on a page if not
(`SettledAreFound`). A record written meanwhile carries the moment its request read, so it may come
in on either side of the cursor; it moves none of the rows that stood. Assumed: there is some name,
and the ids are finitely many numbers.

### `ScreenProofs`: what the screens show

| Theorem | Says |
| --- | --- |
| `ScreensFollow` | the board a player sees is one its match had, it never goes back while the screen shows that match, and a lock on it is released only when the command behind it is decided |
| `CacheIsAlwaysTrue` | a tab shows and awaits only what was read as the account it is signed in as; a copy it takes for valid has every change it heard of |
| `OnlyTouchedFieldsEverChange` | a stored setting changes only to the save of a player who changed that field |

`ScreensFollow` holds for any number of matches, moves, commands, faults and restarts.
`SessionInduction` says of every request on its way to the server and of every message on its way
back that it is real: a snapshot is a prefix of its match's log, an event is the log's at its
version, a command's decision is the one the log records. The part that is not local to one message
is `RefusalsAreNewest`: a refusal carries a snapshot that *replaces* the board rather than being
merged with it, and would take the board back if anything newer of that match had been delivered
before it. It cannot: the server emits in order, and what it emitted before it refused is no newer
than the log it refused on.

`PagesInduction` is about one tab and one query at a time (`CellsAreTrue`):
whatever is in flight was sent as this account, or will be discarded. It rests on `RowsDoNotParse`:
the answer to a save is not taken for an account (the third finding), so it never reaches the cache.

### `ReleaseProofs`: releases, deployments, backups

| Theorem | Says |
| --- | --- |
| `DesktopsNeverGoBack` | no desktop is ever taken back to an older version |
| `StableWasTested` | what a run of the workflow moves to stable is the release it recorded, offered on every platform; the audit replays to the table |
| `ReleasesAreServed` | a green run served the commit it names, on its schema, wherever it was asked to; production never runs ahead of its schema |
| `ProductionStaysGuarded` | production starts only what staging answered the smoke test with, and its schema changes only once the old one is saved |
| `BackupsComeBack` | a reported restore is the dump and never touches the live database; a quiet backup comes back; the metric names one that can |

Assumed: identifiers are numbers and `None` is none of them (`RowsAssumption`), uploads pass the
request's schema (`UploadsAssumption`), each run builds one of them (`RunsAssumption`); a later commit
has no fewer migrations than an earlier one (`CommitsAssumption`; the journal of migrations only
grows); no spare database is called `live` (`BackupAssumption`). Two files with one digest are one file.

`NeverOlder` and `TestedIsPromoted` speak of a client or a run, while what could break them is done
by others to the table in between. `UpdatesInduction` says what an offer in a client's hands keeps,
namely a version newer than what runs, since a row's version never changes though its channel and
its pause do (`Grows`). `ReleaseInduction` follows a run by what it holds (`RowIsBuilt`,
`FoundIsRow`). It finds a release by version in a list, and another run may have recorded that
version too. It does not move the wrong one, and this rests on `KeysAreUnique`: two rows of one
version can only be there when the run's own is on stable already (`OnStable`), and then moving the
other would make two of that version in stable, which the key refuses. `AuditReplays` is inductive
with the lemma `NewRecordIsLast`: a new record is the last word about its own release and changes
none about another.

`DeployInduction` is `ControlOK` (which jobs have ended, which steps are left), `GatesHeld` (the
conditions a job began under still hold), `SuccessIsEarned`, and `MigrationOnItsWay`, which ties the
steps left of the production job to its schema: taken, then kept, then migrated, then served.
`ServedFits` is what makes a rollback safe: production's schema fits whatever it has *ever* served.
That main moves between a run's checkouts is covered by `TreeIsNamed` (`run.sha <= tree`).

`BackupInduction` says that an archive whose manifest is being written is still as it was dumped,
that a manifest's digest is of the dump, and that a restore past its digest works on the very dump
its manifest names (`RestoreOnItsWay`): the digest is compared before anything is filled.

### `WebClientProofs`: one window

| Theorem | Says |
| --- | --- |
| `ConnectionAlwaysKnows` | `ConnectionKnowsItsPlayer`, all six parts: types; nothing private on a connection that has not shaken hands; only legal moves; mutes told once the seat is shown; a close on its resignation's answer leaves no match as it was; the store holds the session once its writes are through |

For any sessions, preferences, squares and moves, and any number of connections and of things the
player does; `ClientAssumption` is all that is assumed. Each part speaks of the server's or the
window's state *now*, while frames and continuations under way were made in an earlier one, so
`ClientInduction` is about what is under way:

* `Sound`: a handshake that is neither answered nor forgotten is a frame or an answer on its way, of
  the connection at hand; handshakes are answered in the order they were asked in; a continuation
  waits only for a handshake on its way.
* `Known`: a private frame is only on a connection whose server knows the player. It follows from
  `Sound`: what was sent after a handshake's answer was sent on the same connection as that answer.
* `Carried`: every order on the wire was given by a mount that showed the version it names, and was
  legal there; no version under way is later than the match's (`ShownIsPast` says so of the board).
  The answer to a resignation is of a match that is over or has moved on, which is what
  `ClosingIsAnswered` needs when the close ends on it.
* `Telling`: a seated connection was told the mutes last preferred, *or* the handshake at hand has
  them waiting as its last word on them. Two settings changed during one handshake are told in
  order, and the later one stands.
* `Screened`, `CloseWaits`, `Stored`: what a screen that is not shown leaves behind, whose answer a
  close waits for, and that the last write queued is of the session held.

The proof shows for each operation on the connection (`Send`, `Authenticate`, `Opens`, `Continued`,
`Dropped`, `Tell`) that it keeps `Fine`, and the actions are compositions of these. It rests on two
details of the code that are easily lost: an answer settles the promise of the screen that sent the
command, not of any screen whose board looks the same, and a close waits for its own command's
answer, not for any answer to a resignation.

### What is only model-checked

* All liveness: `EveryLockIsReleased`, `EveryMatchEnds`, `NobodyWaitsBesideAnOpponent`, `CatchesUp`,
  `ScreensCatchUp`. Fairness and ENABLED are out of the prover's reach.
* `PairingIsFair`: it compares the choice of `FindPairing` with the two loops of the code, which
  `PairingScan` writes as recursive operators; of these tlapm proves nothing, and what a loop computes
  for a queue of any length would be an induction over data. What the choice itself promises is
  proved of every queue (`NobodyIsOvertaken`, `LongWaitsEnd`).

## 6. What is not modelled

* On the server, a second handshake on one connection; in `WebClient`, a change of account on a connection that is kept (its instance has one
  guest). The settlement that a tick of the broadcaster starts is not among the work a shutdown waits
  for; `MatchSession` has it, `Gateway` does not.
* A clock that goes backwards; the server reads `Date.now()`, which may.
* Two overlapping processes for the queue and the offers, which are per process by design. The row
  lock makes `MatchRuntime` valid for both: its handlers and settlements may belong to either.
  `Deployment` has old and new containers answering at once.
* A crash in `Matchmaking` and `Rematch`: their state is in memory, so a restart is their initial
  state again.
* Messages that only report (`queue:status`, telemetry, logs), the shape of payloads and what is
  refused for its shape alone; the limiter of credential attempts and `checkUsername`.
* On the client: the feed of messages, the rematch panel, local preferences, sound, scenes, labels
  and layout. In the desktop shell: the window itself.
* In the operations tools: load, gates, defects, the secret scan and the table export, which read and
  report.
* Telemetry and observability as a whole: they change no state that the rest reads.

`PROJECT.json` says for each component what was left out.

## 7. What is left to do

1. The queue's and the gateway's shared presence in one module, to state what `Matchmaking` takes as
   free (`online`) from what `Gateway` proves of it. `MatchSession` and `WebClient` likewise each take
   one side of the match screen; a composition would say that the snapshots the one orders are the
   ones the other shows.
2. The client's feed of messages and its rematch panel.
