----------------------------- MODULE GameGuards -----------------------------
(***************************************************************************)
(* The engine's checks on itself: the invariants that applyMove asserts of *)
(* every position and every move, and the stored form of a game, which is  *)
(* read back before every command and on every screen.  A check that a     *)
(* real game fails would stop that game for good; one that a damaged row   *)
(* passes would let it be played on.                                       *)
(***************************************************************************)
EXTENDS GameCore

CONSTANT MaxDamagedPly   \* bound on the games that are damaged for TLC, of which each has many

\* A GameState as one value: the position the variables hold.
Position ==
  [version |-> 1, board |-> board, reserves |-> reserves, activePlayer |-> activePlayer,
   ply |-> ply, counts |-> counts, status |-> status]

-----------------------------------------------------------------------------
(* The invariants. *)

\* Where a position holds a piece.
OnSquare(s, x, q) == {<<q, j>> : j \in {k \in DOMAIN s.board[q] : s.board[q][k] = x}}
InStack(s, x, p, i) ==
  {<<p, i, j>> : j \in {k \in DOMAIN s.reserves[p][i] : s.reserves[p][i][k] = x}}
OnBoard(s, x) == UNION {OnSquare(s, x, q) : q \in Squares}
InReserve(s, x) == UNION {UNION {InStack(s, x, p, i) : i \in Stacks} : p \in Players}

Places(s, x) == OnBoard(s, x) \cup InReserve(s, x)

\* An external stack can only lose pieces from its top.
Undisturbed(p, i, stack) ==
  stack = [k \in 1..Len(stack) |-> [owner |-> p, stack |-> i, size |-> k]]

\* Mutant: the scan of a stack starts above its second piece.
MisstackedAboveSecond(s) ==
  \E q \in Squares : \E j \in 3..Len(s.board[q]) : s.board[q][j].size <= s.board[q][j-1].size

\* A piece on one that is not smaller.
Misstacked(s) ==
  \E q \in Squares : \E j \in 2..Len(s.board[q]) : s.board[q][j].size <= s.board[q][j-1].size

\* collectInvariantViolations: what is found wrong with a position, by the code it is reported under.
Broken(s) ==
  LET shows(p) == winningLinesOnBoard(s.board, p) # {}
  IN  [version    |-> s.version # 1,
       ply        |-> s.ply < 0,
       player     |-> s.activePlayer \notin Players,
       duplicate  |-> \E x \in Pieces : Cardinality(Places(s, x)) > 1,
       missing    |-> \E x \in Pieces : Places(s, x) = {},
       perPlayer  |-> \E p \in Players :
                        Cardinality(UNION {Places(s, x) : x \in PiecesOf(p)})
                          # Cardinality(PiecesOf(p)),
       ascending  |-> Misstacked(s),
       contents   |-> \E p \in Players, i \in Stacks :
                        ~Undisturbed(p, i, s.reserves[p][i]),
       count      |-> \E k \in DOMAIN s.counts : s.counts[k] < 1,
       draw       |-> s.status = Draw /\ \A k \in DOMAIN s.counts :
                        s.counts[k] < RepetitionLimit,
       inProgress |-> s.status = InProgress /\ \E p \in Players : shows(p),
       win        |-> s.status.kind = "win" /\ ~shows(s.status.winner)]

Violations(s) ==
  LET broken == Broken(s)
  IN  {code \in DOMAIN broken : broken[code]}

\* collectTransitionViolations: a move counts a ply and passes the turn, unless it ended
\* the game, and it is not played on a finished one.
TransitionViolations(before, after) ==
  LET broken ==
        [ply      |-> after.ply # before.ply + 1,
         reopened |-> before.status # InProgress,
         turn     |-> (after.status = InProgress) # (after.activePlayer # before.activePlayer)]
  IN  {code \in DOMAIN broken : broken[code]}

-----------------------------------------------------------------------------
(* The stored form. *)

\* A piece is stored under its identifier and read back by it.
Id(x) == <<x.owner, x.stack, x.size>>
IsPieceId(v) == \E x \in Pieces : Id(x) = v
PieceById(v) == [owner |-> v[1], stack |-> v[2], size |-> v[3]]
Ids(stack) == [j \in DOMAIN stack |-> Id(stack[j])]
PiecesById(ids) == [j \in DOMAIN ids |-> PieceById(ids[j])]

toSerializableGameState(s) ==
  [s EXCEPT !.board = [q \in Squares |-> Ids(s.board[q])],
            !.reserves = [p \in Players |-> [i \in Stacks |-> Ids(s.reserves[p][i])]]]

Refused == [version |-> 0]

\* What structure alone shows: known pieces, a player, a status of the three kinds.
Readable(row) ==
  /\ row.version = 1
  /\ \A q \in Squares : \A j \in DOMAIN row.board[q] : IsPieceId(row.board[q][j])
  /\ \A p \in Players, i \in Stacks :
       \A j \in DOMAIN row.reserves[p][i] : IsPieceId(row.reserves[p][i][j])
  /\ row.activePlayer \in Players
  /\ row.ply >= 0 /\ \A k \in DOMAIN row.counts : row.counts[k] >= 0
  /\ row.status.kind \in {"in-progress", "win", "draw"}
  /\ row.status.kind = "win" => /\ row.status.winner \in Players
                                /\ row.status.reason \in {"line", "revealed-line"}

\* fromSerializableGameState: the structure first, then the invariants.
fromSerializableGameState(row) ==
  IF ~Readable(row) THEN Refused
  ELSE LET s == [row EXCEPT
                   !.board = [q \in Squares |-> PiecesById(row.board[q])],
                   !.reserves = [p \in Players |->
                                  [i \in Stacks |-> PiecesById(row.reserves[p][i])]]]
       IN  IF Violations(s) = {} THEN s ELSE Refused

-----------------------------------------------------------------------------
(* Properties. *)

\* Every game that is played can be stored and read back as it was: none of the engine's
\* own invariants ever refuses a position its moves lead to, however deep its stacks and
\* however it ended (applyMove's assertGameStateInvariants, readGameState).
StoredGamesLoad == fromSerializableGameState(toSerializableGameState(Position)) = Position

\* No move is refused by the checks on transitions after it was found legal, the last of
\* a game included (applyMove's assertTransitionInvariants, which would throw).
MovesPassTheirChecks == [][TransitionViolations(Position, Position') = {}]_vars

\* What one slip in a stored row could make of it: a piece gone from the top of a stack,
\* a piece twice, another piece in its place, two pieces of a stack exchanged, a won game
\* open again or won by nobody's line.
LoseTop(row, q) == [row EXCEPT !.board[q] = Without(@)]
Place(row, q, v) == [row EXCEPT !.board[q] = Append(@, v)]
ReplaceTop(row, q, v) == [row EXCEPT !.board[q][Len(row.board[q])] = v]
ExchangeTop(row, q) ==
  LET stack == row.board[q]
      n == Len(stack)
  IN  [row EXCEPT !.board[q] = [stack EXCEPT ![n] = stack[n-1], ![n-1] = stack[n]]]

Damaged ==
  LET row == toSerializableGameState(Position)
      occupied == {q \in Squares : board[q] # <<>>}
      ids == {Id(x) : x \in Pieces}
  IN  {LoseTop(row, q) : q \in occupied}
      \cup {Place(row, q, v) : q \in Squares, v \in ids}
      \cup {ReplaceTop(row, q, v) : q \in occupied, v \in ids}
      \cup {ExchangeTop(row, q) : q \in {r \in occupied : Len(board[r]) > 1}}
      \cup {[row EXCEPT !.status = InProgress] : w \in {p \in Players : status.kind = "win"}}
      \cup {[row EXCEPT !.status = Win(p, "line")] :
              p \in {r \in Players : winningLinesOnBoard(board, r) = {}}}

\* A stored game with one of these slips is never played on: reading it is refused
\* (serialization.ts: "corrupt stored state fails loudly").
DamageIsSeen ==
  \A row \in Damaged \ {toSerializableGameState(Position)} :
    fromSerializableGameState(row) = Refused

\* The same of the games of up to MaxDamagedPly plies: a move can cover a piece from the
\* fourth ply on, so that stacks are among what is exchanged (serialization.ts).
EarlyDamageIsSeen == ply <= MaxDamagedPly => DamageIsSeen
=============================================================================
