------------------------------ MODULE GameCore ------------------------------
(***************************************************************************)
(* The rules of a game, packages/game-core: boards of stacked pieces, the  *)
(* two kinds of move, the reveal rule and the draw by repetition.  The     *)
(* engine is pure, so its state is the GameState that applyMove passes on  *)
(* and a step is one accepted move; a refused one returns a reason and     *)
(* changes nothing.                                                        *)
(*                                                                         *)
(* The 4x4 board, its ten lines, the three stacks of four pieces and the   *)
(* limits are parameters.  The theorems about this module are in           *)
(* GameCoreProofs.                                                         *)
(***************************************************************************)
EXTENDS Integers, Sequences, FiniteSets

CONSTANTS
  Squares,          \* SQUARES
  Lines,            \* LINES, each the set of its squares
  Stacks,           \* RESERVE_STACK_INDEXES
  MaxSize,          \* the largest of PIECE_SIZES
  Threat,           \* RESERVE_GOBBLE_THREAT_COUNT
  RepetitionLimit,  \* REPETITION_LIMIT
  MaxPly            \* bound: no move is played after this many

Players == {"light", "dark"}

otherPlayer(p) == IF p = "light" THEN "dark" ELSE "light"

Sizes == 1..MaxSize
Pieces == [owner : Players, stack : Stacks, size : Sizes]
PiecesOf(p) == {x \in Pieces : x.owner = p}
LargestPieces == {x \in Pieces : x.size = MaxSize}

\* A threat is one piece short of a line.
ASSUME LinesAssumption ==
  /\ Threat \in Nat
  /\ \A l \in Lines : /\ l \subseteq Squares
                      /\ IsFiniteSet(l)
                      /\ Cardinality(l) = Threat + 1

ASSUME EquipmentAssumption ==
  /\ MaxSize \in Nat \ {0}
  /\ Stacks # {}
  /\ IsFiniteSet(Pieces)
  /\ RepetitionLimit \in Nat \ {0, 1}
  /\ MaxPly \in Nat

\* 16 squares against 12 pieces a player and 6 of the largest size.
ASSUME RoomAssumption ==
  /\ IsFiniteSet(Squares)
  /\ Cardinality(LargestPieces) < Cardinality(Squares)
  /\ \A p \in Players : Cardinality(PiecesOf(p)) < Cardinality(Squares)

InProgress == [kind |-> "in-progress"]
Draw == [kind |-> "draw"]
Win(p, reason) == [kind |-> "win", winner |-> p, reason |-> reason]

VARIABLES
  board,         \* the stack of pieces on each square, bottom to top
  reserves,      \* the external stacks of each player, bottom to top
  activePlayer,
  ply,
  counts,        \* how often each position key has occurred
  status

vars == <<board, reserves, activePlayer, ply, counts, status>>

-----------------------------------------------------------------------------
(* What the board shows. *)

Top(b, q) == b[q][Len(b[q])]
Without(s) == SubSeq(s, 1, Len(s) - 1)

\* visibleOwnerOnBoard(b, q) = p
Shows(b, q, p) == b[q] # <<>> /\ Top(b, q).owner = p

winningLinesOnBoard(b, p) == {l \in Lines : \A q \in l : Shows(b, q, p)}

hasThreeInLineThrough(b, p, sq) ==
  \E l \in Lines : sq \in l /\ Cardinality({q \in l : Shows(b, q, p)}) = Threat

\* The key forgets which stack a piece came from, and the order of the external
\* stacks: what is left of them is counted, not listed.
positionKeyOf(b, r, side) ==
  [board |-> [q \in Squares |->
               [j \in 1..Len(b[q]) |-> <<b[q][j].owner, b[q][j].size>>]],
   reserves |-> [p \in Players |->
               [k \in 0..MaxSize |-> Cardinality({i \in Stacks : Len(r[p][i]) = k})]],
   side |-> side]

-----------------------------------------------------------------------------
(* Legality. *)

\* getExposedReservePieceId: the piece a player would enter from an external stack.
Exposed(p, i) == reserves[p][i][Len(reserves[p][i])]

\* simulateReserveMove: the exposed piece enters an empty square, or covers a smaller
\* piece of an opponent who threatens a line through it.
ReserveMoveLegal(p, i, to) ==
  /\ reserves[p][i] # <<>>
  /\ board[to] # <<>> =>
       /\ Top(board, to).owner # p
       /\ Top(board, to).size < Exposed(p, i).size
       /\ hasThreeInLineThrough(board, otherPlayer(p), to)

\* Mutants: a piece on the board may only gobble an opponent's; whoever owns the top piece may be moved;
\* a piece may cover one of its own size.
CoversOpponentsOnly(p, from, to) ==
  /\ from # to
  /\ Shows(board, from, p)
  /\ Shows(board, to, otherPlayer(p))
  /\ Top(board, to).size < Top(board, from).size

AnyoneMayMove(p, from, to) ==
  /\ from # to
  /\ board[from] # <<>>
  /\ board[to] # <<>> => Top(board, to).size < Top(board, from).size

CoversItsEqual(p, from, to) ==
  /\ from # to
  /\ Shows(board, from, p)
  /\ board[to] # <<>> => Top(board, to).size <= Top(board, from).size

\* simulateBoardMove: a visible piece of one's own goes to another square, empty or
\* showing a smaller piece of either player.
BoardMoveLegal(p, from, to) ==
  /\ from # to
  /\ Shows(board, from, p)
  /\ board[to] # <<>> => Top(board, to).size < Top(board, from).size

isGameOver == status # InProgress

\* enumerateMoves: a reserve move is <<stack, square>>, a board move <<square, square>>.
ReserveMoves ==
  {m \in Stacks \X Squares :
     ~isGameOver /\ ReserveMoveLegal(activePlayer, m[1], m[2])}

BoardMoves ==
  {m \in Squares \X Squares :
     ~isGameOver /\ BoardMoveLegal(activePlayer, m[1], m[2])}

-----------------------------------------------------------------------------
(* Moves. *)

\* Mutant: a revealed line is not looked for.
OutcomeWithoutReveal(b, mover, occurrences) ==
  IF winningLinesOnBoard(b, mover) # {} THEN Win(mover, "line")
  ELSE IF occurrences >= RepetitionLimit THEN Draw ELSE InProgress

\* The priority of outcomes: a line of the opponent, a line of the mover, repetition.
Outcome(b, mover, occurrences) ==
  IF winningLinesOnBoard(b, otherPlayer(mover)) # {}
    THEN Win(otherPlayer(mover), "revealed-line")
  ELSE IF winningLinesOnBoard(b, mover) # {} THEN Win(mover, "line")
  ELSE IF occurrences >= RepetitionLimit THEN Draw ELSE InProgress

Occurrences(key) == IF key \in DOMAIN counts THEN counts[key] + 1 ELSE 1

\* Mutant: the position is counted for the player who has just moved.
CompleteForTheMover(b, r) ==
  LET key == positionKeyOf(b, r, activePlayer)
  IN  /\ board' = b
      /\ reserves' = r
      /\ counts' = [k \in DOMAIN counts \cup {key} |->
                      IF k = key THEN Occurrences(key) ELSE counts[k]]
      /\ status' = Outcome(b, activePlayer, Occurrences(key))
      /\ activePlayer' = IF status' = InProgress THEN otherPlayer(activePlayer)
                                                 ELSE activePlayer
      /\ ply' = ply + 1

\* The turn passes only when the game goes on, but the position is always counted as
\* the opponent's to move.
completeMove(b, r) ==
  LET key == positionKeyOf(b, r, otherPlayer(activePlayer))
  IN  /\ board' = b
      /\ reserves' = r
      /\ counts' = [k \in DOMAIN counts \cup {key} |->
                      IF k = key THEN Occurrences(key) ELSE counts[k]]
      /\ status' = Outcome(b, activePlayer, Occurrences(key))
      /\ activePlayer' = IF status' = InProgress THEN otherPlayer(activePlayer)
                                                 ELSE activePlayer
      /\ ply' = ply + 1

\* createInitialGame: the opening counts as the first occurrence of its position.
Init ==
  /\ board = [q \in Squares |-> <<>>]
  /\ reserves = [p \in Players |-> [i \in Stacks |->
                  [s \in Sizes |-> [owner |-> p, stack |-> i, size |-> s]]]]
  /\ activePlayer \in Players
  /\ ply = 0
  /\ counts = [k \in {positionKeyOf(board, reserves, activePlayer)} |-> 1]
  /\ status = InProgress

ReserveMove(i, to) ==
  /\ ply < MaxPly
  /\ <<i, to>> \in ReserveMoves
  /\ completeMove([board EXCEPT ![to] = Append(@, Exposed(activePlayer, i))],
                  [reserves EXCEPT ![activePlayer][i] = Without(@)])

\* The board between lifting a piece and placing it.
Lifted(b, from) == [b EXCEPT ![from] = Without(@)]

BoardMove(from, to) ==
  /\ ply < MaxPly
  /\ <<from, to>> \in BoardMoves
  /\ completeMove([Lifted(board, from) EXCEPT ![to] = Append(@, Top(board, from))],
                  reserves)

Next ==
  \/ \E i \in Stacks, to \in Squares : ReserveMove(i, to)
  \/ \E from, to \in Squares : BoardMove(from, to)

Spec == Init /\ [][Next]_vars

-----------------------------------------------------------------------------
(* Properties. *)

TypeOK ==
  /\ board \in [Squares -> Seq(Pieces)]
  /\ reserves \in [Players -> [Stacks -> Seq(Pieces)]]
  /\ activePlayer \in Players
  /\ ply \in Nat
  /\ counts \in [DOMAIN counts -> Nat]
  /\ status \in {InProgress, Draw}
       \cup {Win(p, reason) : p \in Players, reason \in {"line", "revealed-line"}}

\* An external stack holds the sizes 1..k of its own pieces, for some k.
ReservesAreSorted ==
  \A p \in Players, i \in Stacks :
    /\ Len(reserves[p][i]) <= MaxSize
    /\ \A s \in 1..Len(reserves[p][i]) :
         reserves[p][i][s] = [owner |-> p, stack |-> i, size |-> s]

Entered(x) == x.size > Len(reserves[x.owner][x.stack])

\* Only pieces that have left their external stack are on the board, each at one place
\* of one square, and a stack rises from bottom to top.
BoardStacks ==
  /\ \A q \in Squares : \A j \in 1..Len(board[q]) :
       /\ Entered(board[q][j])
       /\ j > 1 => board[q][j-1].size < board[q][j].size
  /\ \A q1, q2 \in Squares : \A j1 \in 1..Len(board[q1]), j2 \in 1..Len(board[q2]) :
       board[q1][j1] = board[q2][j2] => q1 = q2 /\ j1 = j2

\* No piece is lost: what has left its external stack is on the board.
NothingLost ==
  \A x \in Pieces : Entered(x) => \E q \in Squares : \E j \in 1..Len(board[q]) : board[q][j] = x

\* Every piece is accounted for exactly once through any number of moves that bury and
\* uncover it (collectInvariantViolations, whose failure makes applyMove throw).
EveryPieceOnce == ReservesAreSorted /\ BoardStacks /\ NothingLost

\* The recorded result is the one the board shows: while the game goes on nobody shows
\* a line, whoever won shows one, and a game is lost by reveal only when the winner is not
\* the last mover (completeMove; terminal states keep the mover as activePlayer).
StatusMatchesBoard ==
  /\ status.kind # "win" => \A p \in Players : winningLinesOnBoard(board, p) = {}
  /\ status.kind = "win" =>
       /\ winningLinesOnBoard(board, status.winner) # {}
       /\ status.reason = "line" <=> status.winner = activePlayer
       /\ status.winner = activePlayer =>
            winningLinesOnBoard(board, otherPlayer(activePlayer)) = {}

\* The player to move always has a move: the engine has no outcome for one who has none
\* (docs/rules.md, open question Q4), and the clock would decide the game.
SomebodyCanMove == ~isGameOver => ReserveMoves \cup BoardMoves # {}

\* In a game that goes on the position on the board has been counted, no position has
\* occurred often enough for a draw, and a draw is the position on the board reaching
\* the limit exactly.
RepetitionDecides ==
  LET now(side) == positionKeyOf(board, reserves, side)
  IN  /\ ~isGameOver => /\ now(activePlayer) \in DOMAIN counts
                        /\ \A k \in DOMAIN counts : counts[k] \in 1..(RepetitionLimit - 1)
      /\ status = Draw => /\ now(otherPlayer(activePlayer)) \in DOMAIN counts
                          /\ \A k \in DOMAIN counts :
                               counts[k] = RepetitionLimit
                                 <=> k = now(otherPlayer(activePlayer))

\* What a game is recorded as is what its board and its history say, at every ply.
ResultIsTheBoards == StatusMatchesBoard /\ RepetitionDecides

\* A move never makes a line for the opponent: whatever line the opponent shows
\* afterwards was there as soon as the piece was lifted (docs/rules.md, Q2, calls the other
\* case unreachable), and entering a piece reveals nothing.
OpponentLinesWereRevealed ==
  [][\A l \in winningLinesOnBoard(board', otherPlayer(activePlayer)) :
       \E from \in Squares :
         /\ Shows(board, from, activePlayer)
         /\ from \in l
         /\ l \in winningLinesOnBoard(Lifted(board, from), otherPlayer(activePlayer))]_vars
=============================================================================
