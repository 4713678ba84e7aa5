--------------------------- MODULE GameCoreProofs ---------------------------
(***************************************************************************)
(* Proofs about GameCore and the engine's checks on itself (GameGuards),   *)
(* for every board, every set of lines one piece longer than a threat,     *)
(* every number of stacks and sizes and every repetition limit, as long as *)
(* the board has more squares than a player has pieces and than there are  *)
(* pieces of the largest size.                                             *)
(***************************************************************************)
EXTENDS GameGuards, FiniteSetTheorems, SequenceTheorems, TLAPS

USE DEF Players

-----------------------------------------------------------------------------
(* Stacks as sequences. *)

\* What slice(0, -1) leaves of a stack.
LEMMA WithoutTop ==
  ASSUME NEW S, NEW s \in Seq(S), s # <<>>
  PROVE  /\ Len(s) \in Nat \ {0}
         /\ s[Len(s)] \in S
         /\ Without(s) \in Seq(S)
         /\ Len(Without(s)) = Len(s) - 1
         /\ \A j \in 1..(Len(s) - 1) : Without(s)[j] = s[j]
<1>1. Len(s) \in Nat \ {0}
  BY EmptySeq
<1>2. \A j \in 1..Len(s) : s[j] \in S
  BY ElementOfSeq
<1>3. \A j \in 1..(Len(s) - 1) : s[j] \in S
  <2>1. 1..(Len(s) - 1) \subseteq 1..Len(s)
    BY <1>1
  <2> QED
    BY <1>2, <2>1
<1>4. /\ Without(s) \in Seq(S)
      /\ Len(Without(s)) = Len(s) - 1
      /\ \A j \in 1..(Len(s) - 1) : Without(s)[j] = s[j]
  <2> DEFINE n == Len(s) - 1
  <2>1. n \in Int /\ 1 \in Int /\ n >= 0
    BY <1>1
  <2>2. \A j \in 1..n : s[j] \in S
    BY <1>3
  <2> HIDE DEF n
  <2>3. /\ SubSeq(s, 1, n) \in Seq(S)
        /\ Len(SubSeq(s, 1, n)) = IF 1 <= n THEN n - 1 + 1 ELSE 0
        /\ \A j \in 1..(n - 1 + 1) : SubSeq(s, 1, n)[j] = s[1 + j - 1]
    BY <2>1, <2>2, SubSeqProperties
  <2>4. Len(SubSeq(s, 1, n)) = n /\ \A j \in 1..n : SubSeq(s, 1, n)[j] = s[j]
    BY <2>1, <2>3
  <2> QED
    BY <2>3, <2>4 DEF Without, n
<1> QED
  BY <1>1, <1>2, <1>4

\* What [...stack, piece] makes of one.
LEMMA AppendTop ==
  ASSUME NEW S, NEW s \in Seq(S), NEW x \in S
  PROVE  /\ Append(s, x) \in Seq(S)
         /\ Append(s, x) # <<>>
         /\ Len(Append(s, x)) = Len(s) + 1
         /\ Append(s, x)[Len(s) + 1] = x
         /\ \A j \in 1..Len(s) : Append(s, x)[j] = s[j]
OBVIOUS

\* The two players are each other's opponents.
LEMMA OtherPlayer ==
  ASSUME NEW p \in Players
  PROVE  /\ otherPlayer(p) \in Players
         /\ otherPlayer(p) # p
         /\ \A r \in Players : r # p => r = otherPlayer(p)
BY DEF otherPlayer

-----------------------------------------------------------------------------
(* Types. *)

\* What completeMove's own assignments preserve of the types.
LEMMA CompleteType ==
  ASSUME TypeOK, NEW b \in [Squares -> Seq(Pieces)],
         NEW r \in [Players -> [Stacks -> Seq(Pieces)]], completeMove(b, r)
  PROVE  TypeOK'
<1> DEFINE key == positionKeyOf(b, r, otherPlayer(activePlayer))
           n == Occurrences(key)
<1>1. n \in Nat
  BY DEF TypeOK, Occurrences
<1>2. counts' \in [DOMAIN counts' -> Nat]
  <2>1. counts' = [k \in DOMAIN counts \cup {key} |-> IF k = key THEN n ELSE counts[k]]
    BY DEF completeMove
  <2> HIDE DEF key, n
  <2> QED
    BY <1>1, <2>1 DEF TypeOK
<1>3. status' = Outcome(b, activePlayer, n)
  BY DEF completeMove
<1>4. status' \in {InProgress, Draw}
        \cup {Win(p, reason) : p \in Players, reason \in {"line", "revealed-line"}}
  <2>1. activePlayer \in Players /\ otherPlayer(activePlayer) \in Players
    BY OtherPlayer DEF TypeOK
  <2> HIDE DEF n
  <2> QED
    BY <1>3, <2>1 DEF Outcome
<1>5. activePlayer' \in Players
  BY OtherPlayer DEF TypeOK, completeMove
<1>6. ply' \in Nat
  BY DEF TypeOK, completeMove
<1>7. board' = b /\ reserves' = r
  BY DEF completeMove
<1> QED
  BY <1>2, <1>4, <1>5, <1>6, <1>7 DEF TypeOK

\* What a reserve move does to the board and to the external stacks.
LEMMA ReserveMoveEffect ==
  ASSUME TypeOK, NEW i \in Stacks, NEW to \in Squares, ReserveMove(i, to)
  PROVE  /\ reserves[activePlayer][i] \in Seq(Pieces)
         /\ reserves[activePlayer][i] # <<>>
         /\ Exposed(activePlayer, i) \in Pieces
         /\ ReserveMoveLegal(activePlayer, i, to)
         /\ status = InProgress
         /\ [board EXCEPT ![to] = Append(@, Exposed(activePlayer, i))]
              \in [Squares -> Seq(Pieces)]
         /\ [reserves EXCEPT ![activePlayer][i] = Without(@)]
              \in [Players -> [Stacks -> Seq(Pieces)]]
         /\ completeMove([board EXCEPT ![to] = Append(@, Exposed(activePlayer, i))],
                         [reserves EXCEPT ![activePlayer][i] = Without(@)])
<1>1. /\ ReserveMoveLegal(activePlayer, i, to)
      /\ status = InProgress
  BY DEF ReserveMove, ReserveMoves, isGameOver
<1>2. reserves[activePlayer][i] \in Seq(Pieces) /\ reserves[activePlayer][i] # <<>>
  BY <1>1 DEF TypeOK, ReserveMoveLegal
<1>3. Exposed(activePlayer, i) \in Pieces /\ Without(reserves[activePlayer][i]) \in Seq(Pieces)
  BY <1>2, WithoutTop DEF Exposed
<1>4. Append(board[to], Exposed(activePlayer, i)) \in Seq(Pieces)
  BY <1>3, AppendTop DEF TypeOK
<1> QED
  BY <1>1, <1>2, <1>3, <1>4 DEF TypeOK, ReserveMove

\* What a board move does to the board.
LEMMA BoardMoveEffect ==
  ASSUME TypeOK, NEW from \in Squares, NEW to \in Squares, BoardMove(from, to)
  PROVE  /\ BoardMoveLegal(activePlayer, from, to)
         /\ status = InProgress
         /\ board[from] # <<>>
         /\ Top(board, from) \in Pieces
         /\ Lifted(board, from) \in [Squares -> Seq(Pieces)]
         /\ [Lifted(board, from) EXCEPT ![to] = Append(@, Top(board, from))]
              \in [Squares -> Seq(Pieces)]
         /\ completeMove([Lifted(board, from) EXCEPT ![to] = Append(@, Top(board, from))],
                         reserves)
<1>1. /\ BoardMoveLegal(activePlayer, from, to)
      /\ status = InProgress
  BY DEF BoardMove, BoardMoves, isGameOver
<1>2. board[from] # <<>> /\ board[from] \in Seq(Pieces)
  BY <1>1 DEF BoardMoveLegal, Shows, TypeOK
<1>3. Top(board, from) \in Pieces /\ Without(board[from]) \in Seq(Pieces)
  BY <1>2, WithoutTop DEF Top
<1>4. Lifted(board, from) \in [Squares -> Seq(Pieces)]
  BY <1>3 DEF Lifted, TypeOK
<1>5. Append(Lifted(board, from)[to], Top(board, from)) \in Seq(Pieces)
  BY <1>3, <1>4, AppendTop
<1> QED
  BY <1>1, <1>2, <1>3, <1>4, <1>5 DEF BoardMove

\* The board, the external stacks, the counters and the result keep their types in
\* every game (createInitialGame, applyMove).
THEOREM GameTypeCorrect == Spec => []TypeOK
<1>1. Init => TypeOK
  <2> SUFFICES ASSUME Init PROVE TypeOK
    OBVIOUS
  <2>1. board \in [Squares -> Seq(Pieces)]
    BY DEF Init
  <2>2. \A p \in Players, i \in Stacks :
          [s \in Sizes |-> [owner |-> p, stack |-> i, size |-> s]] \in Seq(Pieces)
    <3> SUFFICES ASSUME NEW p \in Players, NEW i \in Stacks
                 PROVE  [s \in Sizes |-> [owner |-> p, stack |-> i, size |-> s]] \in Seq(Pieces)
      OBVIOUS
    <3>1. [s \in 1..MaxSize |-> [owner |-> p, stack |-> i, size |-> s]] \in [1..MaxSize -> Pieces]
      BY DEF Pieces, Sizes
    <3> QED
      BY <3>1, EquipmentAssumption DEF Sizes
  <2>3. reserves \in [Players -> [Stacks -> Seq(Pieces)]]
    BY <2>2 DEF Init
  <2> QED
    BY <2>1, <2>3 DEF Init, TypeOK
<1>2. TypeOK /\ [Next]_vars => TypeOK'
  <2> SUFFICES ASSUME TypeOK, [Next]_vars PROVE TypeOK'
    OBVIOUS
  <2>1. ASSUME NEW i \in Stacks, NEW to \in Squares, ReserveMove(i, to) PROVE TypeOK'
    BY <2>1, ReserveMoveEffect, CompleteType
  <2>2. ASSUME NEW from \in Squares, NEW to \in Squares, BoardMove(from, to) PROVE TypeOK'
    <3>1. reserves \in [Players -> [Stacks -> Seq(Pieces)]]
      BY DEF TypeOK
    <3> QED
      BY <2>2, <3>1, BoardMoveEffect, CompleteType
  <2>3. CASE UNCHANGED vars
    BY <2>3 DEF TypeOK, vars
  <2> QED
    BY <2>1, <2>2, <2>3 DEF Next
<1> QED
  BY <1>1, <1>2, PTL DEF Spec

-----------------------------------------------------------------------------
(* Every piece is at one place. *)

\* The pieces of a player are told apart by their stack and their size.
LEMMA PieceIdentity ==
  ASSUME NEW x \in Pieces, NEW y \in Pieces,
         x.owner = y.owner, x.stack = y.stack, x.size = y.size
  PROVE  x = y
BY DEF Pieces

\* The piece a reserve move enters is the largest left in its stack, and it is the
\* only one whose place changes.
LEMMA EnteringPiece ==
  ASSUME TypeOK, ReservesAreSorted, NEW i \in Stacks, NEW to \in Squares,
         ReserveMove(i, to), NEW x, x = Exposed(activePlayer, i)
  PROVE  /\ x \in Pieces
         /\ ~Entered(x)
         /\ \A y \in Pieces : Entered(y)' <=> (Entered(y) \/ y = x)
         /\ ReservesAreSorted'
<1> DEFINE mine == reserves[activePlayer][i]
<1>1. /\ mine \in Seq(Pieces) /\ mine # <<>> /\ x \in Pieces /\ x = mine[Len(mine)]
      /\ reserves' = [reserves EXCEPT ![activePlayer][i] = Without(mine)]
  BY ReserveMoveEffect DEF completeMove, Exposed
<1> HIDE DEF mine
<1>2. activePlayer \in Players
  BY DEF TypeOK
<1>3. /\ Len(mine) \in Nat \ {0}
      /\ Len(Without(mine)) = Len(mine) - 1
      /\ \A j \in 1..(Len(mine) - 1) : Without(mine)[j] = mine[j]
  BY <1>1, WithoutTop
<1>4. x = [owner |-> activePlayer, stack |-> i, size |-> Len(mine)] /\ Len(mine) <= MaxSize
  BY <1>1, <1>2, <1>3 DEF ReservesAreSorted, mine
<1>5. /\ reserves'[activePlayer][i] = Without(mine)
      /\ \A p \in Players, j \in Stacks :
           p # activePlayer \/ j # i => reserves'[p][j] = reserves[p][j]
  BY <1>1, <1>2 DEF TypeOK
<1>6. ~Entered(x)
  BY <1>3, <1>4 DEF Entered, mine
<1>7. ASSUME NEW y \in Pieces PROVE Entered(y)' <=> (Entered(y) \/ y = x)
  <2>1. y.owner \in Players /\ y.stack \in Stacks /\ y.size \in Nat
    BY EquipmentAssumption DEF Pieces, Sizes
  <2>2. CASE y.owner = activePlayer /\ y.stack = i
    <3>1. Entered(y)' <=> y.size > Len(mine) - 1
      BY <1>3, <1>5, <2>2 DEF Entered
    <3>2. Entered(y) <=> y.size > Len(mine)
      BY <2>2 DEF Entered, mine
    <3>3. y = x <=> y.size = Len(mine)
      BY <1>1, <1>4, <2>2, PieceIdentity
    <3> QED
      BY <1>3, <2>1, <3>1, <3>2, <3>3
  <2>3. CASE y.owner # activePlayer \/ y.stack # i
    <3>1. y # x
      BY <1>4, <2>3
    <3>2. reserves'[y.owner][y.stack] = reserves[y.owner][y.stack]
      BY <1>5, <2>1, <2>3
    <3> QED
      BY <3>1, <3>2 DEF Entered
  <2> QED
    BY <2>2, <2>3
<1>8. ReservesAreSorted'
  <2> SUFFICES ASSUME NEW p \in Players, NEW j \in Stacks
               PROVE  /\ Len(reserves'[p][j]) <= MaxSize
                      /\ \A s \in 1..Len(reserves'[p][j]) :
                           reserves'[p][j][s] = [owner |-> p, stack |-> j, size |-> s]
    BY DEF ReservesAreSorted
  <2>1. CASE p = activePlayer /\ j = i
    <3>1. \A s \in 1..(Len(mine) - 1) : mine[s] = [owner |-> p, stack |-> j, size |-> s]
      BY <1>3, <2>1 DEF ReservesAreSorted, mine
    <3> QED
      BY <1>3, <1>4, <1>5, <2>1, <3>1, EquipmentAssumption
  <2>2. CASE p # activePlayer \/ j # i
    BY <1>5, <2>2 DEF ReservesAreSorted
  <2> QED
    BY <2>1, <2>2
<1> QED
  BY <1>1, <1>6, <1>7, <1>8

\* Entering a piece keeps every piece at one place.
LEMMA ReserveMovePieces ==
  ASSUME TypeOK, EveryPieceOnce, NEW i \in Stacks, NEW to \in Squares, ReserveMove(i, to)
  PROVE  EveryPieceOnce'
<1> DEFINE Out(y) == y.size > Len(reserves'[y.owner][y.stack])
           x == Exposed(activePlayer, i)
           n == Len(board[to])
<1>1. /\ x \in Pieces
      /\ ~Entered(x)
      /\ \A y \in Pieces : Out(y) <=> (Entered(y) \/ y = x)
      /\ ReservesAreSorted'
  BY EnteringPiece DEF EveryPieceOnce, Entered
<1>2. /\ board' = [board EXCEPT ![to] = Append(@, x)]
      /\ board[to] # <<>> => Top(board, to).size < x.size
  BY ReserveMoveEffect DEF completeMove, ReserveMoveLegal
<1> HIDE DEF Out
<1>3. \A q \in Squares : /\ board[q] \in Seq(Pieces)
                         /\ Len(board[q]) \in Nat
                         /\ \A j \in 1..Len(board[q]) : board[q][j] \in Pieces
  BY ElementOfSeq, LenProperties DEF TypeOK
<1>4. /\ board'[to] = Append(board[to], x)
      /\ \A q \in Squares : q # to => board'[q] = board[q]
  BY <1>2 DEF TypeOK
<1> HIDE DEF x
<1>5. /\ Len(board'[to]) = n + 1
      /\ board'[to][n + 1] = x
      /\ \A j \in 1..n : board'[to][j] = board[to][j]
  <2>1. board[to] \in Seq(Pieces)
    BY <1>3
  <2>2. /\ Len(Append(board[to], x)) = Len(board[to]) + 1
        /\ Append(board[to], x)[Len(board[to]) + 1] = x
        /\ \A j \in 1..Len(board[to]) : Append(board[to], x)[j] = board[to][j]
    BY <1>1, <2>1, AppendTop
  <2> QED
    BY <1>4, <2>2
<1>6. \A q \in Squares, j \in Nat :
        j \in 1..Len(board'[q]) <=> j \in 1..Len(board[q]) \/ (q = to /\ j = n + 1)
  BY <1>3, <1>4, <1>5
<1>7. \A q \in Squares : \A j \in 1..Len(board[q]) :
        board'[q][j] = board[q][j] /\ Entered(board[q][j])
  BY <1>4, <1>5 DEF EveryPieceOnce, BoardStacks
<1>8. \A q \in Squares : \A j \in 1..Len(board[q]) : board'[q][j] # x
  BY <1>1, <1>7
<1> HIDE DEF n
<1>9. BoardStacks'
  <2>1. ASSUME NEW q \in Squares, NEW j \in 1..Len(board'[q])
        PROVE  /\ Out(board'[q][j])
               /\ j > 1 => board'[q][j-1].size < board'[q][j].size
    <3>1. CASE j \in 1..Len(board[q])
      <4>1. board'[q][j] = board[q][j] /\ Out(board'[q][j])
        BY <1>1, <1>3, <1>7, <3>1
      <4>2. j > 1 => board'[q][j-1] = board[q][j-1]
        BY <1>3, <1>7, <3>1
      <4> QED
        BY <3>1, <4>1, <4>2 DEF EveryPieceOnce, BoardStacks
    <3>2. CASE q = to /\ j = n + 1
      <4>1. board'[q][j] = x /\ Out(board'[q][j])
        BY <1>1, <1>5, <3>2
      <4>2. j > 1 => board'[q][j-1] = Top(board, to) /\ board[to] # <<>>
        BY <1>3, <1>5, <3>2, EmptySeq DEF Top, n
      <4> QED
        BY <1>2, <4>1, <4>2
    <3> QED
      BY <1>6, <3>1, <3>2
  <2>2. ASSUME NEW q1 \in Squares, NEW q2 \in Squares,
               NEW j1 \in 1..Len(board'[q1]), NEW j2 \in 1..Len(board'[q2]),
               board'[q1][j1] = board'[q2][j2]
        PROVE  q1 = q2 /\ j1 = j2
    <3>1. CASE j1 \in 1..Len(board[q1]) /\ j2 \in 1..Len(board[q2])
      <4>1. board[q1][j1] = board[q2][j2]
        BY <1>7, <2>2, <3>1
      <4> QED
        BY <3>1, <4>1 DEF EveryPieceOnce, BoardStacks
    <3>2. CASE q1 = to /\ j1 = n + 1
      BY <1>5, <1>6, <1>8, <2>2, <3>2
    <3>3. CASE q2 = to /\ j2 = n + 1
      BY <1>5, <1>6, <1>8, <2>2, <3>3
    <3> QED
      BY <1>6, <3>1, <3>2, <3>3
  <2> QED
    BY <2>1, <2>2 DEF BoardStacks, Entered, Out
<1>10. NothingLost'
  <2> SUFFICES ASSUME NEW y \in Pieces, Out(y)
               PROVE  \E q \in Squares : \E j \in 1..Len(board'[q]) : board'[q][j] = y
    BY DEF NothingLost, Entered, Out
  <2>1. CASE y = x
    <3>1. n + 1 \in 1..Len(board'[to])
      BY <1>3, <1>5 DEF n
    <3> QED
      BY <1>5, <2>1, <3>1
  <2>2. CASE Entered(y)
    <3>1. PICK q \in Squares : \E j \in 1..Len(board[q]) : board[q][j] = y
      BY <2>2 DEF EveryPieceOnce, NothingLost
    <3> QED
      BY <1>6, <1>7, <3>1
  <2> QED
    BY <1>1, <2>1, <2>2
<1> QED
  BY <1>1, <1>9, <1>10 DEF EveryPieceOnce
\* Moving a piece on the board keeps every piece at one place.
LEMMA BoardMovePieces ==
  ASSUME TypeOK, EveryPieceOnce, NEW from \in Squares, NEW to \in Squares, BoardMove(from, to)
  PROVE  EveryPieceOnce'
<1> DEFINE x == Top(board, from)
           n == Len(board[from])
           m == Len(board[to])
           Stays(q, j) == j \in 1..Len(board[q]) /\ ~(q = from /\ j = n)
<1>1. /\ board' = [Lifted(board, from) EXCEPT ![to] = Append(@, x)]
      /\ reserves' = reserves
      /\ from # to
      /\ board[from] # <<>>
      /\ x \in Pieces
      /\ board[to] # <<>> => Top(board, to).size < x.size
  BY BoardMoveEffect DEF completeMove, BoardMoveLegal
<1>2. x = board[from][n]
  BY DEF Top
<1>3. \A q \in Squares : /\ board[q] \in Seq(Pieces)
                         /\ Len(board[q]) \in Nat
                         /\ \A j \in 1..Len(board[q]) : board[q][j] \in Pieces
  BY ElementOfSeq, LenProperties DEF TypeOK
<1>4. n \in Nat \ {0} /\ m \in Nat
  BY <1>1, <1>3, EmptySeq
<1>5. /\ board'[from] = Without(board[from])
      /\ board'[to] = Append(board[to], x)
      /\ \A q \in Squares : q # from /\ q # to => board'[q] = board[q]
  BY <1>1 DEF Lifted, TypeOK
<1> HIDE DEF x
<1>6. /\ Len(board'[from]) = n - 1
      /\ \A j \in 1..(n - 1) : board'[from][j] = board[from][j]
  <2>1. board[from] \in Seq(Pieces) /\ board[from] # <<>>
    BY <1>1, <1>3
  <2>2. /\ Len(Without(board[from])) = Len(board[from]) - 1
        /\ \A j \in 1..(Len(board[from]) - 1) : Without(board[from])[j] = board[from][j]
    BY <2>1, WithoutTop
  <2> QED
    BY <1>5, <2>2
<1>7. /\ Len(board'[to]) = m + 1
      /\ board'[to][m + 1] = x
      /\ \A j \in 1..m : board'[to][j] = board[to][j]
  <2>1. board[to] \in Seq(Pieces)
    BY <1>3
  <2>2. /\ Len(Append(board[to], x)) = Len(board[to]) + 1
        /\ Append(board[to], x)[Len(board[to]) + 1] = x
        /\ \A j \in 1..Len(board[to]) : Append(board[to], x)[j] = board[to][j]
    BY <1>1, <2>1, AppendTop
  <2> QED
    BY <1>5, <2>2
<1>8. \A q \in Squares, j \in Nat :
        j \in 1..Len(board'[q]) <=> Stays(q, j) \/ (q = to /\ j = m + 1)
  <2> SUFFICES ASSUME NEW q \in Squares, NEW j \in Nat
               PROVE  j \in 1..Len(board'[q]) <=> Stays(q, j) \/ (q = to /\ j = m + 1)
    OBVIOUS
  <2>1. CASE q = from
    BY <1>1, <1>4, <1>6, <2>1
  <2>2. CASE q = to
    BY <1>1, <1>4, <1>7, <2>2
  <2>3. CASE q # from /\ q # to
    BY <1>5, <2>3
  <2> QED
    BY <2>1, <2>2, <2>3
<1>9. \A q \in Squares, j \in Nat : Stays(q, j) => board'[q][j] = board[q][j]
  <2> SUFFICES ASSUME NEW q \in Squares, NEW j \in Nat, Stays(q, j)
               PROVE  board'[q][j] = board[q][j]
    OBVIOUS
  <2>1. CASE q = from
    BY <1>4, <1>6, <2>1
  <2>2. CASE q # from
    BY <1>5, <1>7, <2>2
  <2> QED
    BY <2>1, <2>2
<1>10. \A q \in Squares, j \in Nat : Stays(q, j) => board[q][j] # x
  <2>1. n \in 1..Len(board[from])
    BY <1>4
  <2> QED
    BY <1>2, <2>1 DEF EveryPieceOnce, BoardStacks
<1> HIDE DEF n, m
<1>11. \A y : Entered(y)' <=> Entered(y)
  BY <1>1 DEF Entered
<1>12. Entered(x)
  BY <1>2, <1>4 DEF EveryPieceOnce, BoardStacks, n
<1>13. \A q \in Squares : Len(board'[q]) \in Nat /\ (1..Len(board'[q])) \subseteq Nat
  BY <1>3, <1>4, <1>5, <1>6, <1>7
<1>14. BoardStacks'
  <2>1. ASSUME NEW q \in Squares, NEW j \in 1..Len(board'[q])
        PROVE  /\ board'[q][j].size > Len(reserves'[board'[q][j].owner][board'[q][j].stack])
               /\ j > 1 => board'[q][j-1].size < board'[q][j].size
    <3>0. j \in Nat
      BY <1>13
    <3>1. CASE Stays(q, j)
      <4>1. board'[q][j] = board[q][j] /\ Entered(board[q][j])
        BY <1>9, <3>0, <3>1 DEF EveryPieceOnce, BoardStacks
      <4>2. j > 1 => Stays(q, j-1)
        BY <1>3, <1>4, <3>0, <3>1 DEF n
      <4>3. j > 1 => board'[q][j-1] = board[q][j-1]
        BY <1>9, <3>0, <4>2
      <4>4. j > 1 => board[q][j-1].size < board[q][j].size
        BY <3>1 DEF EveryPieceOnce, BoardStacks
      <4> QED
        BY <1>1, <4>1, <4>3, <4>4 DEF Entered
    <3>2. CASE q = to /\ j = m + 1
      <4>1. board'[q][j] = x
        BY <1>7, <3>2
      <4>2. j > 1 => board'[q][j-1] = Top(board, to) /\ board[to] # <<>>
        BY <1>3, <1>4, <1>7, <3>2, EmptySeq DEF Top, m
      <4> QED
        BY <1>1, <1>12, <4>1, <4>2 DEF Entered
    <3> QED
      BY <1>8, <3>0, <3>1, <3>2
  <2>2. ASSUME NEW q1 \in Squares, NEW q2 \in Squares,
               NEW j1 \in 1..Len(board'[q1]), NEW j2 \in 1..Len(board'[q2]),
               board'[q1][j1] = board'[q2][j2]
        PROVE  q1 = q2 /\ j1 = j2
    <3>0. j1 \in Nat /\ j2 \in Nat
      BY <1>13
    <3>1. CASE Stays(q1, j1) /\ Stays(q2, j2)
      <4>1. board[q1][j1] = board[q2][j2]
        BY <1>9, <2>2, <3>0, <3>1
      <4> QED
        BY <3>1, <4>1 DEF EveryPieceOnce, BoardStacks
    <3>2. CASE q1 = to /\ j1 = m + 1
      <4>1. board'[q2][j2] = x
        BY <1>7, <2>2, <3>2
      <4>2. ~Stays(q2, j2)
        BY <1>9, <1>10, <3>0, <4>1
      <4> QED
        BY <1>8, <3>0, <3>2, <4>2
    <3>3. CASE q2 = to /\ j2 = m + 1
      <4>1. board'[q1][j1] = x
        BY <1>7, <2>2, <3>3
      <4>2. ~Stays(q1, j1)
        BY <1>9, <1>10, <3>0, <4>1
      <4> QED
        BY <1>8, <3>0, <3>3, <4>2
    <3> QED
      BY <1>8, <3>0, <3>1, <3>2, <3>3
  <2> QED
    BY <2>1, <2>2 DEF BoardStacks, Entered
<1>15. NothingLost'
  <2> SUFFICES ASSUME NEW y \in Pieces, Entered(y)
               PROVE  \E q \in Squares : \E j \in 1..Len(board'[q]) : board'[q][j] = y
    BY <1>11 DEF NothingLost
  <2>0. PICK q \in Squares : \E j \in 1..Len(board[q]) : board[q][j] = y
    BY DEF EveryPieceOnce, NothingLost
  <2>1. PICK j \in 1..Len(board[q]) : board[q][j] = y
    BY <2>0
  <2>2. j \in Nat
    BY <1>3
  <2>3. CASE Stays(q, j)
    BY <1>8, <1>9, <2>1, <2>2, <2>3
  <2>4. CASE q = from /\ j = n
    <3>1. m + 1 \in 1..Len(board'[to])
      BY <1>4, <1>7
    <3> QED
      BY <1>2, <1>7, <2>1, <2>4, <3>1
  <2> QED
    BY <2>1, <2>3, <2>4
<1>16. ReservesAreSorted'
  BY <1>1 DEF EveryPieceOnce, ReservesAreSorted
<1> QED
  BY <1>14, <1>15, <1>16 DEF EveryPieceOnce

\* Every piece is at one place for ever: applyMove never throws for a lost, doubled or
\* badly stacked piece.
THEOREM EveryPieceOnceAlways == Spec => []EveryPieceOnce
<1>1. Init => EveryPieceOnce
  <2> SUFFICES ASSUME Init PROVE EveryPieceOnce
    OBVIOUS
  <2>1. ASSUME NEW p \in Players, NEW i \in Stacks
        PROVE  /\ Len(reserves[p][i]) = MaxSize
               /\ \A s \in 1..MaxSize :
                    reserves[p][i][s] = [owner |-> p, stack |-> i, size |-> s]
    <3>1. reserves[p][i] = [s \in 1..MaxSize |-> [owner |-> p, stack |-> i, size |-> s]]
      BY DEF Init, Sizes
    <3> QED
      BY <3>1, EquipmentAssumption
  <2>2. ReservesAreSorted
    BY <2>1, EquipmentAssumption DEF ReservesAreSorted
  <2>3. \A q \in Squares : Len(board[q]) = 0
    BY DEF Init
  <2>4. BoardStacks
    BY <2>3 DEF BoardStacks
  <2>5. ASSUME NEW y \in Pieces PROVE ~Entered(y)
    BY <2>1, EquipmentAssumption DEF Pieces, Sizes, Entered
  <2> QED
    BY <2>2, <2>4, <2>5 DEF EveryPieceOnce, NothingLost
<1>2. TypeOK /\ EveryPieceOnce /\ [Next]_vars => EveryPieceOnce'
  <2> SUFFICES ASSUME TypeOK, EveryPieceOnce, [Next]_vars PROVE EveryPieceOnce'
    OBVIOUS
  <2>1. ASSUME NEW i \in Stacks, NEW to \in Squares, ReserveMove(i, to) PROVE EveryPieceOnce'
    BY <2>1, ReserveMovePieces
  <2>2. ASSUME NEW from \in Squares, NEW to \in Squares, BoardMove(from, to)
        PROVE  EveryPieceOnce'
    BY <2>2, BoardMovePieces
  <2>3. CASE UNCHANGED vars
    BY <2>3 DEF EveryPieceOnce, ReservesAreSorted, BoardStacks, NothingLost, Entered, vars
  <2> QED
    BY <2>1, <2>2, <2>3 DEF Next
<1> QED
  BY <1>1, <1>2, GameTypeCorrect, PTL DEF Spec
-----------------------------------------------------------------------------
(* The player to move has a move. *)

\* A piece of the largest size is never covered.
LEMMA LargestIsVisible ==
  ASSUME TypeOK, BoardStacks, NEW q \in Squares, NEW j \in 1..Len(board[q]),
         board[q][j].size = MaxSize
  PROVE  board[q] # <<>> /\ Top(board, q) = board[q][j]
<1>1. Len(board[q]) \in Nat /\ \A k \in 1..Len(board[q]) : board[q][k] \in Pieces
  BY ElementOfSeq, LenProperties DEF TypeOK
<1>2. ASSUME j # Len(board[q]) PROVE FALSE
  <2>1. j + 1 \in 1..Len(board[q])
    BY <1>1, <1>2
  <2>2. board[q][j + 1].size <= MaxSize
    BY <1>1, <2>1, EquipmentAssumption DEF Pieces, Sizes
  <2>3. board[q][(j + 1) - 1].size < board[q][j + 1].size
    BY <1>1, <2>1 DEF BoardStacks
  <2>4. (j + 1) - 1 = j
    BY <1>1
  <2>5. board[q][j + 1].size \in Nat
    BY <1>1, <2>1, EquipmentAssumption DEF Pieces, Sizes
  <2> QED
    BY <2>2, <2>3, <2>4, <2>5, EquipmentAssumption
<1>3. board[q] # <<>>
  <2> SUFFICES ASSUME board[q] = <<>> PROVE FALSE
    OBVIOUS
  <2>1. Len(board[q]) = 0
    OBVIOUS
  <2> QED
    BY <2>1
<1> QED
  BY <1>2, <1>3 DEF Top

\* If every square showed a piece of one set, that set would be as large as the board.
LEMMA SquareWithoutOneOf ==
  ASSUME TypeOK, BoardStacks, NEW T, IsFiniteSet(T), Cardinality(T) < Cardinality(Squares)
  PROVE  \E q \in Squares : board[q] = <<>> \/ Top(board, q) \notin T
<1> SUFFICES ASSUME \A q \in Squares : board[q] # <<>> /\ Top(board, q) \in T
             PROVE  FALSE
  OBVIOUS
<1> DEFINE top == [q \in Squares |-> Top(board, q)]
<1>1. top \in [Squares -> T]
  OBVIOUS
<1>2. PICK q, r \in Squares : q # r /\ top[q] = top[r]
  <2> HIDE DEF top
  <2> QED
    BY <1>1, FS_PigeonHole, RoomAssumption
<1>3. Len(board[q]) \in 1..Len(board[q]) /\ Len(board[r]) \in 1..Len(board[r])
  BY EmptySeq DEF TypeOK
<1>4. board[q][Len(board[q])] = board[r][Len(board[r])]
  BY <1>2 DEF Top
<1> QED
  BY <1>2, <1>3, <1>4 DEF BoardStacks

\* A player whose largest pieces are all still in reserve has nothing on the board, and
\* somewhere to enter one.
LEMMA EnterALargestPiece ==
  ASSUME TypeOK, EveryPieceOnce, ~isGameOver,
         \A x \in PiecesOf(activePlayer) : x.size = MaxSize => ~Entered(x)
  PROVE  ReserveMoves # {}
<1> DEFINE opponent == otherPlayer(activePlayer)
<1>1. activePlayer \in Players /\ opponent \in Players
  BY OtherPlayer DEF TypeOK
<1>2. PICK i \in Stacks : TRUE
  BY EquipmentAssumption
<1>3. \A j \in Stacks : Len(reserves[activePlayer][j]) >= MaxSize
  <2> SUFFICES ASSUME NEW j \in Stacks PROVE Len(reserves[activePlayer][j]) >= MaxSize
    OBVIOUS
  <2> DEFINE x == [owner |-> activePlayer, stack |-> j, size |-> MaxSize]
  <2>1. x \in PiecesOf(activePlayer) /\ x.size = MaxSize
    BY <1>1, EquipmentAssumption DEF PiecesOf, Pieces, Sizes
  <2>2. ~Entered(x)
    BY <2>1
  <2>3. Len(reserves[activePlayer][j]) \in Nat
    BY <1>1, LenProperties DEF TypeOK
  <2> QED
    BY <2>2, <2>3, EquipmentAssumption DEF Entered
<1>4. \A x \in PiecesOf(activePlayer) : ~Entered(x)
  BY <1>3, EquipmentAssumption DEF Entered, PiecesOf, Pieces, Sizes
<1>5. Cardinality(PiecesOf(opponent)) < Cardinality(Squares) /\ IsFiniteSet(PiecesOf(opponent))
  <2>1. PiecesOf(opponent) \in SUBSET Pieces
    BY DEF PiecesOf
  <2> QED
    BY <1>1, <2>1, FS_Subset, EquipmentAssumption, RoomAssumption
<1>6. PICK to \in Squares : board[to] = <<>> \/ Top(board, to) \notin PiecesOf(opponent)
  BY <1>5, SquareWithoutOneOf DEF EveryPieceOnce
<1>7. board[to] = <<>>
  <2> SUFFICES ASSUME board[to] # <<>> PROVE FALSE
    OBVIOUS
  <2>1. Len(board[to]) \in 1..Len(board[to])
    BY EmptySeq DEF TypeOK
  <2>2. Top(board, to) \in Pieces
    BY <2>1, ElementOfSeq DEF Top, TypeOK
  <2>3. Entered(Top(board, to))
    BY <2>1 DEF EveryPieceOnce, BoardStacks, Top
  <2>4. Top(board, to) \in PiecesOf(activePlayer)
    BY <1>1, <1>6, <2>2, OtherPlayer DEF PiecesOf, Pieces
  <2> QED
    BY <1>4, <2>3, <2>4
<1>8. reserves[activePlayer][i] # <<>>
  <2> SUFFICES ASSUME reserves[activePlayer][i] = <<>> PROVE FALSE
    OBVIOUS
  <2>1. Len(reserves[activePlayer][i]) = 0
    OBVIOUS
  <2> QED
    BY <1>3, <2>1, EquipmentAssumption
<1>9. <<i, to>> \in ReserveMoves
  BY <1>7, <1>8 DEF ReserveMoves, ReserveMoveLegal
<1> QED
  BY <1>9

\* A player with a largest piece on the board can move it.
LEMMA MoveALargestPiece ==
  ASSUME TypeOK, EveryPieceOnce, ~isGameOver,
         NEW x \in PiecesOf(activePlayer), x.size = MaxSize, Entered(x)
  PROVE  BoardMoves # {}
<1>1. PICK from \in Squares : \E j \in 1..Len(board[from]) : board[from][j] = x
  BY DEF EveryPieceOnce, NothingLost, PiecesOf
<1>2. board[from] # <<>> /\ Top(board, from) = x
  BY <1>1, LargestIsVisible DEF EveryPieceOnce
<1>3. IsFiniteSet(LargestPieces)
  <2>1. LargestPieces \in SUBSET Pieces
    BY DEF LargestPieces
  <2> QED
    BY <2>1, FS_Subset, EquipmentAssumption
<1>4. PICK to \in Squares : board[to] = <<>> \/ Top(board, to) \notin LargestPieces
  BY <1>3, SquareWithoutOneOf, RoomAssumption DEF EveryPieceOnce
<1>5. board[to] # <<>> => Top(board, to).size < MaxSize
  <2> SUFFICES ASSUME board[to] # <<>> PROVE Top(board, to).size < MaxSize
    OBVIOUS
  <2>1. Len(board[to]) \in 1..Len(board[to])
    BY EmptySeq DEF TypeOK
  <2>2. Top(board, to) \in Pieces
    BY <2>1, ElementOfSeq DEF Top, TypeOK
  <2> QED
    BY <1>4, <2>2, EquipmentAssumption DEF LargestPieces, Pieces, Sizes
<1>6. x \in LargestPieces
  BY DEF PiecesOf, LargestPieces
<1>7. from # to
  BY <1>2, <1>4, <1>6
<1>8. <<from, to>> \in BoardMoves
  BY <1>2, <1>5, <1>7 DEF BoardMoves, BoardMoveLegal, Shows, PiecesOf
<1> QED
  BY <1>8

\* The position with no legal move that docs/rules.md leaves open (Q4) cannot be reached:
\* a board with more squares than a player has pieces, and than there are largest
\* pieces, always leaves a move to enumerateMoves.
THEOREM SomebodyCanMoveAlways == Spec => []SomebodyCanMove
<1>1. TypeOK /\ EveryPieceOnce => SomebodyCanMove
  <2> SUFFICES ASSUME TypeOK, EveryPieceOnce, ~isGameOver
               PROVE  ReserveMoves \cup BoardMoves # {}
    BY DEF SomebodyCanMove
  <2>1. CASE \A x \in PiecesOf(activePlayer) : x.size = MaxSize => ~Entered(x)
    BY <2>1, EnterALargestPiece
  <2>2. CASE \E x \in PiecesOf(activePlayer) : x.size = MaxSize /\ Entered(x)
    BY <2>2, MoveALargestPiece
  <2> QED
    BY <2>1, <2>2
<1> QED
  BY <1>1, GameTypeCorrect, EveryPieceOnceAlways, PTL
-----------------------------------------------------------------------------
(* Results. *)

\* What completeMove decides: the opponent's lines first, then the mover's, then the
\* number of times the position has occurred.
LEMMA OutcomeMeaning ==
  ASSUME NEW b, NEW mover \in Players, NEW n \in Nat
  PROVE  /\ Outcome(b, mover, n) = InProgress =>
              /\ \A p \in Players : winningLinesOnBoard(b, p) = {}
              /\ n < RepetitionLimit
         /\ Outcome(b, mover, n) = Draw =>
              /\ \A p \in Players : winningLinesOnBoard(b, p) = {}
              /\ n >= RepetitionLimit
         /\ Outcome(b, mover, n).kind = "win" =>
              \/ /\ Outcome(b, mover, n) = Win(otherPlayer(mover), "revealed-line")
                 /\ winningLinesOnBoard(b, otherPlayer(mover)) # {}
              \/ /\ Outcome(b, mover, n) = Win(mover, "line")
                 /\ winningLinesOnBoard(b, mover) # {}
                 /\ winningLinesOnBoard(b, otherPlayer(mover)) = {}
         /\ Outcome(b, mover, n).kind # "win" =>
              Outcome(b, mover, n) \in {InProgress, Draw}
<1>1. \A p \in Players : p = mover \/ p = otherPlayer(mover)
  BY OtherPlayer
<1>2. /\ InProgress.kind = "in-progress" /\ Draw.kind = "draw"
      /\ InProgress # Draw
      /\ \A p, reason : Win(p, reason).kind = "win"
  BY DEF InProgress, Draw, Win
<1>3. CASE winningLinesOnBoard(b, otherPlayer(mover)) # {}
  BY <1>2, <1>3 DEF Outcome
<1>4. CASE winningLinesOnBoard(b, otherPlayer(mover)) = {} /\ winningLinesOnBoard(b, mover) # {}
  BY <1>2, <1>4 DEF Outcome
<1>5. CASE winningLinesOnBoard(b, otherPlayer(mover)) = {} /\ winningLinesOnBoard(b, mover) = {}
  <2>1. CASE n >= RepetitionLimit
    BY <1>1, <1>2, <1>5, <2>1 DEF Outcome
  <2>2. CASE n < RepetitionLimit
    <3>1. ~(n >= RepetitionLimit)
      BY <2>2, EquipmentAssumption
    <3> QED
      BY <1>1, <1>2, <1>5, <2>2, <3>1 DEF Outcome
  <2> QED
    BY <2>1, <2>2, EquipmentAssumption
<1> QED
  BY <1>3, <1>4, <1>5

\* A step is one of the two kinds of completed move on a typed board, or nothing.
LEMMA StepCompletes ==
  ASSUME TypeOK, Next
  PROVE  /\ status = InProgress
         /\ \E b \in [Squares -> Seq(Pieces)] :
              \E r \in [Players -> [Stacks -> Seq(Pieces)]] : completeMove(b, r)
<1>1. reserves \in [Players -> [Stacks -> Seq(Pieces)]]
  BY DEF TypeOK
<1>2. ASSUME NEW i \in Stacks, NEW to \in Squares, ReserveMove(i, to)
      PROVE  /\ status = InProgress
             /\ \E b \in [Squares -> Seq(Pieces)] :
                  \E r \in [Players -> [Stacks -> Seq(Pieces)]] : completeMove(b, r)
  BY <1>2, ReserveMoveEffect
<1>3. ASSUME NEW from \in Squares, NEW to \in Squares, BoardMove(from, to)
      PROVE  /\ status = InProgress
             /\ \E b \in [Squares -> Seq(Pieces)] :
                  \E r \in [Players -> [Stacks -> Seq(Pieces)]] : completeMove(b, r)
  BY <1>1, <1>3, BoardMoveEffect
<1> QED
  BY <1>2, <1>3 DEF Next

\* An empty board shows no line.
LEMMA EmptyBoardHasNoLine ==
  ASSUME NEW b, \A q \in Squares : b[q] = <<>>, NEW p
  PROVE  winningLinesOnBoard(b, p) = {}
<1> SUFFICES ASSUME NEW l \in Lines, \A q \in l : Shows(b, q, p) PROVE FALSE
  BY DEF winningLinesOnBoard
<1>1. l # {}
  <2>1. Cardinality(l) = Threat + 1 /\ Threat \in Nat
    BY LinesAssumption
  <2>2. l = {} => Cardinality(l) = 0
    BY FS_EmptySet
  <2> QED
    BY <2>1, <2>2
<1> QED
  BY <1>1, LinesAssumption DEF Shows

\* The result that is recorded is the one the board shows, whoever uncovered the line
\* (completeMove's order of outcomes, docs/rules.md R9.5).
THEOREM StatusMatchesBoardAlways == Spec => []StatusMatchesBoard
<1>1. Init => StatusMatchesBoard
  <2> SUFFICES ASSUME Init PROVE StatusMatchesBoard
    OBVIOUS
  <2>1. \A p \in Players : winningLinesOnBoard(board, p) = {}
    BY EmptyBoardHasNoLine DEF Init
  <2>2. status.kind # "win"
    BY DEF Init, InProgress
  <2> QED
    BY <2>1, <2>2 DEF StatusMatchesBoard
<1>2. TypeOK /\ StatusMatchesBoard /\ [Next]_vars => StatusMatchesBoard'
  <2> SUFFICES ASSUME TypeOK, StatusMatchesBoard, [Next]_vars PROVE StatusMatchesBoard'
    OBVIOUS
  <2>1. CASE Next
    <3>1. PICK b \in [Squares -> Seq(Pieces)], r \in [Players -> [Stacks -> Seq(Pieces)]] :
            completeMove(b, r)
      BY <2>1, StepCompletes
    <3> DEFINE n == Occurrences(positionKeyOf(b, r, otherPlayer(activePlayer)))
               mover == activePlayer
    <3>2. n \in Nat
      BY DEF TypeOK, Occurrences
    <3>3. /\ board' = b
          /\ status' = Outcome(b, mover, n)
          /\ activePlayer' = IF status' = InProgress THEN otherPlayer(mover) ELSE mover
      BY <3>1 DEF completeMove
    <3>4. mover \in Players /\ otherPlayer(mover) \in Players /\ otherPlayer(mover) # mover
      BY OtherPlayer DEF TypeOK
    <3> HIDE DEF n, mover
    <3>5. CASE status'.kind # "win"
      <4>1. \A p \in Players : winningLinesOnBoard(board', p) = {}
        BY <3>2, <3>3, <3>4, <3>5, OutcomeMeaning
      <4> QED
        BY <3>5, <4>1 DEF StatusMatchesBoard
    <3>6. CASE status' = Win(otherPlayer(mover), "revealed-line")
               /\ winningLinesOnBoard(b, otherPlayer(mover)) # {}
      <4>1. /\ status'.kind = "win" /\ status'.winner = otherPlayer(mover)
            /\ status'.reason = "revealed-line" /\ activePlayer' = mover
        BY <3>3, <3>6 DEF Win, InProgress
      <4> QED
        BY <3>3, <3>4, <3>6, <4>1 DEF StatusMatchesBoard
    <3>7. CASE /\ status' = Win(mover, "line")
               /\ winningLinesOnBoard(b, mover) # {}
               /\ winningLinesOnBoard(b, otherPlayer(mover)) = {}
      <4>1. /\ status'.kind = "win" /\ status'.winner = mover
            /\ status'.reason = "line" /\ activePlayer' = mover
        BY <3>3, <3>7 DEF Win, InProgress
      <4> QED
        BY <3>3, <3>7, <4>1 DEF StatusMatchesBoard
    <3> QED
      BY <3>2, <3>3, <3>4, <3>5, <3>6, <3>7, OutcomeMeaning
  <2>2. CASE UNCHANGED vars
    BY <2>2 DEF StatusMatchesBoard, vars
  <2> QED
    BY <2>1, <2>2
<1> QED
  BY <1>1, <1>2, GameTypeCorrect, PTL DEF Spec
-----------------------------------------------------------------------------
(* Revealed lines. *)

\* The piece a legal move puts down belongs to the mover, so its square shows the mover.
LEMMA PlacedSquareShowsMover ==
  ASSUME NEW s \in Seq(Pieces), NEW x \in Pieces, x.owner = activePlayer,
         NEW b, NEW to, b[to] = Append(s, x), activePlayer \in Players
  PROVE  ~Shows(b, to, otherPlayer(activePlayer))
<1>1. Len(Append(s, x)) = Len(s) + 1 /\ Append(s, x)[Len(s) + 1] = x
  BY AppendTop
<1>2. Top(b, to) = x
  BY <1>1 DEF Top
<1> QED
  BY <1>2, OtherPlayer DEF Shows

\* Entering a piece shows no line of the opponent's: outside the square it enters
\* nothing changes, and that square shows the mover.
LEMMA ReserveMoveRevealsNothing ==
  ASSUME TypeOK, EveryPieceOnce, StatusMatchesBoard,
         NEW i \in Stacks, NEW to \in Squares, ReserveMove(i, to)
  PROVE  winningLinesOnBoard(board', otherPlayer(activePlayer)) = {}
<1> DEFINE x == Exposed(activePlayer, i)
           opponent == otherPlayer(activePlayer)
<1>1. /\ x \in Pieces
      /\ status = InProgress
      /\ board' = [board EXCEPT ![to] = Append(@, x)]
  BY ReserveMoveEffect DEF completeMove
<1>2. activePlayer \in Players /\ opponent \in Players /\ board[to] \in Seq(Pieces)
  BY OtherPlayer DEF TypeOK
<1>3. x.owner = activePlayer
  <2>1. reserves[activePlayer][i] \in Seq(Pieces) /\ reserves[activePlayer][i] # <<>>
    BY ReserveMoveEffect
  <2>2. Len(reserves[activePlayer][i]) \in 1..Len(reserves[activePlayer][i])
    BY <2>1, EmptySeq
  <2>3. \A s \in 1..Len(reserves[activePlayer][i]) :
          reserves[activePlayer][i][s] = [owner |-> activePlayer, stack |-> i, size |-> s]
    BY <1>2 DEF EveryPieceOnce, ReservesAreSorted
  <2> DEFINE k == Len(reserves[activePlayer][i])
  <2>4. x = reserves[activePlayer][i][k]
    BY DEF Exposed
  <2> HIDE DEF k, x
  <2>5. x = [owner |-> activePlayer, stack |-> i, size |-> k]
    BY <2>2, <2>3, <2>4 DEF k
  <2> QED
    BY <2>5
<1> HIDE DEF x
<1>4. /\ board'[to] = Append(board[to], x)
      /\ \A q \in Squares : q # to => board'[q] = board[q]
  BY <1>1 DEF TypeOK
<1>5. ~Shows(board', to, opponent)
  BY <1>1, <1>2, <1>3, <1>4, PlacedSquareShowsMover
<1>6. ASSUME NEW l \in Lines, \A q \in l : Shows(board', q, opponent)
      PROVE  l \in winningLinesOnBoard(board, opponent)
  <2>1. to \notin l /\ l \subseteq Squares
    BY <1>5, <1>6, LinesAssumption
  <2>2. \A q \in l : Shows(board, q, opponent)
    BY <1>4, <1>6, <2>1 DEF Shows, Top
  <2> QED
    BY <2>2 DEF winningLinesOnBoard
<1>7. winningLinesOnBoard(board, opponent) = {}
  <2>1. status.kind # "win"
    BY <1>1 DEF InProgress
  <2> QED
    BY <1>2, <2>1 DEF StatusMatchesBoard
<1> QED
  BY <1>6, <1>7 DEF winningLinesOnBoard

\* Every line of the opponent's after a board move goes through the square the piece left
\* and stood as soon as it was lifted.
LEMMA BoardMoveOnlyReveals ==
  ASSUME TypeOK, StatusMatchesBoard,
         NEW from \in Squares, NEW to \in Squares, BoardMove(from, to),
         NEW l \in winningLinesOnBoard(board', otherPlayer(activePlayer))
  PROVE  /\ Shows(board, from, activePlayer)
         /\ from \in l
         /\ l \in winningLinesOnBoard(Lifted(board, from), otherPlayer(activePlayer))
<1> DEFINE x == Top(board, from)
           opponent == otherPlayer(activePlayer)
<1>1. /\ x \in Pieces
      /\ status = InProgress
      /\ Shows(board, from, activePlayer)
      /\ from # to
      /\ Lifted(board, from) \in [Squares -> Seq(Pieces)]
      /\ board' = [Lifted(board, from) EXCEPT ![to] = Append(@, x)]
  BY BoardMoveEffect DEF completeMove, BoardMoveLegal
<1>2. activePlayer \in Players /\ opponent \in Players
  BY OtherPlayer DEF TypeOK
<1>3. x.owner = activePlayer
  BY <1>1 DEF Shows
<1>4. /\ Lifted(board, from)[to] = board[to]
      /\ board'[to] = Append(board[to], x)
      /\ board[to] \in Seq(Pieces)
      /\ \A q \in Squares : q # to => board'[q] = Lifted(board, from)[q]
      /\ \A q \in Squares : q # from => Lifted(board, from)[q] = board[q]
  BY <1>1 DEF Lifted, TypeOK
<1> HIDE DEF x
<1>5. ~Shows(board', to, opponent)
  BY <1>1, <1>2, <1>3, <1>4, PlacedSquareShowsMover
<1>6. l \in Lines /\ l \subseteq Squares /\ to \notin l /\ \A q \in l : Shows(board', q, opponent)
  BY <1>5, LinesAssumption DEF winningLinesOnBoard
<1>7. \A q \in l : Shows(Lifted(board, from), q, opponent)
  BY <1>4, <1>6 DEF Shows, Top
<1>8. l \in winningLinesOnBoard(Lifted(board, from), opponent)
  BY <1>6, <1>7 DEF winningLinesOnBoard
<1>9. from \in l
  <2> SUFFICES ASSUME from \notin l PROVE FALSE
    OBVIOUS
  <2>1. \A q \in l : Shows(board, q, opponent)
    BY <1>4, <1>6, <1>7 DEF Shows, Top
  <2>2. status.kind # "win"
    BY <1>1 DEF InProgress
  <2> QED
    BY <1>2, <1>6, <2>1, <2>2 DEF StatusMatchesBoard, winningLinesOnBoard
<1> QED
  BY <1>1, <1>8, <1>9

\* What docs/rules.md (Q2) calls unreachable is: a move never makes a line for the
\* opponent, it can only uncover one (completeMove, simulateBoardMove).
THEOREM OpponentLinesWereRevealedAlways == Spec => OpponentLinesWereRevealed
<1>1. TypeOK /\ EveryPieceOnce /\ StatusMatchesBoard /\ [Next]_vars =>
        [\A l \in winningLinesOnBoard(board', otherPlayer(activePlayer)) :
           \E from \in Squares :
             /\ Shows(board, from, activePlayer)
             /\ from \in l
             /\ l \in winningLinesOnBoard(Lifted(board, from), otherPlayer(activePlayer))]_vars
  <2> SUFFICES ASSUME TypeOK, EveryPieceOnce, StatusMatchesBoard, Next,
                      NEW l \in winningLinesOnBoard(board', otherPlayer(activePlayer))
               PROVE  \E from \in Squares :
                        /\ Shows(board, from, activePlayer)
                        /\ from \in l
                        /\ l \in winningLinesOnBoard(Lifted(board, from),
                                                    otherPlayer(activePlayer))
    OBVIOUS
  <2>1. ASSUME NEW i \in Stacks, NEW to \in Squares, ReserveMove(i, to) PROVE FALSE
    BY <2>1, ReserveMoveRevealsNothing
  <2>2. PICK from, to \in Squares : BoardMove(from, to)
    BY <2>1 DEF Next
  <2> QED
    BY <2>2, BoardMoveOnlyReveals
<1> QED
  BY <1>1, GameTypeCorrect, EveryPieceOnceAlways, StatusMatchesBoardAlways, PTL
  DEF Spec, OpponentLinesWereRevealed

-----------------------------------------------------------------------------
(* Repetition. *)

\* A completed move counts its position once more and leaves the other counts alone.
LEMMA CountsAfterMove ==
  ASSUME TypeOK, RepetitionDecides, status = InProgress,
         NEW b, NEW r, completeMove(b, r)
  PROVE  LET key == positionKeyOf(b, r, otherPlayer(activePlayer))
         IN  /\ key \in DOMAIN counts'
             /\ counts'[key] = Occurrences(key)
             /\ Occurrences(key) \in 1..RepetitionLimit
             /\ \A k \in DOMAIN counts' : k # key => counts'[k] \in 1..(RepetitionLimit - 1)
<1> DEFINE key == positionKeyOf(b, r, otherPlayer(activePlayer))
<1>1. counts' = [k \in DOMAIN counts \cup {key} |->
                   IF k = key THEN Occurrences(key) ELSE counts[k]]
  BY DEF completeMove
<1>2. \A k \in DOMAIN counts : counts[k] \in 1..(RepetitionLimit - 1)
  BY DEF RepetitionDecides, isGameOver
<1> HIDE DEF key
<1>3. Occurrences(key) \in 1..RepetitionLimit
  BY <1>2, EquipmentAssumption DEF Occurrences
<1> QED
  BY <1>1, <1>2, <1>3 DEF key

\* A game goes on only while no position has occurred often enough, and a draw is the
\* position on the board reaching the limit, for the player who would be to move
\* (completeMove, docs/rules.md R10.1).
THEOREM RepetitionDecidesAlways == Spec => []RepetitionDecides
<1>1. Init => RepetitionDecides
  <2> SUFFICES ASSUME Init PROVE RepetitionDecides
    OBVIOUS
  <2> DEFINE key == positionKeyOf(board, reserves, activePlayer)
  <2>1. counts = [k \in {key} |-> 1] /\ status = InProgress
    BY DEF Init
  <2> HIDE DEF key
  <2>2. key \in DOMAIN counts /\ \A k \in DOMAIN counts : counts[k] \in 1..(RepetitionLimit - 1)
    BY <2>1, EquipmentAssumption
  <2> QED
    BY <2>1, <2>2 DEF RepetitionDecides, InProgress, Draw, key
<1>2. TypeOK /\ RepetitionDecides /\ [Next]_vars => RepetitionDecides'
  <2> SUFFICES ASSUME TypeOK, RepetitionDecides, [Next]_vars PROVE RepetitionDecides'
    OBVIOUS
  <2>1. CASE Next
    <3>1. PICK b \in [Squares -> Seq(Pieces)], r \in [Players -> [Stacks -> Seq(Pieces)]] :
            completeMove(b, r)
      BY <2>1, StepCompletes
    <3> DEFINE key == positionKeyOf(b, r, otherPlayer(activePlayer))
               n == Occurrences(key)
    <3>2. /\ key \in DOMAIN counts'
          /\ counts'[key] = n
          /\ n \in 1..RepetitionLimit
          /\ \A k \in DOMAIN counts' : k # key => counts'[k] \in 1..(RepetitionLimit - 1)
      BY <2>1, <3>1, StepCompletes, CountsAfterMove
    <3>3. /\ board' = b /\ reserves' = r
          /\ status' = Outcome(b, activePlayer, n)
          /\ activePlayer' = IF status' = InProgress THEN otherPlayer(activePlayer)
                                                     ELSE activePlayer
      BY <3>1 DEF completeMove
    <3>4. activePlayer \in Players
      BY DEF TypeOK
    <3>5. n \in Nat
      BY <3>2
    <3>6. CASE status' = InProgress
      <4>1. n < RepetitionLimit
        BY <3>3, <3>4, <3>5, <3>6, OutcomeMeaning
      <4>2. key = positionKeyOf(board', reserves', activePlayer')
        BY <3>3, <3>6
      <4> HIDE DEF n, key
      <4>3. \A k \in DOMAIN counts' : counts'[k] \in 1..(RepetitionLimit - 1)
        BY <3>2, <4>1, EquipmentAssumption
      <4>4. status' # Draw
        BY <3>6 DEF InProgress, Draw
      <4> QED
        BY <3>2, <3>6, <4>2, <4>3, <4>4 DEF RepetitionDecides, isGameOver
    <3>7. CASE status' = Draw
      <4>1. n >= RepetitionLimit
        BY <3>3, <3>4, <3>5, <3>7, OutcomeMeaning
      <4>2. activePlayer' = activePlayer /\ status' # InProgress
        BY <3>3, <3>7 DEF InProgress, Draw
      <4>3. key = positionKeyOf(board', reserves', otherPlayer(activePlayer'))
        BY <3>3, <4>2
      <4> HIDE DEF n, key
      <4>4. \A k \in DOMAIN counts' : counts'[k] = RepetitionLimit <=> k = key
        BY <3>2, <4>1, EquipmentAssumption
      <4> QED
        BY <3>2, <4>2, <4>3, <4>4 DEF RepetitionDecides, isGameOver
    <3>8. CASE status' # InProgress /\ status' # Draw
      BY <3>8 DEF RepetitionDecides, isGameOver
    <3> QED
      BY <3>6, <3>7, <3>8
  <2>2. CASE UNCHANGED vars
    BY <2>2 DEF RepetitionDecides, isGameOver, vars
  <2> QED
    BY <2>1, <2>2
<1> QED
  BY <1>1, <1>2, GameTypeCorrect, PTL DEF Spec

\* In every game what is recorded is what the board and the history say.
THEOREM ResultIsTheBoardsAlways == Spec => []ResultIsTheBoards
<1>1. StatusMatchesBoard /\ RepetitionDecides => ResultIsTheBoards
  BY DEF ResultIsTheBoards
<1> QED
  BY <1>1, StatusMatchesBoardAlways, RepetitionDecidesAlways, PTL

-----------------------------------------------------------------------------
(* The stored form, and the engine's checks on itself.                     *)

\* Where a piece is, and that no place on the board is one in a reserve.
LEMMA HasPlace ==
  ASSUME NEW s, NEW x, NEW z
  PROVE  z \in Places(s, x) <=>
           \/ \E q \in Squares : \E j \in DOMAIN s.board[q] : s.board[q][j] = x /\ z = <<q, j>>
           \/ \E p \in Players, i \in Stacks : \E j \in DOMAIN s.reserves[p][i] :
                s.reserves[p][i][j] = x /\ z = <<p, i, j>>
<1>1. z \in OnBoard(s, x) <=> \E q \in Squares : z \in OnSquare(s, x, q)
  BY DEF OnBoard
<1>2. z \in InReserve(s, x) <=> \E p \in Players, i \in Stacks : z \in InStack(s, x, p, i)
  <2> DEFINE Of(p) == UNION {InStack(s, x, p, i) : i \in Stacks}
  <2>1. ASSUME NEW p PROVE z \in Of(p) <=> \E i \in Stacks : z \in InStack(s, x, p, i)
    OBVIOUS
  <2>2. z \in InReserve(s, x) <=> \E p \in Players : z \in Of(p)
    BY DEF InReserve
  <2> HIDE DEF Of
  <2> QED
    BY <2>1, <2>2
<1>3. ASSUME NEW q \in Squares
      PROVE  z \in OnSquare(s, x, q) <=>
               \E j \in DOMAIN s.board[q] : s.board[q][j] = x /\ z = <<q, j>>
  BY DEF OnSquare
<1>4. ASSUME NEW p \in Players, NEW i \in Stacks
      PROVE  z \in InStack(s, x, p, i) <=>
               \E j \in DOMAIN s.reserves[p][i] : s.reserves[p][i][j] = x /\ z = <<p, i, j>>
  BY DEF InStack
<1> QED
  BY <1>1, <1>2, <1>3, <1>4 DEF Places

\* Each code means what collectInvariantViolations looks for under it.
LEMMA CodesMean ==
  ASSUME NEW s
  PROVE  /\ DOMAIN Broken(s) = {"version", "ply", "player", "duplicate", "missing", "perPlayer",
                                "ascending", "contents", "count", "draw", "inProgress", "win"}
         /\ Broken(s).version <=> s.version # 1
         /\ Broken(s).ply <=> s.ply < 0
         /\ Broken(s).player <=> s.activePlayer \notin Players
         /\ Broken(s).duplicate <=> \E x \in Pieces : Cardinality(Places(s, x)) > 1
         /\ Broken(s).missing <=> \E x \in Pieces : Places(s, x) = {}
         /\ Broken(s).perPlayer <=>
              \E p \in Players : Cardinality(UNION {Places(s, x) : x \in PiecesOf(p)})
                                   # Cardinality(PiecesOf(p))
         /\ Broken(s).ascending <=>
              \E q \in Squares : \E j \in 2..Len(s.board[q]) :
                s.board[q][j].size <= s.board[q][j-1].size
         /\ Broken(s).contents <=>
              \E p \in Players, i \in Stacks : ~Undisturbed(p, i, s.reserves[p][i])
         /\ Broken(s).count <=> \E k \in DOMAIN s.counts : s.counts[k] < 1
         /\ Broken(s).draw <=> s.status = Draw /\ \A k \in DOMAIN s.counts :
                                                    s.counts[k] < RepetitionLimit
         /\ Broken(s).inProgress <=>
              s.status = InProgress /\ \E p \in Players : winningLinesOnBoard(s.board, p) # {}
         /\ Broken(s).win <=>
              s.status.kind = "win" /\ winningLinesOnBoard(s.board, s.status.winner) = {}
<1>1. DOMAIN Broken(s) = {"version", "ply", "player", "duplicate", "missing", "perPlayer",
                          "ascending", "contents", "count", "draw", "inProgress", "win"}
  BY DEF Broken
<1>2. /\ Broken(s).version <=> s.version # 1
      /\ Broken(s).ply <=> s.ply < 0
      /\ Broken(s).player <=> s.activePlayer \notin Players
  BY DEF Broken
<1>3. Broken(s).duplicate <=> \E x \in Pieces : Cardinality(Places(s, x)) > 1
  BY DEF Broken
<1>4. Broken(s).missing <=> \E x \in Pieces : Places(s, x) = {}
  BY DEF Broken
<1>5. Broken(s).perPlayer <=>
        \E p \in Players : Cardinality(UNION {Places(s, x) : x \in PiecesOf(p)})
                             # Cardinality(PiecesOf(p))
  BY DEF Broken
<1>6. Broken(s).ascending <=>
        \E q \in Squares : \E j \in 2..Len(s.board[q]) :
          s.board[q][j].size <= s.board[q][j-1].size
  BY DEF Broken, Misstacked
<1>7. Broken(s).contents <=>
        \E p \in Players, i \in Stacks : ~Undisturbed(p, i, s.reserves[p][i])
  BY DEF Broken
<1>8. Broken(s).count <=> \E k \in DOMAIN s.counts : s.counts[k] < 1
  BY DEF Broken
<1>9. Broken(s).draw <=> s.status = Draw /\ \A k \in DOMAIN s.counts :
                                              s.counts[k] < RepetitionLimit
  BY DEF Broken
<1>10. /\ Broken(s).inProgress <=>
            s.status = InProgress /\ \E p \in Players : winningLinesOnBoard(s.board, p) # {}
       /\ Broken(s).win <=>
            s.status.kind = "win" /\ winningLinesOnBoard(s.board, s.status.winner) = {}
  BY DEF Broken
<1> QED
  BY <1>1, <1>2, <1>3, <1>4, <1>5, <1>6, <1>7, <1>8, <1>9, <1>10

LEMMA NothingIsBroken ==
  ASSUME NEW s,
         ~Broken(s).version, ~Broken(s).ply, ~Broken(s).player, ~Broken(s).duplicate,
         ~Broken(s).missing, ~Broken(s).perPlayer, ~Broken(s).ascending, ~Broken(s).contents,
         ~Broken(s).count, ~Broken(s).draw, ~Broken(s).inProgress, ~Broken(s).win
  PROVE  Violations(s) = {}
<1>1. DOMAIN Broken(s) = {"version", "ply", "player", "duplicate", "missing", "perPlayer",
                          "ascending", "contents", "count", "draw", "inProgress", "win"}
  BY CodesMean
<1>2. \A code \in DOMAIN Broken(s) : ~Broken(s)[code]
  BY <1>1
<1> QED
  BY <1>2 DEF Violations

\* What damage does.
LEMMA SomethingIsBroken ==
  ASSUME NEW s,
         \/ \E x \in Pieces : Cardinality(Places(s, x)) > 1
         \/ \E x \in Pieces : Places(s, x) = {}
         \/ \E q \in Squares : \E j \in 2..Len(s.board[q]) :
              s.board[q][j].size <= s.board[q][j-1].size
         \/ s.status = InProgress /\ \E p \in Players : winningLinesOnBoard(s.board, p) # {}
         \/ s.status.kind = "win" /\ winningLinesOnBoard(s.board, s.status.winner) = {}
  PROVE  Violations(s) # {}
<1>1. \/ Broken(s).duplicate \/ Broken(s).missing \/ Broken(s).ascending
      \/ Broken(s).inProgress \/ Broken(s).win
  BY CodesMean
<1>2. \E code \in DOMAIN Broken(s) : Broken(s)[code]
  <2>1. {"duplicate", "missing", "ascending", "inProgress", "win"} \subseteq DOMAIN Broken(s)
    BY CodesMean
  <2> QED
    BY <1>1, <2>1
<1> QED
  BY <1>2 DEF Violations

LEMMA PlacesDiffer ==
  ASSUME NEW a, NEW b, NEW c, NEW d, NEW e
  PROVE  <<a, b>> # <<c, d, e>>
<1>1. Len(<<a, b>>) = 2 /\ Len(<<c, d, e>>) = 3
  OBVIOUS
<1> QED
  BY <1>1, Zenon

\* A piece is on one square, or in one external stack.
LEMMA OnePlace ==
  ASSUME TypeOK, EveryPieceOnce, NEW x \in Pieces
  PROVE  /\ \A q \in Squares : \A j \in DOMAIN board[q] : board[q][j] = x =>
              Places(Position, x) = {<<q, j>>}
         /\ \E z : Places(Position, x) = {z}
<1>1. /\ Position.board = board /\ Position.reserves = reserves
      /\ \A q \in Squares : DOMAIN board[q] = 1..Len(board[q])
      /\ \A p \in Players, i \in Stacks : DOMAIN reserves[p][i] = 1..Len(reserves[p][i])
      /\ \A p \in Players, i \in Stacks : Len(reserves[p][i]) \in Nat
      /\ x.owner \in Players /\ x.stack \in Stacks /\ x.size \in Nat
  BY DEF Position, TypeOK, Pieces, Sizes
<1>2. \A z : z \in Places(Position, x) <=>
        \/ \E q \in Squares : \E j \in DOMAIN board[q] : board[q][j] = x /\ z = <<q, j>>
        \/ \E p \in Players, i \in Stacks : \E j \in DOMAIN reserves[p][i] :
             reserves[p][i][j] = x /\ z = <<p, i, j>>
  BY <1>1, HasPlace
<1>3. \A p \in Players, i \in Stacks : \A j \in DOMAIN reserves[p][i] :
        reserves[p][i][j] = x => p = x.owner /\ i = x.stack /\ j = x.size /\ ~Entered(x)
  <2> SUFFICES ASSUME NEW p \in Players, NEW i \in Stacks, NEW j \in 1..Len(reserves[p][i]),
                      reserves[p][i][j] = x
               PROVE  p = x.owner /\ i = x.stack /\ j = x.size /\ ~Entered(x)
    BY <1>1
  <2>1. x = [owner |-> p, stack |-> i, size |-> j]
    BY DEF EveryPieceOnce, ReservesAreSorted
  <2>2. p = x.owner /\ i = x.stack /\ j = x.size
    BY <2>1
  <2> QED
    BY <1>1, <2>2 DEF Entered
<1>4. ASSUME NEW q \in Squares, NEW j \in DOMAIN board[q], board[q][j] = x
      PROVE  Places(Position, x) = {<<q, j>>}
  <2>1. Entered(x)
    BY <1>1, <1>4 DEF EveryPieceOnce, BoardStacks
  <2>2. \A r \in Squares : \A k \in DOMAIN board[r] : board[r][k] = x => r = q /\ k = j
    BY <1>1, <1>4 DEF EveryPieceOnce, BoardStacks
  <2>3. \A z : z \in Places(Position, x) <=> z = <<q, j>>
    BY <1>2, <1>3, <1>4, <2>1, <2>2
  <2> QED
    BY <2>3
<1>5. \E z : Places(Position, x) = {z}
  <2>1. CASE Entered(x)
    <3>1. PICK q \in Squares : \E j \in 1..Len(board[q]) : board[q][j] = x
      BY <2>1 DEF EveryPieceOnce, NothingLost
    <3>2. PICK j \in DOMAIN board[q] : board[q][j] = x
      BY <1>1, <3>1
    <3> QED
      BY <1>4, <3>2
  <2>2. CASE ~Entered(x)
    <3> DEFINE z == <<x.owner, x.stack, x.size>>
    <3>1. x.size \in DOMAIN reserves[x.owner][x.stack]
      BY <1>1, <2>2 DEF Entered, Pieces, Sizes
    <3>2. reserves[x.owner][x.stack][x.size] = x
      <4>1. x.size \in 1..Len(reserves[x.owner][x.stack])
        BY <1>1, <3>1
      <4>2. reserves[x.owner][x.stack][x.size]
              = [owner |-> x.owner, stack |-> x.stack, size |-> x.size]
        BY <1>1, <4>1 DEF EveryPieceOnce, ReservesAreSorted
      <4> QED
        BY <4>2 DEF Pieces
    <3>3. \A q \in Squares : \A j \in DOMAIN board[q] : board[q][j] # x
      BY <1>1, <2>2 DEF EveryPieceOnce, BoardStacks
    <3>4. \A y : y \in Places(Position, x) <=> y = z
      BY <1>1, <1>2, <1>3, <3>1, <3>2, <3>3
    <3> HIDE DEF z
    <3>5. Places(Position, x) = {z}
      BY <3>4
    <3> QED
      BY <3>5
  <2> QED
    BY <2>1, <2>2
<1> QED
  BY <1>4, <1>5

\* Nothing else is at a piece's place.
LEMMA PlaceHoldsOne ==
  ASSUME NEW s, NEW x, NEW y, NEW z \in Places(s, x) \cap Places(s, y)
  PROVE  x = y
<1>1. CASE \E q \in Squares : \E j \in DOMAIN s.board[q] : s.board[q][j] = x /\ z = <<q, j>>
  <2>1. PICK q \in Squares : \E j \in DOMAIN s.board[q] : s.board[q][j] = x /\ z = <<q, j>>
    BY <1>1
  <2>2. PICK j \in DOMAIN s.board[q] : s.board[q][j] = x /\ z = <<q, j>>
    BY <2>1
  <2>3. PICK r \in Squares : \E k \in DOMAIN s.board[r] : s.board[r][k] = y /\ z = <<r, k>>
    BY <2>2, HasPlace, PlacesDiffer
  <2> QED
    BY <2>2, <2>3
<1>2. CASE \E p \in Players, i \in Stacks : \E j \in DOMAIN s.reserves[p][i] :
             s.reserves[p][i][j] = x /\ z = <<p, i, j>>
  <2>1. PICK p \in Players, i \in Stacks : \E j \in DOMAIN s.reserves[p][i] :
          s.reserves[p][i][j] = x /\ z = <<p, i, j>>
    BY <1>2
  <2>2. PICK j \in DOMAIN s.reserves[p][i] : s.reserves[p][i][j] = x /\ z = <<p, i, j>>
    BY <2>1
  <2>3. PICK r \in Players, h \in Stacks : \E k \in DOMAIN s.reserves[r][h] :
          s.reserves[r][h][k] = y /\ z = <<r, h, k>>
    BY <2>2, HasPlace, PlacesDiffer
  <2> QED
    BY <2>2, <2>3
<1> QED
  BY <1>1, <1>2, HasPlace

\* As many places as pieces.
LEMMA AsManyPlaces ==
  ASSUME TypeOK, EveryPieceOnce, NEW p \in Players
  PROVE  Cardinality(UNION {Places(Position, x) : x \in PiecesOf(p)}) = Cardinality(PiecesOf(p))
<1> DEFINE T == UNION {Places(Position, x) : x \in PiecesOf(p)}
           f == [x \in PiecesOf(p) |-> CHOOSE z : Places(Position, x) = {z}]
<1>1. \A x \in PiecesOf(p) : Places(Position, x) = {f[x]}
  BY OnePlace DEF PiecesOf
<1>2. IsFiniteSet(PiecesOf(p))
  BY EquipmentAssumption, FS_Subset DEF PiecesOf
<1> HIDE DEF f
<1>3. \A x \in PiecesOf(p) : f[x] \in T
  BY <1>1
<1>4. \A z \in T : \E x \in PiecesOf(p) : z = f[x]
  BY <1>1
<1>5. \A x, y \in PiecesOf(p) : f[x] = f[y] => x = y
  BY <1>1, PlaceHoldsOne
<1>6. DOMAIN f = PiecesOf(p) /\ f = [x \in DOMAIN f |-> f[x]]
  BY DEF f
<1> HIDE DEF T
<1>7. f \in [PiecesOf(p) -> T]
  BY <1>3, <1>6
<1>8. f \in Surjection(PiecesOf(p), T) /\ f \in Injection(PiecesOf(p), T)
  BY <1>4, <1>5, <1>7 DEF Surjection, Injection, IsInjective
<1> QED
  BY <1>2, <1>8, FS_Surjection DEF T

\* None of the engine's invariants refuses a position its moves have led to.
LEMMA PositionIsSound ==
  ASSUME TypeOK, EveryPieceOnce, ResultIsTheBoards, \A k \in DOMAIN counts : counts[k] >= 1
  PROVE  Violations(Position) = {}
<1> DEFINE s == Position
<1>1. /\ s.version = 1 /\ s.ply = ply /\ s.activePlayer = activePlayer /\ s.counts = counts
      /\ s.board = board /\ s.reserves = reserves /\ s.status = status
      /\ ply \in Nat /\ activePlayer \in Players
      /\ \A k \in DOMAIN counts : counts[k] \in Nat
  BY DEF Position, TypeOK
<1> HIDE DEF s
<1>2. ~Broken(s).version /\ ~Broken(s).ply /\ ~Broken(s).player /\ ~Broken(s).count
  <2>1. ~Broken(s).version /\ ~Broken(s).ply /\ ~Broken(s).player
    <3>1. /\ Broken(s).version <=> s.version # 1
          /\ Broken(s).ply <=> s.ply < 0
          /\ Broken(s).player <=> s.activePlayer \notin Players
      BY DEF Broken
    <3> QED
      BY <1>1, <3>1
  <2>2. ~Broken(s).count
    <3>1. Broken(s).count <=> \E k \in DOMAIN s.counts : s.counts[k] < 1
      BY DEF Broken
    <3> QED
      BY <1>1, <3>1
  <2> QED
    BY <2>1, <2>2
<1>3. \A x \in Pieces : \E z : Places(s, x) = {z}
  BY OnePlace DEF s
<1>4. \A x \in Pieces : ~(Cardinality(Places(s, x)) > 1) /\ Places(s, x) # {}
  <2> SUFFICES ASSUME NEW x \in Pieces
               PROVE  ~(Cardinality(Places(s, x)) > 1) /\ Places(s, x) # {}
    OBVIOUS
  <2>1. PICK z : Places(s, x) = {z}
    BY <1>3
  <2>2. Cardinality({z}) = 1
    BY FS_Singleton
  <2> QED
    BY <2>1, <2>2
<1>5. ~Broken(s).duplicate /\ ~Broken(s).missing
  BY <1>4, CodesMean
<1>6. ~Broken(s).perPlayer
  <2>1. \A p \in Players : Cardinality(UNION {Places(s, x) : x \in PiecesOf(p)})
                             = Cardinality(PiecesOf(p))
    BY AsManyPlaces DEF s
  <2>2. ~\E p \in Players : Cardinality(UNION {Places(s, x) : x \in PiecesOf(p)})
                             # Cardinality(PiecesOf(p))
    BY <2>1, Zenon
  <2>3. Broken(s).perPlayer <=>
          \E p \in Players : Cardinality(UNION {Places(s, x) : x \in PiecesOf(p)})
                               # Cardinality(PiecesOf(p))
    BY DEF Broken
  <2> QED
    BY <2>2, <2>3, Zenon
<1>7. ~Broken(s).ascending
  <2> SUFFICES ASSUME NEW q \in Squares, NEW j \in 2..Len(board[q]),
                      board[q][j].size <= board[q][j-1].size
               PROVE  FALSE
    BY <1>1, CodesMean
  <2>1. board[q] \in Seq(Pieces) /\ Len(board[q]) \in Nat /\ j \in 1..Len(board[q])
        /\ j - 1 \in 1..Len(board[q]) /\ j > 1
    BY DEF TypeOK
  <2>2. board[q][j].size \in Nat /\ board[q][j-1].size \in Nat
    <3>1. board[q][j] \in Pieces /\ board[q][j-1] \in Pieces
      BY <2>1, ElementOfSeq
    <3> QED
      BY <3>1 DEF Pieces, Sizes
  <2>3. board[q][j-1].size < board[q][j].size
    BY <2>1 DEF EveryPieceOnce, BoardStacks
  <2> QED
    BY <2>2, <2>3
<1>8. ~Broken(s).contents
  <2>1. ASSUME NEW p \in Players, NEW i \in Stacks PROVE Undisturbed(p, i, reserves[p][i])
    <3>1. reserves[p][i] \in Seq(Pieces)
      BY DEF TypeOK
    <3>2. \A k \in 1..Len(reserves[p][i]) :
            reserves[p][i][k] = [owner |-> p, stack |-> i, size |-> k]
      BY DEF EveryPieceOnce, ReservesAreSorted
    <3>3. reserves[p][i] = [k \in 1..Len(reserves[p][i]) |-> reserves[p][i][k]]
      BY <3>1
    <3> QED
      BY <3>2, <3>3 DEF Undisturbed
  <2> QED
    BY <1>1, <2>1, CodesMean
<1>9. ~Broken(s).draw
  <2>1. ASSUME status = Draw
        PROVE  \E k \in DOMAIN counts : ~(counts[k] < RepetitionLimit)
    <3> DEFINE key == positionKeyOf(board, reserves, otherPlayer(activePlayer))
    <3>1. key \in DOMAIN counts /\ counts[key] = RepetitionLimit
      BY <2>1 DEF ResultIsTheBoards, RepetitionDecides
    <3> HIDE DEF key
    <3>2. ~(counts[key] < RepetitionLimit)
      BY <3>1, EquipmentAssumption
    <3> QED
      BY <3>1, <3>2
  <2> QED
    BY <1>1, <2>1, CodesMean
<1>10. ~Broken(s).inProgress /\ ~Broken(s).win
  <2>1. status = InProgress => \A p \in Players : winningLinesOnBoard(board, p) = {}
    BY DEF ResultIsTheBoards, StatusMatchesBoard, InProgress
  <2>2. status.kind = "win" => winningLinesOnBoard(board, status.winner) # {}
    BY DEF ResultIsTheBoards, StatusMatchesBoard
  <2> QED
    BY <1>1, <2>1, <2>2, CodesMean
<1>11. Violations(s) = {}
  BY <1>2, <1>5, <1>6, <1>7, <1>8, <1>9, <1>10, NothingIsBroken
<1> QED
  BY <1>11 DEF s

\* The parse of a row whose structure is in order.
Parsed(row) ==
  [row EXCEPT !.board = [q \in Squares |-> PiecesById(row.board[q])],
              !.reserves = [p \in Players |-> [i \in Stacks |-> PiecesById(row.reserves[p][i])]]]

LEMMA ReadingParses ==
  ASSUME NEW row
  PROVE  fromSerializableGameState(row) =
           IF Readable(row) /\ Violations(Parsed(row)) = {} THEN Parsed(row) ELSE Refused
BY DEF fromSerializableGameState, Parsed

\* A piece is what its identifier names.
LEMMA IdsReadBack ==
  ASSUME NEW stack \in Seq(Pieces)
  PROVE  /\ PiecesById(Ids(stack)) = stack
         /\ \A j \in DOMAIN Ids(stack) : IsPieceId(Ids(stack)[j])
<1>1. \A x \in Pieces : PieceById(Id(x)) = x /\ IsPieceId(Id(x))
  BY DEF PieceById, Id, IsPieceId, Pieces
<1>2. DOMAIN Ids(stack) = DOMAIN stack /\ \A j \in DOMAIN stack : Ids(stack)[j] = Id(stack[j])
  BY DEF Ids
<1>3. DOMAIN stack = 1..Len(stack) /\ \A j \in DOMAIN stack : stack[j] \in Pieces
  BY ElementOfSeq
<1>4. PiecesById(Ids(stack)) = [j \in DOMAIN stack |-> stack[j]]
  BY <1>1, <1>2, <1>3 DEF PiecesById
<1> QED
  BY <1>1, <1>2, <1>3, <1>4

\* A stored position reads as itself.
LEMMA StoredFormReadsBack ==
  ASSUME TypeOK
  PROVE  /\ Parsed(toSerializableGameState(Position)) = Position
         /\ Readable(toSerializableGameState(Position))
<1> DEFINE row == toSerializableGameState(Position)
<1>1. /\ board \in [Squares -> Seq(Pieces)]
      /\ reserves \in [Players -> [Stacks -> Seq(Pieces)]]
  BY DEF TypeOK
<1> DEFINE B == [q \in Squares |-> Ids(board[q])]
           R == [p \in Players |-> [i \in Stacks |-> Ids(reserves[p][i])]]
<1>2. row = [version |-> 1, board |-> B, reserves |-> R, activePlayer |-> activePlayer,
             ply |-> ply, counts |-> counts, status |-> status]
  <2>1. row = [Position EXCEPT !.board = B, !.reserves = R]
    BY DEF toSerializableGameState, Position
  <2> HIDE DEF B, R, row
  <2> QED
    BY <2>1 DEF Position
<1>3. /\ row.version = 1 /\ row.activePlayer = activePlayer /\ row.ply = ply
      /\ row.counts = counts /\ row.status = status
      /\ \A q \in Squares : row.board[q] = Ids(board[q])
      /\ \A p \in Players, i \in Stacks : row.reserves[p][i] = Ids(reserves[p][i])
  <2>1. /\ row.version = 1 /\ row.activePlayer = activePlayer /\ row.ply = ply
        /\ row.counts = counts /\ row.status = status /\ row.board = B /\ row.reserves = R
    <3> HIDE DEF B, R, row
    <3> QED
      BY <1>2
  <2> HIDE DEF row
  <2> QED
    BY <2>1
<1>4. /\ [q \in Squares |-> PiecesById(row.board[q])] = board
      /\ [p \in Players |-> [i \in Stacks |-> PiecesById(row.reserves[p][i])]] = reserves
  <2> HIDE DEF row
  <2>1. \A q \in Squares : PiecesById(row.board[q]) = board[q]
    BY <1>1, <1>3, IdsReadBack
  <2>2. \A p \in Players, i \in Stacks : PiecesById(row.reserves[p][i]) = reserves[p][i]
    BY <1>1, <1>3, IdsReadBack
  <2>3. [q \in Squares |-> PiecesById(row.board[q])] = board
    BY <1>1, <2>1
  <2>4. \A p \in Players : [i \in Stacks |-> PiecesById(row.reserves[p][i])] = reserves[p]
    BY <1>1, <2>2
  <2>5. [p \in Players |-> [i \in Stacks |-> PiecesById(row.reserves[p][i])]] = reserves
    BY <1>1, <2>4
  <2> QED
    BY <2>3, <2>5
<1>5. Parsed(row) = [row EXCEPT !.board = board, !.reserves = reserves]
  <2> HIDE DEF row
  <2> QED
    BY <1>4 DEF Parsed
<1>6. Parsed(row) = Position
  <2> HIDE DEF B, R, row
  <2> QED
    BY <1>2, <1>5 DEF Position
<1>7. Readable(row)
  <2>1. /\ \A q \in Squares : \A j \in DOMAIN row.board[q] : IsPieceId(row.board[q][j])
        /\ \A p \in Players, i \in Stacks :
             \A j \in DOMAIN row.reserves[p][i] : IsPieceId(row.reserves[p][i][j])
    <3> HIDE DEF row
    <3> QED
      BY <1>1, <1>3, IdsReadBack
  <2>2. /\ row.activePlayer \in Players
        /\ row.ply >= 0 /\ \A k \in DOMAIN row.counts : row.counts[k] >= 0
    <3> HIDE DEF row
    <3> QED
      BY <1>3 DEF TypeOK
  <2>3. /\ status.kind \in {"in-progress", "win", "draw"}
        /\ status.kind = "win" => status.winner \in Players /\ status.reason \in {"line", "revealed-line"}
    BY DEF TypeOK, InProgress, Draw, Win
  <2> HIDE DEF row
  <2> QED
    BY <1>3, <2>1, <2>2, <2>3 DEF Readable
<1> QED
  BY <1>6, <1>7

\* A position is counted when it is reached.
LEMMA CountsStayPositive == Spec => [](\A k \in DOMAIN counts : counts[k] >= 1)
<1> DEFINE Counted == \A k \in DOMAIN counts : counts[k] >= 1
<1>1. Init => Counted
  BY DEF Init
<1>2. TypeOK /\ Counted /\ [Next]_vars => Counted'
  <2> SUFFICES ASSUME TypeOK, Counted, [Next]_vars PROVE Counted'
    OBVIOUS
  <2>1. CASE Next
    <3>1. PICK b \in [Squares -> Seq(Pieces)] :
            \E r \in [Players -> [Stacks -> Seq(Pieces)]] : completeMove(b, r)
      BY <2>1, StepCompletes
    <3>2. PICK r \in [Players -> [Stacks -> Seq(Pieces)]] : completeMove(b, r)
      BY <3>1
    <3> DEFINE key == positionKeyOf(b, r, otherPlayer(activePlayer))
    <3>3. counts' = [k \in DOMAIN counts \cup {key} |->
                       IF k = key THEN Occurrences(key) ELSE counts[k]]
      BY <3>2 DEF completeMove
    <3>4. Occurrences(key) >= 1
      BY DEF Occurrences, TypeOK
    <3> HIDE DEF key
    <3> QED
      BY <3>3, <3>4
  <2>2. CASE UNCHANGED vars
    BY <2>2 DEF vars
  <2> QED
    BY <2>1, <2>2
<1> QED
  BY <1>1, <1>2, GameTypeCorrect, PTL DEF Spec

\* Every game that is played, on any board and with any pieces, can be stored and read back
\* as it was: no check of the engine refuses a position that its moves lead to.
THEOREM StoredGamesAlwaysLoad == Spec => []StoredGamesLoad
<1>1. TypeOK /\ EveryPieceOnce /\ ResultIsTheBoards /\ (\A k \in DOMAIN counts : counts[k] >= 1)
        => StoredGamesLoad
  BY PositionIsSound, StoredFormReadsBack, ReadingParses DEF StoredGamesLoad
<1> QED
  BY <1>1, GameTypeCorrect, EveryPieceOnceAlways, ResultIsTheBoardsAlways, CountsStayPositive, PTL

LEMMA NothingWrongInStep ==
  ASSUME NEW before, NEW after,
         ~(after.ply # before.ply + 1), ~(before.status # InProgress),
         ~((after.status = InProgress) # (after.activePlayer # before.activePlayer))
  PROVE  TransitionViolations(before, after) = {}
<1> DEFINE broken ==
      [ply      |-> after.ply # before.ply + 1,
       reopened |-> before.status # InProgress,
       turn     |-> (after.status = InProgress) # (after.activePlayer # before.activePlayer)]
<1>1. TransitionViolations(before, after) = {code \in DOMAIN broken : broken[code]}
  BY DEF TransitionViolations
<1>2. DOMAIN broken = {"ply", "reopened", "turn"}
  OBVIOUS
<1>3. ~broken.ply /\ ~broken.reopened
  OBVIOUS
<1>4. ~broken.turn
  OBVIOUS
<1> HIDE DEF broken
<1> QED
  BY <1>1, <1>2, <1>3, <1>4

\* Nor does a check on transitions refuse a move that was found legal.
THEOREM MovesAlwaysPassTheirChecks == Spec => MovesPassTheirChecks
<1>1. TypeOK /\ [Next]_vars => [TransitionViolations(Position, Position') = {}]_vars
  <2> SUFFICES ASSUME TypeOK, Next PROVE TransitionViolations(Position, Position') = {}
    BY DEF vars
  <2>1. PICK b \in [Squares -> Seq(Pieces)] :
          \E r \in [Players -> [Stacks -> Seq(Pieces)]] : completeMove(b, r)
    BY StepCompletes
  <2>2. PICK r \in [Players -> [Stacks -> Seq(Pieces)]] : completeMove(b, r)
    BY <2>1
  <2>3. /\ ply' = ply + 1 /\ status = InProgress
        /\ (status' = InProgress) <=> (activePlayer' # activePlayer)
    BY <2>2, StepCompletes, OtherPlayer DEF completeMove, TypeOK
  <2>4. /\ Position.ply = ply /\ Position.status = status /\ Position.activePlayer = activePlayer
        /\ Position'.ply = ply' /\ Position'.status = status'
        /\ Position'.activePlayer = activePlayer'
    BY DEF Position
  <2> QED
    BY <2>3, <2>4, NothingWrongInStep
<1> QED
  BY <1>1, GameTypeCorrect, PTL DEF Spec, MovesPassTheirChecks

-----------------------------------------------------------------------------
(* Damaged rows *)

\* A row whose parse breaks an invariant is refused.
LEMMA BrokenIsRefused ==
  ASSUME NEW row, Violations(Parsed(row)) # {}
  PROVE  fromSerializableGameState(row) = Refused
BY ReadingParses

\* What a stored position holds, and what the parse of a row with another board or another
\* status holds.
LEMMA StoredForm ==
  ASSUME TypeOK
  PROVE  LET row == toSerializableGameState(Position)
         IN  /\ row = [row EXCEPT !.board = row.board]
             /\ row.board = [q \in Squares |-> Ids(board[q])]
             /\ \A q \in Squares : /\ row.board[q] = [j \in 1..Len(board[q]) |-> Id(board[q][j])]
                                   /\ Len(row.board[q]) = Len(board[q])
             /\ \A other : LET s == Parsed([row EXCEPT !.board = other])
                           IN  /\ \A q \in Squares : s.board[q] = PiecesById(other[q])
                               /\ s.reserves = reserves
             /\ \A other : LET s == Parsed([row EXCEPT !.status = other])
                           IN  s.board = board /\ s.status = other
<1> DEFINE row == toSerializableGameState(Position)
           B == [q \in Squares |-> Ids(board[q])]
           R == [p \in Players |-> [i \in Stacks |-> Ids(reserves[p][i])]]
<1>1. row = [version |-> 1, board |-> B, reserves |-> R, activePlayer |-> activePlayer,
             ply |-> ply, counts |-> counts, status |-> status]
  <2>1. row = [Position EXCEPT !.board = B, !.reserves = R]
    BY DEF toSerializableGameState, Position
  <2> HIDE DEF B, R, row
  <2> QED
    BY <2>1 DEF Position
<1>2. /\ board \in [Squares -> Seq(Pieces)]
      /\ reserves \in [Players -> [Stacks -> Seq(Pieces)]]
  BY DEF TypeOK
<1>3. \A q \in Squares : /\ B[q] = [j \in 1..Len(board[q]) |-> Id(board[q][j])]
                         /\ Len(B[q]) = Len(board[q])
  <2> SUFFICES ASSUME NEW q \in Squares
               PROVE  /\ B[q] = [j \in 1..Len(board[q]) |-> Id(board[q][j])]
                      /\ Len(B[q]) = Len(board[q])
    OBVIOUS
  <2>1. DOMAIN board[q] = 1..Len(board[q]) /\ Len(board[q]) \in Nat
    BY <1>2
  <2>2. B[q] = [j \in 1..Len(board[q]) |-> Id(board[q][j])]
    BY <2>1 DEF Ids
  <2> HIDE DEF B
  <2>3. Len(B[q]) = Len(board[q])
    BY <2>1, <2>2
  <2> QED
    BY <2>2, <2>3
<1>4. [p \in Players |-> [i \in Stacks |-> PiecesById(R[p][i])]] = reserves
  <2>1. \A p \in Players, i \in Stacks : PiecesById(R[p][i]) = reserves[p][i]
    BY <1>2, IdsReadBack
  <2> HIDE DEF R
  <2>2. \A p \in Players : [i \in Stacks |-> PiecesById(R[p][i])] = reserves[p]
    BY <1>2, <2>1
  <2> QED
    BY <1>2, <2>2
<1>5. [q \in Squares |-> PiecesById(B[q])] = board
  <2>1. \A q \in Squares : PiecesById(B[q]) = board[q]
    BY <1>2, IdsReadBack
  <2> QED
    BY <1>2, <2>1
<1> HIDE DEF row, B, R
<1>6. row.board = B /\ row.reserves = R /\ row = [row EXCEPT !.board = row.board]
  BY <1>1
<1>7. ASSUME NEW other
      PROVE  LET s == Parsed([row EXCEPT !.board = other])
             IN  /\ \A q \in Squares : s.board[q] = PiecesById(other[q])
                 /\ s.reserves = reserves
  <2> DEFINE r == [row EXCEPT !.board = other]
  <2>1. r.board = other /\ r.reserves = R
        /\ r = [version |-> 1, board |-> other, reserves |-> R, activePlayer |-> activePlayer,
                ply |-> ply, counts |-> counts, status |-> status]
    BY <1>1
  <2> HIDE DEF r
  <2>2. Parsed(r) = [r EXCEPT !.board = [q \in Squares |-> PiecesById(other[q])],
                              !.reserves = reserves]
    BY <1>4, <2>1 DEF Parsed
  <2> DEFINE C == [q \in Squares |-> PiecesById(other[q])]
  <2>3. Parsed(r) = [r EXCEPT !.board = C, !.reserves = reserves]
    BY <2>2
  <2>4. \A q \in Squares : C[q] = PiecesById(other[q])
    OBVIOUS
  <2> HIDE DEF C
  <2>5. Parsed(r).board = C /\ Parsed(r).reserves = reserves
    BY <2>1, <2>3
  <2> QED
    BY <2>4, <2>5 DEF r
<1>8. ASSUME NEW other
      PROVE  LET s == Parsed([row EXCEPT !.status = other])
             IN  s.board = board /\ s.status = other
  <2> DEFINE r == [row EXCEPT !.status = other]
  <2>1. r.board = B /\ r.reserves = R
        /\ r = [version |-> 1, board |-> B, reserves |-> R, activePlayer |-> activePlayer,
                ply |-> ply, counts |-> counts, status |-> other]
    BY <1>1
  <2> HIDE DEF r
  <2>2. Parsed(r) = [r EXCEPT !.board = [q \in Squares |-> PiecesById(B[q])],
                              !.reserves = [p \in Players |-> [i \in Stacks |-> PiecesById(R[p][i])]]]
    BY <2>1 DEF Parsed
  <2>3. Parsed(r) = [r EXCEPT !.board = board, !.reserves = reserves]
    BY <1>4, <1>5, <2>2
  <2>4. DOMAIN r = {"version", "board", "reserves", "activePlayer", "ply", "counts", "status"}
        /\ r.status = other
    BY <2>1
  <2>5. Parsed(r).board = board /\ Parsed(r).status = other
    BY <2>3, <2>4
  <2> QED
    BY <2>5 DEF r
<1> QED
  BY <1>3, <1>6, <1>7, <1>8 DEF row, B

\* A row with another stack on one square parses to the position with that stack there.
LEMMA OneSquareDamaged ==
  ASSUME TypeOK, NEW q \in Squares, NEW t
  PROVE  LET row == toSerializableGameState(Position)
             s == Parsed([row EXCEPT !.board[q] = t])
         IN  /\ s.board[q] = PiecesById(t)
             /\ \A r \in Squares \ {q} : s.board[r] = board[r]
             /\ s.reserves = reserves
<1> DEFINE row == toSerializableGameState(Position)
           other == [row.board EXCEPT ![q] = t]
           s == Parsed([row EXCEPT !.board[q] = t])
<1>1. row.board = [r \in Squares |-> Ids(board[r])]
  BY StoredForm
<1>2. [row EXCEPT !.board[q] = t] = [row EXCEPT !.board = other]
  OBVIOUS
<1>3. /\ \A r \in Squares : s.board[r] = PiecesById(other[r])
      /\ s.reserves = reserves
  BY <1>2, StoredForm
<1>4. other[q] = t /\ \A r \in Squares \ {q} : other[r] = Ids(board[r])
  <2> HIDE DEF row
  <2> QED
    BY <1>1
<1>5. \A r \in Squares : PiecesById(Ids(board[r])) = board[r]
  BY IdsReadBack DEF TypeOK
<1> HIDE DEF row, other, s
<1>6. s.board[q] = PiecesById(t) /\ \A r \in Squares \ {q} : s.board[r] = board[r]
  BY <1>3, <1>4, <1>5
<1> QED
  BY <1>3, <1>6 DEF s, row

\* What a reserve holds has not entered the board.
LEMMA ReservesHoldTheRest ==
  ASSUME TypeOK, EveryPieceOnce, NEW p \in Players, NEW i \in Stacks,
         NEW j \in DOMAIN reserves[p][i]
  PROVE  ~Entered(reserves[p][i][j])
<1>1. DOMAIN reserves[p][i] = 1..Len(reserves[p][i]) /\ Len(reserves[p][i]) \in Nat
  BY DEF TypeOK
<1>2. reserves[p][i][j] = [owner |-> p, stack |-> i, size |-> j]
  BY <1>1 DEF EveryPieceOnce, ReservesAreSorted
<1> QED
  BY <1>1, <1>2 DEF Entered

\* A piece that is gone from the top of its square is nowhere.
LEMMA GoneIsMissing ==
  ASSUME TypeOK, EveryPieceOnce, NEW q \in Squares, board[q] # <<>>,
         NEW s, s.reserves = reserves, \A r \in Squares \ {q} : s.board[r] = board[r],
         \A j \in DOMAIN s.board[q] : s.board[q][j] # Top(board, q)
  PROVE  Top(board, q) \in Pieces /\ Places(s, Top(board, q)) = {}
<1> DEFINE x == Top(board, q)
           n == Len(board[q])
<1>1. /\ \A r \in Squares : DOMAIN board[r] = 1..Len(board[r])
      /\ n \in 1..n /\ board[q][n] = x /\ x \in Pieces
  <2>1. board[q] \in Seq(Pieces)
    BY DEF TypeOK
  <2>2. n \in Nat \ {0}
    BY <2>1, EmptySeq
  <2>3. x \in Pieces /\ board[q][n] = x
    BY <2>1, <2>2, ElementOfSeq DEF Top
  <2> QED
    BY <2>2, <2>3 DEF TypeOK
<1>2. Entered(x)
  BY <1>1 DEF EveryPieceOnce, BoardStacks
<1> HIDE DEF x, n
<1>3. \A r \in Squares : \A j \in DOMAIN s.board[r] : s.board[r][j] # x
  <2> SUFFICES ASSUME NEW r \in Squares, NEW j \in DOMAIN s.board[r], s.board[r][j] = x
               PROVE  FALSE
    OBVIOUS
  <2>1. r # q
    BY DEF x
  <2>2. j \in 1..Len(board[r]) /\ board[r][j] = board[q][n]
    BY <1>1, <2>1
  <2> QED
    BY <1>1, <2>1, <2>2 DEF EveryPieceOnce, BoardStacks, n
<1>4. \A p \in Players, i \in Stacks : \A j \in DOMAIN s.reserves[p][i] :
        s.reserves[p][i][j] # x
  BY <1>2, ReservesHoldTheRest
<1>5. Places(s, x) = {}
  <2>1. \A z : z \notin Places(s, x)
    BY <1>3, <1>4, HasPlace
  <2> QED
    BY <2>1
<1> QED
  BY <1>1, <1>5 DEF x

\* The stored stack of a square, and what an altered one reads as.
LEMMA StoredStack ==
  ASSUME TypeOK, NEW q \in Squares
  PROVE  LET t == toSerializableGameState(Position).board[q]
         IN  /\ t = [j \in 1..Len(board[q]) |-> Id(board[q][j])]
             /\ t \in Seq({Id(x) : x \in Pieces}) /\ Len(t) = Len(board[q]) /\ Len(t) \in Nat
             /\ \A j \in 1..Len(t) : board[q][j] \in Pieces /\ PieceById(t[j]) = board[q][j]
             /\ \A x \in Pieces : PieceById(Id(x)) = x
<1> DEFINE t == toSerializableGameState(Position).board[q]
<1>1. t = [j \in 1..Len(board[q]) |-> Id(board[q][j])] /\ Len(t) = Len(board[q])
  BY StoredForm
<1>2. Len(board[q]) \in Nat /\ \A j \in 1..Len(board[q]) : board[q][j] \in Pieces
  BY ElementOfSeq DEF TypeOK
<1>3. \A x \in Pieces : PieceById(Id(x)) = x
  BY DEF PieceById, Id, Pieces
<1> HIDE DEF t
<1>4. t \in Seq({Id(x) : x \in Pieces})
  <2> DEFINE S == {Id(x) : x \in Pieces}
  <2>1. \A j \in 1..Len(board[q]) : Id(board[q][j]) \in S
    BY <1>2
  <2> HIDE DEF S
  <2>2. t \in Seq(S)
    BY <1>1, <1>2, <2>1
  <2> QED
    BY <2>2 DEF S
<1>5. \A j \in 1..Len(t) : board[q][j] \in Pieces /\ PieceById(t[j]) = board[q][j]
  BY <1>1, <1>2, <1>3
<1> QED
  BY <1>1, <1>2, <1>3, <1>4, <1>5 DEF t

\* A piece gone from the top of a stack.
LEMMA LostTopIsSeen ==
  ASSUME TypeOK, EveryPieceOnce, NEW q \in Squares, board[q] # <<>>
  PROVE  fromSerializableGameState(LoseTop(toSerializableGameState(Position), q)) = Refused
<1> DEFINE row == toSerializableGameState(Position)
           t == row.board[q]
           s == Parsed([row EXCEPT !.board[q] = Without(t)])
           x == Top(board, q)
           n == Len(board[q])
<1>1. LoseTop(row, q) = [row EXCEPT !.board[q] = Without(t)]
  <2>1. row.board = [r \in Squares |-> Ids(board[r])] /\ row = [row EXCEPT !.board = row.board]
    BY StoredForm
  <2> HIDE DEF row
  <2> QED
    BY <2>1 DEF LoseTop
<1>2. s.board[q] = PiecesById(Without(t))
  BY OneSquareDamaged
<1>3. (\A r \in Squares \ {q} : s.board[r] = board[r]) /\ s.reserves = reserves
  BY OneSquareDamaged
<1>4. t \in Seq({Id(y) : y \in Pieces}) /\ Len(t) = n /\ n \in Nat \ {0} /\ t # <<>>
  <2>1. t \in Seq({Id(y) : y \in Pieces}) /\ Len(t) = n
    BY StoredStack
  <2>2. n \in Nat \ {0}
    BY EmptySeq DEF TypeOK
  <2> HIDE DEF t, n
  <2>3. t # <<>>
    BY <2>1, <2>2
  <2> QED
    BY <2>1, <2>2, <2>3
<1>5. \A j \in 1..n : PieceById(t[j]) = board[q][j]
  BY StoredStack, <1>4
<1> HIDE DEF t, s
<1>6. /\ DOMAIN s.board[q] = 1..(n - 1)
      /\ \A j \in 1..(n - 1) : s.board[q][j] = board[q][j]
  <2>1. /\ Without(t) \in Seq({Id(y) : y \in Pieces}) /\ Len(Without(t)) = n - 1
        /\ \A j \in 1..(n - 1) : Without(t)[j] = t[j]
    BY <1>4, WithoutTop
  <2>2. DOMAIN Without(t) = 1..(n - 1)
    BY <2>1
  <2> QED
    BY <1>2, <1>4, <1>5, <2>1, <2>2 DEF PiecesById
<1>7. \A j \in DOMAIN s.board[q] : s.board[q][j] # x
  <2>1. \A j \in 1..(n - 1) : board[q][j] # board[q][n]
    BY <1>4 DEF EveryPieceOnce, BoardStacks
  <2> QED
    BY <1>6, <2>1 DEF Top
<1>8. x \in Pieces /\ Places(s, x) = {}
  BY <1>3, <1>7, GoneIsMissing
<1> HIDE DEF x
<1>9. Violations(s) # {}
  BY <1>8, SomethingIsBroken
<1> QED
  BY <1>1, <1>9, BrokenIsRefused DEF s

\* Another piece in the place of the top one.
LEMMA ReplacedTopIsSeen ==
  ASSUME TypeOK, EveryPieceOnce, NEW q \in Squares, board[q] # <<>>, NEW x \in Pieces,
         ReplaceTop(toSerializableGameState(Position), q, Id(x)) # toSerializableGameState(Position)
  PROVE  fromSerializableGameState(ReplaceTop(toSerializableGameState(Position), q, Id(x))) = Refused
<1> DEFINE row == toSerializableGameState(Position)
           n == Len(board[q])
           other == [row.board[q] EXCEPT ![n] = Id(x)]
           s == Parsed([row EXCEPT !.board[q] = other])
<1>1. /\ row.board = [r \in Squares |-> Ids(board[r])] /\ row = [row EXCEPT !.board = row.board]
      /\ Len(row.board[q]) = n
  BY StoredForm
<1>2. n \in Nat \ {0}
  BY EmptySeq DEF TypeOK
<1>3. ReplaceTop(row, q, Id(x)) = [row EXCEPT !.board[q] = other]
  BY <1>1 DEF ReplaceTop
<1>4. s.board[q] = PiecesById(other)
  BY OneSquareDamaged
<1>5. (\A r \in Squares \ {q} : s.board[r] = board[r]) /\ s.reserves = reserves
  BY OneSquareDamaged
<1>6. /\ row.board[q] = [j \in 1..n |-> Id(board[q][j])]
      /\ \A j \in 1..n : PieceById(row.board[q][j]) = board[q][j]
      /\ \A y \in Pieces : PieceById(Id(y)) = y
  BY StoredStack, <1>1
<1>7. x # Top(board, q)
  <2> SUFFICES ASSUME x = Top(board, q) PROVE ReplaceTop(row, q, Id(x)) = row
    OBVIOUS
  <2> HIDE DEF row
  <2>1. row.board[q][n] = Id(x)
    BY <1>2, <1>6 DEF Top
  <2>2. other = row.board[q]
    BY <1>6, <2>1
  <2>3. [row.board EXCEPT ![q] = other] = row.board
    BY <1>1, <2>2
  <2>4. [row EXCEPT !.board[q] = other] = [row EXCEPT !.board = [row.board EXCEPT ![q] = other]]
    OBVIOUS
  <2> QED
    BY <1>1, <1>3, <2>3, <2>4
<1> HIDE DEF s, row
<1>8. DOMAIN s.board[q] = 1..n /\ s.board[q][n] = x
      /\ \A j \in 1..n : j # n => s.board[q][j] = board[q][j]
  <2>1. DOMAIN other = 1..n /\ other[n] = Id(x)
        /\ \A j \in 1..n : j # n => other[j] = row.board[q][j]
    BY <1>2, <1>6
  <2> HIDE DEF other
  <2>2. DOMAIN s.board[q] = 1..n /\ \A j \in 1..n : s.board[q][j] = PieceById(other[j])
    BY <1>4, <2>1 DEF PiecesById
  <2>3. s.board[q][n] = x
    BY <1>2, <1>6, <2>1, <2>2
  <2>4. ASSUME NEW j \in 1..n, j # n PROVE s.board[q][j] = board[q][j]
    <3>1. PieceById(row.board[q][j]) = board[q][j]
      BY <1>6
    <3> QED
      BY <2>1, <2>2, <2>4, <3>1
  <2> QED
    BY <2>2, <2>3, <2>4
<1>9. \A j \in DOMAIN s.board[q] : s.board[q][j] # Top(board, q)
  <2>1. \A j \in 1..n : j # n => board[q][j] # board[q][n]
    BY <1>2 DEF EveryPieceOnce, BoardStacks
  <2> QED
    BY <1>7, <1>8, <2>1 DEF Top
<1>10. Top(board, q) \in Pieces /\ Places(s, Top(board, q)) = {}
  BY <1>5, <1>9, GoneIsMissing
<1>11. Violations(s) # {}
  BY <1>10, SomethingIsBroken
<1> QED
  BY <1>3, <1>11, BrokenIsRefused DEF s, row

\* Two pieces of a stack exchanged: it rises no more.
LEMMA ExchangeIsSeen ==
  ASSUME TypeOK, EveryPieceOnce, NEW q \in Squares, Len(board[q]) > 1
  PROVE  fromSerializableGameState(ExchangeTop(toSerializableGameState(Position), q)) = Refused
<1> DEFINE row == toSerializableGameState(Position)
           t == row.board[q]
           n == Len(board[q])
           other == [t EXCEPT ![n] = t[n-1], ![n-1] = t[n]]
           s == Parsed([row EXCEPT !.board[q] = other])
<1>1. ExchangeTop(row, q) = [row EXCEPT !.board[q] = other]
  BY StoredForm DEF ExchangeTop
<1>2. s.board[q] = PiecesById(other)
  BY OneSquareDamaged
<1>3. /\ t = [j \in 1..n |-> Id(board[q][j])] /\ Len(t) = n
      /\ \A j \in 1..n : PieceById(t[j]) = board[q][j]
  BY StoredStack
<1>4. n \in Nat /\ n > 1 /\ n \in 1..n /\ n - 1 \in 1..n /\ n \in 2..n
  BY LenProperties DEF TypeOK
<1> HIDE DEF s, t
<1>5. DOMAIN other = 1..n /\ other[n] = t[n-1] /\ other[n-1] = t[n]
  BY <1>3, <1>4
<1> HIDE DEF other
<1>6. DOMAIN s.board[q] = 1..n /\ \A j \in 1..n : s.board[q][j] = PieceById(other[j])
  BY <1>2, <1>5 DEF PiecesById
<1>7. s.board[q][n] = board[q][n-1] /\ s.board[q][n-1] = board[q][n]
  BY <1>3, <1>4, <1>5, <1>6, ZenonT(60)
<1>8. Len(s.board[q]) = n
  <2>1. s.board[q] = [j \in 1..n |-> PieceById(other[j])]
    BY <1>2, <1>5 DEF PiecesById
  <2> QED
    BY <1>4, <2>1
<1>9. board[q][n-1].size < board[q][n].size
  BY <1>4 DEF EveryPieceOnce, BoardStacks
<1>10. board[q][n-1].size \in Nat /\ board[q][n].size \in Nat
  <2>1. board[q][n-1] \in Pieces /\ board[q][n] \in Pieces
    BY <1>4, ElementOfSeq DEF TypeOK
  <2> QED
    BY <2>1 DEF Pieces, Sizes
<1>11. s.board[q][n].size <= s.board[q][n-1].size
  BY <1>7, <1>9, <1>10
<1>12. Violations(s) # {}
  BY <1>4, <1>8, <1>11, SomethingIsBroken
<1> QED
  BY <1>1, <1>12, BrokenIsRefused DEF s, t, other

\* A piece placed once more: it is at two places.
LEMMA SecondPlaceIsSeen ==
  ASSUME TypeOK, EveryPieceOnce, NEW q \in Squares, NEW x \in Pieces
  PROVE  fromSerializableGameState(Place(toSerializableGameState(Position), q, Id(x))) = Refused
<1> DEFINE row == toSerializableGameState(Position)
           t == row.board[q]
           n == Len(board[q])
           other == Append(t, Id(x))
           s == Parsed([row EXCEPT !.board[q] = other])
           new == <<q, n + 1>>
<1>1. Place(row, q, Id(x)) = [row EXCEPT !.board[q] = other]
  <2>1. row.board = [r \in Squares |-> Ids(board[r])] /\ row = [row EXCEPT !.board = row.board]
    BY StoredForm
  <2> HIDE DEF row
  <2> QED
    BY <2>1 DEF Place
<1>2. s.board[q] = PiecesById(other)
  BY OneSquareDamaged
<1>3. (\A r \in Squares \ {q} : s.board[r] = board[r]) /\ s.reserves = reserves
  BY OneSquareDamaged
<1>4. /\ t \in Seq({Id(y) : y \in Pieces}) /\ Len(t) = n
      /\ \A j \in 1..n : PieceById(t[j]) = board[q][j]
      /\ PieceById(Id(x)) = x
  BY StoredStack
<1>5. n \in Nat /\ \A r \in Squares : DOMAIN board[r] = 1..Len(board[r])
  BY DEF TypeOK
<1> HIDE DEF s, t
<1>6. /\ other \in Seq({Id(y) : y \in Pieces}) /\ Len(other) = n + 1
      /\ other[n + 1] = Id(x) /\ \A j \in 1..n : other[j] = t[j]
  <2>1. Id(x) \in {Id(y) : y \in Pieces}
    OBVIOUS
  <2> QED
    BY <1>4, <2>1, AppendTop
<1>7. /\ DOMAIN s.board[q] = 1..(n + 1) /\ s.board[q][n + 1] = x
      /\ \A j \in 1..n : s.board[q][j] = board[q][j]
  <2>1. DOMAIN other = 1..(n + 1)
    BY <1>6
  <2> HIDE DEF other
  <2>2. /\ DOMAIN s.board[q] = 1..(n + 1)
        /\ \A j \in 1..(n + 1) : s.board[q][j] = PieceById(other[j])
    BY <1>2, <2>1 DEF PiecesById
  <2>3. s.board[q][n + 1] = x
    BY <1>4, <1>5, <1>6, <2>2
  <2>4. ASSUME NEW j \in 1..n PROVE s.board[q][j] = board[q][j]
    <3>1. j \in 1..(n + 1) /\ other[j] = t[j] /\ PieceById(t[j]) = board[q][j]
      BY <1>4, <1>5, <1>6
    <3> QED
      BY <2>2, <3>1
  <2> QED
    BY <2>2, <2>3, <2>4
<1>8. PICK z : Places(Position, x) = {z}
  BY OnePlace
<1>9. Position.board = board /\ Position.reserves = reserves
  BY DEF Position
<1>10. z # new
  <2> SUFFICES ASSUME z = new PROVE FALSE
    OBVIOUS
  <2>1. \E r \in Squares : \E j \in DOMAIN board[r] : board[r][j] = x /\ new = <<r, j>>
    BY <1>8, <1>9, HasPlace, PlacesDiffer
  <2> QED
    BY <1>5, <2>1
<1>11. z \in Places(s, x)
  <2>1. CASE \E r \in Squares : \E j \in DOMAIN board[r] : board[r][j] = x /\ z = <<r, j>>
    <3>1. PICK r \in Squares : \E j \in DOMAIN board[r] : board[r][j] = x /\ z = <<r, j>>
      BY <2>1
    <3>2. PICK j \in DOMAIN board[r] : board[r][j] = x /\ z = <<r, j>>
      BY <3>1
    <3>3. j \in DOMAIN s.board[r] /\ s.board[r][j] = x
      BY <1>3, <1>5, <1>7, <3>2
    <3> QED
      BY <3>2, <3>3, HasPlace
  <2>2. CASE \E p \in Players, i \in Stacks : \E j \in DOMAIN reserves[p][i] :
               reserves[p][i][j] = x /\ z = <<p, i, j>>
    BY <1>3, <2>2, HasPlace
  <2> QED
    BY <1>8, <1>9, <2>1, <2>2, HasPlace
<1>12. new \in Places(s, x)
  <2>1. n + 1 \in DOMAIN s.board[q]
    BY <1>5, <1>7
  <2> QED
    BY <1>7, <2>1, HasPlace
<1>13. ASSUME NEW y \in Places(s, x) PROVE y \in {z, new}
  <2>1. CASE \E r \in Squares : \E j \in DOMAIN s.board[r] : s.board[r][j] = x /\ y = <<r, j>>
    <3>1. PICK r \in Squares : \E j \in DOMAIN s.board[r] : s.board[r][j] = x /\ y = <<r, j>>
      BY <2>1
    <3>2. PICK j \in DOMAIN s.board[r] : s.board[r][j] = x /\ y = <<r, j>>
      BY <3>1
    <3>3. CASE r = q /\ j = n + 1
      BY <3>2, <3>3
    <3>4. CASE ~(r = q /\ j = n + 1)
      <4>1. j \in DOMAIN board[r] /\ board[r][j] = x
        BY <1>3, <1>5, <1>7, <3>2, <3>4
      <4>2. y \in Places(Position, x)
        BY <1>9, <3>2, <4>1, HasPlace
      <4> QED
        BY <1>8, <4>2
    <3> QED
      BY <3>3, <3>4
  <2>2. CASE \E p \in Players, i \in Stacks : \E j \in DOMAIN s.reserves[p][i] :
               s.reserves[p][i][j] = x /\ y = <<p, i, j>>
    <3>1. y \in Places(Position, x)
      BY <1>3, <1>9, <2>2, HasPlace
    <3> QED
      BY <1>8, <3>1
  <2> QED
    BY <2>1, <2>2, HasPlace
<1> HIDE DEF new
<1>14. Places(s, x) = {z} \cup {new}
  BY <1>11, <1>12, <1>13
<1>15. Cardinality(Places(s, x)) = 2
  <2>1. IsFiniteSet({z}) /\ Cardinality({z}) = 1 /\ new \notin {z}
    BY <1>10, FS_Singleton
  <2>2. Cardinality({z} \cup {new}) = 2
    BY <2>1, FS_AddElement
  <2> QED
    BY <1>14, <2>2
<1>16. Violations(s) # {}
  BY <1>15, SomethingIsBroken
<1> HIDE DEF other
<1> QED
  BY <1>1, <1>16, BrokenIsRefused DEF s, t, other

\* A won game open again, or won by nobody's line.
LEMMA WrongResultIsSeen ==
  ASSUME TypeOK, ResultIsTheBoards
  PROVE  LET row == toSerializableGameState(Position)
         IN  /\ status.kind = "win" =>
                  fromSerializableGameState([row EXCEPT !.status = InProgress]) = Refused
             /\ \A p \in Players : winningLinesOnBoard(board, p) = {} =>
                  fromSerializableGameState([row EXCEPT !.status = Win(p, "line")]) = Refused
<1> DEFINE row == toSerializableGameState(Position)
<1>1. ASSUME status.kind = "win"
      PROVE  fromSerializableGameState([row EXCEPT !.status = InProgress]) = Refused
  <2> DEFINE s == Parsed([row EXCEPT !.status = InProgress])
  <2>1. s.board = board /\ s.status = InProgress
    BY StoredForm
  <2>2. status.winner \in Players /\ winningLinesOnBoard(board, status.winner) # {}
    BY <1>1 DEF ResultIsTheBoards, StatusMatchesBoard, TypeOK, InProgress, Draw, Win
  <2> HIDE DEF s
  <2>3. Violations(s) # {}
    BY <2>1, <2>2, SomethingIsBroken
  <2> QED
    BY <2>3, BrokenIsRefused DEF s
<1>2. ASSUME NEW p \in Players, winningLinesOnBoard(board, p) = {}
      PROVE  fromSerializableGameState([row EXCEPT !.status = Win(p, "line")]) = Refused
  <2> DEFINE s == Parsed([row EXCEPT !.status = Win(p, "line")])
  <2>1. s.board = board /\ s.status = Win(p, "line")
    BY StoredForm
  <2>2. s.status.kind = "win" /\ s.status.winner = p
    BY <2>1 DEF Win
  <2> HIDE DEF s
  <2>3. Violations(s) # {}
    BY <1>2, <2>1, <2>2, SomethingIsBroken
  <2> QED
    BY <2>3, BrokenIsRefused DEF s
<1> QED
  BY <1>1, <1>2

\* A stored game with one slip in it is never played on, however many moves it has had
\* and whatever its stacks have buried: reading it is refused.
THEOREM DamageIsAlwaysSeen == Spec => []DamageIsSeen
<1>1. TypeOK /\ EveryPieceOnce /\ ResultIsTheBoards => DamageIsSeen
  <2> DEFINE row == toSerializableGameState(Position)
  <2> SUFFICES ASSUME TypeOK, EveryPieceOnce, ResultIsTheBoards,
                      NEW other \in Damaged, other # row
               PROVE  fromSerializableGameState(other) = Refused
    BY DEF DamageIsSeen
  <2> HIDE DEF row
  <2>1. \/ \E q \in Squares : board[q] # <<>> /\ other = LoseTop(row, q)
        \/ \E q \in Squares, x \in Pieces : other = Place(row, q, Id(x))
        \/ \E q \in Squares, x \in Pieces : board[q] # <<>> /\ other = ReplaceTop(row, q, Id(x))
        \/ \E q \in Squares : Len(board[q]) > 1 /\ other = ExchangeTop(row, q)
        \/ status.kind = "win" /\ other = [row EXCEPT !.status = InProgress]
        \/ \E p \in Players : /\ winningLinesOnBoard(board, p) = {}
                              /\ other = [row EXCEPT !.status = Win(p, "line")]
    BY DEF Damaged, row
  <2>2. CASE \E q \in Squares : board[q] # <<>> /\ other = LoseTop(row, q)
    BY <2>2, LostTopIsSeen DEF row
  <2>3. CASE \E q \in Squares, x \in Pieces : other = Place(row, q, Id(x))
    BY <2>3, SecondPlaceIsSeen DEF row
  <2>4. CASE \E q \in Squares, x \in Pieces :
               board[q] # <<>> /\ other = ReplaceTop(row, q, Id(x))
    BY <2>4, ReplacedTopIsSeen DEF row
  <2>5. CASE \E q \in Squares : Len(board[q]) > 1 /\ other = ExchangeTop(row, q)
    BY <2>5, ExchangeIsSeen DEF row
  <2>6. CASE \/ status.kind = "win" /\ other = [row EXCEPT !.status = InProgress]
             \/ \E p \in Players : /\ winningLinesOnBoard(board, p) = {}
                                   /\ other = [row EXCEPT !.status = Win(p, "line")]
    BY <2>6, WrongResultIsSeen DEF row
  <2> QED
    BY <2>1, <2>2, <2>3, <2>4, <2>5, <2>6
<1> QED
  BY <1>1, GameTypeCorrect, EveryPieceOnceAlways, ResultIsTheBoardsAlways, PTL

\* The same of the early games alone, as the run checks it.
COROLLARY EarlyDamageIsAlwaysSeen == Spec => []EarlyDamageIsSeen
<1>1. DamageIsSeen => EarlyDamageIsSeen
  BY DEF EarlyDamageIsSeen
<1> QED
  BY <1>1, DamageIsAlwaysSeen, PTL
=============================================================================
