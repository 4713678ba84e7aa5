------------------------------- MODULE Pairing -------------------------------
(***************************************************************************)
(* The pairing rules of apps/server/src/matchmaking/pairing.ts: who may    *)
(* meet whom after which wait, and which pair is seated next.  A queue is a *)
(* sequence of entries in the order they were pushed.                      *)
(***************************************************************************)
EXTENDS Integers, Sequences

CONSTANTS
  InitialWindow,   \* INITIAL_WINDOW
  WindowStep,      \* WINDOW_STEP
  StepInterval,    \* WINDOW_STEP_INTERVAL_MS
  MaximumWindow,   \* MAXIMUM_WINDOW
  UnboundedAfter,  \* UNBOUNDED_AFTER_MS
  StartingRating   \* what an entry without a rating is ordered as

ASSUME WindowAssumption ==
  /\ InitialWindow \in Nat /\ WindowStep \in Nat /\ MaximumWindow \in Nat
  /\ InitialWindow <= MaximumWindow
  /\ StepInterval \in Nat \ {0}
  /\ UnboundedAfter \in Nat
  /\ StartingRating \in Nat

NoRating == -1      \* the rating of a guest and of an account with no ranked result
Unlimited == -1    \* the half-width of a search that accepts anyone
NoPairing == <<>>

Distance(r, s) == IF r >= s THEN r - s ELSE s - r

OrderingRating(entry) == IF entry.rating = NoRating THEN StartingRating ELSE entry.rating

\* Mutant: the limit is never lifted.
WindowHalfWidthBounded(waited) == InitialWindow

WindowHalfWidth(waited) ==
  LET steps == (IF waited > 0 THEN waited ELSE 0) \div StepInterval
      width == InitialWindow + steps * WindowStep
  IN  IF waited >= UnboundedAfter THEN Unlimited
      ELSE IF width <= MaximumWindow THEN width ELSE MaximumWindow

WithinWindow(entry, candidate, mode, now) ==
  LET half == WindowHalfWidth(now - entry.joinedAt)
  IN  \/ mode = "casual"
      \/ half = Unlimited
      \/ Distance(OrderingRating(entry), OrderingRating(candidate)) <= half

\* Both players must accept each other.
AreCompatible(first, second, mode, now) ==
  /\ first.actor # second.actor
  /\ WithinWindow(first, second, mode, now)
  /\ WithinWindow(second, first, mode, now)

-----------------------------------------------------------------------------
(* findPairing.  Positions stand for entries; the stable sort by joinedAt   *)
(* orders them by arrival and then by position.                            *)

Before(entries, i, j) ==
  \/ entries[i].joinedAt < entries[j].joinedAt
  \/ entries[i].joinedAt = entries[j].joinedAt /\ i < j

Candidates(entries, i, mode, now) ==
  {j \in DOMAIN entries :
     Before(entries, i, j) /\ AreCompatible(entries[i], entries[j], mode, now)}

\* Is candidate j nearer to entry i than candidate k, the longer wait breaking a tie?
Nearer(entries, i, j, k) ==
  LET d(x) == Distance(OrderingRating(entries[i]), OrderingRating(entries[x]))
  IN  d(j) < d(k) \/ (d(j) = d(k) /\ Before(entries, j, k))

\* Mutant: the last entry is served first.
FindPairingLatest(entries, mode, now) ==
  LET seekers == {i \in DOMAIN entries : Candidates(entries, i, mode, now) # {}}
      first   == CHOOSE i \in seekers : \A k \in seekers \ {i} : Before(entries, k, i)
  IN  IF seekers = {} THEN NoPairing
      ELSE <<first, CHOOSE j \in Candidates(entries, first, mode, now) : TRUE>>

\* The longest waiting entry that has a candidate, with its nearest candidate.
FindPairing(entries, mode, now) ==
  LET seekers == {i \in DOMAIN entries : Candidates(entries, i, mode, now) # {}}
      first   == CHOOSE i \in seekers : \A k \in seekers \ {i} : Before(entries, i, k)
      nearest == CHOOSE j \in Candidates(entries, first, mode, now) :
                   \A k \in Candidates(entries, first, mode, now) \ {j} :
                     Nearer(entries, first, j, k)
  IN  IF seekers = {} THEN NoPairing ELSE <<first, nearest>>
=============================================================================
