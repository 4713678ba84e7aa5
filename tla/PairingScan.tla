---------------------------- MODULE PairingScan ----------------------------
(***************************************************************************)
(* Pairing over every small queue: entries arrive in time order with every  *)
(* rating of Ratings, time passes, and nobody is removed, so each state is  *)
(* one input of findPairing.                                                *)
(***************************************************************************)
EXTENDS Pairing

CONSTANTS Ratings, MaxEntries, MaxTime

VARIABLES entries, mode, now
queueVars == <<entries, mode, now>>

ScanInit == entries = <<>> /\ mode \in {"ranked", "casual"} /\ now = 0

\* A player joins; its actor is named by its arrival, so no two are the same.
Arrive ==
  /\ Len(entries) < MaxEntries
  /\ \E r \in Ratings \cup {NoRating} :
       entries' = Append(entries, [actor |-> Len(entries) + 1, rating |-> r, joinedAt |-> now])
  /\ UNCHANGED <<mode, now>>

Wait == now < MaxTime /\ now' = now + 1 /\ UNCHANGED <<entries, mode>>

ScanNext == Arrive \/ Wait

-----------------------------------------------------------------------------
(* findPairing's two nested loops as written: the outer one returns at the  *)
(* first entry with a best candidate, the inner one keeps the first best.   *)

RECURSIVE BestFrom(_, _, _)
BestFrom(first, j, best) ==
  IF j > Len(entries) THEN best
  ELSE BestFrom(first, j + 1,
         LET d(x) == Distance(OrderingRating(entries[first]), OrderingRating(entries[x]))
         IN  IF /\ AreCompatible(entries[first], entries[j], mode, now)
                /\ (best = 0 \/ d(j) < d(best))
             THEN j ELSE best)

RECURSIVE Scan(_)
Scan(first) ==
  IF first > Len(entries) THEN NoPairing
  ELSE LET best == BestFrom(first, first + 1, 0)
       IN  IF best # 0 THEN <<first, best>> ELSE Scan(first + 1)

\* The pair findPairing names is the one its loops find (pairing.ts, findPairing).
FollowsTheScan == FindPairing(entries, mode, now) = Scan(1)

\* Nobody is overtaken: when a pair is seated, every pair that could have met
\* instead has a longest waiter who joined no earlier; and no pair is missed.
LongestWaitFirst ==
  LET pair == FindPairing(entries, mode, now)
  IN  \A i, j \in DOMAIN entries :
        AreCompatible(entries[i], entries[j], mode, now) =>
          /\ pair # NoPairing
          /\ entries[pair[1]].joinedAt <= entries[i].joinedAt
          /\ entries[pair[1]].joinedAt <= entries[j].joinedAt

\* Two players who have both waited UNBOUNDED_AFTER_MS are never left unpaired,
\* whatever their ratings, so nobody waits for an opponent that is there.
AMinuteIsEnough ==
  (\E i, j \in DOMAIN entries :
     /\ i # j
     /\ now - entries[i].joinedAt >= UnboundedAfter
     /\ now - entries[j].joinedAt >= UnboundedAfter)
  => FindPairing(entries, mode, now) # NoPairing

\* The pair that is seated is the one the loops find, nobody who could have been seated
\* waited longer, and a minute opens every window (pairing.ts, findPairing).
PairingIsFair == FollowsTheScan /\ LongestWaitFirst /\ AMinuteIsEnough
=============================================================================
