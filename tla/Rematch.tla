------------------------------- MODULE Rematch -------------------------------
(***************************************************************************)
(* Rematch offers: apps/server/src/matchmaking/rematch.ts and the handlers  *)
(* of the gateway that call it.  A step is the code between two awaits.     *)
(*                                                                          *)
(* request and respond read the database several times before they act, and *)
(* each read is a step: a call is the list of reads it still has to make,   *)
(* refused by the first that fails.  What it does after the last of them is *)
(* a step of its own, because the answer to a read is already in the past   *)
(* when the call continues.                                                 *)
(***************************************************************************)
EXTENDS Integers, Sequences, FiniteSets

CONSTANTS
  Actors,
  Accounts,     \* those an administrator can suspend: the others are guests
  FirstMatches, \* the matches on record to begin with: their seats
  Elsewhere,    \* whom else the queue may seat in the meantime: pairs of players
  Calls,        \* request and respond calls that may be in progress at once
  OfferLife,    \* REMATCH_OFFER_MS
  MaxTime,      \* bound: the clock stops here
  LastOffer,    \* bound: no offer is stored after this instant
  MaxOffers,    \* bound: offers stored in a run
  MaxMatches,   \* bound: matches on record
  Failures      \* bound: createMatch transactions that fail in a run

\* Two players of a match are two; the bounds leave room for the matches on record.
Seats == {s \in [light : Actors, dark : Actors] : s.light # s.dark}
RematchConstants ==
  /\ Accounts \subseteq Actors
  /\ FirstMatches \in Seq(Seats) /\ Len(FirstMatches) <= MaxMatches
  /\ Elsewhere \subseteq Seats
  /\ OfferLife \in Nat /\ MaxOffers \in Nat /\ MaxMatches \in Nat /\ Failures \in Nat

Ids == 1..MaxMatches
NoMatch == 0
NoOffer == [number |-> 0]
Idle == [pc |-> "idle"]

VARIABLES
  clock,
  matches,   \* the matches on record; the offer and the accepter that made each
  offers,    \* offersByMatch
  waiting,   \* matchIdsByActor: the match each player has offered a rematch of
  stored,    \* offers stored so far; an offer's number names it
  calls,     \* the calls in progress
  present,   \* players with at least one socket
  barred,    \* accounts suspended since
  draining,
  failures

offerVars == <<offers, waiting, stored>>
worldVars == <<present, barred, draining>>
rematchVars == <<clock, matches, offerVars, calls, worldVars, failures>>

-----------------------------------------------------------------------------
Offer == [number : Nat \ {0}, match : Ids, by : Actors, opponent : Actors, expiresAt : Nat]

OffersTypeOK ==
  /\ clock \in Nat /\ stored \in Nat /\ failures \in Nat
  /\ Len(matches) <= MaxMatches
  /\ \A i \in DOMAIN matches :
       /\ matches[i].light \in Actors /\ matches[i].dark \in Actors \ {matches[i].light}
       /\ matches[i].offer \in Offer \cup {NoOffer}
  /\ offers \in [Ids -> Offer \cup {NoOffer}]
  /\ \A i \in Ids : offers[i] # NoOffer =>
       offers[i].match = i /\ i \in DOMAIN matches /\ offers[i].by # offers[i].opponent
  /\ waiting \in [Actors -> Ids \cup {NoMatch}]
  /\ DOMAIN calls = Calls
  /\ present \subseteq Actors /\ barred \subseteq Accounts /\ draining \in BOOLEAN

OnRecord(seats, over, offer, accepter) ==
  [light |-> seats.light, dark |-> seats.dark, over |-> over,
   offer |-> offer, accepter |-> accepter]

OffersInit ==
  /\ clock = 0
  /\ matches = [i \in DOMAIN FirstMatches |-> OnRecord(FirstMatches[i], FALSE, NoOffer, "none")]
  /\ offers = [i \in Ids |-> NoOffer]
  /\ waiting = [a \in Actors |-> NoMatch]
  /\ stored = 0
  /\ calls = [t \in Calls |-> Idle]
  /\ present = Actors /\ barred = {} /\ draining = FALSE
  /\ failures = 0

Players(i) == {matches[i].light, matches[i].dark}

OpponentOf(i, a) == CHOOSE b \in Players(i) : b # a
HoldsClock(a) == \E i \in DOMAIN matches : ~matches[i].over /\ a \in Players(i)

-----------------------------------------------------------------------------

\* forget: by match and by player, whatever stands under those names now.
ForgetAll(gone) ==
  /\ offers' = [i \in Ids |-> IF \E o \in gone : o.match = i THEN NoOffer ELSE offers[i]]
  /\ waiting' = [a \in Actors |-> IF \E o \in gone : o.by = a THEN NoMatch ELSE waiting[a]]
  /\ UNCHANGED stored

Standing == {offers[i] : i \in Ids} \ {NoOffer}

\* The reads of finishedMatch and of readyToPlay, in the order they are made.
ReadFinished == <<[read |-> "finished"]>>
ReadReady(a) == <<[read |-> "eligible", who |-> a], [read |-> "free", who |-> a]>>

Passes(read, i, a) ==
  \/ read.read = "finished" /\ i \in DOMAIN matches /\ a \in Players(i) /\ matches[i].over
  \/ read.read = "eligible" /\ read.who \notin barred
  \/ read.read = "free" /\ ~HoldsClock(read.who)

-----------------------------------------------------------------------------
(* request and respond *)

\* request, when nothing stands and the player is not waiting on another match.
BeginRequest(t, a, i) ==
  /\ calls[t] = Idle
  /\ a \in present
  /\ offers[i] = NoOffer
  /\ waiting[a] = NoMatch
  /\ calls' = [calls EXCEPT ![t] = [pc |-> "offering", actor |-> a, match |-> i,
                                    todo |-> ReadFinished \o ReadReady(a)]]
  /\ UNCHANGED <<clock, matches, offerVars, worldVars, failures>>

\* Mutant: the player who offered may also accept.
MayAcceptOwn(offer, a) == a \in {offer.by, offer.opponent}

MayAccept(offer, a) == a = offer.opponent

\* respond with accept, and request by the player the standing offer was made to.
BeginAccept(t, a, i) ==
  /\ calls[t] = Idle
  /\ a \in present
  /\ offers[i] # NoOffer /\ MayAccept(offers[i], a)
  /\ calls' = [calls EXCEPT ![t] =
       [pc |-> "accepting", actor |-> a, match |-> i, offer |-> offers[i],
        todo |-> ReadFinished \o ReadReady(a) \o ReadReady(offers[i].by)]]
  /\ UNCHANGED <<clock, matches, offerVars, worldVars, failures>>

\* respond without accept: the one who offered withdraws, the other declines.
Refuse(a, i) ==
  /\ a \in present
  /\ offers[i] # NoOffer /\ a \in {offers[i].by, offers[i].opponent}
  /\ ForgetAll({offers[i]})
  /\ UNCHANGED <<clock, matches, calls, worldVars, failures>>

\* The next read of a call; the first that fails refuses it.
Read(t) ==
  LET call == calls[t]
      read == [call EXCEPT !.todo = Tail(call.todo)]
  IN  /\ call # Idle /\ call.todo # <<>>
      /\ calls' = [calls EXCEPT
           ![t] = IF Passes(Head(call.todo), call.match, call.actor) THEN read ELSE Idle]
      /\ UNCHANGED <<clock, matches, offerVars, worldVars, failures>>

\* request, after its reads: the offer is stored over whatever stands by now.
StoreOffer(t) ==
  LET a == calls[t].actor
      i == calls[t].match
      offer == [number |-> stored + 1, match |-> i, by |-> a,
                opponent |-> OpponentOf(i, a), expiresAt |-> clock + OfferLife]
  IN  /\ calls[t].pc = "offering" /\ calls[t].todo = <<>>
      /\ stored < MaxOffers /\ clock <= LastOffer
      /\ stored' = stored + 1
      /\ offers' = [offers EXCEPT ![i] = offer]
      /\ waiting' = [waiting EXCEPT ![a] = i]
      /\ calls' = [calls EXCEPT ![t] = Idle]
      /\ UNCHANGED <<clock, matches, worldVars, failures>>

\* respond, after its reads: the offer is forgotten, then createMatch is awaited.
AcceptOffer(t) ==
  /\ calls[t].pc = "accepting" /\ calls[t].todo = <<>>
  /\ ForgetAll({calls[t].offer})
  /\ calls' = [calls EXCEPT ![t].pc = "creating"]
  /\ UNCHANGED <<clock, matches, worldVars, failures>>

\* createMatch commits, with the colours swapped, and the call answers.
CommitNext(t) ==
  LET previous == matches[calls[t].match]
  IN  /\ calls[t].pc = "creating"
      /\ Len(matches) < MaxMatches
      /\ matches' = Append(matches,
           OnRecord([light |-> previous.dark, dark |-> previous.light], FALSE,
                    calls[t].offer, calls[t].actor))
      /\ calls' = [calls EXCEPT ![t] = Idle]
      /\ UNCHANGED <<clock, offerVars, worldVars, failures>>

\* createMatch fails: the call rejects, and nobody is told anything.
FailNext(t) ==
  /\ calls[t].pc = "creating"
  /\ failures < Failures
  /\ failures' = failures + 1
  /\ calls' = [calls EXCEPT ![t] = Idle]
  /\ UNCHANGED <<clock, matches, offerVars, worldVars>>

-----------------------------------------------------------------------------
(* What the gateway does to offers *)

\* sweep, on every tick: all offers whose deadline has passed.
Due == {o \in Standing : o.expiresAt <= clock}
Sweep ==
  /\ Due # {}
  /\ ForgetAll(Due)
  /\ UNCHANGED <<clock, matches, calls, worldVars, failures>>

\* A player's last socket goes: cancelFor ends every offer it is part of.
DisconnectPlayer(a) ==
  LET gone == {o \in Standing : a \in {o.by, o.opponent}}
  IN  /\ a \in present
      /\ present' = present \ {a}
      /\ ForgetAll(gone)
      /\ UNCHANGED <<clock, matches, calls, barred, draining, failures>>

ConnectPlayer(a) ==
  /\ a \notin present
  /\ present' = present \cup {a}
  /\ UNCHANGED <<clock, matches, offerVars, calls, barred, draining, failures>>

\* forgetAll, when the server starts to drain; sockets and handlers go on.
DrainOffers ==
  /\ ~draining
  /\ draining' = TRUE
  /\ offers' = [i \in Ids |-> NoOffer]
  /\ waiting' = [a \in Actors |-> NoMatch]
  /\ UNCHANGED <<clock, matches, stored, calls, present, barred, failures>>

-----------------------------------------------------------------------------
(* The rest of the server *)

SuspendPlayer(a) ==
  /\ a \in Accounts \ barred
  /\ barred' = barred \cup {a}
  /\ UNCHANGED <<clock, matches, offerVars, calls, present, draining, failures>>

EndMatch(i) ==
  /\ ~matches[i].over
  /\ matches' = [matches EXCEPT ![i].over = TRUE]
  /\ UNCHANGED <<clock, offerVars, calls, worldVars, failures>>

\* The queue seats two players who hold no clock.
SeatElsewhere(seats) ==
  /\ ~HoldsClock(seats.light) /\ ~HoldsClock(seats.dark) /\ ~draining
  /\ Len(matches) < MaxMatches
  /\ matches' = Append(matches, OnRecord(seats, FALSE, NoOffer, "none"))
  /\ UNCHANGED <<clock, offerVars, calls, worldVars, failures>>

PassTime ==
  /\ clock < MaxTime
  /\ clock' = clock + 1
  /\ UNCHANGED <<matches, offerVars, calls, worldVars, failures>>

CallStep(t) ==
  \/ Read(t)
  \/ StoreOffer(t)
  \/ AcceptOffer(t)
  \/ CommitNext(t)
  \/ FailNext(t)

OffersNext ==
  \/ \E t \in Calls, a \in Actors, i \in DOMAIN matches : BeginRequest(t, a, i)
  \/ \E t \in Calls, a \in Actors, i \in DOMAIN matches : BeginAccept(t, a, i)
  \/ \E a \in Actors, i \in DOMAIN matches : Refuse(a, i)
  \/ \E t \in Calls : CallStep(t)
  \/ \E a \in Actors : DisconnectPlayer(a)
  \/ \E a \in Actors : ConnectPlayer(a)
  \/ \E a \in Actors : SuspendPlayer(a)
  \/ \E seats \in Elsewhere : SeatElsewhere(seats)
  \/ \E i \in DOMAIN matches : EndMatch(i)
  \/ Sweep
  \/ DrainOffers
  \/ PassTime

OffersSpec == OffersInit /\ [][OffersNext]_rematchVars

-----------------------------------------------------------------------------
(* Properties. *)

\* An offer is answered once, so it makes one match (rematch.ts, respond: "Removed before
\* the match is created, so an offer cannot be answered twice").
NextMatchOnce ==
  \A i, j \in DOMAIN matches :
    matches[i].offer # NoOffer /\ matches[i].offer = matches[j].offer => i = j

\* An offer that stands has made no match and is making none: only accepts begun
\* before the first of them forgot it can still spend it.
SpentOffersAreGone ==
  \A i \in Ids : offers[i] # NoOffer =>
    /\ \A j \in DOMAIN matches : matches[j].offer # offers[i]
    /\ \A t \in Calls : calls[t].pc = "creating" => calls[t].offer # offers[i]

\* Whatever races, a rematch follows a match that is over, seats its own two players,
\* and one of them asked while the other accepted.
BothAgreed ==
  \A j \in DOMAIN matches : matches[j].offer # NoOffer =>
    LET offer == matches[j].offer
    IN  /\ matches[offer.match].over
        /\ {offer.by, matches[j].accepter} = Players(offer.match)
        /\ Players(j) = Players(offer.match)

\* A rematch is one both players asked for, of a match that was over, and an offer that
\* has been answered is no longer there to be answered (rematch.ts, respond).
OffersAreHonoured == OffersTypeOK /\ BothAgreed /\ SpentOffersAreGone
=============================================================================
