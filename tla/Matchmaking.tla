----------------------------- MODULE Matchmaking -----------------------------
(***************************************************************************)
(* The queue of apps/server/src/matchmaking/service.ts and the parts of the *)
(* gateway that call it.  Node runs one continuation at a time, so a step   *)
(* here is the code between two awaits of one call; between the steps of a  *)
(* call any other call, disconnect, suspension or drain may run.            *)
(*                                                                          *)
(* A task is one call in progress: `join` for a player, or `tick` for the   *)
(* gateway's cadence.  Both end in attemptPairing, which re-reads every     *)
(* waiting player's eligibility (an await each), then selects and removes a *)
(* pair in one step, then awaits createMatch.                               *)
(***************************************************************************)
EXTENDS Pairing, FiniteSets, SequencesExt

CONSTANTS
  Actors,     \* players
  Guests,     \* those without an account: casual only, unrated
  Rating,     \* the stored rating of each actor, or NoRating
  Keys,       \* the (mode, time control) queues
  Mode,       \* the mode of each key
  Joins,      \* join calls that may be in progress at once
  Ticks,      \* ticks that may be in progress at once: the interval waits for none
  MaxTime,    \* bound: the clock stops here
  LastEntry,  \* bound: no entry is created after this instant
  MaxTickets, \* bound: entries created in a run
  Failures    \* bound: createMatch transactions that fail in a run

ASSUME ActorAssumption ==
  /\ Guests \subseteq Actors
  /\ Rating \in [Actors -> Nat \cup {NoRating}]
  /\ \A a \in Guests : Rating[a] = NoRating
ASSUME KeyAssumption == Mode \in [Keys -> {"ranked", "casual"}]
ASSUME TaskAssumption == Joins \cap Ticks = {}
ASSUME BoundAssumption ==
  /\ MaxTime \in Nat /\ LastEntry \in Nat /\ MaxTickets \in Nat /\ Failures \in Nat

Tasks == Joins \cup Ticks
NoEntry == [ticket |-> 0]
Idle == [pc |-> "idle"]
Nobody == "nobody"
NoMatch == [tickets |-> {}]

VARIABLES
  clock,
  accepting,   \* false once the server drains
  queues,      \* the entries of each key, by arrival
  byActor,     \* the entry each player holds, or NoEntry
  online,      \* players with at least one socket
  suspended,   \* accounts an administrator has suspended
  tickets,     \* how many entries were ever created; an entry's ticket names it
  task,        \* the calls in progress
  made,        \* matches whose createMatch committed
  over,        \* those of them that have ended
  announced,   \* those of them whose match:found was published
  failures     \* createMatch transactions that failed

queueVars == <<accepting, queues, byActor, tickets>>
matchVars == <<made, over, announced, failures>>
vars == <<clock, queueVars, online, suspended, task, matchVars>>

-----------------------------------------------------------------------------
Entry == [ticket : Nat \ {0}, actor : Actors, rating : Nat \cup {NoRating},
          joinedAt : Nat, key : Keys]
Match == [tickets : SUBSET Nat, players : SUBSET Actors, key : Keys]

TypeOK ==
  /\ clock \in Nat /\ tickets \in Nat /\ failures \in Nat
  /\ accepting \in BOOLEAN
  /\ \A k \in Keys : \A i \in DOMAIN queues[k] : queues[k][i] \in Entry
  /\ byActor \in [Actors -> Entry \cup {NoEntry}]
  /\ online \subseteq Actors /\ suspended \subseteq Actors \ Guests
  /\ DOMAIN task = Tasks
  /\ made \subseteq Match /\ over \subseteq made /\ announced \subseteq made

Init ==
  /\ clock = 0
  /\ accepting = TRUE
  /\ queues = [k \in Keys |-> <<>>]
  /\ byActor = [a \in Actors |-> NoEntry]
  /\ online = Actors
  /\ suspended = {}
  /\ tickets = 0
  /\ task = [t \in Tasks |-> Idle]
  /\ made = {} /\ over = {} /\ announced = {} /\ failures = 0

Active == made \ over
HoldsClock(a) == \E m \in Active : a \in m.players

\* checkParticipant: guests may not play ranked, suspended accounts may not play.
Eligible(a, key) == (a \in Guests => Mode[key] = "casual") /\ a \notin suspended

-----------------------------------------------------------------------------
(* The queue's own operations; each is synchronous. *)

\* indexOf, and splice of what was found.
Spliced(list, entry) ==
  LET found == {i \in DOMAIN list : list[i] = entry}
      index == CHOOSE i \in found : \A j \in found : i <= j
  IN  IF found = {} THEN list ELSE RemoveAt(list, index)

\* remove: whatever entry the player holds now leaves its list.
QueuesWithout(qs, a) ==
  LET held == byActor[a]
  IN  IF held = NoEntry THEN qs ELSE [qs EXCEPT ![held.key] = Spliced(@, held)]

\* remove for one player, and for the two of a pair.
RemoveActor(a) ==
  /\ queues' = QueuesWithout(queues, a)
  /\ byActor' = [byActor EXCEPT ![a] = NoEntry]

\* Mutant: only the first of the pair is taken out.
RemoveOneOf(a, b) == RemoveActor(a)

RemovePair(a, b) ==
  /\ queues' = QueuesWithout(QueuesWithout(queues, a), b)
  /\ byActor' = [byActor EXCEPT ![a] = NoEntry, ![b] = NoEntry]

\* attemptPairing begins with a copy of the list, to look at every entry but the joiner's;
\* a tick still has other keys to attempt, and matches it has seated.
Attempt(actor, key, list, keys, seated) ==
  [pc |-> "checking", actor |-> actor, key |-> key, todo |-> list, keys |-> keys,
   seated |-> seated, match |-> NoMatch]

-----------------------------------------------------------------------------
(* join *)

\* join begins: refused at once when draining, or else awaiting its reads.
BeginJoin(t, a, key) ==
  /\ task[t] = Idle
  /\ a \in online
  /\ accepting
  /\ task' = [task EXCEPT ![t] = [pc |-> "reading", actor |-> a, key |-> key]]
  /\ UNCHANGED <<clock, queueVars, online, suspended, matchVars>>

\* join's reads, a step each: eligibility, then hasUnfinishedMatch.  The rating is
\* awaited as well, so the entry is made a step later.
ReadEligibility(t) ==
  /\ task[t].pc = "reading"
  /\ task' = [task EXCEPT ![t] =
       IF Eligible(@.actor, @.key) THEN [@ EXCEPT !.pc = "eligible"] ELSE Idle]
  /\ UNCHANGED <<clock, queueVars, online, suspended, matchVars>>

ReadUnfinished(t) ==
  /\ task[t].pc = "eligible"
  /\ task' = [task EXCEPT ![t] =
       IF HoldsClock(@.actor) THEN Idle ELSE [@ EXCEPT !.pc = "entering"]]
  /\ UNCHANGED <<clock, queueVars, online, suspended, matchVars>>

\* The entry replaces any the player held; the pairing attempt begins.
Enter(t) ==
  LET a == task[t].actor
      key == task[t].key
      entry == [ticket |-> tickets + 1, actor |-> a, rating |-> Rating[a],
                joinedAt |-> clock, key |-> key]
  IN  /\ task[t].pc = "entering"
      /\ tickets < MaxTickets /\ clock <= LastEntry
      /\ tickets' = tickets + 1
      /\ queues' = [QueuesWithout(queues, a) EXCEPT ![key] = Append(@, entry)]
      /\ byActor' = [byActor EXCEPT ![a] = entry]
      /\ task' = [task EXCEPT ![t] = Attempt(a, key, queues'[key], {}, {})]
      /\ UNCHANGED <<clock, accepting, online, suspended, matchVars>>

-----------------------------------------------------------------------------
(* tick *)

\* tick begins with the keys that have entries, and attempts one of them.
BeginTick(t) ==
  LET active == {k \in Keys : queues[k] # <<>>}
  IN  /\ task[t] = Idle
      /\ \E key \in active :
           task' = [task EXCEPT ![t] =
             Attempt(Nobody, key, queues[key], active \ {key}, {})]
      /\ UNCHANGED <<clock, queueVars, online, suspended, matchVars>>

-----------------------------------------------------------------------------
(* attemptPairing, the same for both *)

\* dropIneligible: the joiner is passed over; of another one verdict arrives, and it is removed by
\* name, whatever entry it holds by now.
CheckNext(t) ==
  /\ task[t].pc = "checking"
  /\ task[t].todo # <<>>
  /\ LET a == Head(task[t].todo).actor
     IN  IF a = task[t].actor \/ Eligible(a, task[t].key)
           THEN UNCHANGED <<queues, byActor>>
           ELSE RemoveActor(a)
  /\ task' = [task EXCEPT ![t].todo = Tail(@)]
  /\ UNCHANGED <<clock, accepting, tickets, online, suspended, matchVars>>

\* Selection and removal, with no await between them; createMatch is awaited.
SelectPair(t) ==
  LET key  == task[t].key
      list == queues[key]
      pair == FindPairing(list, Mode[key], clock)
      first == list[pair[1]]
      second == list[pair[2]]
  IN  /\ task[t].pc = "checking"
      /\ task[t].todo = <<>>
      /\ pair # NoPairing
      /\ RemovePair(first.actor, second.actor)
      /\ task' = [task EXCEPT ![t].pc = "creating",
           ![t].match = [tickets |-> {first.ticket, second.ticket},
                         players |-> {first.actor, second.actor}, key |-> key]]
      /\ UNCHANGED <<clock, accepting, tickets, online, suspended, matchVars>>

\* Nobody to pair: a join answers "queued"; a tick goes on to its next key.
FindNobody(t) ==
  LET key == task[t].key
  IN  /\ task[t].pc = "checking"
      /\ task[t].todo = <<>>
      /\ FindPairing(queues[key], Mode[key], clock) = NoPairing
      /\ \/ /\ task[t].keys = {}
            /\ announced' = announced \cup task[t].seated
            /\ task' = [task EXCEPT ![t] = Idle]
         \/ /\ \E next \in task[t].keys :
                 task' = [task EXCEPT ![t].key = next, ![t].keys = @ \ {next},
                                      ![t].todo = queues[next]]
            /\ UNCHANGED announced
      /\ UNCHANGED <<clock, queueVars, online, suspended, made, over, failures>>

\* createMatch commits: the match exists and its clock runs.
CommitMatch(t) ==
  /\ task[t].pc = "creating"
  /\ made' = made \cup {task[t].match}
  /\ task' = [task EXCEPT ![t].pc = "created"]
  /\ UNCHANGED <<clock, queueVars, online, suspended, over, announced, failures>>

\* createMatch fails: join rejects without an answer; tick's caller logs, and
\* what the tick had seated before is not published.
FailMatch(t) ==
  /\ task[t].pc = "creating"
  /\ failures < Failures
  /\ failures' = failures + 1
  /\ task' = [task EXCEPT ![t] = Idle]
  /\ UNCHANGED <<clock, queueVars, online, suspended, made, over, announced>>

\* createMatch returns to join: it answers "matched" and publishes the match if
\* the joiner is in it, and answers "queued" if not.
ReturnToJoin(t) ==
  /\ t \in Joins
  /\ task[t].pc = "created"
  /\ announced' = IF task[t].actor \in task[t].match.players
                    THEN announced \cup {task[t].match} ELSE announced
  /\ task' = [task EXCEPT ![t] = Idle]
  /\ UNCHANGED <<clock, queueVars, online, suspended, made, over, failures>>

\* createMatch returns to tick, which collects the match and tries the key again.
ReturnToTick(t) ==
  /\ t \in Ticks
  /\ task[t].pc = "created"
  /\ task' = [task EXCEPT ![t] =
       Attempt(Nobody, @.key, queues[@.key], @.keys, @.seated \cup {@.match})]
  /\ UNCHANGED <<clock, queueVars, online, suspended, matchVars>>

-----------------------------------------------------------------------------
(* What the gateway and the rest of the server do to the queue. *)

\* queue:leave.
Leave(a) ==
  /\ a \in online
  /\ byActor[a] # NoEntry
  /\ RemoveActor(a)
  /\ UNCHANGED <<clock, accepting, tickets, online, suspended, task, matchVars>>

\* forgetSocket, for the player's last socket.
Disconnect(a) ==
  /\ a \in online
  /\ online' = online \ {a}
  /\ RemoveActor(a)
  /\ UNCHANGED <<clock, accepting, tickets, suspended, task, matchVars>>

Connect(a) ==
  /\ a \notin online
  /\ online' = online \cup {a}
  /\ UNCHANGED <<clock, queueVars, suspended, task, matchVars>>

Suspend(a) ==
  /\ a \in Actors \ (Guests \cup suspended)
  /\ suspended' = suspended \cup {a}
  /\ UNCHANGED <<clock, queueVars, online, task, matchVars>>

\* stopAcceptingEntries.
Drain ==
  /\ accepting
  /\ accepting' = FALSE
  /\ queues' = [k \in Keys |-> <<>>]
  /\ byActor' = [a \in Actors |-> NoEntry]
  /\ UNCHANGED <<clock, tickets, online, suspended, task, matchVars>>

\* A match ends in the runtime.
EndMatch(m) ==
  /\ m \in Active
  /\ over' = over \cup {m}
  /\ UNCHANGED <<clock, queueVars, online, suspended, task, made, announced, failures>>

PassTime ==
  /\ clock < MaxTime
  /\ clock' = clock + 1
  /\ UNCHANGED <<queueVars, online, suspended, task, matchVars>>

TaskStep(t) ==
  \/ ReadEligibility(t)
  \/ ReadUnfinished(t)
  \/ Enter(t)
  \/ CheckNext(t)
  \/ SelectPair(t)
  \/ FindNobody(t)
  \/ CommitMatch(t)
  \/ FailMatch(t)
  \/ ReturnToJoin(t)
  \/ ReturnToTick(t)

Next ==
  \/ \E t \in Joins, a \in Actors, k \in Keys : BeginJoin(t, a, k)
  \/ \E t \in Ticks : BeginTick(t)
  \/ \E t \in Tasks : TaskStep(t)
  \/ \E a \in Actors : Leave(a)
  \/ \E a \in Actors : Disconnect(a)
  \/ \E a \in Actors : Connect(a)
  \/ \E a \in Actors : Suspend(a)
  \/ \E m \in Active : EndMatch(m)
  \/ Drain
  \/ PassTime

Spec == Init /\ [][Next]_vars

(* The interval keeps ticking and every await of a call is answered; nothing *)
(* is assumed of what the players do.                                        *)
Fairness ==
  /\ WF_vars(PassTime)
  /\ \A t \in Ticks : WF_vars(BeginTick(t))
  /\ \A t \in Tasks : WF_vars(TaskStep(t))

FairSpec == Spec /\ Fairness

-----------------------------------------------------------------------------
(* Properties. *)

\* The two structures agree: what a player holds is in the list of its key, and
\* every list holds each player's one entry (service.ts queues and byActor,
\* ADR-0018: at most one entry across all queues).
QueuesAgree ==
  /\ \A a \in Actors : byActor[a] # NoEntry =>
       byActor[a].actor = a /\ byActor[a] \in ToSet(queues[byActor[a].key])
  /\ \A k \in Keys :
       /\ IsInjective(queues[k])
       /\ \A e \in ToSet(queues[k]) : e.key = k /\ byActor[e.actor] = e

\* Pairs that were taken out of a queue: their matches exist or are being created.
Pairs == made \cup {task[t].match : t \in {u \in Tasks : task[u].pc = "creating"}}

\* However many calls pair at once, an entry is spent on one match at most, never
\* waits again afterwards, and never meets itself or another queue.
EntrySpentOnce ==
  /\ \A p, q \in Pairs : p.tickets \cap q.tickets # {} => p = q
  /\ \A p \in Pairs :
       /\ Cardinality(p.tickets) = 2 /\ Cardinality(p.players) = 2
       /\ \A a \in Actors : byActor[a] # NoEntry => byActor[a].ticket \notin p.tickets

\* Two entries are not left waiting beside each other for ever: a window that
\* keeps them apart is lifted, and the next tick seats them or whoever is nearer.
NobodyWaitsBesideAnOpponent ==
  \A k \in Keys : \A both \in kSubset(2, Actors) :
    ~<>[](\A a \in both : byActor[a] # NoEntry /\ byActor[a].key = k)

\* Nobody is in two queues, in one twice, or paired twice: what a player holds is what the
\* lists hold, and a pair that was taken out stays out, however the awaits of joins and
\* ticks fall (service.ts remove, attemptPairing).
EntriesAreKept == TypeOK /\ QueuesAgree /\ EntrySpentOnce
=============================================================================
