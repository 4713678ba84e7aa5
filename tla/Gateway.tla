------------------------------ MODULE Gateway ------------------------------
(***************************************************************************)
(* The gateway as a process: connections, handshakes, who is online, what   *)
(* is relayed between the two players of a match, the history of their       *)
(* connections, and the shutdown (apps/server/src/socket/gateway.ts,         *)
(* socket/communication.ts, identity/resolve.ts, shutdown.ts and `close` of  *)
(* bootstrap.ts).                                                            *)
(*                                                                           *)
(* A handler is work in flight from the frame that starts it to its last     *)
(* await; every await that something else can overtake is a step.  One match *)
(* is played, by all the actors; what the handlers do to it is in            *)
(* MatchRuntime and MatchSession, how the queue pairs in Matchmaking, and    *)
(* offers, which an actor's last connection cancels, in Rematch.  Clients    *)
(* send what the web client sends: one handshake per connection, and nothing *)
(* else before it is answered.                                               *)
(***************************************************************************)
EXTENDS Integers, FiniteSets

CONSTANTS
  Socket,     \* connections: each is opened once
  Actor,      \* the two players of the match
  User,       \* those with an account
  Owner,      \* whose token the client behind a socket holds
  Channel,    \* CommunicationChannel
  Profile,    \* the mutes saved in each account's profile
  MaxFrames   \* bound: frames sent after the handshakes

ASSUME SocketAssumption ==
  /\ User \subseteq Actor
  /\ Owner \in [Socket -> Actor]
  /\ Profile \in [User -> SUBSET Channel]
  /\ MaxFrames \in Nat

VARIABLES
  conn,       \* of each connection: "away", "open" or "closed"
  session,    \* sessions: the connections that have one
  attached,   \* session.attached: the connections that have joined the match
  mutes,      \* ChannelMutes
  told,       \* what the client last heard about its mutes
  online,     \* socketsByActor
  queued,     \* byActor of the queue: the actors who wait in it
  left,       \* detached: actors this process saw leave the match
  inFlight,   \* handlers and history writes that have not settled
  phase,      \* of the shutdown
  \* the database
  suspended,  \* accounts
  history,    \* rows of matchConnectionEvents, counted per connection and kind
  played,     \* commands committed
  \* bookkeeping
  heard,      \* per connection, the relayed messages it received
  returns,    \* reconnections counted, per actor
  frames      \* frames sent so far

net == <<conn, told, heard, frames>>
memory == <<session, attached, mutes, online, queued, left>>
database == <<suspended, history, played>>
vars == <<net, memory, inFlight, phase, database, returns>>

Unknown == {"not told yet"}
ASSUME UnknownAssumption == "not told yet" \notin Channel
RowKind == {"attached", "detached"}
Closing == phase \notin {"serving", "draining"}

\* Work somebody's frame started, or a history row somebody left behind.
Work(kind, s, number, content) ==
  [kind |-> kind, socket |-> s, pc |-> "received", number |-> number, content |-> content]
Frame(kind, s, content) == Work(kind, s, frames + 1, content)

TypeOK ==
  /\ conn \in [Socket -> {"away", "open", "closed"}]
  /\ session \subseteq Socket /\ attached \subseteq session
  /\ mutes \in [Socket -> SUBSET Channel]
  /\ \A s \in Socket : told[s] = Unknown \/ told[s] \subseteq Channel
  /\ \A a \in Actor : online[a] \subseteq {s \in session : Owner[s] = a}
  /\ queued \subseteq Actor /\ left \subseteq Actor
  /\ \A w \in inFlight :
       /\ w.kind \in {"authenticate", "sync", "mute", "relay", "move", "join", "row"}
       /\ w.socket \in Socket
  /\ phase \in {"serving", "draining", "closing", "settled", "closed"}
  /\ suspended \subseteq User
  /\ history \in [Socket -> [RowKind -> Nat]]
  /\ \A p \in played : p.socket \in Socket
  /\ heard \in [Socket -> SUBSET [number : 1..MaxFrames, content : SUBSET Channel]]
  /\ returns \in [Actor -> Nat] /\ frames \in 0..MaxFrames

Init ==
  /\ conn = [s \in Socket |-> "away"]
  /\ session = {} /\ attached = {}
  /\ mutes = [s \in Socket |-> {}]
  /\ told = [s \in Socket |-> Unknown]
  /\ online = [a \in Actor |-> {}]
  /\ queued = {} /\ left = {}
  /\ inFlight = {}
  /\ phase = "serving"
  /\ suspended = {}
  /\ history = [s \in Socket |-> [k \in RowKind |-> 0]]
  /\ played = {}
  /\ heard = [s \in Socket |-> {}]
  /\ returns = [a \in Actor |-> 0]
  /\ frames = 0

-----------------------------------------------------------------------------
(* Connections come and go.                                                *)

\* Who has no connection left once those of `gone` are forgotten.
Released(gone) ==
  {a \in Actor : /\ \E s \in gone \cap session : Owner[s] = a /\ s \in online[a]
                 /\ online[a] \subseteq gone}

OnlineWithout(gone) == [a \in Actor |-> online[a] \ (gone \cap session)]

\* forgetSocket, for connections that go: each match they joined gets a row and
\* remembers who left, and an actor's last connection takes its entry out of the queue.
Forget(gone) ==
  /\ conn' = [s \in Socket |-> IF s \in gone THEN "closed" ELSE conn[s]]
  /\ left' = left \cup {Owner[s] : s \in gone \cap attached}
  /\ online' = OnlineWithout(gone)
  /\ queued' = queued \ Released(gone)

DetachedRows(gone) ==
  {Work("row", s, 0, {}) : s \in gone \cap attached}

Connect(s) ==
  /\ conn[s] = "away" /\ phase \in {"serving", "draining"}
  /\ conn' = [conn EXCEPT ![s] = "open"]
  /\ UNCHANGED <<told, heard, frames, memory, inFlight, phase, database, returns>>

Disconnect(s) ==
  /\ conn[s] = "open"
  /\ Forget({s})
  /\ inFlight' = inFlight \cup DetachedRows({s})
  /\ UNCHANGED <<told, heard, frames, session, attached, mutes, phase, database, returns>>

\* accept: a frame that arrives once the shutdown has begun is dropped.
Accept(w) == inFlight' = IF Closing THEN inFlight ELSE inFlight \cup {w}

-----------------------------------------------------------------------------
(* session:authenticate                                                    *)

SendHandshake(s) ==
  /\ conn[s] = "open" /\ s \notin session
  /\ \A w \in inFlight : w.socket # s
  /\ Accept(Work("authenticate", s, 0, {}))
  /\ UNCHANGED <<net, memory, phase, database, returns>>

WithSession(s) == session \cup {s}

\* The token is resolved.  A suspended account is refused and its connection closed;
\* anybody else has a session from here on, whether the connection is still there or
\* not.
Resolve(w) ==
  LET s == w.socket IN
  /\ w.kind = "authenticate" /\ w.pc = "received"
  /\ IF Owner[s] \in suspended
       THEN /\ inFlight' = inFlight \ {w}
            /\ conn' = [conn EXCEPT ![s] = "closed"]
            /\ UNCHANGED session
       ELSE /\ session' = WithSession(s)
            /\ inFlight' = (inFlight \ {w}) \cup {[w EXCEPT !.pc = "resolved"]}
            /\ UNCHANGED conn
  /\ UNCHANGED <<told, heard, frames, attached, mutes, online, queued, left, phase,
                 database, returns>>

\* Mutant: the actor's set holds its newest connection only.
NewestOnly(s) == [online EXCEPT ![Owner[s]] = {s}]

\* rememberSocket
Remembered(s) == [online EXCEPT ![Owner[s]] = @ \cup {s}]

\* The profile's mutes are read and seed the connection's; the actor is online, and
\* the client, if it is there, is told.
FinishHandshake(w) ==
  LET s == w.socket
      seeded == IF Owner[s] \in User THEN Profile[Owner[s]] ELSE mutes[s]
  IN  /\ w.kind = "authenticate" /\ w.pc = "resolved"
      /\ mutes' = [mutes EXCEPT ![s] = seeded]
      /\ online' = Remembered(s)
      /\ told' = IF conn[s] = "open" THEN [told EXCEPT ![s] = seeded] ELSE told
      /\ inFlight' = inFlight \ {w}
      /\ UNCHANGED <<conn, heard, frames, session, attached, queued, left, phase,
                     database, returns>>

-----------------------------------------------------------------------------
(* Frames of an authenticated client                                       *)

Send(s, w) ==
  /\ conn[s] = "open" /\ told[s] # Unknown
  /\ frames < MaxFrames
  /\ frames' = frames + 1
  /\ Accept(w)
  /\ UNCHANGED <<conn, told, heard, memory, phase, database, returns>>

SendSync(s) == Send(s, Frame("sync", s, {}))
SendMute(s, wanted) == Send(s, Frame("mute", s, wanted))
SendMessage(s, c) == Send(s, Frame("relay", s, {c}))
\* What a command carries is whether its account was suspended when it was sent.
SendMove(s) == Send(s, Frame("move", s, {Owner[s]} \cap suspended))

\* join refuses at once when the queue is closed; then it awaits its reads.
SendJoin(s) == phase = "serving" /\ Send(s, Frame("join", s, {}))

\* A suspended account is not eligible; nor may somebody be who has another match to play.
ReadEligibility(w) ==
  LET refused == inFlight \ {w} IN
  /\ w.kind = "join" /\ w.pc = "received"
  /\ \/ inFlight' = refused
     \/ /\ Owner[w.socket] \notin suspended
        /\ inFlight' = refused \cup {[w EXCEPT !.pc = "eligible"]}
  /\ UNCHANGED <<net, memory, phase, database, returns>>

\* The entry is made: neither the connection nor the queue's closing is asked for again.
Enter(w) ==
  /\ w.kind = "join" /\ w.pc = "eligible"
  /\ queued' = queued \cup {Owner[w.socket]}
  /\ inFlight' = inFlight \ {w}
  /\ UNCHANGED <<net, session, attached, mutes, online, left, phase, database, returns>>

\* Mutant: joining the match is not remembered.
NeverMarked(s) == attached

MarkAttached(s) == attached \cup {s}

Back(a) == left \ {a}

\* handleSync, with the match read: recordAttachment, whose row is awaited.  The
\* connection may be gone by now; nothing asks.
Attach(w) ==
  LET s == w.socket
      a == Owner[s]
  IN  /\ w.kind = "sync" /\ w.pc = "received"
      /\ IF s \in attached
           THEN /\ inFlight' = inFlight \ {w}
                /\ UNCHANGED <<attached, left, returns>>
           ELSE /\ attached' = MarkAttached(s)
                /\ left' = Back(a)
                /\ returns' = IF a \in left THEN [returns EXCEPT ![a] = @ + 1] ELSE returns
                /\ inFlight' = (inFlight \ {w}) \cup {[w EXCEPT !.pc = "recording"]}
      /\ UNCHANGED <<net, session, mutes, online, queued, phase, database>>

Record(s, row) == history' = [history EXCEPT ![s][row] = @ + 1]

\* recordConnection: the row is written, or its failure is reported and swallowed.
\* The sync that awaited it answers.
WriteRow(w) ==
  LET row == IF w.kind = "row" THEN "detached" ELSE "attached"
  IN  /\ w.kind = "row" \/ w.pc = "recording"
      /\ Record(w.socket, row) \/ UNCHANGED history
      /\ inFlight' = inFlight \ {w}
      /\ UNCHANGED <<net, memory, phase, suspended, played, returns>>

\* handleMuteState, with the seat read.
SetMutes(w) ==
  LET s == w.socket IN
  /\ w.kind = "mute"
  /\ mutes' = [mutes EXCEPT ![s] = w.content]
  /\ told' = IF conn[s] = "open" THEN [told EXCEPT ![s] = w.content] ELSE told
  /\ inFlight' = inFlight \ {w}
  /\ UNCHANGED <<conn, heard, frames, session, attached, online, queued, left, phase,
                 database, returns>>

\* Mutant: what the profile says decides, not what the connection asked for.
WithheldByProfile(s, c) == Owner[s] \in User /\ c \in Profile[Owner[s]]

Withheld(s, c) == c \in mutes[s]

\* relay, with the seat read: both seats' connections, but not an opponent's that
\* withholds the channel.
Relay(w) ==
  LET reached == {s \in UNION {online[a] : a \in Actor} :
                    /\ conn[s] = "open"
                    /\ Owner[s] = Owner[w.socket] \/ ~(\E c \in w.content : Withheld(s, c))}
      message == [number |-> w.number, content |-> w.content]
  IN  /\ w.kind = "relay"
      /\ heard' = [s \in Socket |-> heard[s] \cup (IF s \in reached THEN {message} ELSE {})]
      /\ inFlight' = inFlight \ {w}
      /\ UNCHANGED <<conn, told, frames, memory, phase, database, returns>>

\* Mutant: nobody asks for the account's flags.
NeverRefused(s) == FALSE

RefusedAsSuspended(s) == Owner[s] \in suspended

\* handleMove: a suspended account is cut off, anybody else's command is applied.
ReadFlags(w) ==
  LET s == w.socket IN
  /\ w.kind = "move" /\ w.pc = "received"
  /\ IF RefusedAsSuspended(s) /\ conn[s] = "open"
       THEN /\ Forget({s})
            /\ inFlight' = (inFlight \ {w}) \cup DetachedRows({s})
       ELSE /\ inFlight' = (inFlight \ {w}) \cup
                 (IF RefusedAsSuspended(s) THEN {} ELSE {[w EXCEPT !.pc = "allowed"]})
            /\ UNCHANGED <<conn, left, online, queued>>
  /\ UNCHANGED <<told, heard, frames, session, attached, mutes, phase, database, returns>>

CommitCommand(w) ==
  /\ w.kind = "move" /\ w.pc = "allowed"
  /\ played' = played \cup {w}
  /\ inFlight' = inFlight \ {w}
  /\ UNCHANGED <<net, memory, phase, suspended, history, returns>>

Suspend(a) ==
  /\ a \in User \ suspended
  /\ suspended' = suspended \cup {a}
  /\ UNCHANGED <<net, memory, inFlight, phase, history, played, returns>>

-----------------------------------------------------------------------------
(* The shutdown                                                            *)

\* SIGTERM: stopAcceptingEntries empties the queue and closes it.
Drain ==
  /\ phase = "serving"
  /\ phase' = "draining"
  /\ queued' = {}
  /\ UNCHANGED <<net, session, attached, mutes, online, left, inFlight, database, returns>>

\* The matches have finished or the window is over: gateway.close refuses new work
\* and has every connection closed, which takes its time.
Close ==
  /\ phase = "draining"
  /\ phase' = "closing"
  /\ UNCHANGED <<net, memory, inFlight, database, returns>>

\* Mutant: one look at the work in flight, without waiting for it.
SettleAtOnce == phase = "closing" /\ \A s \in Socket : conn[s] # "open"

\* settleInFlightWork
AllSettled == phase = "closing" /\ inFlight = {} /\ \A s \in Socket : conn[s] # "open"

Settle ==
  /\ AllSettled
  /\ phase' = "settled"
  /\ UNCHANGED <<net, memory, inFlight, database, returns>>

\* The HTTP server is closed and the telemetry sent: database.close.
ClosePool ==
  /\ phase = "settled"
  /\ phase' = "closed"
  /\ UNCHANGED <<net, memory, inFlight, database, returns>>

HandlerStep(w) ==
  \/ Resolve(w) \/ FinishHandshake(w)
  \/ Attach(w) \/ WriteRow(w)
  \/ SetMutes(w) \/ Relay(w) \/ ReadEligibility(w) \/ Enter(w)
  \/ ReadFlags(w) \/ CommitCommand(w)

Next ==
  \/ \E s \in Socket : Connect(s) \/ Disconnect(s) \/ SendHandshake(s)
  \/ \E s \in Socket : SendSync(s) \/ SendMove(s) \/ SendJoin(s)
  \/ \E s \in Socket, wanted \in SUBSET Channel : SendMute(s, wanted)
  \/ \E s \in Socket, c \in Channel : SendMessage(s, c)
  \/ \E w \in inFlight : HandlerStep(w)
  \/ \E a \in Actor : Suspend(a)
  \/ Drain \/ Close \/ Settle \/ ClosePool

Spec == Init /\ [][Next]_vars

-----------------------------------------------------------------------------
(* Properties. *)

\* No handler is left when the pool closes, neither one a late frame started nor a
\* row a closing connection wrote (gateway.ts accept and settleInFlightWork).
PoolOutlivesHandlers == phase = "closed" => inFlight = {}

\* A connection whose client has been answered is known under its actor as long as it
\* is open, whatever other connections the actor opens and closes: a pairing reaches it
\* (gateway.ts socketsByActor).
EveryConnectionIsReached ==
  \A s \in Socket : conn[s] = "open" /\ told[s] # Unknown => s \in online[Owner[s]]

\* An actor whose next message somebody may still read: on an open connection, or on one
\* whose handshake outlived it, which nothing forgets.
Reachable(a) == \E s \in online[a] : conn[s] = "open" \/ told[s] = Unknown

\* Nobody loses the last connection and goes on waiting in the queue, neither of several
\* that close one after another nor one that a suspension closes (gateway.ts forgetSocket).
NobodyIsLeftWaiting ==
  [][\A a \in queued \cap queued' : Reachable(a) => Reachable(a)']_vars

\* A player with two connections is not released by closing one of them
\* (gateway.ts forgetSocket, `sockets.size === 0`).
OneConnectionIsEnough ==
  [][\A a \in queued \ queued' :
       phase' # phase \/ ~\E s \in online[a] : conn'[s] = "open"]_vars

\* Once a client has been told that a channel is muted it hears nothing of it from
\* the opponent, however long a message waited for its seat (communication.ts).
MutedIsSilent ==
  [][\A s \in Socket : \A message \in heard'[s] \ heard[s] :
       \/ \E w \in inFlight : w.number = message.number /\ Owner[w.socket] = Owner[s]
       \/ message.content \cap told[s] = {}]_vars

\* A connection's joining and leaving of the match are written once each at most, and
\* never a leaving without a joining (gateway.ts recordAttachment, forgetSocket).
OneRowEach ==
  \A s \in Socket :
    /\ \A k \in RowKind : history[s][k] <= 1
    /\ history[s]["detached"] = 1 => s \in attached

\* A reconnection is counted for a time the actor left, and that time is then spent
\* (gateway.ts detached).
ReturnsWereDepartures ==
  \A a \in Actor :
    returns[a] + Cardinality({a} \cap left)
      <= Cardinality({s \in attached : Owner[s] = a /\ conn[s] = "closed"})

\* A suspension stops the next command, not the next sign-in: no command sent after
\* it is applied (gateway.ts refuseSuspended).
SuspensionStopsCommands == \A p \in played : p.content = {}

\* Who is online is who can be reached: an answered connection is known under its actor
\* until it closes, and a player leaves the queue with the last of them, not with an earlier
\* one, in whatever order the connections open and close (gateway.ts rememberSocket,
\* forgetSocket).
PresenceAgrees ==
  [](TypeOK /\ EveryConnectionIsReached) /\ OneConnectionIsEnough /\ NobodyIsLeftWaiting

\* The history of a match's connections is one a person could have made: at most one
\* coming and one going of each connection, and no return without a departure
\* (gateway.ts recordAttachment, forgetSocket).
AttendanceIsTrue == OneRowEach /\ ReturnsWereDepartures
=============================================================================
