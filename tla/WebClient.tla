------------------------------ MODULE WebClient ------------------------------
(***************************************************************************)
(* One window of the web client: the connection every screen shares and its *)
(* handshake, the search of the play screen, the mutes, the board gestures   *)
(* and the close guard of the match screen, and the session kept in the      *)
(* credential store (apps/web/src/match, session, desktop, screens;          *)
(* packages/game-ui/src/interaction).                                        *)
(*                                                                           *)
(* A promise is a continuation waiting for the frame that settles it.  A     *)
(* dropped connection loses what is in flight both ways, answers included,   *)
(* but frames emitted while it is down are sent first when it returns.  The  *)
(* server is what it answers this window, frame by frame: what its handlers  *)
(* do to each other is in Gateway and Matchmaking, and what the channel does *)
(* with snapshots out of order in MatchSession.                              *)
(***************************************************************************)
EXTENDS Integers, Sequences, SequencesExt

CONSTANTS
  Session,      \* sessions one can sign in with
  Nobody,       \* no session
  Preferences,  \* values of the two mute settings
  Default,      \* those the window finds stored
  Square, Reserve,  \* where a piece can be: on the board or in a stack
  Legal,        \* per version, the moves <<origin, square>> open to this player
  MaxConnections,   \* bound on the times the transport connects
  MaxActs           \* bound on what the player does in all

Origin == Square \cup Reserve
NoOrigin == "nothing"

ASSUME ClientAssumption ==
  /\ Nobody \notin Session /\ Default \in Preferences
  /\ Legal \in Seq(SUBSET (Origin \X Square))
  /\ NoOrigin \notin Origin
  /\ Len(Legal) > 0 /\ Legal[Len(Legal)] = {}   \* nothing is modelled past the last version
  /\ MaxConnections \in Nat

VARIABLES
  screen, visits,    \* the screen shown, and how many were opened
  acts,              \* what the player did so far, counted
  session, actor,    \* the session held, and who the last handshake said it is
  vault, saves, lost,  \* stored, being stored, and whether a store failed
  sock,              \* MatchSocket and its transport
  phase,             \* of the play screen
  mutes,             \* the mutes preferred
  board, quit,       \* of the match screen: what is shown, the close guard
  who, joining, entry, player, over, version  \* the server, seen from here

home == <<session, vault, saves, lost>>
server == <<who, joining, entry, player, over, version>>
vars == <<screen, visits, acts, home, actor, sock, phase, mutes, board, quit, server>>

-----------------------------------------------------------------------------
(* MatchSocket. *)

Plain(type) == [type |-> type]
Order(mount, v, move) == [type |-> "command", mount |-> mount, version |-> v, move |-> move]
Command(v, move) == Order(visits, v, move)
Resignation == <<NoOrigin, NoOrigin>>
NoCommand == Order(0, 0, Resignation)

\* What waits for a handshake: the mount it belongs to, and what it sends then.
Join == [type |-> "join", mount |-> visits]
Open(mount) == [type |-> "sync", mount |-> mount, retry |-> TRUE]
Resync == [type |-> "sync", mount |-> visits, retry |-> FALSE]
Mute(m) == [type |-> "mute", mutes |-> m]

\* The handshakes a connection can be told apart by, with what waits for each in order;
\* the opening of a match among it is the only one that can be called off.
Periods == 1..(2 * MaxConnections + 2)
NoHandshake == [of |-> 0, settled |-> FALSE]
NoOpening == [of |-> 0, place |-> 0]
Nothing == [p \in Periods |-> <<>>]
Closed == [link |-> FALSE, connections |-> 0, barred |-> FALSE, handshake |-> NoHandshake,
           waiting |-> Nothing, opening |-> NoOpening, out |-> <<>>, in |-> <<>>, told |-> {}]

\* The mutes some frames set last.
Mutes(frames) == {i \in DOMAIN frames : frames[i].type = "mute"}
Said(frames) == {frames[i].mutes : i \in {k \in Mutes(frames) : \A j \in Mutes(frames) : j <= k}}

\* Sends frames, and remembers what this connection was last told of the mutes.
Send(s, frames) ==
  [s EXCEPT !.out = @ \o frames, !.told = IF Said(frames) = {} THEN @ ELSE Said(frames)]

\* Promises of one state of the link are the same promise: they are numbered by it.
Period(s) == 2 * s.connections + (IF s.link THEN 2 ELSE 1)

\* authenticate, then what each continuation does: now, once the handshake in flight
\* is answered, or once a new one is.
Authenticate(s, ks) ==
  IF s.handshake.settled THEN Send(s, ks)
  ELSE IF s.handshake.of # 0 THEN [s EXCEPT !.waiting[s.handshake.of] = @ \o ks]
  ELSE [s EXCEPT !.handshake = [of |-> Period(s), settled |-> FALSE],
                 !.waiting[Period(s)] = @ \o ks,
                 !.out = Append(@, [type |-> "authenticate", of |-> Period(s), token |-> session])]

Forget(s) == [s EXCEPT !.handshake = NoHandshake]

\* Opening a match is given up when its screen goes or its connection is replaced.
WithoutOpening(s) == [s EXCEPT !.opening = NoOpening]

\* A match that opens asks for its snapshot after what already waits.
Opens(s, mount) ==
  IF s.handshake.settled THEN Send(s, <<Open(mount)>>)
  ELSE [s EXCEPT !.opening = [of |-> s.handshake.of, place |-> Len(s.waiting[s.handshake.of]) + 1]]

\* A handshake's answer lets what waits for it go on.
Resumed(s, of) ==
  IF s.opening.of = of THEN InsertAt(s.waiting[of], s.opening.place, Open(visits)) ELSE s.waiting[of]

Continued(s, of) ==
  Send([s EXCEPT !.waiting[of] = <<>>,
                 !.opening = IF @.of = of THEN NoOpening ELSE @,
                 !.handshake.settled = @ \/ s.handshake.of = of], Resumed(s, of))

\* The transport loses the link, and with it what was sent and what waits for answers.
Dropped(s) == [Forget(s) EXCEPT !.link = FALSE, !.out = <<>>, !.in = <<>>,
                                 !.waiting = Nothing, !.opening = NoOpening]

\* The server emits to this window, and to whoever it takes the window for.
Tell(s, events) == IF s.link THEN [s EXCEPT !.in = @ \o events] ELSE s
TellActor(s, a, events) == IF a # Nobody /\ who = a THEN Tell(s, events) ELSE s

\* The frame at hand.
Incoming(type) == sock.in # <<>> /\ Head(sock.in).type = type
Event == Head(sock.in)
Heard == [sock EXCEPT !.in = Tail(@)]

-----------------------------------------------------------------------------
(* The match screen as its parts see it. *)

NoBoard == [phase |-> "connecting", shown |-> 0, over |-> FALSE, ended |-> FALSE,
            pending |-> NoCommand, selected |-> NoOrigin]
NoQuit == [asked |-> FALSE, awaited |-> NoCommand, how |-> "open", at |-> 0]

Seated(b, a) == screen = "match" /\ b.shown # 0 /\ a # Nobody /\ a = player
InputLocked(b) == b.pending # NoCommand \/ b.phase # "ready"
Locked(b) == InputLocked(b) \/ b.ended
InMatch == Seated(board, actor) /\ ~board.ended /\ ~board.over

\* clearPendingFor
Cleared(b, v) == IF b.pending.version < v THEN [b EXCEPT !.pending = NoCommand] ELSE b

Snapshot(b, v, o) ==
  IF v < b.shown THEN b ELSE [Cleared(b, v) EXCEPT !.shown = v, !.over = o]

\* The mutes are told once the seat is known, which a frame can bring about.
Effects(s, b, a) ==
  IF ~Seated(board, actor) /\ Seated(b, a) THEN Authenticate(s, <<Mute(mutes)>>) ELSE s

\* What a screen does when it opens, and what its opening does to the connection.
Opened(s, mount, ks) ==
  LET asked == Authenticate(WithoutOpening(s), ks)
  IN  [sock |-> Opens(asked, mount), phase |-> IF asked.handshake.settled THEN "ready" ELSE "authenticating"]

Enter(s, transport) ==
  /\ screen' = s /\ visits' = visits + 1
  /\ phase' = "idle"
  /\ quit' = [quit EXCEPT !.asked = FALSE]
  /\ IF s = "match" /\ transport.link
     THEN LET o == Opened(transport, visits + 1, <<>>) IN
            sock' = o.sock /\ board' = [NoBoard EXCEPT !.phase = o.phase]
     ELSE sock' = WithoutOpening(transport) /\ board' = NoBoard

Init ==
  /\ screen \in {"home", "play", "match"} /\ visits = 1
  /\ session \in Session \cup {Nobody} /\ vault = session /\ saves = <<>> /\ lost = FALSE
  /\ actor = Nobody
  /\ sock = Closed
  /\ phase = "idle" /\ acts = 0
  /\ mutes = Default
  /\ board = NoBoard /\ quit = NoQuit
  /\ who = Nobody /\ joining = <<>> /\ entry = Nobody
  /\ player \in {Nobody} \cup (IF screen = "match" THEN {session} ELSE {})
  /\ over = FALSE /\ version = IF player = Nobody THEN 0 ELSE 1

-----------------------------------------------------------------------------
(* The connection. *)

Reminders == IF Seated(board, actor) THEN <<Mute(mutes)>> ELSE <<>>

Connect ==
  /\ ~sock.link /\ ~sock.barred /\ screen # "closed" /\ sock.connections < MaxConnections
  /\ LET s == [Forget(sock) EXCEPT !.link = TRUE, !.connections = @ + 1, !.told = {}] IN
       IF screen = "match"
       THEN LET o == Opened(s, visits, Reminders) IN
              sock' = o.sock /\ board' = [board EXCEPT !.phase = o.phase]
       ELSE sock' = s /\ UNCHANGED board
  /\ UNCHANGED <<screen, visits, home, actor, phase, mutes, quit, server>>

\* The server forgets a connection that goes, and what its player waited for.
ServerForgets ==
  /\ who' = Nobody /\ joining' = <<>>
  /\ entry' = IF entry = who THEN Nobody ELSE entry
  /\ UNCHANGED <<player, over, version>>

\* A promise whose answer was lost with its connection is never kept.
AnswerLost == quit' = [quit EXCEPT !.awaited = NoCommand]
SearchStops == phase' = IF phase \in {"waiting", "joining"} THEN "idle" ELSE phase
BoardFreezes == board' = IF screen = "match" THEN [board EXCEPT !.phase = "reconnecting"] ELSE board

Disconnect ==
  /\ sock.link
  /\ sock' = Dropped(sock)
  /\ SearchStops /\ BoardFreezes /\ AnswerLost /\ ServerForgets
  /\ UNCHANGED <<screen, visits, home, actor, mutes>>

ReceiveReady ==
  /\ Incoming("ready")
  /\ actor' = Event.actor
  /\ sock' = Effects(Heard, board, Event.actor)
  /\ UNCHANGED <<screen, visits, home, phase, mutes, board, quit, server>>

ReceiveWelcome ==
  /\ Incoming("welcome")
  /\ sock' = Continued(Heard, Event.of)
  /\ board' = IF sock.opening.of = Event.of THEN [board EXCEPT !.phase = "ready"] ELSE board
  /\ UNCHANGED <<screen, visits, home, actor, phase, mutes, quit, server>>

\* A refused handshake ends the connection, and the transport does not take up a
\* connection again that the server ended.
ReceiveRefused ==
  /\ Incoming("refused")
  /\ sock' = [Dropped(sock) EXCEPT !.barred = TRUE]
  /\ phase' = "idle"
  /\ BoardFreezes /\ AnswerLost /\ ServerForgets
  /\ UNCHANGED <<screen, visits, home, actor, mutes>>

-----------------------------------------------------------------------------
(* The play screen. *)

StartSearch ==
  /\ screen = "play" /\ session # Nobody /\ phase \notin {"waiting", "joining"}
  /\ phase' = "joining"
  /\ sock' = Authenticate(sock, <<Join>>)
  /\ UNCHANGED <<screen, visits, home, actor, mutes, board, quit, server>>

StopSearch ==
  /\ screen = "play" /\ phase \in {"waiting", "joining"}
  /\ phase' = "idle"
  /\ sock' = Send(sock, <<Plain("leave")>>)
  /\ UNCHANGED <<screen, visits, home, actor, mutes, board, quit, server>>

\* Mutant: only the answer to a join says that a search is on.
StatusIgnored == phase

Searching == IF screen = "play" /\ phase # "matched" THEN "waiting" ELSE phase

ReceiveStatus ==
  /\ Incoming("status")
  /\ phase' = Searching
  /\ sock' = Heard
  /\ UNCHANGED <<screen, visits, home, actor, mutes, board, quit, server>>

\* The answer to a join, for the screen that asked.
ReceiveJoined ==
  /\ Incoming("joined")
  /\ phase' = IF screen # "play" \/ Event.mount # visits \/ phase = "matched" THEN phase
              ELSE CASE Event.state = "queued" -> "waiting"
                     [] Event.state = "matched" -> "matched"
                     [] Event.state = "refused" -> "refused"
  /\ sock' = Heard
  /\ UNCHANGED <<screen, visits, home, actor, mutes, board, quit, server>>

\* A pairing opens the match from the play screen, updates a match that is open,
\* and reaches no other screen.
ReceiveFound ==
  /\ Incoming("found")
  /\ CASE screen = "play" -> Enter("match", Heard)
       [] screen = "match" ->
            /\ board' = Snapshot(board, Event.version, FALSE)
            /\ sock' = Effects(Heard, board', actor)
            /\ UNCHANGED <<screen, visits, phase, quit>>
       [] screen = "home" -> sock' = Heard /\ UNCHANGED <<screen, visits, phase, board, quit>>
  /\ UNCHANGED <<home, actor, mutes, server>>

-----------------------------------------------------------------------------
(* The match screen. *)

\* The answer to a sync: the match as it stands, and once per connection the command
\* it shows not to have been played.
ReceiveSnapshot ==
  /\ Incoming("snapshot")
  /\ LET mine == screen = "match" /\ Event.mount = visits
         b == IF mine THEN Snapshot(board, Event.version, Event.over) ELSE board
         retry == mine /\ Event.retry /\ board.pending.version = Event.version
         s == IF retry THEN Send(Heard, <<board.pending>>) ELSE Heard
     IN  board' = b /\ sock' = Effects(s, b, actor)
  /\ UNCHANGED <<screen, visits, home, actor, phase, mutes, quit, server>>

ReceiveGone ==
  /\ Incoming("gone")
  /\ board' = IF screen = "match" /\ Event.mount = visits THEN [board EXCEPT !.phase = "lost"] ELSE board
  /\ sock' = Heard
  /\ UNCHANGED <<screen, visits, home, actor, phase, mutes, quit, server>>

\* A move the channel can add is added; any other is known or asks for a snapshot.
ReceiveCommitted ==
  /\ Incoming("committed")
  /\ LET v == Event.version
         gap == board.shown # 0 /\ v > board.shown + 1
     IN  /\ board' = IF board.shown = 0 \/ gap THEN board
                     ELSE IF v = board.shown + 1 THEN [Cleared(board, v) EXCEPT !.shown = v]
                     ELSE Cleared(board, v)
         /\ sock' = IF gap /\ board.phase = "ready" THEN Send(Heard, <<Resync>>) ELSE Heard
  /\ UNCHANGED <<screen, visits, home, actor, phase, mutes, quit, server>>

ReceiveEnded ==
  /\ Incoming("ended")
  /\ board' = IF screen = "match" THEN [board EXCEPT !.ended = TRUE, !.pending = NoCommand] ELSE board
  /\ sock' = Heard
  /\ UNCHANGED <<screen, visits, home, actor, phase, mutes, quit, server>>

\* Closing the window: what the credential store has not been given is lost.
Shut(how, at) ==
  /\ screen' = "closed" /\ quit' = [NoQuit EXCEPT !.how = how, !.at = at]
  /\ sock' = Dropped(sock) /\ ServerForgets
  /\ actor' = Nobody /\ phase' = "idle" /\ board' = NoBoard
  /\ \E k \in 0..Len(saves) : /\ vault' = IF k = 0 THEN vault ELSE saves[k]
                              /\ lost' = (lost \/ k < Len(saves))
  /\ saves' = <<>>
  /\ UNCHANGED <<visits, session, mutes>>

\* The answer to a command, for the screen that sent it and for a close that waits.
ReceiveAnswer ==
  /\ Incoming("answer")
  /\ LET e == Event
         mine == screen = "match" /\ e.command.mount = visits
         known == board.pending = NoCommand \/ board.pending = e.command
     IN IF quit.awaited = e.command THEN Shut("resigned", e.command.version)
        ELSE /\ board' = IF ~mine \/ ~known THEN board
                         ELSE IF e.ok THEN [board EXCEPT !.pending = NoCommand]
                         ELSE [board EXCEPT !.pending = NoCommand, !.shown = e.version, !.over = e.over]
             /\ sock' = Heard
             /\ UNCHANGED <<screen, visits, home, actor, phase, mutes, quit, server>>

SetMutes(m) ==
  /\ screen \in {"home", "match"} /\ m # mutes
  /\ mutes' = m
  /\ sock' = IF Seated(board, actor) THEN Authenticate(sock, <<Mute(m)>>) ELSE sock
  /\ UNCHANGED <<screen, visits, home, actor, phase, board, quit, server>>

\* Mutant: the destinations are those a lifted piece ever had.
HeldDestinations(o) ==
  IF Seated(board, actor) THEN {sq \in Square : \E v \in 1..board.shown : <<o, sq>> \in Legal[v]} ELSE {}

\* destinationsFor: of the board as it is shown now.
Destinations(o) ==
  IF Seated(board, actor) THEN {sq \in Square : <<o, sq>> \in Legal[board.shown]} ELSE {}

Choose(o) ==
  /\ Destinations(o) # {}
  /\ board' = [board EXCEPT !.selected = IF @ = o THEN NoOrigin ELSE o]
  /\ UNCHANGED sock

Submit(c) ==
  /\ board' = [board EXCEPT !.pending = c, !.selected = NoOrigin]
  /\ sock' = Send(sock, <<c>>)

\* choose on a stack, and chooseSquare: a destination of the lifted piece is played,
\* anything else is lifted if it can move.
Gesture(o) ==
  /\ screen = "match" /\ board.shown # 0 /\ ~Locked(board)
  /\ IF board.selected # NoOrigin /\ o \in Destinations(board.selected)
     THEN Submit(Command(board.shown, <<board.selected, o>>))
     ELSE Choose(o)
  /\ UNCHANGED <<screen, visits, home, actor, phase, mutes, quit, server>>

Cancel ==
  /\ screen = "match" /\ board.selected # NoOrigin
  /\ board' = [board EXCEPT !.selected = NoOrigin]
  /\ UNCHANGED <<screen, visits, home, actor, sock, phase, mutes, quit, server>>

Resign ==
  /\ Seated(board, actor) /\ ~Locked(board)
  /\ board' = [board EXCEPT !.pending = Command(board.shown, Resignation)]
  /\ sock' = Send(sock, <<Command(board.shown, Resignation)>>)
  /\ UNCHANGED <<screen, visits, home, actor, phase, mutes, quit, server>>

\* The player closes the window, and is asked first during a match.
RequestClose ==
  /\ screen # "closed"
  /\ IF InMatch
     THEN /\ quit' = [quit EXCEPT !.asked = TRUE]
          /\ UNCHANGED <<screen, visits, home, actor, sock, phase, mutes, board, server>>
     ELSE Shut("free", 0)

AwaitResignation ==
  /\ quit' = [quit EXCEPT !.asked = FALSE, !.awaited = Command(board.shown, Resignation)]
  /\ board' = [board EXCEPT !.pending = Command(board.shown, Resignation)]
  /\ sock' = Send(sock, <<Command(board.shown, Resignation)>>)
  /\ UNCHANGED <<screen, visits, home, actor, phase, mutes, server>>

\* Confirmed: a board that takes no command resigns nothing, and the window closes.
ConfirmQuit ==
  /\ quit.asked
  /\ IF InputLocked(board) THEN Shut("unheard", 0) ELSE AwaitResignation

DismissQuit ==
  /\ quit.asked
  /\ quit' = [quit EXCEPT !.asked = FALSE]
  /\ UNCHANGED <<screen, visits, home, actor, sock, phase, mutes, board, server>>

-----------------------------------------------------------------------------
(* The window and its session. *)

Visit(s) ==
  /\ screen \notin {"closed", s}
  /\ Enter(s, sock)
  /\ UNCHANGED <<home, actor, mutes, server>>

SignIn(s) ==
  /\ screen = "home" /\ session = Nobody
  /\ session' = s /\ saves' = Append(saves, s)
  /\ UNCHANGED <<screen, visits, vault, lost, actor, sock, phase, mutes, board, quit, server>>

Unstored == Append(saves, Nobody)

SignOut ==
  /\ screen # "closed" /\ session # Nobody
  /\ session' = Nobody /\ actor' = Nobody
  /\ saves' = Unstored
  /\ IF screen = "home" THEN UNCHANGED <<screen, visits, phase, quit, sock, board>>
     ELSE Enter("home", sock)
  /\ UNCHANGED <<vault, lost, mutes, server>>

SaveLands ==
  /\ saves # <<>>
  /\ vault' = Head(saves) /\ saves' = Tail(saves) /\ lost' = FALSE
  /\ UNCHANGED <<screen, visits, session, actor, sock, phase, mutes, board, quit, server>>

SaveFails ==
  /\ saves # <<>>
  /\ saves' = Tail(saves) /\ lost' = TRUE
  /\ UNCHANGED <<screen, visits, session, vault, actor, sock, phase, mutes, board, quit, server>>

\* The next launch reads the store once, before the first screen.
Launch ==
  /\ screen = "closed"
  /\ screen' = "home" /\ visits' = visits + 1
  /\ session' = vault /\ lost' = FALSE
  /\ sock' = [Closed EXCEPT !.connections = sock.connections]
  /\ quit' = NoQuit
  /\ UNCHANGED <<vault, saves, actor, phase, mutes, board, server>>

-----------------------------------------------------------------------------
(* The server, answering this window. *)

Frame == Head(sock.out)
Received(type) == sock.link /\ sock.out # <<>> /\ Frame.type = type
Taken == [sock EXCEPT !.out = Tail(@)]
Untouched == <<screen, visits, home, actor, phase, mutes, board, quit>>

ServeAuthenticate ==
  /\ Received("authenticate")
  /\ IF Frame.token = Nobody
     THEN sock' = Tell(Taken, <<[type |-> "refused", of |-> Frame.of]>>) /\ UNCHANGED who
     ELSE /\ who' = Frame.token
          /\ sock' = Tell(Taken, <<[type |-> "ready", actor |-> Frame.token],
                                   [type |-> "welcome", of |-> Frame.of]>>)
  /\ UNCHANGED <<Untouched, joining, entry, player, over, version>>

Joined(mount, state) == [type |-> "joined", mount |-> mount, state |-> state]

ServeJoin ==
  /\ Received("join")
  /\ IF who = Nobody
     THEN sock' = Tell(Taken, <<Joined(Frame.mount, "refused")>>) /\ UNCHANGED joining
     ELSE sock' = Taken /\ joining' = Append(joining, Frame.mount)
  /\ UNCHANGED <<Untouched, who, entry, player, over, version>>

\* The join's reads are over: its player waits, is seated, or may not play.
SettleJoin ==
  /\ joining # <<>> /\ joining' = Tail(joining)
  /\ \/ /\ entry' = who
        /\ player # who \/ over
        /\ sock' = Tell(sock, <<Joined(Head(joining), "queued")>>)
        /\ UNCHANGED <<player, version>>
     \/ /\ player = Nobody
        /\ player' = who /\ version' = 1 /\ entry' = Nobody
        /\ sock' = Tell(sock, <<[type |-> "found", version |-> 1], Joined(Head(joining), "matched")>>)
     \/ /\ sock' = Tell(sock, <<Joined(Head(joining), "refused")>>)
        /\ UNCHANGED <<entry, player, version>>
  /\ UNCHANGED <<Untouched, who, over>>

ServeLeave ==
  /\ Received("leave")
  /\ sock' = Taken
  /\ entry' = IF entry = who THEN Nobody ELSE entry
  /\ UNCHANGED <<Untouched, who, joining, player, over, version>>

Tick ==
  /\ entry # Nobody /\ who = entry /\ sock.link
  /\ \A i \in DOMAIN sock.in : sock.in[i].type # "status"
  /\ sock' = Tell(sock, <<Plain("status")>>)
  /\ UNCHANGED <<Untouched, server>>

\* An opponent arrives.
Pair ==
  /\ entry # Nobody /\ player = Nobody
  /\ player' = entry /\ version' = 1 /\ entry' = Nobody
  /\ sock' = TellActor(sock, entry, <<[type |-> "found", version |-> 1]>>)
  /\ UNCHANGED <<Untouched, who, joining, over>>

ServeSync ==
  /\ Received("sync")
  /\ sock' = Tell(Taken,
       <<IF who # Nobody /\ who = player
         THEN [type |-> "snapshot", mount |-> Frame.mount, retry |-> Frame.retry,
               version |-> version, over |-> over]
         ELSE [type |-> "gone", mount |-> Frame.mount]>>)
  /\ UNCHANGED <<Untouched, server>>

\* What the mutes are for is in Gateway.
ServeMute ==
  /\ Received("mute")
  /\ sock' = Taken
  /\ UNCHANGED <<Untouched, server>>

Committed(v) == [type |-> "committed", version |-> v]
Answer(c, ok) == [type |-> "answer", command |-> c, ok |-> ok, version |-> version, over |-> over]

\* A command is taken at the version it names, and published before it is answered.
ServeCommand ==
  /\ Received("command")
  /\ IF over \/ Frame.version # version
     THEN sock' = Tell(Taken, <<Answer(Frame, FALSE)>>) /\ UNCHANGED <<over, version>>
     ELSE IF Frame.move = Resignation
     THEN /\ over' = TRUE /\ UNCHANGED version
          /\ sock' = Tell(Taken, <<Plain("ended"), Answer(Frame, TRUE)>>)
     ELSE /\ version' = version + 1 /\ UNCHANGED over
          /\ sock' = Tell(Taken, <<Committed(version + 1), Answer(Frame, TRUE)>>)
  /\ UNCHANGED <<Untouched, who, joining, entry, player>>

\* The opponent moves, or this player in another window.
Advance ==
  /\ player # Nobody /\ ~over /\ version < Len(Legal)
  /\ version' = version + 1
  /\ sock' = TellActor(sock, player, <<Committed(version + 1)>>)
  /\ UNCHANGED <<Untouched, who, joining, entry, player, over>>

Finish ==
  /\ player # Nobody /\ ~over
  /\ over' = TRUE
  /\ sock' = TellActor(sock, player, <<Plain("ended")>>)
  /\ UNCHANGED <<Untouched, who, joining, entry, player, version>>

-----------------------------------------------------------------------------

Receive ==
  \/ ReceiveReady \/ ReceiveWelcome \/ ReceiveRefused
  \/ ReceiveStatus \/ ReceiveJoined \/ ReceiveFound
  \/ ReceiveSnapshot \/ ReceiveGone \/ ReceiveCommitted \/ ReceiveEnded \/ ReceiveAnswer

Serve ==
  \/ ServeAuthenticate \/ ServeJoin \/ ServeLeave
  \/ ServeSync \/ ServeMute \/ ServeCommand

\* What the player does.
Act ==
  \/ StartSearch \/ StopSearch
  \/ \E o \in Origin : Gesture(o)
  \/ Cancel \/ Resign
  \/ \E m \in Preferences : SetMutes(m)
  \/ RequestClose \/ ConfirmQuit \/ DismissQuit \/ Launch
  \/ \E s \in {"home", "play", "match"} : Visit(s)
  \/ \E s \in Session : SignIn(s)
  \/ SignOut

\* What happens to it.
Happen ==
  \/ Connect \/ Disconnect \/ SaveLands \/ SaveFails
  \/ SettleJoin \/ Pair \/ Advance \/ Finish

Next ==
  \/ acts < MaxActs /\ acts' = acts + 1 /\ Act
  \/ Happen /\ UNCHANGED acts
  \/ Receive /\ UNCHANGED acts
  \/ Serve /\ UNCHANGED acts
  \/ Tick /\ UNCHANGED acts

Spec == Init /\ [][Next]_vars

\* The transport delivers and the server answers and ticks; nobody has to do anything.
FairSpec ==
  /\ Spec
  /\ WF_vars(Receive /\ UNCHANGED acts)
  /\ WF_vars(Serve /\ UNCHANGED acts)
  /\ WF_vars(Tick /\ UNCHANGED acts)

-----------------------------------------------------------------------------
(* Properties. *)

\* The values a screen, the store and the server can hold, and no board without a match
\* screen.
TypeOK ==
  /\ screen \in {"home", "play", "match", "closed"}
  /\ {session, vault, actor, who, entry, player} \subseteq Session \cup {Nobody}
  /\ phase \in {"idle", "joining", "waiting", "matched", "refused"}
  /\ screen # "play" => phase = "idle"
  /\ screen # "match" => board = NoBoard
  /\ board.phase \in {"connecting", "authenticating", "ready", "lost", "reconnecting"}
  /\ board.shown \in 0..Len(Legal) /\ board.selected \in Origin \cup {NoOrigin}
  /\ sock.told \subseteq Preferences
  /\ ~sock.link => sock.in = <<>>

\* The server never receives a join, a sync, a mute or a command from a connection it
\* does not know: each waits for the handshake of its own connection, whichever screen
\* asked for that one. (MatchSocket.authenticate, registerHandlers)
HandshakeFirst ==
  sock.link /\ sock.out # <<>> /\ Head(sock.out).type \in {"join", "sync", "mute", "command"}
    => who # Nobody

\* A move is only ever sent if it is legal at the version it names, whatever arrived
\* while its piece was lifted. (useBoardInteraction, submitMove)
SubmittedIsLegal ==
  \A i \in DOMAIN sock.out :
    LET f == sock.out[i] IN
      f.type = "command" /\ f.move # Resignation => f.move \in Legal[f.version]

\* Once the player's seat is shown on an open connection, the server has been told the
\* mutes this window prefers, on this connection. (useCommunication)
MutesAreTold ==
  Seated(board, actor) /\ sock.link /\ sock.waiting = Nothing => sock.told = {mutes}

\* A window that closed on the answer to its resignation leaves no match running as it
\* was: the match is over, or the resignation crossed a move. (installCloseGuard)
ClosingIsAnswered == quit.how = "resigned" => over \/ version # quit.at

\* What the next launch finds is what the window holds, once everything was stored.
\* (createKeyringStore)
NextLaunchKnows == screen # "closed" /\ saves = <<>> /\ ~lost => vault = session

\* A search that goes on is shown as one, whatever answer was lost. (useQueue)
Searched == entry # Nobody /\ who = entry /\ sock.link /\ screen = "play"
SearchIsShown == Searched ~> (phase = "waiting" \/ ~Searched)

\* A match screen on an open connection opens or says that it cannot, however often the
\* connection was replaced on the way. (useMatchChannel, MatchSocket)
Opening == screen = "match" /\ sock.link
ScreenOpens == Opening ~> (board.phase \in {"ready", "lost"} \/ ~Opening)

\* The server knows whose connection it is, what that player does not want to hear, and
\* gets no move that was not legal; a window that closes and the next one that opens find
\* what was agreed (MatchSocket, useCommunication, useBoardInteraction, installCloseGuard).
ConnectionKnowsItsPlayer ==
  TypeOK /\ HandshakeFirst /\ SubmittedIsLegal /\ MutesAreTold /\ ClosingIsAnswered /\ NextLaunchKnows

\* A screen that waits for the server does not wait for ever (useQueue, useMatchChannel).
ScreensCatchUp == SearchIsShown /\ ScreenOpens
=============================================================================
