---------------------------- MODULE GatewayProofs ----------------------------
(***************************************************************************)
(* Proofs about Gateway and Rematch: for any connections, actors, accounts,  *)
(* channels and number of frames, and for any players, matches on record,    *)
(* calls in progress and lifetime of an offer.  Both invariants say what a   *)
(* handler's earlier awaits have established, because each property is about *)
(* a handler that continues after something else has happened.               *)
(***************************************************************************)
EXTENDS Gateway, Rematch, FiniteSetTheorems, SequenceTheorems, TLAPS


Frames == {"sync", "mute", "relay", "move", "join"}
Flight ==
  [kind : Frames \cup {"authenticate", "row"}, socket : Socket,
   pc : {"received", "resolved", "recording", "allowed", "eligible"}, number : 0..MaxFrames,
   content : SUBSET (Channel \cup Actor)]

Typed ==
  /\ conn \in [Socket -> {"away", "open", "closed"}]
  /\ session \in SUBSET Socket /\ attached \in SUBSET Socket
  /\ mutes \in [Socket -> SUBSET Channel]
  /\ told \in [Socket -> (SUBSET Channel) \cup {Unknown}]
  /\ online \in [Actor -> SUBSET Socket]
  /\ queued \in SUBSET Actor /\ left \in SUBSET Actor
  /\ inFlight \in SUBSET Flight
  /\ phase \in {"serving", "draining", "closing", "settled", "closed"}
  /\ suspended \in SUBSET User
  /\ history \in [Socket -> [RowKind -> Nat]]
  /\ played \in SUBSET Flight
  /\ heard \in [Socket -> SUBSET [number : 1..MaxFrames, content : SUBSET Channel]]
  /\ returns \in [Actor -> Nat] /\ frames \in 0..MaxFrames

\* What a handler in flight may rely on after its frame was accepted: an answered
\* handshake, or for a handshake itself that it is the connection's only one.
HandlersAreKnown ==
  /\ \A w \in inFlight :
       /\ w.kind \in Frames => told[w.socket] # Unknown
       /\ w.kind = "authenticate" => told[w.socket] = Unknown
       /\ w.pc = "resolved" => w.kind = "authenticate" /\ w.socket \in session
       /\ w.pc = "recording" => w.kind = "sync"
       /\ w.pc = "allowed" => w.kind = "move"
       /\ w.pc = "eligible" => w.kind = "join"
       /\ w.kind \in {"mute", "relay"} => w.content \subseteq Channel /\ w.number # 0
       /\ w.kind = "row" => w.pc = "received"
  /\ \A v, w \in inFlight :
       v.kind = "authenticate" /\ w.kind = "authenticate" /\ v.socket = w.socket => v = w

\* Only an opened connection has a session, and only one with a session is online,
\* attached or answered.
SessionsComeFirst ==
  /\ attached \subseteq session
  /\ \A s \in Socket : told[s] # Unknown => s \in session
  /\ \A a \in Actor : \A s \in online[a] : s \in session /\ Owner[s] = a

\* A connection that was answered is online exactly while it is open.
OnlineIsOpen ==
  /\ \A s \in Socket : told[s] # Unknown => (conn[s] = "open" <=> s \in online[Owner[s]])
  /\ \A s \in Socket : conn[s] = "away" => told[s] = Unknown

\* What an open connection withholds is what its client was told.
ToldIsMuted ==
  \A s \in Socket : told[s] # Unknown /\ conn[s] = "open" => told[s] = mutes[s]

\* A row is in flight once, and only if it is not yet written.
RowsAreOnce ==
  /\ \A s \in Socket :
       /\ \A k \in RowKind : history[s][k] <= 1
       /\ s \notin attached => history[s]["attached"] = 0 /\ history[s]["detached"] = 0
       /\ conn[s] # "closed" => history[s]["detached"] = 0
  /\ \A w \in inFlight :
       /\ w.pc = "recording" =>
            /\ w.socket \in attached /\ history[w.socket]["attached"] = 0
            /\ \A v \in inFlight : v.pc = "recording" /\ v.socket = w.socket => v = w
       /\ w.kind = "row" =>
            /\ w.socket \in attached /\ conn[w.socket] = "closed"
            /\ history[w.socket]["detached"] = 0 /\ w = Work("row", w.socket, 0, {})

\* The connections an actor attached and lost.
Departed(a) == {s \in attached : Owner[s] = a /\ conn[s] = "closed"}
DeparturesAreSpent ==
  /\ IsFiniteSet(attached)
  /\ \A a \in Actor : returns[a] + Cardinality({a} \cap left) <= Cardinality(Departed(a))

\* A command sent after its account was suspended is not past the flags.
SuspendedAreRefused ==
  /\ \A w \in inFlight : w.kind = "move" =>
       /\ w.content # {} => Owner[w.socket] \in suspended
       /\ w.pc = "allowed" => w.content = {}
  /\ \A p \in played : p.content = {}

\* Once the work in flight has settled nothing can begin any.
NothingAfterSettling ==
  phase \in {"settled", "closed"} => inFlight = {} /\ \A s \in Socket : conn[s] # "open"

GatewayInduction ==
  /\ Typed /\ HandlersAreKnown /\ SessionsComeFirst /\ OnlineIsOpen /\ ToldIsMuted
  /\ RowsAreOnce /\ DeparturesAreSpent /\ SuspendedAreRefused /\ NothingAfterSettling

-----------------------------------------------------------------------------
(* The forms of the steps.                                                 *)

\* Every frame after the handshake is sent the same way and carries what its client sends.
Sent(s, w) ==
  /\ Send(s, w)
  /\ w.kind \in Frames /\ w.socket = s /\ w.pc = "received" /\ w.number = frames + 1
  /\ w.kind \in {"mute", "relay"} => w.content \subseteq Channel
  /\ w.kind = "move" => w.content = {Owner[s]} \cap suspended

LEMMA SendsAreFrames ==
  ASSUME Typed, NEW s \in Socket,
         \/ SendSync(s) \/ SendMove(s) \/ SendJoin(s)
         \/ \E wanted \in SUBSET Channel : SendMute(s, wanted)
         \/ \E c \in Channel : SendMessage(s, c)
  PROVE  \E w \in Flight : Sent(s, w)
<1>1. /\ frames < MaxFrames => frames + 1 \in 0..MaxFrames
      /\ Owner[s] \in Actor
  BY SocketAssumption DEF Typed
<1>2. CASE SendSync(s)
  <2>1. Frame("sync", s, {}) \in Flight
    BY <1>1, <1>2 DEF SendSync, Send, Frame, Work, Flight, Frames
  <2> QED
    BY <1>2, <2>1 DEF SendSync, Sent, Frame, Work, Frames
<1>3. CASE SendMove(s)
  <2>1. Frame("move", s, {Owner[s]} \cap suspended) \in Flight
    BY <1>1, <1>3 DEF SendMove, Send, Frame, Work, Flight, Frames
  <2> QED
    BY <1>3, <2>1 DEF SendMove, Sent, Frame, Work, Frames
<1>4. ASSUME NEW wanted \in SUBSET Channel, SendMute(s, wanted)
      PROVE  \E w \in Flight : Sent(s, w)
  <2>1. Frame("mute", s, wanted) \in Flight
    BY <1>1, <1>4 DEF SendMute, Send, Frame, Work, Flight, Frames
  <2> QED
    BY <1>4, <2>1 DEF SendMute, Sent, Frame, Work, Frames
<1>5. ASSUME NEW c \in Channel, SendMessage(s, c)
      PROVE  \E w \in Flight : Sent(s, w)
  <2>1. Frame("relay", s, {c}) \in Flight
    BY <1>1, <1>5 DEF SendMessage, Send, Frame, Work, Flight, Frames
  <2> QED
    BY <1>5, <2>1 DEF SendMessage, Sent, Frame, Work, Frames
<1>6. CASE SendJoin(s)
  <2>1. Frame("join", s, {}) \in Flight
    BY <1>1, <1>6 DEF SendJoin, Send, Frame, Work, Flight, Frames
  <2> QED
    BY <1>6, <2>1 DEF SendJoin, Sent, Frame, Work, Frames
<1> QED
  BY <1>2, <1>3, <1>4, <1>5, <1>6

\* A suspended account's connection is cut like one that closes; the other outcomes of
\* handleMove touch nothing but the handler.
LEMMA FlagsCutOrPass ==
  ASSUME NEW w \in inFlight, ReadFlags(w)
  PROVE  /\ w.kind = "move" /\ w.pc = "received"
         /\ \/ /\ conn[w.socket] = "open" /\ Forget({w.socket})
               /\ inFlight' = (inFlight \ {w}) \cup DetachedRows({w.socket})
            \/ /\ UNCHANGED <<conn, left, online, queued>>
               /\ \/ inFlight' = inFlight \ {w}
                  \/ /\ Owner[w.socket] \notin suspended
                     /\ inFlight' = (inFlight \ {w}) \cup {[w EXCEPT !.pc = "allowed"]}
         /\ UNCHANGED <<told, heard, frames, session, attached, mutes, phase, database, returns>>
BY DEF ReadFlags, RefusedAsSuspended


\* Every step keeps the types.
LEMMA TypedStep ==
  ASSUME GatewayInduction, Next
  PROVE  Typed'
<1>0. Typed /\ HandlersAreKnown /\ SessionsComeFirst
  BY DEF GatewayInduction
<1>1. ASSUME NEW s \in Socket, Connect(s) PROVE Typed'
  BY <1>0, <1>1
  DEF Connect, Typed, net, memory, database
<1>2. ASSUME NEW s \in Socket, Disconnect(s) PROVE Typed'
  <2>1. DetachedRows({s}) \subseteq Flight
    BY SocketAssumption DEF DetachedRows, Work, Flight
  <2>2. OnlineWithout({s}) \in [Actor -> SUBSET Socket]
    BY <1>0 DEF Typed, OnlineWithout
  <2>3. \A z \in Socket : Owner[z] \in Actor
    BY SocketAssumption
  <2> QED
    BY <1>0, <1>2, <2>1, <2>2, <2>3 DEF Disconnect, Forget, Typed, net, memory, database
<1>3. ASSUME NEW s \in Socket, SendHandshake(s) PROVE Typed'
  <2>1. Work("authenticate", s, 0, {}) \in Flight
    BY SocketAssumption DEF Work, Flight
  <2> QED
    BY <1>0, <1>3, <2>1 DEF SendHandshake, Accept, Typed, net, memory, database
<1>4. ASSUME NEW s \in Socket, NEW w \in Flight, Sent(s, w) PROVE Typed'
  <2>1. frames + 1 \in 0..MaxFrames
    BY <1>0, <1>4, SocketAssumption DEF Typed, Sent, Send
  <2> QED
    BY <1>0, <1>4, <2>1 DEF Sent, Send, Accept, Typed, net, memory, database
<1>5. ASSUME NEW w \in inFlight, Resolve(w) PROVE Typed'
  <2>1. w \in Flight /\ w.socket \in Socket /\ [w EXCEPT !.pc = "resolved"] \in Flight
    BY <1>0 DEF Typed, Flight
  <2> QED
    BY <1>0, <1>5, <2>1 DEF Resolve, WithSession, Typed, net, memory, database
<1>6. ASSUME NEW w \in inFlight, FinishHandshake(w) PROVE Typed'
  <2>1. w.socket \in Socket /\ Owner[w.socket] \in Actor
    BY <1>0, SocketAssumption DEF Typed, Flight
  <2>2. (IF Owner[w.socket] \in User THEN Profile[Owner[w.socket]] ELSE mutes[w.socket])
          \in SUBSET Channel
    BY <1>0, <2>1, SocketAssumption DEF Typed
  <2> QED
    BY <1>0, <1>6, <2>1, <2>2 DEF FinishHandshake, Remembered, Typed, net, memory, database
<1>7. ASSUME NEW w \in inFlight, Attach(w) PROVE Typed'
  <2>1. w \in Flight /\ w.socket \in Socket /\ [w EXCEPT !.pc = "recording"] \in Flight
    BY <1>0 DEF Typed, Flight
  <2>2. Owner[w.socket] \in Actor
    BY <2>1, SocketAssumption
  <2>3. attached' \in SUBSET Socket /\ left' \in SUBSET Actor /\ inFlight' \in SUBSET Flight
    BY <1>0, <1>7, <2>1 DEF Attach, MarkAttached, Back, Typed
  <2>4. returns' \in [Actor -> Nat]
    BY <1>0, <1>7, <2>2 DEF Attach, Typed
  <2> QED
    BY <1>0, <1>7, <2>3, <2>4 DEF Attach, Typed, net, database
<1>8. ASSUME NEW w \in inFlight, WriteRow(w) PROVE Typed'
  <2>1. w.socket \in Socket
    BY <1>0 DEF Typed, Flight
  <2>2. \A row \in RowKind : Record(w.socket, row) => history' \in [Socket -> [RowKind -> Nat]]
    BY <1>0, <2>1 DEF Record, Typed
  <2> QED
    BY <1>0, <1>8, <2>2 DEF WriteRow, RowKind, Typed, net, memory, database
<1>9. ASSUME NEW w \in inFlight, SetMutes(w) PROVE Typed'
  <2>1. w.socket \in Socket /\ w.content \subseteq Channel
    BY <1>0, <1>9 DEF Typed, Flight, SetMutes, HandlersAreKnown
  <2> QED
    BY <1>0, <1>9, <2>1 DEF SetMutes, Typed, net, memory, database
<1>10. ASSUME NEW w \in inFlight, Relay(w) PROVE Typed'
  <2>1. [number |-> w.number, content |-> w.content]
          \in [number : 1..MaxFrames, content : SUBSET Channel]
    BY <1>0, <1>10, SocketAssumption DEF Typed, Flight, Relay, HandlersAreKnown
  <2> QED
    BY <1>0, <1>10, <2>1 DEF Relay, Typed, net, memory, database
<1>11. ASSUME NEW w \in inFlight, ReadFlags(w) PROVE Typed'
  <2>1. w \in Flight /\ w.socket \in Socket
    BY <1>0 DEF Typed, Flight
  <2>2. DetachedRows({w.socket}) \subseteq Flight /\ [w EXCEPT !.pc = "allowed"] \in Flight
    BY <2>1, SocketAssumption DEF DetachedRows, Work, Flight
  <2>3. OnlineWithout({w.socket}) \in [Actor -> SUBSET Socket]
    BY <1>0 DEF Typed, OnlineWithout
  <2>4. \A z \in Socket : Owner[z] \in Actor
    BY SocketAssumption
  <2>5. conn' \in [Socket -> {"away", "open", "closed"}]
    BY <1>0, <1>11, FlagsCutOrPass DEF Typed, Forget
  <2>6. inFlight' \in SUBSET Flight
    BY <1>0, <1>11, <2>2, FlagsCutOrPass DEF Typed
  <2>7. \/ UNCHANGED <<left, online, queued>>
        \/ /\ left' = left \cup {Owner[z] : z \in {w.socket} \cap attached}
           /\ online' = OnlineWithout({w.socket})
           /\ queued' = queued \ Released({w.socket})
    BY <1>11, FlagsCutOrPass DEF Forget
  <2>8. left' \in SUBSET Actor /\ online' \in [Actor -> SUBSET Socket] /\ queued' \in SUBSET Actor
    BY <1>0, <2>1, <2>3, <2>4, <2>7 DEF Typed
  <2> QED
    BY <1>0, <1>11, <2>5, <2>6, <2>8 DEF ReadFlags, Typed, net, memory, database
<1>12. ASSUME NEW w \in inFlight, CommitCommand(w) PROVE Typed'
  <2>1. w \in Flight
    BY <1>0 DEF Typed
  <2> QED
    BY <1>0, <1>12, <2>1 DEF CommitCommand, Typed, net, memory, database
<1>13. ASSUME NEW w \in inFlight, ReadEligibility(w) PROVE Typed'
  <2>1. w \in Flight /\ [w EXCEPT !.pc = "eligible"] \in Flight
    BY <1>0 DEF Typed, Flight
  <2> QED
    BY <1>0, <1>13, <2>1 DEF ReadEligibility, Typed, net, memory, database
<1>19. ASSUME NEW w \in inFlight, Enter(w) PROVE Typed'
  <2>1. Owner[w.socket] \in Actor
    BY <1>0, SocketAssumption DEF Typed, Flight
  <2> QED
    BY <1>0, <1>19, <2>1 DEF Enter, Typed, net, database
<1>14. ASSUME NEW a \in Actor, Suspend(a) PROVE Typed'
  BY <1>0, <1>14
  DEF Suspend, Typed, net, memory, database
<1>15. CASE Drain
  BY <1>0, <1>15
  DEF Drain, Typed, net, memory, database
<1>16. CASE Close
  BY <1>0, <1>16
  DEF Close, Typed, net, memory, database
<1>17. CASE Settle
  BY <1>0, <1>17
  DEF Settle, AllSettled, Typed, net, memory, database
<1>18. CASE ClosePool
  BY <1>0, <1>18
  DEF ClosePool, Typed, net, memory, database
<1> QED
  BY <1>0, <1>1, <1>2, <1>3, <1>4, <1>5, <1>6, <1>7, <1>8, <1>9, <1>10, <1>11, <1>12, <1>13, <1>14, <1>15, <1>16, <1>17, <1>18, <1>19, SendsAreFrames
  DEF Next, HandlerStep

\* What a handler relies on stays true while it waits.
LEMMA HandlersStep ==
  ASSUME GatewayInduction, Next
  PROVE  HandlersAreKnown'
<1>0. Typed /\ HandlersAreKnown /\ SessionsComeFirst
  BY DEF GatewayInduction
<1>1. ASSUME NEW s \in Socket, Connect(s) PROVE HandlersAreKnown'
  BY <1>0, <1>1
  DEF Connect, HandlersAreKnown, net, memory, database
<1>2. ASSUME NEW s \in Socket, Disconnect(s) PROVE HandlersAreKnown'
  <2>1. \A v \in DetachedRows({s}) : v.kind = "row" /\ v.pc = "received"
    BY DEF DetachedRows, Work
  <2> QED
    BY <1>0, <1>2, <2>1, ZenonT(60) DEF Disconnect, Forget, HandlersAreKnown, Frames
<1>3. ASSUME NEW s \in Socket, SendHandshake(s) PROVE HandlersAreKnown'
  <2> DEFINE v == Work("authenticate", s, 0, {})
  <2>1. v.kind = "authenticate" /\ v.socket = s /\ v.pc = "received"
    BY DEF Work
  <2>2. told[s] = Unknown /\ (\A w \in inFlight : w.socket # s) /\ UNCHANGED <<told, session>>
    BY <1>0, <1>3 DEF SendHandshake, SessionsComeFirst, net, memory
  <2>3. inFlight' = inFlight \/ inFlight' = inFlight \cup {v}
    BY <1>3 DEF SendHandshake, Accept
  <2> HIDE DEF v
  <2> QED
    BY <1>0, <2>1, <2>2, <2>3 DEF HandlersAreKnown, Frames
<1>4. ASSUME NEW s \in Socket, NEW w \in Flight, Sent(s, w) PROVE HandlersAreKnown'
  <2>1. w.number # 0
    BY <1>0, <1>4 DEF Typed, Sent
  <2> QED
    BY <1>0, <1>4, <2>1 DEF Sent, Send, Accept, HandlersAreKnown, Frames, memory
<1>5. ASSUME NEW w \in inFlight, Resolve(w) PROVE HandlersAreKnown'
  <2> DEFINE v == [w EXCEPT !.pc = "resolved"]
  <2>1. w \in Flight /\ w.kind = "authenticate" /\ w.pc = "received"
    BY <1>0, <1>5 DEF Typed, Resolve
  <2>2. /\ v.kind = w.kind /\ v.socket = w.socket /\ v.pc = "resolved" /\ v.content = w.content
        /\ v.number = w.number
    BY <2>1 DEF Flight
  <2>3. \/ inFlight' = inFlight \ {w} /\ session' = session
        \/ inFlight' = (inFlight \ {w}) \cup {v} /\ session' = session \cup {w.socket}
    BY <1>5 DEF Resolve, WithSession
  <2>4. told' = told
    BY <1>5 DEF Resolve
  <2> HIDE DEF v
  <2> QED
    BY <1>0, <2>1, <2>2, <2>3, <2>4 DEF HandlersAreKnown, Frames
<1>6. ASSUME NEW w \in inFlight, FinishHandshake(w) PROVE HandlersAreKnown'
  <2>1. \A v \in inFlight' : v.kind = "authenticate" => v.socket # w.socket
    BY <1>0, <1>6 DEF FinishHandshake, HandlersAreKnown
  <2>2. \A v \in inFlight : v.socket \in Socket
    BY <1>0 DEF Typed, Flight
  <2>3. w.socket \in Socket /\ Owner[w.socket] \in Actor
    BY <2>2, SocketAssumption
  <2>4. \A t \in Socket : t # w.socket => told'[t] = told[t]
    BY <1>0, <1>6 DEF FinishHandshake, Typed
  <2>5. told[w.socket] # Unknown => told'[w.socket] # Unknown
    BY <1>0, <1>6 DEF FinishHandshake, HandlersAreKnown
  <2> QED
    BY <1>0, <1>6, <2>1, <2>2, <2>4, <2>5 DEF FinishHandshake, HandlersAreKnown
<1>7. ASSUME NEW w \in inFlight, Attach(w) PROVE HandlersAreKnown'
  <2> DEFINE v == [w EXCEPT !.pc = "recording"]
  <2>1. w \in Flight /\ w.kind = "sync" /\ w.pc = "received"
    BY <1>0, <1>7 DEF Typed, Attach
  <2>2. /\ v.kind = w.kind /\ v.socket = w.socket /\ v.pc = "recording"
    BY <2>1 DEF Flight
  <2>3. \/ inFlight' = inFlight \ {w}
        \/ inFlight' = (inFlight \ {w}) \cup {v}
    BY <1>7 DEF Attach
  <2>4. told' = told /\ session' = session
    BY <1>7 DEF Attach, net
  <2> HIDE DEF v
  <2> QED
    BY <1>0, <2>1, <2>2, <2>3, <2>4 DEF HandlersAreKnown, Frames
<1>8. ASSUME NEW w \in inFlight, WriteRow(w) PROVE HandlersAreKnown'
  BY <1>0, <1>8
  DEF WriteRow, Record, HandlersAreKnown, net, memory, database
<1>9. ASSUME NEW w \in inFlight, SetMutes(w) PROVE HandlersAreKnown'
  <2>1. w.socket \in Socket /\ w.content \subseteq Channel
    BY <1>0, <1>9 DEF Typed, Flight, SetMutes, HandlersAreKnown
  <2>2. \A v \in inFlight : v.socket \in Socket
    BY <1>0 DEF Typed, Flight
  <2>3. w.content # Unknown /\ told[w.socket] # Unknown
    BY <1>0, <1>9, <2>1, UnknownAssumption DEF Unknown, SetMutes, HandlersAreKnown, Frames
  <2>4. \A t \in Socket : told'[t] = Unknown <=> told[t] = Unknown
    BY <1>0, <1>9, <2>1, <2>3 DEF SetMutes, Typed
  <2> QED
    BY <1>0, <1>9, <2>2, <2>4 DEF SetMutes, HandlersAreKnown
<1>10. ASSUME NEW w \in inFlight, Relay(w) PROVE HandlersAreKnown'
  BY <1>0, <1>10
  DEF Relay, HandlersAreKnown, net, memory, database
<1>11. ASSUME NEW w \in inFlight, ReadFlags(w) PROVE HandlersAreKnown'
  <2> DEFINE v == [w EXCEPT !.pc = "allowed"]
  <2>1. w \in Flight /\ w.kind = "move" /\ w.pc = "received"
    BY <1>0, <1>11 DEF Typed, ReadFlags
  <2>2. /\ v.kind = w.kind /\ v.socket = w.socket /\ v.pc = "allowed"
    BY <2>1 DEF Flight
  <2>3. \A z \in DetachedRows({w.socket}) : z.kind = "row" /\ z.pc = "received"
    BY DEF DetachedRows, Work
  <2>4. \A z \in inFlight' : z \in inFlight \/ z = v \/ z \in DetachedRows({w.socket})
    BY <1>11, FlagsCutOrPass
  <2>5. told' = told /\ session' = session
    BY <1>11 DEF ReadFlags
  <2> HIDE DEF v
  <2> QED
    BY <1>0, <2>1, <2>2, <2>3, <2>4, <2>5 DEF HandlersAreKnown, Frames
<1>12. ASSUME NEW w \in inFlight, CommitCommand(w) PROVE HandlersAreKnown'
  BY <1>0, <1>12
  DEF CommitCommand, HandlersAreKnown, net, memory, database
<1>13. ASSUME NEW w \in inFlight, ReadEligibility(w) PROVE HandlersAreKnown'
  <2> DEFINE v == [w EXCEPT !.pc = "eligible"]
  <2>1. w \in Flight /\ w.kind = "join" /\ w.pc = "received"
    BY <1>0, <1>13 DEF Typed, ReadEligibility
  <2>2. v.kind = "join" /\ v.socket = w.socket /\ v.pc = "eligible"
    BY <2>1 DEF Flight
  <2>3. inFlight' = inFlight \ {w} \/ inFlight' = (inFlight \ {w}) \cup {v}
    BY <1>13 DEF ReadEligibility
  <2>4. UNCHANGED <<told, session>>
    BY <1>13 DEF ReadEligibility, net, memory, database
  <2> HIDE DEF v
  <2> QED
    BY <1>0, <2>1, <2>2, <2>3, <2>4 DEF HandlersAreKnown, Frames
<1>19. ASSUME NEW w \in inFlight, Enter(w) PROVE HandlersAreKnown'
  BY <1>0, <1>19
  DEF Enter, HandlersAreKnown, net, database
<1>14. ASSUME NEW a \in Actor, Suspend(a) PROVE HandlersAreKnown'
  BY <1>0, <1>14
  DEF Suspend, HandlersAreKnown, net, memory, database
<1>15. CASE Drain
  BY <1>0, <1>15
  DEF Drain, HandlersAreKnown, net, memory, database
<1>16. CASE Close
  BY <1>0, <1>16
  DEF Close, HandlersAreKnown, net, memory, database
<1>17. CASE Settle
  BY <1>0, <1>17
  DEF Settle, AllSettled, HandlersAreKnown, net, memory, database
<1>18. CASE ClosePool
  BY <1>0, <1>18
  DEF ClosePool, HandlersAreKnown, net, memory, database
<1> QED
  BY <1>0, <1>1, <1>2, <1>3, <1>4, <1>5, <1>6, <1>7, <1>8, <1>9, <1>10, <1>11, <1>12, <1>13, <1>14, <1>15, <1>16, <1>17, <1>18, <1>19, SendsAreFrames
  DEF Next, HandlerStep

\* Sessions, attachments and answers keep their order.
LEMMA SessionsStep ==
  ASSUME GatewayInduction, Next
  PROVE  SessionsComeFirst'
<1>0. Typed /\ HandlersAreKnown /\ SessionsComeFirst
  BY DEF GatewayInduction
<1>1. ASSUME NEW s \in Socket, Connect(s) PROVE SessionsComeFirst'
  BY <1>0, <1>1
  DEF Connect, SessionsComeFirst, net, memory, database
<1>2. ASSUME NEW s \in Socket, Disconnect(s) PROVE SessionsComeFirst'
  BY <1>0, <1>2
  DEF Disconnect, Forget, SessionsComeFirst, net, memory, database, OnlineWithout, Typed
<1>3. ASSUME NEW s \in Socket, SendHandshake(s) PROVE SessionsComeFirst'
  BY <1>0, <1>3
  DEF SendHandshake, Accept, Work, SessionsComeFirst, net, memory, database
<1>4. ASSUME NEW s \in Socket, NEW w \in Flight, Sent(s, w) PROVE SessionsComeFirst'
  BY <1>0, <1>4
  DEF Sent, Send, Accept, SessionsComeFirst, net, memory, database
<1>5. ASSUME NEW w \in inFlight, Resolve(w) PROVE SessionsComeFirst'
  BY <1>0, <1>5
  DEF Resolve, WithSession, SessionsComeFirst, net, memory, database
<1>6. ASSUME NEW w \in inFlight, FinishHandshake(w) PROVE SessionsComeFirst'
  <2>1. w.socket \in session /\ w.socket \in Socket /\ Owner[w.socket] \in Actor
    BY <1>0, <1>6, SocketAssumption DEF FinishHandshake, HandlersAreKnown, Typed, Flight
  <2>2. UNCHANGED <<session, attached>>
    BY <1>6 DEF FinishHandshake
  <2>3. \A s \in Socket : told'[s] # Unknown => told[s] # Unknown \/ s = w.socket
    BY <1>0, <1>6 DEF FinishHandshake, Typed
  <2>4. \A a \in Actor : online'[a] = online[a] \/
          (a = Owner[w.socket] /\ online'[a] = online[a] \cup {w.socket})
    BY <1>0, <1>6 DEF FinishHandshake, Remembered, Typed
  <2> QED
    BY <1>0, <2>1, <2>2, <2>3, <2>4 DEF SessionsComeFirst
<1>7. ASSUME NEW w \in inFlight, Attach(w) PROVE SessionsComeFirst'
  <2>1. w.socket \in Socket /\ told[w.socket] # Unknown
    BY <1>0, <1>7 DEF Attach, HandlersAreKnown, Frames, Typed, Flight
  <2> QED
    BY <1>0, <1>7, <2>1 DEF Attach, MarkAttached, SessionsComeFirst, net
<1>8. ASSUME NEW w \in inFlight, WriteRow(w) PROVE SessionsComeFirst'
  BY <1>0, <1>8
  DEF WriteRow, Record, SessionsComeFirst, net, memory, database
<1>9. ASSUME NEW w \in inFlight, SetMutes(w) PROVE SessionsComeFirst'
  <2>1. w.socket \in Socket /\ told[w.socket] # Unknown
    BY <1>0, <1>9 DEF SetMutes, HandlersAreKnown, Frames, Typed, Flight
  <2>2. \A s \in Socket : told'[s] # Unknown => told[s] # Unknown
    BY <1>0, <1>9, <2>1 DEF SetMutes, Typed
  <2> QED
    BY <1>0, <1>9, <2>2 DEF SetMutes, SessionsComeFirst
<1>10. ASSUME NEW w \in inFlight, Relay(w) PROVE SessionsComeFirst'
  BY <1>0, <1>10
  DEF Relay, SessionsComeFirst, net, memory, database
<1>11. ASSUME NEW w \in inFlight, ReadFlags(w) PROVE SessionsComeFirst'
  <2>1. online' = online \/ online' = OnlineWithout({w.socket})
    BY <1>11, FlagsCutOrPass DEF Forget
  <2>2. \A a \in Actor : online'[a] \subseteq online[a]
    BY <2>1 DEF OnlineWithout
  <2> QED
    BY <1>0, <1>11, <2>2 DEF ReadFlags, SessionsComeFirst
<1>12. ASSUME NEW w \in inFlight, CommitCommand(w) PROVE SessionsComeFirst'
  BY <1>0, <1>12
  DEF CommitCommand, SessionsComeFirst, net, memory, database
<1>13. ASSUME NEW w \in inFlight, ReadEligibility(w) PROVE SessionsComeFirst'
  BY <1>0, <1>13
  DEF ReadEligibility, SessionsComeFirst, net, memory, database
<1>19. ASSUME NEW w \in inFlight, Enter(w) PROVE SessionsComeFirst'
  BY <1>0, <1>19
  DEF Enter, SessionsComeFirst, net, database
<1>14. ASSUME NEW a \in Actor, Suspend(a) PROVE SessionsComeFirst'
  BY <1>0, <1>14
  DEF Suspend, SessionsComeFirst, net, memory, database
<1>15. CASE Drain
  BY <1>0, <1>15
  DEF Drain, SessionsComeFirst, net, memory, database
<1>16. CASE Close
  BY <1>0, <1>16
  DEF Close, SessionsComeFirst, net, memory, database
<1>17. CASE Settle
  BY <1>0, <1>17
  DEF Settle, AllSettled, SessionsComeFirst, net, memory, database
<1>18. CASE ClosePool
  BY <1>0, <1>18
  DEF ClosePool, SessionsComeFirst, net, memory, database
<1> QED
  BY <1>0, <1>1, <1>2, <1>3, <1>4, <1>5, <1>6, <1>7, <1>8, <1>9, <1>10, <1>11, <1>12, <1>13, <1>14, <1>15, <1>16, <1>17, <1>18, <1>19, SendsAreFrames
  DEF Next, HandlerStep

\* What forgetSocket does to a connection that is open: it closes, its actor is online
\* through the others, and stops waiting when there is none.
LEMMA ForgetMeans ==
  ASSUME Typed, SessionsComeFirst, NEW s \in Socket, conn[s] = "open", Forget({s})
  PROVE  /\ conn' = [conn EXCEPT ![s] = "closed"]
         /\ \A a \in Actor : online'[a] = IF a = Owner[s] THEN online[a] \ {s} ELSE online[a]
         /\ \A a \in queued \cap queued' : online[a] # {} => online'[a] # {}
<1>1. conn' = [conn EXCEPT ![s] = "closed"]
  BY DEF Forget, Typed
<1>2. \A a \in Actor : online'[a] = online[a] \ ({s} \cap session)
  BY DEF Forget, OnlineWithout
<1>3. \A a \in Actor : online'[a] = IF a = Owner[s] THEN online[a] \ {s} ELSE online[a]
  <2> SUFFICES ASSUME NEW a \in Actor
               PROVE  online[a] \ ({s} \cap session) = IF a = Owner[s] THEN online[a] \ {s} ELSE online[a]
    BY <1>2
  <2>1. \A z \in online[a] : z \in session /\ Owner[z] = a
    BY DEF SessionsComeFirst
  <2> QED
    BY <2>1
<1>4. ASSUME NEW a \in queued \cap queued', online[a] # {} PROVE online'[a] # {}
  <2>1. a \in Actor /\ \A z \in online[a] : z \in session /\ Owner[z] = a
    BY <1>4 DEF Typed, SessionsComeFirst
  <2>2. CASE online[a] \subseteq {s}
    <3>1. a \in Released({s})
      BY <1>4, <2>1, <2>2 DEF Released
    <3> QED
      BY <1>4, <3>1 DEF Forget
  <2>3. CASE ~(online[a] \subseteq {s})
    BY <1>3, <2>1, <2>3
  <2> QED
    BY <2>2, <2>3
<1> QED
  BY <1>1, <1>3, <1>4

\* Who was answered is online exactly while its connection is open.
LEMMA OnlineStep ==
  ASSUME GatewayInduction, Next
  PROVE  OnlineIsOpen'
<1>0. Typed /\ HandlersAreKnown /\ SessionsComeFirst /\ OnlineIsOpen
  BY DEF GatewayInduction
<1>1. ASSUME NEW s \in Socket, Connect(s) PROVE OnlineIsOpen'
  BY <1>0, <1>1
  DEF Connect, OnlineIsOpen, net, memory, database, Typed
<1>2. ASSUME NEW s \in Socket, Disconnect(s) PROVE OnlineIsOpen'
  <2>1. conn[s] = "open" /\ Forget({s}) /\ told' = told
    BY <1>2 DEF Disconnect
  <2>2. \A t \in Socket : Owner[t] \in Actor
    BY SocketAssumption
  <2>3. /\ conn' = [conn EXCEPT ![s] = "closed"]
        /\ \A a \in Actor : online'[a] = IF a = Owner[s] THEN online[a] \ {s} ELSE online[a]
    BY <1>0, <2>1, ForgetMeans
  <2>4. \A t \in Socket : told'[t] # Unknown => (conn'[t] = "open" <=> t \in online'[Owner[t]])
    BY <1>0, <2>1, <2>2, <2>3 DEF OnlineIsOpen, Typed
  <2>5. \A t \in Socket : conn'[t] = "away" => told'[t] = Unknown
    BY <1>0, <2>1, <2>2, <2>3 DEF OnlineIsOpen, Typed
  <2> QED
    BY <2>4, <2>5 DEF OnlineIsOpen
<1>3. ASSUME NEW s \in Socket, SendHandshake(s) PROVE OnlineIsOpen'
  BY <1>0, <1>3
  DEF SendHandshake, Accept, Work, OnlineIsOpen, net, memory, database
<1>4. ASSUME NEW s \in Socket, NEW w \in Flight, Sent(s, w) PROVE OnlineIsOpen'
  BY <1>0, <1>4
  DEF Sent, Send, Accept, OnlineIsOpen, net, memory, database
<1>5. ASSUME NEW w \in inFlight, Resolve(w) PROVE OnlineIsOpen'
  <2>1. w.socket \in Socket /\ told[w.socket] = Unknown
    BY <1>0, <1>5 DEF Typed, Flight, Resolve, HandlersAreKnown
  <2> QED
    BY <1>0, <1>5, <2>1 DEF Resolve, OnlineIsOpen, Typed
<1>6. ASSUME NEW w \in inFlight, FinishHandshake(w) PROVE OnlineIsOpen'
  <2>1. w.socket \in Socket /\ told[w.socket] = Unknown /\ w.socket \in session
    BY <1>0, <1>6 DEF Typed, Flight, FinishHandshake, HandlersAreKnown
  <2>2. Owner[w.socket] \in Actor
    BY <2>1, SocketAssumption
  <2>3. /\ \A a \in Actor : online'[a] =
             IF a = Owner[w.socket] THEN online[a] \cup {w.socket} ELSE online[a]
        /\ \A s \in Socket : s # w.socket => told'[s] = told[s]
        /\ told'[w.socket] # Unknown => conn[w.socket] = "open"
        /\ conn' = conn
    BY <1>0, <1>6, <2>1, <2>2 DEF FinishHandshake, Remembered, Typed
  <2>4. \A t \in Socket : Owner[t] \in Actor
    BY SocketAssumption
  <2>5. ASSUME NEW t \in Socket, told'[t] # Unknown
        PROVE  conn'[t] = "open" <=> t \in online'[Owner[t]]
    <3>1. CASE t = w.socket
      BY <2>3, <2>4, <2>5, <3>1
    <3>2. CASE t # w.socket
      <4>1. conn[t] = "open" <=> t \in online[Owner[t]]
        BY <1>0, <2>3, <2>5, <3>2 DEF OnlineIsOpen
      <4>2. t \in online'[Owner[t]] <=> t \in online[Owner[t]]
        BY <2>3, <2>4, <3>2
      <4> QED
        BY <2>3, <4>1, <4>2
    <3> QED
      BY <3>1, <3>2
  <2>6. \A t \in Socket : conn'[t] = "away" => told'[t] = Unknown
    BY <1>0, <2>1, <2>3, <2>4 DEF OnlineIsOpen, Typed
  <2> QED
    BY <2>5, <2>6 DEF OnlineIsOpen
<1>7. ASSUME NEW w \in inFlight, Attach(w) PROVE OnlineIsOpen'
  BY <1>0, <1>7
  DEF Attach, MarkAttached, Back, OnlineIsOpen, net, memory, database
<1>8. ASSUME NEW w \in inFlight, WriteRow(w) PROVE OnlineIsOpen'
  BY <1>0, <1>8
  DEF WriteRow, Record, OnlineIsOpen, net, memory, database
<1>9. ASSUME NEW w \in inFlight, SetMutes(w) PROVE OnlineIsOpen'
  <2>1. w.socket \in Socket /\ told[w.socket] # Unknown
    BY <1>0, <1>9 DEF SetMutes, HandlersAreKnown, Frames, Typed, Flight
  <2>2. \A s \in Socket : (told'[s] # Unknown => told[s] # Unknown) /\ (conn[s] = "away" => told'[s] = told[s])
    BY <1>0, <1>9, <2>1 DEF SetMutes, Typed
  <2> QED
    BY <1>0, <1>9, <2>2 DEF SetMutes, OnlineIsOpen
<1>10. ASSUME NEW w \in inFlight, Relay(w) PROVE OnlineIsOpen'
  BY <1>0, <1>10
  DEF Relay, OnlineIsOpen, net, memory, database
<1>11. ASSUME NEW w \in inFlight, ReadFlags(w) PROVE OnlineIsOpen'
  <2>1. w.socket \in Socket /\ told' = told
    BY <1>0, <1>11 DEF Typed, Flight, ReadFlags
  <2>2. CASE conn[w.socket] = "open" /\ Forget({w.socket})
    <3>2. \A t \in Socket : Owner[t] \in Actor
      BY SocketAssumption
    <3>3. /\ conn' = [conn EXCEPT ![w.socket] = "closed"]
          /\ \A a \in Actor :
               online'[a] = IF a = Owner[w.socket] THEN online[a] \ {w.socket} ELSE online[a]
      BY <1>0, <2>1, <2>2, ForgetMeans
    <3>4. \A t \in Socket : told'[t] # Unknown => (conn'[t] = "open" <=> t \in online'[Owner[t]])
      BY <1>0, <2>1, <3>2, <3>3, ZenonT(60) DEF OnlineIsOpen, Typed
    <3>5. \A t \in Socket : conn'[t] = "away" => told'[t] = Unknown
      BY <1>0, <2>1, <3>2, <3>3 DEF OnlineIsOpen, Typed
    <3> QED
      BY <3>4, <3>5 DEF OnlineIsOpen
  <2>3. CASE UNCHANGED <<conn, left, online, queued>>
    BY <1>0, <2>1, <2>3 DEF OnlineIsOpen
  <2> QED
    BY <1>11, <2>2, <2>3, FlagsCutOrPass
<1>12. ASSUME NEW w \in inFlight, CommitCommand(w) PROVE OnlineIsOpen'
  BY <1>0, <1>12
  DEF CommitCommand, OnlineIsOpen, net, memory, database
<1>13. ASSUME NEW w \in inFlight, ReadEligibility(w) PROVE OnlineIsOpen'
  BY <1>0, <1>13
  DEF ReadEligibility, OnlineIsOpen, net, memory, database
<1>19. ASSUME NEW w \in inFlight, Enter(w) PROVE OnlineIsOpen'
  BY <1>0, <1>19
  DEF Enter, OnlineIsOpen, net, database
<1>14. ASSUME NEW a \in Actor, Suspend(a) PROVE OnlineIsOpen'
  BY <1>0, <1>14
  DEF Suspend, OnlineIsOpen, net, memory, database
<1>15. CASE Drain
  BY <1>0, <1>15
  DEF Drain, OnlineIsOpen, net, memory, database
<1>16. CASE Close
  BY <1>0, <1>16
  DEF Close, OnlineIsOpen, net, memory, database
<1>17. CASE Settle
  BY <1>0, <1>17
  DEF Settle, AllSettled, OnlineIsOpen, net, memory, database
<1>18. CASE ClosePool
  BY <1>0, <1>18
  DEF ClosePool, OnlineIsOpen, net, memory, database
<1> QED
  BY <1>0, <1>1, <1>2, <1>3, <1>4, <1>5, <1>6, <1>7, <1>8, <1>9, <1>10, <1>11, <1>12, <1>13, <1>14, <1>15, <1>16, <1>17, <1>18, <1>19, SendsAreFrames
  DEF Next, HandlerStep

\* An open connection withholds what its client was told, and nothing else.
LEMMA MutesStep ==
  ASSUME GatewayInduction, Next
  PROVE  ToldIsMuted'
<1>0. Typed /\ HandlersAreKnown /\ SessionsComeFirst /\ OnlineIsOpen /\ ToldIsMuted
  BY DEF GatewayInduction
<1>1. ASSUME NEW s \in Socket, Connect(s) PROVE ToldIsMuted'
  BY <1>0, <1>1
  DEF Connect, ToldIsMuted, net, memory, database, Typed, OnlineIsOpen
<1>2. ASSUME NEW s \in Socket, Disconnect(s) PROVE ToldIsMuted'
  BY <1>0, <1>2
  DEF Disconnect, Forget, ToldIsMuted, net, memory, database
<1>3. ASSUME NEW s \in Socket, SendHandshake(s) PROVE ToldIsMuted'
  BY <1>0, <1>3
  DEF SendHandshake, Accept, Work, ToldIsMuted, net, memory, database
<1>4. ASSUME NEW s \in Socket, NEW w \in Flight, Sent(s, w) PROVE ToldIsMuted'
  BY <1>0, <1>4
  DEF Sent, Send, Accept, ToldIsMuted, net, memory, database
<1>5. ASSUME NEW w \in inFlight, Resolve(w) PROVE ToldIsMuted'
  BY <1>0, <1>5
  DEF Resolve, WithSession, ToldIsMuted, net, memory, database, Typed
<1>6. ASSUME NEW w \in inFlight, FinishHandshake(w) PROVE ToldIsMuted'
  <2>1. w.socket \in Socket
    BY <1>0 DEF Typed, Flight
  <2> QED
    BY <1>0, <1>6, <2>1 DEF FinishHandshake, ToldIsMuted, Typed
<1>7. ASSUME NEW w \in inFlight, Attach(w) PROVE ToldIsMuted'
  BY <1>0, <1>7
  DEF Attach, MarkAttached, Back, ToldIsMuted, net, memory, database
<1>8. ASSUME NEW w \in inFlight, WriteRow(w) PROVE ToldIsMuted'
  BY <1>0, <1>8
  DEF WriteRow, Record, ToldIsMuted, net, memory, database
<1>9. ASSUME NEW w \in inFlight, SetMutes(w) PROVE ToldIsMuted'
  <2>1. w.socket \in Socket
    BY <1>0 DEF Typed, Flight
  <2> QED
    BY <1>0, <1>9, <2>1 DEF SetMutes, ToldIsMuted, Typed
<1>10. ASSUME NEW w \in inFlight, Relay(w) PROVE ToldIsMuted'
  BY <1>0, <1>10
  DEF Relay, ToldIsMuted, net, memory, database
<1>11. ASSUME NEW w \in inFlight, ReadFlags(w) PROVE ToldIsMuted'
  <2>1. UNCHANGED <<told, mutes>> /\ \A s \in Socket : conn'[s] = "open" => conn[s] = "open"
    BY <1>0, <1>11, FlagsCutOrPass DEF Forget
  <2> QED
    BY <1>0, <2>1 DEF ToldIsMuted
<1>12. ASSUME NEW w \in inFlight, CommitCommand(w) PROVE ToldIsMuted'
  BY <1>0, <1>12
  DEF CommitCommand, ToldIsMuted, net, memory, database
<1>13. ASSUME NEW w \in inFlight, ReadEligibility(w) PROVE ToldIsMuted'
  BY <1>0, <1>13
  DEF ReadEligibility, ToldIsMuted, net, memory, database
<1>19. ASSUME NEW w \in inFlight, Enter(w) PROVE ToldIsMuted'
  BY <1>0, <1>19
  DEF Enter, ToldIsMuted, net, database
<1>14. ASSUME NEW a \in Actor, Suspend(a) PROVE ToldIsMuted'
  BY <1>0, <1>14
  DEF Suspend, ToldIsMuted, net, memory, database
<1>15. CASE Drain
  BY <1>0, <1>15
  DEF Drain, ToldIsMuted, net, memory, database
<1>16. CASE Close
  BY <1>0, <1>16
  DEF Close, ToldIsMuted, net, memory, database
<1>17. CASE Settle
  BY <1>0, <1>17
  DEF Settle, AllSettled, ToldIsMuted, net, memory, database
<1>18. CASE ClosePool
  BY <1>0, <1>18
  DEF ClosePool, ToldIsMuted, net, memory, database
<1> QED
  BY <1>0, <1>1, <1>2, <1>3, <1>4, <1>5, <1>6, <1>7, <1>8, <1>9, <1>10, <1>11, <1>12, <1>13, <1>14, <1>15, <1>16, <1>17, <1>18, <1>19, SendsAreFrames
  DEF Next, HandlerStep

\* A command sent under a suspension does not get past the flags.
LEMMA SuspendedStep ==
  ASSUME GatewayInduction, Next
  PROVE  SuspendedAreRefused'
<1>0. Typed /\ HandlersAreKnown /\ SuspendedAreRefused
  BY DEF GatewayInduction
<1>1. ASSUME NEW s \in Socket, Connect(s) PROVE SuspendedAreRefused'
  BY <1>0, <1>1
  DEF Connect, SuspendedAreRefused, net, memory, database
<1>2. ASSUME NEW s \in Socket, Disconnect(s) PROVE SuspendedAreRefused'
  BY <1>0, <1>2
  DEF Disconnect, Forget, SuspendedAreRefused, net, memory, database, DetachedRows, Work
<1>3. ASSUME NEW s \in Socket, SendHandshake(s) PROVE SuspendedAreRefused'
  BY <1>0, <1>3
  DEF SendHandshake, Accept, Work, SuspendedAreRefused, net, memory, database
<1>4. ASSUME NEW s \in Socket, NEW w \in Flight, Sent(s, w) PROVE SuspendedAreRefused'
  BY <1>0, <1>4
  DEF Sent, Send, Accept, SuspendedAreRefused, net, memory, database, Frames
<1>5. ASSUME NEW w \in inFlight, Resolve(w) PROVE SuspendedAreRefused'
  <2>1. w \in Flight /\ w.kind = "authenticate"
    BY <1>0, <1>5 DEF Typed, Resolve
  <2>2. [w EXCEPT !.pc = "resolved"].kind = "authenticate"
    BY <2>1 DEF Flight
  <2> QED
    BY <1>0, <1>5, <2>2 DEF Resolve, SuspendedAreRefused, database
<1>6. ASSUME NEW w \in inFlight, FinishHandshake(w) PROVE SuspendedAreRefused'
  BY <1>0, <1>6
  DEF FinishHandshake, Remembered, SuspendedAreRefused, net, memory, database
<1>7. ASSUME NEW w \in inFlight, Attach(w) PROVE SuspendedAreRefused'
  <2>1. w \in Flight /\ w.kind = "sync"
    BY <1>0, <1>7 DEF Typed, Attach
  <2>2. [w EXCEPT !.pc = "recording"].kind = "sync"
    BY <2>1 DEF Flight
  <2> QED
    BY <1>0, <1>7, <2>2 DEF Attach, SuspendedAreRefused, database
<1>8. ASSUME NEW w \in inFlight, WriteRow(w) PROVE SuspendedAreRefused'
  BY <1>0, <1>8
  DEF WriteRow, Record, SuspendedAreRefused, net, memory, database
<1>9. ASSUME NEW w \in inFlight, SetMutes(w) PROVE SuspendedAreRefused'
  BY <1>0, <1>9
  DEF SetMutes, SuspendedAreRefused, net, memory, database
<1>10. ASSUME NEW w \in inFlight, Relay(w) PROVE SuspendedAreRefused'
  BY <1>0, <1>10
  DEF Relay, SuspendedAreRefused, net, memory, database
<1>11. ASSUME NEW w \in inFlight, ReadFlags(w) PROVE SuspendedAreRefused'
  <2> DEFINE v == [w EXCEPT !.pc = "allowed"]
  <2>1. w \in Flight /\ w.kind = "move"
    BY <1>0, <1>11 DEF Typed, ReadFlags
  <2>2. v.content = w.content /\ v.socket = w.socket /\ v.kind = "move"
    BY <2>1 DEF Flight
  <2>3. \A z \in DetachedRows({w.socket}) : z.kind = "row"
    BY DEF DetachedRows, Work
  <2>4. \A z \in inFlight' : \/ z \in inFlight \/ z \in DetachedRows({w.socket})
                             \/ z = v /\ Owner[w.socket] \notin suspended
    BY <1>11, FlagsCutOrPass
  <2>5. UNCHANGED <<suspended, played>>
    BY <1>11 DEF ReadFlags, database
  <2> HIDE DEF v
  <2> QED
    BY <1>0, <2>1, <2>2, <2>3, <2>4, <2>5 DEF SuspendedAreRefused
<1>12. ASSUME NEW w \in inFlight, CommitCommand(w) PROVE SuspendedAreRefused'
  <2>1. w.content = {}
    BY <1>0, <1>12 DEF CommitCommand, SuspendedAreRefused
  <2> QED
    BY <1>0, <1>12, <2>1 DEF CommitCommand, SuspendedAreRefused
<1>13. ASSUME NEW w \in inFlight, ReadEligibility(w) PROVE SuspendedAreRefused'
  <2> DEFINE v == [w EXCEPT !.pc = "eligible"]
  <2>1. w \in Flight /\ w.kind = "join" /\ w.pc = "received"
    BY <1>0, <1>13 DEF Typed, ReadEligibility
  <2>2. v.kind = "join" /\ v.socket = w.socket /\ v.pc = "eligible"
    BY <2>1 DEF Flight
  <2>3. inFlight' = inFlight \ {w} \/ inFlight' = (inFlight \ {w}) \cup {v}
    BY <1>13 DEF ReadEligibility
  <2>4. UNCHANGED <<suspended, played>>
    BY <1>13 DEF ReadEligibility, net, memory, database
  <2> HIDE DEF v
  <2> QED
    BY <1>0, <2>1, <2>2, <2>3, <2>4 DEF SuspendedAreRefused
<1>19. ASSUME NEW w \in inFlight, Enter(w) PROVE SuspendedAreRefused'
  BY <1>0, <1>19
  DEF Enter, SuspendedAreRefused, net, database
<1>14. ASSUME NEW a \in Actor, Suspend(a) PROVE SuspendedAreRefused'
  BY <1>0, <1>14
  DEF Suspend, SuspendedAreRefused, net, memory, database
<1>15. CASE Drain
  BY <1>0, <1>15
  DEF Drain, SuspendedAreRefused, net, memory, database
<1>16. CASE Close
  BY <1>0, <1>16
  DEF Close, SuspendedAreRefused, net, memory, database
<1>17. CASE Settle
  BY <1>0, <1>17
  DEF Settle, AllSettled, SuspendedAreRefused, net, memory, database
<1>18. CASE ClosePool
  BY <1>0, <1>18
  DEF ClosePool, SuspendedAreRefused, net, memory, database
<1> QED
  BY <1>0, <1>1, <1>2, <1>3, <1>4, <1>5, <1>6, <1>7, <1>8, <1>9, <1>10, <1>11, <1>12, <1>13, <1>14, <1>15, <1>16, <1>17, <1>18, <1>19, SendsAreFrames
  DEF Next, HandlerStep

\* After the work has settled nothing begins any.
LEMMA SettlingStep ==
  ASSUME GatewayInduction, Next
  PROVE  NothingAfterSettling'
<1>0. Typed /\ NothingAfterSettling
  BY DEF GatewayInduction
<1>1. ASSUME NEW s \in Socket, Connect(s) PROVE NothingAfterSettling'
  BY <1>0, <1>1
  DEF Connect, NothingAfterSettling, net, memory, database, Typed
<1>2. ASSUME NEW s \in Socket, Disconnect(s) PROVE NothingAfterSettling'
  BY <1>0, <1>2
  DEF Disconnect, Forget, NothingAfterSettling, net, memory, database, Typed
<1>3. ASSUME NEW s \in Socket, SendHandshake(s) PROVE NothingAfterSettling'
  BY <1>0, <1>3
  DEF SendHandshake, Accept, Work, NothingAfterSettling, net, memory, database, Typed, Closing
<1>4. ASSUME NEW s \in Socket, NEW w \in Flight, Sent(s, w) PROVE NothingAfterSettling'
  BY <1>0, <1>4
  DEF Sent, Send, Accept, NothingAfterSettling, net, memory, database, Typed, Closing
<1>5. ASSUME NEW w \in inFlight, Resolve(w) PROVE NothingAfterSettling'
  BY <1>0, <1>5
  DEF Resolve, WithSession, NothingAfterSettling, net, memory, database, Typed
<1>6. ASSUME NEW w \in inFlight, FinishHandshake(w) PROVE NothingAfterSettling'
  BY <1>0, <1>6
  DEF FinishHandshake, Remembered, NothingAfterSettling, net, memory, database
<1>7. ASSUME NEW w \in inFlight, Attach(w) PROVE NothingAfterSettling'
  BY <1>0, <1>7
  DEF Attach, MarkAttached, Back, NothingAfterSettling, net, memory, database
<1>8. ASSUME NEW w \in inFlight, WriteRow(w) PROVE NothingAfterSettling'
  BY <1>0, <1>8
  DEF WriteRow, Record, NothingAfterSettling, net, memory, database
<1>9. ASSUME NEW w \in inFlight, SetMutes(w) PROVE NothingAfterSettling'
  BY <1>0, <1>9
  DEF SetMutes, NothingAfterSettling, net, memory, database
<1>10. ASSUME NEW w \in inFlight, Relay(w) PROVE NothingAfterSettling'
  BY <1>0, <1>10
  DEF Relay, NothingAfterSettling, net, memory, database
<1>11. ASSUME NEW w \in inFlight, ReadFlags(w) PROVE NothingAfterSettling'
  BY <1>0, <1>11, FlagsCutOrPass
  DEF ReadFlags, NothingAfterSettling, net, memory, database
<1>12. ASSUME NEW w \in inFlight, CommitCommand(w) PROVE NothingAfterSettling'
  BY <1>0, <1>12
  DEF CommitCommand, NothingAfterSettling, net, memory, database
<1>13. ASSUME NEW w \in inFlight, ReadEligibility(w) PROVE NothingAfterSettling'
  BY <1>0, <1>13
  DEF ReadEligibility, NothingAfterSettling, net, memory, database
<1>19. ASSUME NEW w \in inFlight, Enter(w) PROVE NothingAfterSettling'
  BY <1>0, <1>19
  DEF Enter, NothingAfterSettling, net, database
<1>14. ASSUME NEW a \in Actor, Suspend(a) PROVE NothingAfterSettling'
  BY <1>0, <1>14
  DEF Suspend, NothingAfterSettling, net, memory, database
<1>15. CASE Drain
  BY <1>0, <1>15
  DEF Drain, NothingAfterSettling, net, memory, database
<1>16. CASE Close
  BY <1>0, <1>16
  DEF Close, NothingAfterSettling, net, memory, database
<1>17. CASE Settle
  BY <1>0, <1>17
  DEF Settle, AllSettled, NothingAfterSettling, net, memory, database, net
<1>18. CASE ClosePool
  BY <1>0, <1>18
  DEF ClosePool, NothingAfterSettling, net, memory, database, net
<1> QED
  BY <1>0, <1>1, <1>2, <1>3, <1>4, <1>5, <1>6, <1>7, <1>8, <1>9, <1>10, <1>11, <1>12, <1>13, <1>14, <1>15, <1>16, <1>17, <1>18, <1>19, SendsAreFrames
  DEF Next, HandlerStep

\* A connection that closes leaves a row to write exactly if it had joined the match, and
\* none was there before.
LEMMA ClosingKeepsRows ==
  ASSUME Typed, RowsAreOnce, NEW s \in Socket, conn[s] = "open",
         conn' = [conn EXCEPT ![s] = "closed"], UNCHANGED <<attached, history>>,
         inFlight' \subseteq inFlight \cup DetachedRows({s}) \cup {z \in Flight : z.pc = "allowed" /\ z.kind # "row"}
  PROVE  RowsAreOnce'
<1>1. \A z \in DetachedRows({s}) :
        /\ z = Work("row", s, 0, {}) /\ z.socket = s /\ s \in attached
        /\ z.pc = "received" /\ z.kind = "row"
  BY DEF DetachedRows, Work
<1>2. history[s]["detached"] = 0
  BY DEF RowsAreOnce
<1>3. \A t \in Socket : /\ conn'[t] # "closed" => conn[t] # "closed"
                        /\ conn[t] = "closed" => conn'[t] = "closed"
  BY DEF Typed
<1>4. \A z \in inFlight : z \in Flight /\ z.socket \in Socket
  BY DEF Typed, Flight
<1>5. \A z \in inFlight' : z.pc = "recording" => z \in inFlight
  BY <1>1
<1>6. \A z \in inFlight' : z.kind = "row" => z \in inFlight \/ z \in DetachedRows({s})
  OBVIOUS
<1>7. conn'[s] = "closed"
  BY DEF Typed
<1> QED
  BY <1>1, <1>2, <1>3, <1>4, <1>5, <1>6, <1>7 DEF RowsAreOnce

\* Every coming and going is written once at most.
LEMMA RowsStep ==
  ASSUME GatewayInduction, Next
  PROVE  RowsAreOnce'
<1>0. Typed /\ HandlersAreKnown /\ RowsAreOnce
  BY DEF GatewayInduction
<1>1. ASSUME NEW s \in Socket, Connect(s) PROVE RowsAreOnce'
  <2>1. \A t \in Socket : (conn'[t] = "closed") <=> (conn[t] = "closed")
    BY <1>0, <1>1 DEF Connect, Typed
  <2>2. \A z \in inFlight : z.socket \in Socket
    BY <1>0 DEF Typed, Flight
  <2> QED
    BY <1>0, <1>1, <2>1, <2>2 DEF Connect, RowsAreOnce, memory, database
<1>2. ASSUME NEW s \in Socket, Disconnect(s) PROVE RowsAreOnce'
  <2>1. conn' = [conn EXCEPT ![s] = "closed"]
    BY <1>0, <1>2 DEF Disconnect, Forget, Typed
  <2> QED
    BY <1>0, <1>2, <2>1, ClosingKeepsRows DEF Disconnect, database
<1>3. ASSUME NEW s \in Socket, SendHandshake(s) PROVE RowsAreOnce'
  <2> DEFINE v == Work("authenticate", s, 0, {})
  <2>1. v.kind = "authenticate" /\ v.pc = "received"
    BY DEF Work
  <2>2. inFlight' = inFlight \/ inFlight' = inFlight \cup {v}
    BY <1>3 DEF SendHandshake, Accept
  <2> HIDE DEF v
  <2> QED
    BY <1>0, <1>3, <2>1, <2>2 DEF SendHandshake, RowsAreOnce, net, memory, database
<1>4. ASSUME NEW s \in Socket, NEW w \in Flight, Sent(s, w) PROVE RowsAreOnce'
  <2>1. w.kind # "row" /\ w.pc = "received"
    BY <1>4 DEF Sent, Frames
  <2>2. inFlight' = inFlight \/ inFlight' = inFlight \cup {w}
    BY <1>4 DEF Sent, Send, Accept
  <2>3. UNCHANGED <<conn, attached, history>>
    BY <1>4 DEF Sent, Send, memory, database
  <2> QED
    BY <1>0, <2>1, <2>2, <2>3 DEF RowsAreOnce
<1>5. ASSUME NEW w \in inFlight, Resolve(w) PROVE RowsAreOnce'
  <2> DEFINE v == [w EXCEPT !.pc = "resolved"]
  <2>1. w \in Flight /\ w.kind = "authenticate" /\ w.socket \in Socket
    BY <1>0, <1>5 DEF Typed, Flight, Resolve
  <2>2. v.kind = "authenticate" /\ v.pc = "resolved"
    BY <2>1 DEF Flight
  <2>3. \A z \in inFlight' : z \in inFlight \/ z = v
    BY <1>5 DEF Resolve
  <2>4. /\ UNCHANGED <<attached, history>>
        /\ \A t \in Socket : /\ conn'[t] # "closed" => conn[t] # "closed"
                             /\ conn[t] = "closed" => conn'[t] = "closed"
    BY <1>0, <1>5, <2>1 DEF Resolve, Typed, database
  <2>5. \A z \in inFlight : z.socket \in Socket
    BY <1>0 DEF Typed, Flight
  <2> HIDE DEF v
  <2> QED
    BY <1>0, <2>1, <2>2, <2>3, <2>4, <2>5 DEF RowsAreOnce
<1>6. ASSUME NEW w \in inFlight, FinishHandshake(w) PROVE RowsAreOnce'
  BY <1>0, <1>6
  DEF FinishHandshake, Remembered, RowsAreOnce, net, memory, database
<1>7. ASSUME NEW w \in inFlight, Attach(w) PROVE RowsAreOnce'
  <2> DEFINE v == [w EXCEPT !.pc = "recording"]
  <2>1. w \in Flight /\ w.kind = "sync" /\ w.socket \in Socket /\ w.pc = "received"
    BY <1>0, <1>7 DEF Typed, Flight, Attach
  <2>2. v.kind = "sync" /\ v.pc = "recording" /\ v.socket = w.socket
    BY <2>1 DEF Flight
  <2>3. UNCHANGED <<conn, history>>
    BY <1>7 DEF Attach, net, database
  <2>4. \/ inFlight' = inFlight \ {w} /\ attached' = attached
        \/ /\ inFlight' = (inFlight \ {w}) \cup {v} /\ attached' = attached \cup {w.socket}
           /\ w.socket \notin attached
    BY <1>7 DEF Attach, MarkAttached
  <2> HIDE DEF v
  <2> QED
    BY <1>0, <2>1, <2>2, <2>3, <2>4 DEF RowsAreOnce
<1>8. ASSUME NEW w \in inFlight, WriteRow(w) PROVE RowsAreOnce'
  <2> DEFINE row == IF w.kind = "row" THEN "detached" ELSE "attached"
  <2>1. w \in Flight /\ w.socket \in Socket /\ row \in RowKind
    BY <1>0 DEF Typed, Flight, RowKind
  <2>2. /\ inFlight' = inFlight \ {w} /\ UNCHANGED <<conn, attached>>
        /\ Record(w.socket, row) \/ history' = history
        /\ w.kind = "row" \/ w.pc = "recording"
    BY <1>8 DEF WriteRow, net, memory
  <2>3. /\ w.socket \in attached /\ history[w.socket][row] = 0
        /\ row = "detached" => conn[w.socket] = "closed"
    BY <1>0, <2>2 DEF RowsAreOnce
  <2>4. \A s \in Socket, k \in RowKind :
          history'[s][k] = history[s][k] \/ (s = w.socket /\ k = row /\ history'[s][k] = 1)
    BY <1>0, <2>1, <2>2, <2>3 DEF Record, Typed
  <2>5. \A z \in inFlight' :
          /\ z.pc = "recording" => z.socket # w.socket \/ row # "attached"
          /\ z.kind = "row" => z.socket # w.socket \/ row # "detached"
    BY <1>0, <2>2 DEF RowsAreOnce
  <2>6. \A s \in Socket :
       /\ \A k \in RowKind : history'[s][k] <= 1
       /\ s \notin attached => history'[s]["attached"] = 0 /\ history'[s]["detached"] = 0
       /\ conn[s] # "closed" => history'[s]["detached"] = 0
    BY <1>0, <2>3, <2>4 DEF RowsAreOnce, RowKind
  <2>7. \A z \in inFlight' :
       /\ z.pc = "recording" => history'[z.socket]["attached"] = 0
       /\ z.kind = "row" => history'[z.socket]["detached"] = 0
    BY <1>0, <2>2, <2>4, <2>5 DEF RowsAreOnce, RowKind, Typed, Flight
  <2> HIDE DEF row
  <2> QED
    BY <1>0, <2>2, <2>6, <2>7 DEF RowsAreOnce
<1>9. ASSUME NEW w \in inFlight, SetMutes(w) PROVE RowsAreOnce'
  <2> QED
    BY <1>0, <1>9 DEF SetMutes, RowsAreOnce, database
<1>10. ASSUME NEW w \in inFlight, Relay(w) PROVE RowsAreOnce'
  BY <1>0, <1>10
  DEF Relay, RowsAreOnce, net, memory, database
<1>11. ASSUME NEW w \in inFlight, ReadFlags(w) PROVE RowsAreOnce'
  <2>1. w \in Flight /\ w.socket \in Socket /\ w.kind = "move" /\ w.pc = "received"
    BY <1>0, <1>11 DEF Typed, Flight, ReadFlags
  <2> DEFINE v == [w EXCEPT !.pc = "allowed"]
  <2>2. v.pc = "allowed" /\ v.kind = "move"
    BY <2>1 DEF Flight
  <2>3. UNCHANGED <<attached, history>>
    BY <1>11 DEF ReadFlags, database
  <2> HIDE DEF v
  <2>4. CASE /\ conn[w.socket] = "open" /\ Forget({w.socket})
             /\ inFlight' = (inFlight \ {w}) \cup DetachedRows({w.socket})
    <3>1. conn' = [conn EXCEPT ![w.socket] = "closed"]
      BY <1>0, <2>4 DEF Forget, Typed
    <3> QED
      BY <1>0, <2>1, <2>3, <2>4, <3>1, ClosingKeepsRows
  <2>5. CASE conn' = conn /\ inFlight' \subseteq inFlight \cup {v}
    BY <1>0, <2>2, <2>3, <2>5 DEF RowsAreOnce
  <2> QED
    BY <1>11, <2>4, <2>5, FlagsCutOrPass DEF v
<1>12. ASSUME NEW w \in inFlight, CommitCommand(w) PROVE RowsAreOnce'
  BY <1>0, <1>12
  DEF CommitCommand, RowsAreOnce, net, memory, database
<1>13. ASSUME NEW w \in inFlight, ReadEligibility(w) PROVE RowsAreOnce'
  <2> DEFINE v == [w EXCEPT !.pc = "eligible"]
  <2>1. w \in Flight /\ w.kind = "join" /\ w.pc = "received"
    BY <1>0, <1>13 DEF Typed, ReadEligibility
  <2>2. v.kind = "join" /\ v.socket = w.socket /\ v.pc = "eligible"
    BY <2>1 DEF Flight
  <2>3. inFlight' = inFlight \ {w} \/ inFlight' = (inFlight \ {w}) \cup {v}
    BY <1>13 DEF ReadEligibility
  <2>4. UNCHANGED <<conn, attached, history>>
    BY <1>13 DEF ReadEligibility, net, memory, database
  <2> HIDE DEF v
  <2> QED
    BY <1>0, <2>1, <2>2, <2>3, <2>4 DEF RowsAreOnce
<1>19. ASSUME NEW w \in inFlight, Enter(w) PROVE RowsAreOnce'
  BY <1>0, <1>19
  DEF Enter, RowsAreOnce, net, database
<1>14. ASSUME NEW a \in Actor, Suspend(a) PROVE RowsAreOnce'
  BY <1>0, <1>14
  DEF Suspend, RowsAreOnce, net, memory, database
<1>15. CASE Drain
  BY <1>0, <1>15
  DEF Drain, RowsAreOnce, net, memory, database
<1>16. CASE Close
  BY <1>0, <1>16
  DEF Close, RowsAreOnce, net, memory, database
<1>17. CASE Settle
  BY <1>0, <1>17
  DEF Settle, AllSettled, RowsAreOnce, net, memory, database
<1>18. CASE ClosePool
  BY <1>0, <1>18
  DEF ClosePool, RowsAreOnce, net, memory, database
<1> QED
  BY <1>0, <1>1, <1>2, <1>3, <1>4, <1>5, <1>6, <1>7, <1>8, <1>9, <1>10, <1>11, <1>12, <1>13, <1>14, <1>15, <1>16, <1>17, <1>18, <1>19, SendsAreFrames
  DEF Next, HandlerStep

\* When a connection that had joined closes, its actor has one more departure to spend.
LEMMA DepartureCounts ==
  ASSUME IsFiniteSet(attached), NEW s \in attached, conn[s] # "closed", conn'[s] = "closed",
         \A t \in attached : t # s => conn'[t] = conn[t], UNCHANGED attached,
         NEW a \in Actor
  PROVE  Cardinality(Departed(a)') = Cardinality(Departed(a)) + (IF Owner[s] = a THEN 1 ELSE 0)
<1>1. IsFiniteSet(Departed(a)) /\ s \notin Departed(a)
  BY FS_Subset DEF Departed
<1>2. CASE Owner[s] = a
  <2>1. Departed(a)' = Departed(a) \cup {s}
    BY <1>2 DEF Departed
  <2> QED
    BY <1>1, <1>2, <2>1, FS_AddElement
<1>3. CASE Owner[s] # a
  <2>1. Departed(a)' = Departed(a)
    BY <1>3 DEF Departed
  <2>2. Cardinality(Departed(a)) \in Nat
    BY <1>1, FS_CardinalityType
  <2> QED
    BY <1>3, <2>1, <2>2
<1> QED
  BY <1>2, <1>3

\* Of a set and one element the number in common is zero or one.
LEMMA OneOrNone ==
  ASSUME NEW a, NEW S
  PROVE  Cardinality({a} \cap S) = IF a \in S THEN 1 ELSE 0
<1>1. CASE a \in S
  <2>1. {a} \cap S = {a}
    BY <1>1
  <2> QED
    BY <1>1, <2>1, FS_Singleton
<1>2. CASE a \notin S
  <2>1. {a} \cap S = {}
    BY <1>2
  <2> QED
    BY <1>2, <2>1, FS_EmptySet
<1> QED
  BY <1>1, <1>2

\* More connections attached, or more of them closed, never means fewer departures.
LEMMA DeparturesGrow ==
  ASSUME IsFiniteSet(attached'), attached \subseteq attached',
         \A t \in attached : conn[t] = "closed" => conn'[t] = "closed", NEW a \in Actor
  PROVE  /\ Cardinality(Departed(a)) \in Nat /\ Cardinality(Departed(a)') \in Nat
         /\ Cardinality(Departed(a)) <= Cardinality(Departed(a)')
<1>1. Departed(a) \subseteq Departed(a)' /\ Departed(a)' \subseteq attached'
  BY DEF Departed
<1>2. IsFiniteSet(Departed(a)')
  BY <1>1, FS_Subset
<1>3. IsFiniteSet(Departed(a))
  BY <1>1, <1>2, FS_Subset
<1> QED
  BY <1>1, <1>2, <1>3, FS_Subset, FS_CardinalityType

\* A step that counts no return and lets nobody leave.
LEMMA QuietKeepsDepartures ==
  ASSUME DeparturesAreSpent, Typed, Typed', UNCHANGED <<attached, left, returns>>,
         \A t \in attached : conn[t] = "closed" => conn'[t] = "closed"
  PROVE  DeparturesAreSpent'
<1> SUFFICES ASSUME NEW a \in Actor
             PROVE  returns[a] + Cardinality({a} \cap left) <= Cardinality(Departed(a)')
  BY DEF DeparturesAreSpent
<1>1. /\ Cardinality(Departed(a)) \in Nat /\ Cardinality(Departed(a)') \in Nat
      /\ Cardinality(Departed(a)) <= Cardinality(Departed(a)')
  BY DeparturesGrow DEF DeparturesAreSpent
<1>2. Cardinality({a} \cap left) \in Nat
  BY OneOrNone
<1>3. returns[a] \in Nat
  BY DEF Typed
<1> QED
  BY <1>1, <1>2, <1>3 DEF DeparturesAreSpent

\* A connection is forgotten: its actor has left, and has one departure more.
LEMMA ForgettingKeepsDepartures ==
  ASSUME DeparturesAreSpent, Typed, NEW s \in Socket, conn[s] = "open", Forget({s}),
         UNCHANGED <<attached, returns>>
  PROVE  DeparturesAreSpent'
<1>1. conn' = [conn EXCEPT ![s] = "closed"] /\ conn'[s] = "closed"
  BY DEF Forget, Typed
<1>2. left' = left \cup {Owner[z] : z \in {s} \cap attached}
  BY DEF Forget
<1> SUFFICES ASSUME NEW a \in Actor
             PROVE  returns[a] + Cardinality({a} \cap left') <= Cardinality(Departed(a)')
  BY DEF DeparturesAreSpent
<1>3. /\ returns[a] \in Nat /\ Cardinality(Departed(a)) \in Nat /\ Cardinality(Departed(a)') \in Nat
      /\ Cardinality(Departed(a)) <= Cardinality(Departed(a)')
  BY <1>1, DeparturesGrow DEF DeparturesAreSpent, Typed
<1>4. returns[a] + Cardinality({a} \cap left) <= Cardinality(Departed(a))
  BY DEF DeparturesAreSpent
<1>5. CASE s \in attached /\ Owner[s] = a
  <2>1. Cardinality(Departed(a)') = Cardinality(Departed(a)) + 1
    BY <1>1, <1>5, DepartureCounts DEF DeparturesAreSpent, Typed
  <2> QED
    BY <1>3, <1>4, <2>1, OneOrNone
<1>6. CASE ~(s \in attached /\ Owner[s] = a)
  <2>1. a \in left' <=> a \in left
    BY <1>2, <1>6
  <2> QED
    BY <1>3, <1>4, <2>1, OneOrNone
<1> QED
  BY <1>5, <1>6

\* A return is counted for a departure, and spends it.
LEMMA DeparturesStep ==
  ASSUME GatewayInduction, Next
  PROVE  DeparturesAreSpent'
<1>0. Typed /\ DeparturesAreSpent
  BY DEF GatewayInduction
<1>1. ASSUME NEW s \in Socket, Connect(s) PROVE DeparturesAreSpent'
  BY <1>0, <1>1, TypedStep, QuietKeepsDepartures
  DEF Connect, net, memory, database
<1>2. ASSUME NEW s \in Socket, Disconnect(s) PROVE DeparturesAreSpent'
  BY <1>0, <1>2, ForgettingKeepsDepartures
  DEF Disconnect, Forget, net, memory, database
<1>3. ASSUME NEW s \in Socket, SendHandshake(s) PROVE DeparturesAreSpent'
  BY <1>0, <1>3, TypedStep, QuietKeepsDepartures
  DEF SendHandshake, Accept, Work, net, memory, database
<1>4. ASSUME NEW s \in Socket, NEW w \in Flight, Sent(s, w) PROVE DeparturesAreSpent'
  BY <1>0, <1>4, TypedStep, QuietKeepsDepartures
  DEF Sent, Send, Accept, net, memory, database
<1>5. ASSUME NEW w \in inFlight, Resolve(w) PROVE DeparturesAreSpent'
  BY <1>0, <1>5, TypedStep, QuietKeepsDepartures
  DEF Resolve, WithSession, net, memory, database, Typed
<1>6. ASSUME NEW w \in inFlight, FinishHandshake(w) PROVE DeparturesAreSpent'
  BY <1>0, <1>6, TypedStep, QuietKeepsDepartures
  DEF FinishHandshake, Remembered, net, memory, database
<1>7. ASSUME NEW w \in inFlight, Attach(w) PROVE DeparturesAreSpent'
  <2>1. w.socket \in Socket /\ Owner[w.socket] \in Actor /\ conn' = conn
    BY <1>0, <1>7, SocketAssumption DEF Typed, Flight, Attach, net
  <2>2. CASE w.socket \in attached
    BY <1>0, <1>7, <2>1, <2>2, TypedStep, QuietKeepsDepartures DEF Attach
  <2>3. CASE w.socket \notin attached
    <3>1. /\ attached' = attached \cup {w.socket} /\ left' = left \ {Owner[w.socket]}
          /\ returns' = IF Owner[w.socket] \in left
                          THEN [returns EXCEPT ![Owner[w.socket]] = returns[Owner[w.socket]] + 1]
                          ELSE returns
      BY <1>7, <2>3 DEF Attach, MarkAttached, Back
    <3>2. IsFiniteSet(attached')
      BY <1>0, <3>1, FS_AddElement DEF DeparturesAreSpent
    <3>3. ASSUME NEW a \in Actor
          PROVE  returns'[a] + Cardinality({a} \cap left') <= Cardinality(Departed(a)')
      <4>1. /\ returns[a] \in Nat /\ Cardinality(Departed(a)) \in Nat
            /\ Cardinality(Departed(a)') \in Nat
            /\ Cardinality(Departed(a)) <= Cardinality(Departed(a)')
        BY <1>0, <2>1, <3>1, <3>2, DeparturesGrow DEF Typed
      <4>2. returns[a] + Cardinality({a} \cap left) <= Cardinality(Departed(a))
        BY <1>0 DEF DeparturesAreSpent
      <4>3. returns'[a] + Cardinality({a} \cap left') <= returns[a] + Cardinality({a} \cap left)
        <5>1. /\ Cardinality({a} \cap left') = IF a \in left' THEN 1 ELSE 0
              /\ Cardinality({a} \cap left) = IF a \in left THEN 1 ELSE 0
          BY OneOrNone
        <5>2. returns'[a] = IF a = Owner[w.socket] /\ a \in left THEN returns[a] + 1 ELSE returns[a]
          BY <1>0, <2>1, <3>1 DEF Typed
        <5>3. a \in left' <=> a \in left /\ a # Owner[w.socket]
          BY <3>1
        <5> QED
          BY <4>1, <5>1, <5>2, <5>3
      <4>4. returns'[a] \in Nat /\ Cardinality({a} \cap left') \in Nat /\ Cardinality({a} \cap left) \in Nat
        BY <1>0, TypedStep, OneOrNone, SMTT(40) DEF Typed
      <4> QED
        BY <4>1, <4>2, <4>3, <4>4
    <3> QED
      BY <3>2, <3>3 DEF DeparturesAreSpent
  <2> QED
    BY <2>2, <2>3
<1>8. ASSUME NEW w \in inFlight, WriteRow(w) PROVE DeparturesAreSpent'
  BY <1>0, <1>8, TypedStep, QuietKeepsDepartures
  DEF WriteRow, Record, net, memory, database
<1>9. ASSUME NEW w \in inFlight, SetMutes(w) PROVE DeparturesAreSpent'
  BY <1>0, <1>9, TypedStep, QuietKeepsDepartures
  DEF SetMutes, net, memory, database
<1>10. ASSUME NEW w \in inFlight, Relay(w) PROVE DeparturesAreSpent'
  BY <1>0, <1>10, TypedStep, QuietKeepsDepartures
  DEF Relay, net, memory, database
<1>11. ASSUME NEW w \in inFlight, ReadFlags(w) PROVE DeparturesAreSpent'
  <2>1. w.socket \in Socket /\ UNCHANGED <<attached, returns>>
    BY <1>0, <1>11 DEF Typed, Flight, ReadFlags
  <2>2. CASE conn[w.socket] = "open" /\ Forget({w.socket})
    BY <1>0, <2>1, <2>2, ForgettingKeepsDepartures
  <2>3. CASE UNCHANGED <<conn, left, online, queued>>
    BY <1>0, <2>1, <2>3, TypedStep, QuietKeepsDepartures
  <2> QED
    BY <1>11, <2>2, <2>3, FlagsCutOrPass
<1>12. ASSUME NEW w \in inFlight, CommitCommand(w) PROVE DeparturesAreSpent'
  BY <1>0, <1>12, TypedStep, QuietKeepsDepartures
  DEF CommitCommand, net, memory, database
<1>13. ASSUME NEW w \in inFlight, ReadEligibility(w) PROVE DeparturesAreSpent'
  BY <1>0, <1>13, TypedStep, QuietKeepsDepartures
  DEF ReadEligibility, net, memory, database
<1>19. ASSUME NEW w \in inFlight, Enter(w) PROVE DeparturesAreSpent'
  BY <1>0, <1>19, TypedStep, QuietKeepsDepartures
  DEF Enter, net, database
<1>14. ASSUME NEW a \in Actor, Suspend(a) PROVE DeparturesAreSpent'
  BY <1>0, <1>14, TypedStep, QuietKeepsDepartures
  DEF Suspend, net, memory, database
<1>15. CASE Drain
  BY <1>0, <1>15, TypedStep, QuietKeepsDepartures
  DEF Drain, net, memory, database
<1>16. CASE Close
  BY <1>0, <1>16, TypedStep, QuietKeepsDepartures
  DEF Close, net, memory, database
<1>17. CASE Settle
  BY <1>0, <1>17, TypedStep, QuietKeepsDepartures
  DEF Settle, AllSettled, net, memory, database
<1>18. CASE ClosePool
  BY <1>0, <1>18, TypedStep, QuietKeepsDepartures
  DEF ClosePool, net, memory, database
<1> QED
  BY <1>0, <1>1, <1>2, <1>3, <1>4, <1>5, <1>6, <1>7, <1>8, <1>9, <1>10, <1>11, <1>12, <1>13, <1>14, <1>15, <1>16, <1>17, <1>18, <1>19, SendsAreFrames
  DEF Next, HandlerStep

-----------------------------------------------------------------------------
(* The invariant.                                                          *)

LEMMA InitGateway == Init => GatewayInduction
<1> SUFFICES ASSUME Init PROVE GatewayInduction
  OBVIOUS
<1>1. Typed
  BY SocketAssumption DEF Init, Typed, RowKind
<1>2. HandlersAreKnown /\ SessionsComeFirst /\ OnlineIsOpen /\ ToldIsMuted
  BY DEF Init, HandlersAreKnown, SessionsComeFirst, OnlineIsOpen, ToldIsMuted
<1>3. RowsAreOnce /\ SuspendedAreRefused /\ NothingAfterSettling
  BY DEF Init, RowsAreOnce, SuspendedAreRefused, NothingAfterSettling, RowKind
<1>4. DeparturesAreSpent
  <2>1. IsFiniteSet(attached) /\ Cardinality({}) = 0
    BY FS_EmptySet DEF Init
  <2>2. \A a \in Actor : {a} \cap left = {} /\ Departed(a) = {} /\ returns[a] = 0
    BY DEF Init, Departed
  <2> QED
    BY <2>1, <2>2 DEF DeparturesAreSpent
<1> QED
  BY <1>1, <1>2, <1>3, <1>4 DEF GatewayInduction

LEMMA StutterGateway == GatewayInduction /\ UNCHANGED vars => GatewayInduction'
<1> SUFFICES ASSUME GatewayInduction, UNCHANGED vars PROVE GatewayInduction'
  OBVIOUS
<1>1. Typed' /\ HandlersAreKnown' /\ SessionsComeFirst' /\ OnlineIsOpen' /\ ToldIsMuted'
  BY DEF GatewayInduction, vars, net, memory, database, Typed, HandlersAreKnown,
         SessionsComeFirst, OnlineIsOpen, ToldIsMuted
<1>2. RowsAreOnce' /\ SuspendedAreRefused' /\ NothingAfterSettling'
  BY DEF GatewayInduction, vars, net, memory, database, RowsAreOnce, SuspendedAreRefused,
         NothingAfterSettling
<1>3. DeparturesAreSpent'
  BY <1>1, QuietKeepsDepartures DEF GatewayInduction, vars, net, memory
<1> QED
  BY <1>1, <1>2, <1>3 DEF GatewayInduction

\* Whatever connections, handlers and the shutdown do to each other, each handler finds
\* what its earlier steps established.
THEOREM GatewayStaysSound == Spec => []GatewayInduction
<1>1. GatewayInduction /\ [Next]_vars => GatewayInduction'
  <2> SUFFICES ASSUME GatewayInduction, [Next]_vars PROVE GatewayInduction'
    OBVIOUS
  <2>1. CASE Next
    BY <2>1, TypedStep, HandlersStep, SessionsStep, OnlineStep, MutesStep, RowsStep,
       DeparturesStep, SuspendedStep, SettlingStep DEF GatewayInduction
  <2> QED
    BY <2>1, StutterGateway
<1> QED
  BY <1>1, InitGateway, PTL DEF Spec

\* No handler and no history row is left behind when the pool closes.
THEOREM PoolAlwaysOutlivesHandlers == Spec => []PoolOutlivesHandlers
<1>1. GatewayInduction => PoolOutlivesHandlers
  BY DEF GatewayInduction, NothingAfterSettling, PoolOutlivesHandlers
<1> QED
  BY <1>1, GatewayStaysSound, PTL

\* No command of an account suspended when it was sent is applied.
THEOREM SuspensionAlwaysStops == Spec => []SuspensionStopsCommands
<1>1. GatewayInduction => SuspensionStopsCommands
  BY DEF GatewayInduction, SuspendedAreRefused, SuspensionStopsCommands
<1> QED
  BY <1>1, GatewayStaysSound, PTL

\* The history of every connection is one a person could have made, and returns are
\* counted for departures that happened.
THEOREM AttendanceIsAlwaysTrue == Spec => []AttendanceIsTrue
<1>1. GatewayInduction => OneRowEach
  <2> SUFFICES ASSUME GatewayInduction, NEW s \in Socket
               PROVE  /\ \A k \in RowKind : history[s][k] <= 1
                      /\ history[s]["detached"] = 1 => s \in attached
    BY DEF OneRowEach
  <2> QED
    BY DEF GatewayInduction, RowsAreOnce
<1>2. GatewayInduction => ReturnsWereDepartures
  BY DEF GatewayInduction, DeparturesAreSpent, ReturnsWereDepartures, Departed
<1>3. GatewayInduction => AttendanceIsTrue
  BY <1>1, <1>2 DEF AttendanceIsTrue
<1> QED
  BY <1>3, GatewayStaysSound, PTL

\* An answered connection is known under its actor until it closes; whoever waits in the
\* queue stops waiting with the last connection, and not before.
THEOREM PresenceAlwaysAgrees == Spec => PresenceAgrees
<1>1. GatewayInduction => TypeOK
  <2> SUFFICES ASSUME GatewayInduction PROVE TypeOK
    OBVIOUS
  <2>1. Typed /\ SessionsComeFirst
    BY DEF GatewayInduction
  <2>2. \A s \in Socket : told[s] = Unknown \/ told[s] \subseteq Channel
    BY <2>1 DEF Typed
  <2>3. \A a \in Actor : online[a] \subseteq {s \in session : Owner[s] = a}
    BY <2>1 DEF SessionsComeFirst
  <2>4. /\ \A w \in inFlight : w.socket \in Socket /\
             w.kind \in {"authenticate", "sync", "mute", "relay", "move", "join", "row"}
        /\ \A p \in played : p.socket \in Socket
    BY <2>1 DEF Typed, Flight, Frames
  <2> QED
    BY <2>1, <2>2, <2>3, <2>4 DEF Typed, SessionsComeFirst, TypeOK
<1>2. GatewayInduction => EveryConnectionIsReached
  BY DEF GatewayInduction, OnlineIsOpen, EveryConnectionIsReached
<1> DEFINE Online == \A a \in Actor : Reachable(a) <=> online[a] # {}
<1>3. GatewayInduction => Online
  <2> SUFFICES ASSUME GatewayInduction, NEW a \in Actor, NEW s \in online[a]
               PROVE  conn[s] = "open" \/ told[s] = Unknown
    BY DEF Reachable
  <2>1. s \in Socket /\ Owner[s] = a
    BY DEF GatewayInduction, SessionsComeFirst, Typed
  <2> QED
    BY <2>1 DEF GatewayInduction, OnlineIsOpen
<1> DEFINE Kept == \A a \in queued \ queued' :
                     phase' # phase \/ ~\E s \in online[a] : conn'[s] = "open"
<1>4. GatewayInduction /\ [Next]_vars => [Kept]_vars
  <2> SUFFICES ASSUME GatewayInduction, Next PROVE Kept
    BY DEF vars
  <2>1. ASSUME NEW s \in Socket, Forget({s}) PROVE Kept
    <3>1. queued' = queued \ Released({s}) /\ \A t \in Socket : t = s => conn'[t] = "closed"
      BY <2>1 DEF Forget
    <3> QED
      BY <3>1 DEF Released, GatewayInduction, Typed
  <2>2. ASSUME NEW w \in inFlight, ReadFlags(w) PROVE Kept
    <3>1. w.socket \in Socket
      BY DEF GatewayInduction, Typed, Flight
    <3> QED
      BY <2>1, <2>2, <3>1, FlagsCutOrPass
  <2>3. CASE Drain
    BY <2>3 DEF Drain
  <2> QED
    BY <2>1, <2>2, <2>3
    DEF Next, HandlerStep, Connect, Disconnect, SendHandshake, SendSync, SendMove, SendMute,
        SendMessage, SendJoin, ReadEligibility, Enter, Send, Resolve, FinishHandshake, Attach, WriteRow, SetMutes, Relay,
        CommitCommand, Suspend, Close, Settle, ClosePool, memory
<1> HIDE DEF Kept
<1>5. Spec => [][Kept]_vars
  BY <1>4, GatewayStaysSound, PTL DEF Spec
<1>6. Spec => OneConnectionIsEnough
  BY <1>5 DEF Kept, OneConnectionIsEnough
<1> DEFINE Stays == \A a \in queued \cap queued' : online[a] # {} => online'[a] # {}
           Left == \A a \in queued \cap queued' : Reachable(a) => Reachable(a)'
<1>7. GatewayInduction /\ [Next]_vars => [Stays]_vars
  <2> SUFFICES ASSUME GatewayInduction, Next PROVE Stays
    BY DEF vars
  <2>1. ASSUME NEW s \in Socket, conn[s] = "open", Forget({s}) PROVE Stays
    BY <2>1, ForgetMeans DEF GatewayInduction
  <2>2. ASSUME NEW w \in inFlight, ReadFlags(w) PROVE Stays
    <3>1. w.socket \in Socket
      BY DEF GatewayInduction, Typed, Flight
    <3> QED
      BY <2>1, <2>2, <3>1, FlagsCutOrPass
  <2>3. ASSUME NEW w \in inFlight, FinishHandshake(w) PROVE Stays
    BY <2>3 DEF FinishHandshake, Remembered, GatewayInduction, Typed
  <2> QED
    BY <2>1, <2>2, <2>3
    DEF Next, HandlerStep, Connect, Disconnect, SendHandshake, SendSync, SendMove, SendMute,
        SendMessage, SendJoin, ReadEligibility, Enter, Send, Resolve, Attach, WriteRow, SetMutes,
        Relay, CommitCommand, Suspend, Drain, Close, Settle, ClosePool, memory
<1>8. Typed /\ Online /\ Online' /\ [Stays]_vars => [Left]_vars
  BY DEF Typed
<1>9. Spec => [][Left]_vars
  <2>1. GatewayInduction => Typed
    BY DEF GatewayInduction
  <2> HIDE DEF Online, Stays, Left
  <2> QED
    BY <1>3, <1>7, <1>8, <2>1, GatewayStaysSound, PTL DEF Spec
<1>10. Spec => NobodyIsLeftWaiting
  BY <1>9 DEF Left, NobodyIsLeftWaiting
<1>11. Spec => [](TypeOK /\ EveryConnectionIsReached)
  BY <1>1, <1>2, GatewayStaysSound, PTL
<1> QED
  BY <1>6, <1>10, <1>11 DEF PresenceAgrees

\* A client told of a mute hears nothing more of the channel from its opponent.
THEOREM MutedIsAlwaysSilent == Spec => MutedIsSilent
<1> DEFINE Silent == \A s \in Socket : \A message \in heard'[s] \ heard[s] :
                       \/ \E w \in inFlight : w.number = message.number /\ Owner[w.socket] = Owner[s]
                       \/ message.content \cap told[s] = {}
<1>1. GatewayInduction /\ [Next]_vars => [Silent]_vars
  <2> SUFFICES ASSUME GatewayInduction, Next PROVE Silent
    BY DEF vars
  <2>1. ASSUME NEW w \in inFlight, Relay(w) PROVE Silent
    <3> SUFFICES ASSUME NEW s \in Socket, NEW message \in heard'[s] \ heard[s]
                 PROVE  \/ \E v \in inFlight : v.number = message.number /\ Owner[v.socket] = Owner[s]
                        \/ message.content \cap told[s] = {}
      OBVIOUS
    <3>1. /\ message = [number |-> w.number, content |-> w.content]
          /\ s \in UNION {online[a] : a \in Actor} /\ conn[s] = "open"
          /\ Owner[s] = Owner[w.socket] \/ ~(\E c \in w.content : c \in mutes[s])
      BY <2>1 DEF Relay, Withheld
    <3>2. s \in online[Owner[s]]
      BY <3>1 DEF GatewayInduction, SessionsComeFirst
    <3>3. told[s] = Unknown \/ told[s] = mutes[s]
      BY <3>1 DEF GatewayInduction, ToldIsMuted
    <3>4. w.content \subseteq Channel
      BY <2>1 DEF GatewayInduction, HandlersAreKnown, Relay
    <3>5. CASE told[s] = Unknown
      BY <3>1, <3>4, <3>5, UnknownAssumption DEF Unknown
    <3> QED
      BY <3>1, <3>3, <3>5
  <2> QED
    BY <2>1
    DEF Next, HandlerStep, Connect, Disconnect, SendHandshake, SendSync, SendMove, SendMute,
        SendMessage, SendJoin, ReadEligibility, Enter, Send, Resolve, FinishHandshake, Attach, WriteRow, SetMutes, ReadFlags,
        CommitCommand, Suspend, Drain, Close, Settle, ClosePool, net
<1> HIDE DEF Silent
<1>2. Spec => [][Silent]_vars
  BY <1>1, GatewayStaysSound, PTL DEF Spec
<1> QED
  BY <1>2 DEF Silent, MutedIsSilent

-----------------------------------------------------------------------------
(* Rematch: its invariant                                                   *)

Reads == {[read |-> "finished"]} \cup [read : {"eligible", "free"}, who : Actors]
Row == [light : Actors, dark : Actors, over : BOOLEAN, offer : Offer \cup {NoOffer},
        accepter : Actors \cup {"none"}]
Offering == [pc : {"offering"}, actor : Actors, match : Ids, todo : Seq(Reads)]
Accepting == [pc : {"accepting", "creating"}, actor : Actors, match : Ids, offer : Offer,
              todo : Seq(Reads)]

RematchTyped ==
  /\ clock \in Nat /\ stored \in Nat /\ failures \in Nat
  /\ matches \in Seq(Row) /\ Len(matches) <= MaxMatches
  /\ \A i \in DOMAIN matches : matches[i].light # matches[i].dark
  /\ offers \in [Ids -> Offer \cup {NoOffer}]
  /\ waiting \in [Actors -> Ids \cup {NoMatch}]
  /\ calls \in [Calls -> {Idle} \cup Offering \cup Accepting]
  /\ present \subseteq Actors /\ barred \subseteq Accounts /\ draining \in BOOLEAN

\* An offer of a match on record between its two players, stored at some time.
Honest(o) ==
  /\ o.match \in DOMAIN matches /\ {o.by, o.opponent} = Players(o.match)
  /\ o.number <= stored

OffersAreHonest == \A i \in Ids : offers[i] # NoOffer => Honest(offers[i]) /\ offers[i].match = i

\* A call has still to ask whether the match is over, or it is and will be.
CallsHaveRead ==
  \A t \in Calls : calls[t] # Idle =>
    /\ calls[t].match \in DOMAIN matches
    /\ \/ calls[t].todo # <<>> /\ Head(calls[t].todo).read = "finished"
       \/ matches[calls[t].match].over /\ calls[t].actor \in Players(calls[t].match)
    /\ calls[t].pc # "offering" =>
         /\ Honest(calls[t].offer) /\ calls[t].offer.match = calls[t].match
         /\ calls[t].actor = calls[t].offer.opponent
    /\ calls[t].pc = "creating" => calls[t].todo = <<>>

RematchesAreHonest == \A j \in DOMAIN matches : matches[j].offer # NoOffer => Honest(matches[j].offer)

RematchInduction ==
  /\ RematchConstants
  /\ RematchTyped /\ OffersAreHonest /\ CallsHaveRead /\ RematchesAreHonest
  /\ BothAgreed /\ SpentOffersAreGone

-----------------------------------------------------------------------------
\* Offers, calls and idle calls are told apart by their fields.
LEMMA KindsDiffer ==
  /\ \A o \in Offer : o # NoOffer
  /\ \A c \in Offering : c # Idle /\ c.pc = "offering"
  /\ \A c \in Accepting : c # Idle /\ c.pc \in {"accepting", "creating"}
  /\ Idle.pc = "idle"
<1>1. \A o \in Offer : o # NoOffer
  <2> SUFFICES ASSUME NEW o \in Offer PROVE o # NoOffer
    OBVIOUS
  <2>1. o.number # 0 /\ NoOffer.number = 0
    BY DEF Offer, NoOffer
  <2> QED
    BY <2>1
<1>2. \A c \in Offering : c.pc = "offering"
  BY DEF Offering
<1>3. \A c \in Accepting : c.pc \in {"accepting", "creating"}
  BY DEF Accepting
<1>4. Idle.pc = "idle"
  BY DEF Idle
<1> QED
  BY <1>1, <1>2, <1>3, <1>4

\* Every call begins by asking whether the match is over.
LEMMA FirstRead ==
  ASSUME NEW rest \in Seq(Reads)
  PROVE  /\ ReadFinished \o rest \in Seq(Reads)
         /\ ReadFinished \o rest # <<>>
         /\ Head(ReadFinished \o rest).read = "finished"
BY DEF ReadFinished, Reads

LEMMA ReadsOfPlayers == ASSUME NEW a \in Actors PROVE ReadReady(a) \in Seq(Reads)
BY DEF ReadReady, Reads

\* A match that is added changes nothing about those on record.
LEMMA Recorded ==
  ASSUME RematchTyped, NEW row \in Row, matches' = Append(matches, row)
  PROVE  /\ DOMAIN matches \subseteq DOMAIN matches'
         /\ \A i \in DOMAIN matches : matches'[i] = matches[i] /\ Players(i)' = Players(i)
         /\ \A i \in DOMAIN matches' : i \in DOMAIN matches \/ matches'[i] = row
         /\ Len(matches') = Len(matches) + 1 /\ DOMAIN matches' = 1..(Len(matches) + 1)
         /\ matches' \in Seq(Row)
<1>1. /\ DOMAIN matches = 1..Len(matches) /\ Len(matches) \in Nat
      /\ DOMAIN matches' = 1..(Len(matches) + 1)
      /\ Len(matches') = Len(matches) + 1 /\ matches' \in Seq(Row)
      /\ \A i \in 1..Len(matches) : matches'[i] = matches[i]
      /\ matches'[Len(matches) + 1] = row
  BY DEF RematchTyped
<1> QED
  BY <1>1 DEF Players

\* The opponent of a player of a match is its other player.
LEMMA OpponentIsOther ==
  ASSUME RematchTyped, NEW i \in DOMAIN matches, NEW a \in Players(i)
  PROVE  OpponentOf(i, a) \in Actors /\ {a, OpponentOf(i, a)} = Players(i) /\ OpponentOf(i, a) # a
<1>1. matches[i] \in Row /\ matches[i].light # matches[i].dark
  BY DEF RematchTyped
<1>2. matches[i].light \in Actors /\ matches[i].dark \in Actors
  BY <1>1 DEF Row
<1>3. \E b \in Players(i) : b # a
  BY <1>1 DEF Players
<1>4. OpponentOf(i, a) \in Players(i) /\ OpponentOf(i, a) # a
  BY <1>3 DEF OpponentOf
<1> QED
  BY <1>1, <1>2, <1>4 DEF Players

\* What is forgotten is gone, and nothing is stored by it.
LEMMA ForgetOnlyRemoves ==
  ASSUME RematchTyped, NEW gone, ForgetAll(gone)
  PROVE  /\ offers' \in [Ids -> Offer \cup {NoOffer}]
         /\ \A i \in Ids : offers'[i] \in {offers[i], NoOffer}
         /\ \A o \in gone : o.match \in Ids => offers'[o.match] = NoOffer
         /\ waiting' \in [Actors -> Ids \cup {NoMatch}]
         /\ stored' = stored
BY DEF ForgetAll, RematchTyped

\* Steps that add no match, store no offer and start no call: offers may be forgotten and
\* calls may end.
LEMMA QuietKeepsRest ==
  ASSUME RematchInduction, RematchTyped',
         DOMAIN matches' = DOMAIN matches, stored' = stored,
         \A i \in DOMAIN matches :
           /\ matches'[i].light = matches[i].light /\ matches'[i].dark = matches[i].dark
           /\ matches'[i].offer = matches[i].offer /\ matches'[i].accepter = matches[i].accepter
           /\ matches[i].over => matches'[i].over,
         \A i \in Ids : offers'[i] \in {offers[i], NoOffer},
         \A t \in Calls : calls'[t] \in {calls[t], Idle}
  PROVE  RematchInduction'
<1>0. RematchTyped /\ OffersAreHonest /\ CallsHaveRead /\ RematchesAreHonest /\ BothAgreed /\ SpentOffersAreGone
      /\ RematchConstants
  BY DEF RematchInduction
<1>1. \A i \in DOMAIN matches : Players(i)' = Players(i)
  BY DEF Players
<1>2. OffersAreHonest'
  BY <1>0, <1>1 DEF OffersAreHonest, Honest
<1>3. CallsHaveRead'
  BY <1>0, <1>1 DEF CallsHaveRead, Honest
<1>4. RematchesAreHonest'
  <2> SUFFICES ASSUME NEW j \in DOMAIN matches, matches[j].offer # NoOffer
               PROVE  Honest(matches[j].offer)'
    BY DEF RematchesAreHonest
  <2>1. Honest(matches[j].offer)
    BY <1>0 DEF RematchesAreHonest
  <2> QED
    BY <1>1, <2>1 DEF Honest
<1>5. BothAgreed'
  <2> SUFFICES ASSUME NEW j \in DOMAIN matches, matches[j].offer # NoOffer
               PROVE  /\ matches'[matches[j].offer.match].over
                      /\ {matches[j].offer.by, matches[j].accepter} = Players(matches[j].offer.match)'
                      /\ Players(j)' = Players(matches[j].offer.match)'
    BY DEF BothAgreed
  <2>1. matches[j].offer.match \in DOMAIN matches
    BY <1>0 DEF RematchesAreHonest, Honest
  <2> QED
    BY <1>0, <1>1, <2>1 DEF BothAgreed
<1>6. SpentOffersAreGone'
  BY <1>0, KindsDiffer DEF SpentOffersAreGone
<1>7. RematchConstants'
  BY <1>0 DEF RematchConstants, Seats
<1> QED
  BY <1>2, <1>3, <1>4, <1>5, <1>6, <1>7 DEF RematchInduction

\* Nothing has been offered, asked or accepted when the server starts.
LEMMA NothingIsOffered == RematchConstants /\ OffersInit => RematchInduction
<1> SUFFICES ASSUME RematchConstants, OffersInit PROVE RematchInduction
  OBVIOUS
<1>1. \A s \in Seats : OnRecord(s, FALSE, NoOffer, "none") \in Row /\ s.light # s.dark
  BY DEF Seats, OnRecord, Row
<1>2. /\ Len(FirstMatches) \in Nat /\ DOMAIN FirstMatches = 1..Len(FirstMatches)
      /\ \A i \in DOMAIN FirstMatches : FirstMatches[i] \in Seats
  BY DEF RematchConstants
<1>3. \A i \in DOMAIN FirstMatches : matches[i] = OnRecord(FirstMatches[i], FALSE, NoOffer, "none")
  BY DEF OffersInit
<1>4. DOMAIN matches = DOMAIN FirstMatches /\ matches \in Seq(Row) /\ Len(matches) = Len(FirstMatches)
  <2>1. matches = [i \in 1..Len(FirstMatches) |-> OnRecord(FirstMatches[i], FALSE, NoOffer, "none")]
    BY <1>2 DEF OffersInit
  <2>2. \A i \in 1..Len(FirstMatches) : OnRecord(FirstMatches[i], FALSE, NoOffer, "none") \in Row
    BY <1>1, <1>2
  <2>3. matches \in [1..Len(FirstMatches) -> Row]
    BY <2>1, <2>2
  <2>4. DOMAIN matches = 1..Len(FirstMatches)
    BY <2>1
  <2>5. matches \in Seq(Row) /\ Len(matches) = Len(FirstMatches)
    BY <1>2, <2>3, <2>4
  <2> QED
    BY <1>2, <2>4, <2>5
<1>5. \A i \in DOMAIN matches : matches[i].light # matches[i].dark /\ matches[i].offer = NoOffer
  BY <1>1, <1>2, <1>3, <1>4 DEF OnRecord
<1>6. RematchTyped
  BY <1>4, <1>5 DEF OffersInit, RematchTyped, RematchConstants
<1>7. OffersAreHonest /\ RematchesAreHonest /\ BothAgreed
  BY <1>5 DEF OffersInit, OffersAreHonest, RematchesAreHonest, BothAgreed
<1>8. CallsHaveRead /\ SpentOffersAreGone
  BY KindsDiffer DEF OffersInit, CallsHaveRead, SpentOffersAreGone
<1> QED
  BY <1>6, <1>7, <1>8 DEF RematchInduction

-----------------------------------------------------------------------------
(* Steps that keep the rest *)

\* A step that only forgets offers.
LEMMA OnlyForgets ==
  ASSUME RematchInduction, NEW gone, ForgetAll(gone), clock' = clock, matches' = matches,
         calls' = calls, failures' = failures,
         present' \subseteq Actors, barred' = barred, draining' = draining
  PROVE  RematchInduction'
<1>1. RematchTyped /\ stored' = stored /\ \A i \in Ids : offers'[i] \in {offers[i], NoOffer}
  BY ForgetOnlyRemoves DEF RematchInduction
<1>2. RematchTyped'
  BY <1>1, ForgetOnlyRemoves DEF RematchTyped
<1> QED
  BY <1>1, <1>2, QuietKeepsRest

LEMMA RefuseKeeps ==
  ASSUME RematchInduction, NEW a \in Actors, NEW i \in DOMAIN matches, Refuse(a, i)
  PROVE  RematchInduction'
BY OnlyForgets DEF Refuse, worldVars, RematchInduction, RematchTyped

LEMMA SweepKeeps == ASSUME RematchInduction, Sweep PROVE RematchInduction'
BY OnlyForgets DEF Sweep, worldVars, RematchInduction, RematchTyped

LEMMA DisconnectKeeps ==
  ASSUME RematchInduction, NEW a \in Actors, DisconnectPlayer(a)
  PROVE  RematchInduction'
BY OnlyForgets DEF DisconnectPlayer, RematchInduction, RematchTyped

LEMMA DrainKeeps == ASSUME RematchInduction, DrainOffers PROVE RematchInduction'
<1>1. RematchTyped'
  BY DEF RematchInduction, RematchTyped, DrainOffers
<1> QED
  BY <1>1, QuietKeepsRest DEF DrainOffers

LEMMA WorldKeeps ==
  ASSUME RematchInduction,
         \/ \E a \in Actors : ConnectPlayer(a)
         \/ \E a \in Actors : SuspendPlayer(a)
         \/ PassTime
  PROVE  RematchInduction'
<1>1. RematchTyped
  BY DEF RematchInduction
<1>2. UNCHANGED <<matches, offerVars, calls>>
  BY DEF ConnectPlayer, SuspendPlayer, PassTime
<1>3. RematchTyped'
  BY <1>1 DEF RematchTyped, ConnectPlayer, SuspendPlayer, PassTime, offerVars, worldVars
<1> QED
  BY <1>2, <1>3, QuietKeepsRest DEF offerVars

LEMMA EndMatchKeeps ==
  ASSUME RematchInduction, NEW i \in DOMAIN matches, EndMatch(i)
  PROVE  RematchInduction'
<1>1. RematchTyped /\ DOMAIN matches = 1..Len(matches) /\ Len(matches) \in Nat
  BY DEF RematchInduction, RematchTyped
<1>2. matches' = [matches EXCEPT ![i] = [matches[i] EXCEPT !.over = TRUE]]
  BY DEF EndMatch
<1>3. [matches[i] EXCEPT !.over = TRUE] \in Row
  <2>1. matches[i] \in Row
    BY <1>1 DEF RematchTyped
  <2> QED
    BY <2>1 DEF Row
<1>4. /\ DOMAIN matches' = DOMAIN matches
      /\ matches' \in Seq(Row) /\ Len(matches') = Len(matches)
  BY <1>1, <1>2, <1>3 DEF RematchTyped
<1>5. \A j \in DOMAIN matches :
        /\ matches'[j].light = matches[j].light /\ matches'[j].dark = matches[j].dark
        /\ matches'[j].offer = matches[j].offer /\ matches'[j].accepter = matches[j].accepter
        /\ matches[j].over => matches'[j].over
  <2>1. \A j \in DOMAIN matches : matches[j] \in Row
    BY <1>1 DEF RematchTyped
  <2> QED
    BY <1>2, <2>1 DEF Row
<1>6. UNCHANGED <<clock, offerVars, calls, worldVars, failures>>
  BY DEF EndMatch
<1>7. RematchTyped'
  BY <1>1, <1>4, <1>5, <1>6 DEF RematchTyped, offerVars, worldVars
<1> QED
  BY <1>4, <1>5, <1>6, <1>7, QuietKeepsRest DEF offerVars

LEMMA FailKeeps ==
  ASSUME RematchInduction, NEW t \in Calls, FailNext(t)
  PROVE  RematchInduction'
<1>1. RematchTyped'
  BY DEF RematchInduction, RematchTyped, FailNext, offerVars, worldVars
<1> QED
  BY <1>1, QuietKeepsRest DEF FailNext, offerVars, worldVars, RematchInduction, RematchTyped

-----------------------------------------------------------------------------
(* Steps of the calls *)

\* A call that has begun, or goes on, and disturbs nothing else.
LEMMA OnlyCallsMove ==
  ASSUME RematchInduction, UNCHANGED <<clock, matches, offerVars, worldVars, failures>>,
         calls' \in [Calls -> {Idle} \cup Offering \cup Accepting], CallsHaveRead',
         \A t \in Calls : calls'[t].pc = "creating" => calls'[t] = calls[t]
  PROVE  RematchInduction'
<1>1. RematchTyped /\ OffersAreHonest /\ RematchesAreHonest /\ BothAgreed /\ SpentOffersAreGone
      /\ RematchConstants
  BY DEF RematchInduction
<1>2. UNCHANGED <<clock, matches, offers, waiting, stored, present, barred, draining, failures>>
  BY DEF offerVars, worldVars
<1>3. RematchTyped' /\ RematchConstants'
  BY <1>1, <1>2 DEF RematchTyped, RematchConstants, Seats
<1>4. OffersAreHonest' /\ RematchesAreHonest' /\ BothAgreed'
  BY <1>1, <1>2 DEF OffersAreHonest, RematchesAreHonest, BothAgreed, Honest, Players
<1>5. SpentOffersAreGone'
  BY <1>1, <1>2 DEF SpentOffersAreGone
<1> QED
  BY <1>3, <1>4, <1>5 DEF RematchInduction

\* One call changes, and what it has read is so: the others have read what they had.
LEMMA OneCallMoves ==
  ASSUME RematchInduction, NEW t \in Calls, NEW c \in {Idle} \cup Offering \cup Accepting,
         UNCHANGED <<clock, matches, offerVars, worldVars, failures>>,
         calls' = [calls EXCEPT ![t] = c],
         c.pc # "creating" \/ c = calls[t],
         c # Idle =>
           /\ c.match \in DOMAIN matches
           /\ \/ c.todo # <<>> /\ Head(c.todo).read = "finished"
              \/ matches[c.match].over /\ c.actor \in Players(c.match)
           /\ c.pc # "offering" =>
                Honest(c.offer) /\ c.offer.match = c.match /\ c.actor = c.offer.opponent
           /\ c.pc = "creating" => c.todo = <<>>
  PROVE  RematchInduction'
<1>1. RematchTyped /\ CallsHaveRead
  BY DEF RematchInduction
<1>2. calls' \in [Calls -> {Idle} \cup Offering \cup Accepting]
      /\ \A u \in Calls : calls'[u] = IF u = t THEN c ELSE calls[u]
  BY <1>1 DEF RematchTyped
<1>3. UNCHANGED <<matches, stored>>
  BY DEF offerVars
<1>4. CallsHaveRead'
  <2> SUFFICES ASSUME NEW u \in Calls, calls'[u] # Idle
               PROVE  /\ calls'[u].match \in DOMAIN matches
                      /\ \/ calls'[u].todo # <<>> /\ Head(calls'[u].todo).read = "finished"
                         \/ /\ matches[calls'[u].match].over
                            /\ calls'[u].actor \in Players(calls'[u].match)
                      /\ calls'[u].pc # "offering" =>
                           /\ Honest(calls'[u].offer)
                           /\ calls'[u].offer.match = calls'[u].match
                           /\ calls'[u].actor = calls'[u].offer.opponent
                      /\ calls'[u].pc = "creating" => calls'[u].todo = <<>>
    BY <1>3 DEF CallsHaveRead, Honest, Players
  <2>1. CASE u = t
    BY <1>2, <2>1
  <2>2. CASE u # t
    BY <1>1, <1>2, <2>2 DEF CallsHaveRead
  <2> QED
    BY <2>1, <2>2
<1>5. \A u \in Calls : calls'[u].pc = "creating" => calls'[u] = calls[u]
  BY <1>2
<1> QED
  BY <1>2, <1>4, <1>5, OnlyCallsMove

LEMMA BeginRequestKeeps ==
  ASSUME RematchInduction, NEW t \in Calls, NEW a \in Actors, NEW i \in DOMAIN matches,
         BeginRequest(t, a, i)
  PROVE  RematchInduction'
<1> DEFINE c == [pc |-> "offering", actor |-> a, match |-> i,
                 todo |-> ReadFinished \o ReadReady(a)]
<1>1. i \in Ids
  BY DEF RematchInduction, RematchTyped, Ids, RematchConstants
<1>2. /\ c.todo \in Seq(Reads) /\ c.todo # <<>> /\ Head(c.todo).read = "finished"
  BY FirstRead, ReadsOfPlayers
<1>3. c \in Offering
  BY <1>1, <1>2 DEF Offering
<1>4. calls' = [calls EXCEPT ![t] = c]
      /\ UNCHANGED <<clock, matches, offerVars, worldVars, failures>>
  BY DEF BeginRequest
<1>5. c.pc = "offering" /\ c.match = i
  OBVIOUS
<1> HIDE DEF c
<1> QED
  BY <1>2, <1>3, <1>4, <1>5, OneCallMoves

LEMMA BeginAcceptKeeps ==
  ASSUME RematchInduction, NEW t \in Calls, NEW a \in Actors, NEW i \in DOMAIN matches,
         BeginAccept(t, a, i)
  PROVE  RematchInduction'
<1> DEFINE c == [pc |-> "accepting", actor |-> a, match |-> i, offer |-> offers[i],
                 todo |-> ReadFinished \o ReadReady(a) \o ReadReady(offers[i].by)]
<1>1. i \in Ids
  BY DEF RematchInduction, RematchTyped, Ids, RematchConstants
<1>2. offers[i] \in Offer /\ Honest(offers[i]) /\ offers[i].match = i /\ offers[i].by \in Actors
      /\ a = offers[i].opponent
  BY <1>1 DEF RematchInduction, RematchTyped, OffersAreHonest, BeginAccept, MayAccept, Offer
<1>3. /\ ReadReady(a) \in Seq(Reads) /\ ReadReady(offers[i].by) \in Seq(Reads)
      /\ ReadFinished \in Seq(Reads)
  BY <1>2, ReadsOfPlayers DEF ReadFinished, Reads
<1>4. c.todo = ReadFinished \o (ReadReady(a) \o ReadReady(offers[i].by))
      /\ ReadReady(a) \o ReadReady(offers[i].by) \in Seq(Reads)
  BY <1>3
<1>5. c.todo \in Seq(Reads) /\ c.todo # <<>> /\ Head(c.todo).read = "finished"
  BY <1>4, FirstRead
<1>6. c \in Accepting
  BY <1>1, <1>2, <1>5 DEF Accepting
<1>7. calls' = [calls EXCEPT ![t] = c]
      /\ UNCHANGED <<clock, matches, offerVars, worldVars, failures>>
  BY DEF BeginAccept
<1>8. c.pc = "accepting" /\ c.match = i /\ c.offer = offers[i] /\ c.actor = a
  OBVIOUS
<1> HIDE DEF c
<1> QED
  BY <1>2, <1>5, <1>6, <1>7, <1>8, OneCallMoves

\* A read that passes has shown what it asked, and a match that is over stays over.
LEMMA ReadKeeps ==
  ASSUME RematchInduction, NEW t \in Calls, Read(t)
  PROVE  RematchInduction'
<1> DEFINE call == calls[t]
           next == [call EXCEPT !.todo = Tail(@)]
           passes == Passes(Head(call.todo), call.match, call.actor)
           c == IF passes THEN next ELSE Idle
<1>1. /\ RematchTyped /\ CallsHaveRead
  BY DEF RematchInduction
<1>2. call \in Offering \cup Accepting /\ call # Idle /\ call.todo # <<>>
  BY <1>1 DEF Read, RematchTyped
<1>3. call.todo \in Seq(Reads) /\ Tail(call.todo) \in Seq(Reads)
  BY <1>2 DEF Offering, Accepting
<1>4. next \in Offering \cup Accepting /\ next.todo = Tail(call.todo)
      /\ next.pc = call.pc /\ next.match = call.match /\ next.actor = call.actor
  <2>1. CASE call \in Offering
    BY <1>3, <2>1 DEF Offering
  <2>2. CASE call \in Accepting
    BY <1>3, <2>2 DEF Accepting
  <2> QED
    BY <1>2, <2>1, <2>2
<1>5. call.pc # "offering" => next.offer = call.offer
  BY <1>2 DEF Offering, Accepting
<1>6. call.pc # "creating"
  BY <1>1, <1>2 DEF CallsHaveRead
<1>7. passes => matches[call.match].over /\ call.actor \in Players(call.match)
  <2> SUFFICES ASSUME passes PROVE matches[call.match].over /\ call.actor \in Players(call.match)
    OBVIOUS
  <2>1. CASE Head(call.todo).read = "finished"
    BY <2>1 DEF Passes
  <2>2. CASE Head(call.todo).read # "finished"
    BY <1>1, <1>2, <2>2 DEF CallsHaveRead
  <2> QED
    BY <2>1, <2>2
<1>8. c # Idle => passes /\ c = next
  OBVIOUS
<1>9. c \in {Idle} \cup Offering \cup Accepting /\ c.pc # "creating"
  BY <1>4, <1>6, KindsDiffer
<1>10. calls' = [calls EXCEPT ![t] = c] /\ UNCHANGED <<clock, matches, offerVars, worldVars, failures>>
  BY DEF Read
<1>11. call.match \in DOMAIN matches
       /\ (call.pc # "offering" => Honest(call.offer) /\ call.offer.match = call.match
                                   /\ call.actor = call.offer.opponent)
  BY <1>1, <1>2 DEF CallsHaveRead
<1> HIDE DEF c, next, passes, call
<1> QED
  BY <1>4, <1>5, <1>6, <1>7, <1>8, <1>9, <1>10, <1>11, OneCallMoves

\* The number of a new offer is new, so no match was made from it and none is being made.
LEMMA StoreOfferKeeps ==
  ASSUME RematchInduction, NEW t \in Calls, StoreOffer(t)
  PROVE  RematchInduction'
<1> DEFINE call == calls[t]
           offer == [number |-> stored + 1, match |-> call.match, by |-> call.actor,
                     opponent |-> OpponentOf(call.match, call.actor),
                     expiresAt |-> clock + OfferLife]
<1>1. /\ RematchTyped /\ OffersAreHonest /\ CallsHaveRead /\ RematchesAreHonest
      /\ BothAgreed /\ SpentOffersAreGone /\ RematchConstants
  BY DEF RematchInduction
<1>2. call \in Offering /\ call # Idle /\ call.todo = <<>>
  BY <1>1, KindsDiffer DEF StoreOffer, RematchTyped
<1>3. call.match \in DOMAIN matches /\ call.match \in Ids /\ call.actor \in Actors
      /\ call.actor \in Players(call.match)
  BY <1>1, <1>2 DEF CallsHaveRead, Offering
<1>4. /\ OpponentOf(call.match, call.actor) \in Actors
      /\ {call.actor, OpponentOf(call.match, call.actor)} = Players(call.match)
  BY <1>1, <1>3, OpponentIsOther
<1>5. offer \in Offer
  BY <1>1, <1>3, <1>4 DEF Offer, RematchTyped, RematchConstants
<1>6. /\ stored' = stored + 1 /\ stored \in Nat
      /\ offers' = [offers EXCEPT ![call.match] = offer]
      /\ waiting' = [waiting EXCEPT ![call.actor] = call.match]
      /\ calls' = [calls EXCEPT ![t] = Idle]
      /\ UNCHANGED <<clock, matches, worldVars, failures>>
  BY <1>1 DEF StoreOffer, RematchTyped
<1>7. /\ \A i \in Ids : offers'[i] = IF i = call.match THEN offer ELSE offers[i]
      /\ \A u \in Calls : calls'[u] \in {calls[u], Idle}
  BY <1>1, <1>3, <1>6 DEF RematchTyped
<1>8. /\ offer.match = call.match /\ offer.number = stored + 1
      /\ {offer.by, offer.opponent} = Players(call.match)
  BY <1>4
<1> HIDE DEF offer, call
<1>9. RematchTyped' /\ RematchConstants'
  BY <1>1, <1>3, <1>5, <1>6 DEF RematchTyped, RematchConstants, Seats, worldVars
<1>10. \A o \in Offer : Honest(o) => Honest(o)' /\ o # offer
  BY <1>6, <1>8 DEF Honest, Players, Offer
<1>11. OffersAreHonest'
  <2> SUFFICES ASSUME NEW i \in Ids, offers'[i] # NoOffer
               PROVE  Honest(offers[i])' /\ offers'[i].match = i
    BY DEF OffersAreHonest
  <2>1. CASE i = call.match
    <3>1. offers'[i] = offer
      BY <1>7, <2>1
    <3>2. {offer.by, offer.opponent} = {matches[offer.match].light, matches[offer.match].dark}
      BY <1>8 DEF Players
    <3> QED
      BY <1>3, <1>6, <1>8, <2>1, <3>1, <3>2 DEF Honest, Players
  <2>2. CASE i # call.match
    <3>1. offers'[i] = offers[i] /\ offers[i] \in Offer
      BY <1>1, <1>7, <2>2 DEF RematchTyped
    <3>2. Honest(offers[i]) /\ offers[i].match = i
      BY <1>1, <3>1, KindsDiffer DEF OffersAreHonest
    <3>3. offers[i].number \in Nat
      BY <3>1 DEF Offer
    <3> QED
      BY <1>6, <3>1, <3>2, <3>3 DEF Honest, Players
  <2> QED
    BY <2>1, <2>2
<1>12. CallsHaveRead'
  <2> SUFFICES ASSUME NEW u \in Calls, calls'[u] = calls[u], calls[u] # Idle
               PROVE  /\ calls[u].match \in DOMAIN matches
                      /\ \/ calls[u].todo # <<>> /\ Head(calls[u].todo).read = "finished"
                         \/ matches[calls[u].match].over /\ calls[u].actor \in Players(calls[u].match)
                      /\ calls[u].pc # "offering" =>
                           /\ Honest(calls[u].offer)' /\ calls[u].offer.match = calls[u].match
                           /\ calls[u].actor = calls[u].offer.opponent
                      /\ calls[u].pc = "creating" => calls[u].todo = <<>>
    BY <1>6, <1>7 DEF CallsHaveRead, Honest, Players
  <2>1. calls[u].pc # "offering" => calls[u].offer \in Offer
    BY <1>1, KindsDiffer DEF RematchTyped, Accepting
  <2> QED
    BY <1>1, <1>10, <2>1 DEF CallsHaveRead
<1>13. \A j \in DOMAIN matches : matches[j] \in Row
  BY <1>1 DEF RematchTyped
<1>14. RematchesAreHonest' /\ BothAgreed'
  <2>1. RematchesAreHonest'
    BY <1>1, <1>6, <1>10, <1>13 DEF RematchesAreHonest, Row
  <2> QED
    BY <1>1, <1>6, <2>1 DEF BothAgreed, Players
<1>15. SpentOffersAreGone'
  <2> SUFFICES ASSUME NEW i \in Ids, offers'[i] # NoOffer
               PROVE  /\ \A j \in DOMAIN matches : matches[j].offer # offers'[i]
                      /\ \A u \in Calls : calls'[u].pc = "creating" => calls'[u].offer # offers'[i]
    BY <1>6 DEF SpentOffersAreGone
  <2>1. CASE i = call.match
    <3>1. offers'[i] = offer
      BY <1>7, <2>1
    <3>2. \A j \in DOMAIN matches : matches[j].offer # offer
      BY <1>1, <1>5, <1>10, <1>13, KindsDiffer DEF RematchesAreHonest, Row
    <3>3. ASSUME NEW u \in Calls, calls'[u].pc = "creating" PROVE calls'[u].offer # offer
      <4>1. calls'[u] = calls[u] /\ calls[u] # Idle /\ calls[u].offer \in Offer
        BY <1>1, <1>7, <3>3, KindsDiffer DEF RematchTyped, Accepting
      <4> QED
        BY <1>1, <1>10, <3>3, <4>1 DEF CallsHaveRead
    <3> QED
      BY <3>1, <3>2, <3>3
  <2>2. CASE i # call.match
    BY <1>1, <1>7, <2>2, KindsDiffer DEF SpentOffersAreGone
  <2> QED
    BY <2>1, <2>2
<1> QED
  BY <1>9, <1>11, <1>12, <1>14, <1>15 DEF RematchInduction

\* The offer is forgotten in the frame that spends it.
LEMMA AcceptOfferKeeps ==
  ASSUME RematchInduction, NEW t \in Calls, AcceptOffer(t)
  PROVE  RematchInduction'
<1> DEFINE call == calls[t]
           creating == [call EXCEPT !.pc = "creating"]
<1>1. /\ RematchTyped /\ OffersAreHonest /\ CallsHaveRead /\ RematchesAreHonest
      /\ BothAgreed /\ SpentOffersAreGone /\ RematchConstants
  BY DEF RematchInduction
<1>2. call \in Accepting /\ call # Idle /\ call.todo = <<>> /\ call.pc = "accepting"
      /\ call.offer.match \in Ids
  BY <1>1, KindsDiffer DEF AcceptOffer, RematchTyped, Accepting, Offer
<1>3. /\ creating \in Accepting /\ creating.pc = "creating" /\ creating.todo = <<>>
      /\ creating.match = call.match /\ creating.offer = call.offer /\ creating.actor = call.actor
  BY <1>2 DEF Accepting
<1>4. /\ calls' = [calls EXCEPT ![t] = creating]
      /\ UNCHANGED <<clock, matches, worldVars, failures>>
      /\ ForgetAll({call.offer})
  BY DEF AcceptOffer
<1>5. \A u \in Calls : calls'[u] = IF u = t THEN creating ELSE calls[u]
  BY <1>1, <1>4 DEF RematchTyped
<1> HIDE DEF call, creating
<1>6. /\ \A i \in Ids : offers'[i] \in {offers[i], NoOffer}
      /\ offers'[call.offer.match] = NoOffer /\ stored' = stored
      /\ RematchTyped' /\ RematchConstants'
  BY <1>1, <1>2, <1>3, <1>4, ForgetOnlyRemoves DEF RematchTyped, RematchConstants, Seats, worldVars
<1>7. OffersAreHonest' /\ RematchesAreHonest' /\ BothAgreed'
  BY <1>1, <1>4, <1>6 DEF OffersAreHonest, RematchesAreHonest, BothAgreed, Honest, Players
<1>8. CallsHaveRead'
  <2> SUFFICES ASSUME NEW u \in Calls, calls'[u] # Idle
               PROVE  /\ calls'[u].match \in DOMAIN matches
                      /\ \/ calls'[u].todo # <<>> /\ Head(calls'[u].todo).read = "finished"
                         \/ /\ matches[calls'[u].match].over
                            /\ calls'[u].actor \in Players(calls'[u].match)
                      /\ calls'[u].pc # "offering" =>
                           /\ Honest(calls'[u].offer)
                           /\ calls'[u].offer.match = calls'[u].match
                           /\ calls'[u].actor = calls'[u].offer.opponent
                      /\ calls'[u].pc = "creating" => calls'[u].todo = <<>>
    BY <1>4, <1>6 DEF CallsHaveRead, Honest, Players
  <2>1. CASE u = t
    BY <1>1, <1>2, <1>3, <1>5, <2>1 DEF CallsHaveRead, call
  <2>2. CASE u # t
    BY <1>1, <1>5, <2>2 DEF CallsHaveRead
  <2> QED
    BY <2>1, <2>2
<1>9. SpentOffersAreGone'
  <2> SUFFICES ASSUME NEW i \in Ids, offers'[i] # NoOffer
               PROVE  /\ \A j \in DOMAIN matches : matches[j].offer # offers'[i]
                      /\ \A u \in Calls : calls'[u].pc = "creating" => calls'[u].offer # offers'[i]
    BY <1>4 DEF SpentOffersAreGone
  <2>1. offers'[i] = offers[i] /\ i # call.offer.match
    BY <1>6
  <2>2. offers[i].match = i
    BY <1>1, <2>1 DEF OffersAreHonest
  <2> QED
    BY <1>1, <1>3, <1>5, <2>1, <2>2 DEF SpentOffersAreGone
<1> QED
  BY <1>6, <1>7, <1>8, <1>9 DEF RematchInduction

\* A match that is added leaves every earlier one, and every offer, as it was; what remains
\* to be shown is that the new one was agreed and that its offer is spent.
LEMMA AddedMatch ==
  ASSUME RematchInduction, NEW row \in Row, row.light # row.dark,
         Len(matches) < MaxMatches, matches' = Append(matches, row),
         UNCHANGED <<clock, offerVars, worldVars, failures>>,
         calls' \in [Calls -> {Idle} \cup Offering \cup Accepting],
         \A t \in Calls : calls'[t] \in {calls[t], Idle},
         row.offer # NoOffer =>
           /\ Honest(row.offer) /\ matches[row.offer.match].over
           /\ {row.offer.by, row.accepter} = Players(row.offer.match)
           /\ {row.light, row.dark} = Players(row.offer.match)
           /\ \A i \in Ids : offers[i] # row.offer
  PROVE  RematchInduction'
<1>1. /\ RematchTyped /\ OffersAreHonest /\ CallsHaveRead /\ RematchesAreHonest
      /\ BothAgreed /\ SpentOffersAreGone /\ RematchConstants
  BY DEF RematchInduction
<1>2. /\ DOMAIN matches \subseteq DOMAIN matches'
      /\ \A i \in DOMAIN matches : matches'[i] = matches[i] /\ Players(i)' = Players(i)
      /\ \A i \in DOMAIN matches' : i \in DOMAIN matches \/ matches'[i] = row
      /\ Len(matches') = Len(matches) + 1 /\ matches' \in Seq(Row)
  BY <1>1, Recorded
<1>3. UNCHANGED <<clock, offers, waiting, stored, present, barred, draining, failures>>
  BY DEF offerVars, worldVars
<1>4. Len(matches) \in Nat /\ MaxMatches \in Nat
  BY <1>1 DEF RematchTyped, RematchConstants
<1>5. RematchTyped'
  BY <1>1, <1>2, <1>3, <1>4 DEF RematchTyped
<1>6. OffersAreHonest'
  BY <1>1, <1>2, <1>3 DEF OffersAreHonest, Honest
<1>7. CallsHaveRead'
  <2> SUFFICES ASSUME NEW u \in Calls, calls'[u] = calls[u], calls[u] # Idle
               PROVE  /\ calls[u].match \in DOMAIN matches'
                      /\ \/ calls[u].todo # <<>> /\ Head(calls[u].todo).read = "finished"
                         \/ /\ matches'[calls[u].match].over
                            /\ calls[u].actor \in Players(calls[u].match)
                      /\ calls[u].pc # "offering" =>
                           /\ Honest(calls[u].offer)' /\ calls[u].offer.match = calls[u].match
                           /\ calls[u].actor = calls[u].offer.opponent
                      /\ calls[u].pc = "creating" => calls[u].todo = <<>>
    BY <1>1, <1>2 DEF CallsHaveRead
  <2>1. ASSUME calls[u].pc # "offering", Honest(calls[u].offer) PROVE Honest(calls[u].offer)'
    BY <1>2, <1>3, <2>1 DEF Honest
  <2> QED
    BY <1>1, <1>2, <2>1 DEF CallsHaveRead
<1>8. ASSUME NEW j \in DOMAIN matches', matches'[j].offer # NoOffer
      PROVE  /\ Honest(matches'[j].offer)
             /\ matches[matches'[j].offer.match].over
             /\ {matches'[j].offer.by, matches'[j].accepter} = Players(matches'[j].offer.match)
             /\ {matches'[j].light, matches'[j].dark} = Players(matches'[j].offer.match)
             /\ \A i \in Ids : offers[i] # NoOffer => offers[i] # matches'[j].offer
  <2>1. CASE j \in DOMAIN matches
    <3>1. matches'[j] = matches[j]
      BY <1>2, <2>1
    <3>2. {matches[j].light, matches[j].dark} = Players(j)
      BY DEF Players
    <3>3. Honest(matches[j].offer)
      BY <1>1, <1>8, <2>1, <3>1 DEF RematchesAreHonest
    <3>4. /\ matches[matches[j].offer.match].over
          /\ {matches[j].offer.by, matches[j].accepter} = Players(matches[j].offer.match)
          /\ Players(j) = Players(matches[j].offer.match)
      BY <1>1, <1>8, <2>1, <3>1 DEF BothAgreed
    <3>5. \A i \in Ids : offers[i] # NoOffer => offers[i] # matches[j].offer
      BY <1>1, <2>1 DEF SpentOffersAreGone
    <3> QED
      BY <3>1, <3>2, <3>3, <3>4, <3>5
  <2>2. CASE j \notin DOMAIN matches
    BY <1>2, <1>8, <2>2
  <2> QED
    BY <2>1, <2>2
<1>9. RematchesAreHonest' /\ BothAgreed'
  <2>1. ASSUME NEW j \in DOMAIN matches', matches'[j].offer # NoOffer
        PROVE  /\ matches'[j].offer.match \in DOMAIN matches
               /\ matches'[matches'[j].offer.match] = matches[matches'[j].offer.match]
               /\ matches'[j].offer.number <= stored'
               /\ {matches'[j].offer.by, matches'[j].offer.opponent}
                    = {matches[matches'[j].offer.match].light, matches[matches'[j].offer.match].dark}
    BY <1>2, <1>3, <1>8, <2>1 DEF Honest, Players
  <2>2. RematchesAreHonest'
    BY <1>2, <2>1 DEF RematchesAreHonest, Honest, Players
  <2>3. BothAgreed'
    BY <1>2, <1>8, <2>1 DEF BothAgreed, Players
  <2> QED
    BY <2>2, <2>3
<1>10. SpentOffersAreGone'
  <2>1. \A t \in Calls : calls'[t].pc = "creating" => calls'[t] = calls[t]
    BY KindsDiffer
  <2>2. \A j \in DOMAIN matches' : \A i \in Ids :
          offers[i] # NoOffer => offers[i] # matches'[j].offer
    BY <1>8
  <2> QED
    BY <1>1, <1>3, <2>1, <2>2 DEF SpentOffersAreGone
<1>11. RematchConstants'
  BY <1>1 DEF RematchConstants, Seats
<1> QED
  BY <1>5, <1>6, <1>7, <1>9, <1>10, <1>11 DEF RematchInduction

LEMMA CommitNextKeeps ==
  ASSUME RematchInduction, NEW t \in Calls, CommitNext(t)
  PROVE  RematchInduction'
<1> DEFINE call == calls[t]
           previous == matches[call.match]
           row == OnRecord([light |-> previous.dark, dark |-> previous.light], FALSE,
                           call.offer, call.actor)
<1>1. RematchTyped /\ CallsHaveRead /\ SpentOffersAreGone
  BY DEF RematchInduction
<1>2. call \in Accepting /\ call # Idle /\ call.pc = "creating" /\ call.todo = <<>>
  BY <1>1, KindsDiffer DEF CommitNext, CallsHaveRead, RematchTyped
<1>3. /\ call.match \in DOMAIN matches /\ previous.over /\ call.actor \in Players(call.match)
      /\ Honest(call.offer) /\ call.offer.match = call.match /\ call.actor = call.offer.opponent
  BY <1>1, <1>2 DEF CallsHaveRead
<1>4. /\ previous \in Row /\ previous.light # previous.dark
      /\ {previous.light, previous.dark} = Players(call.match)
  BY <1>1, <1>3 DEF RematchTyped, Players
<1>5. /\ row \in Row /\ row.light # row.dark /\ row.offer = call.offer
      /\ row.accepter = call.actor /\ {row.light, row.dark} = Players(call.match)
  BY <1>2, <1>4, SMTT(40) DEF OnRecord, Row, Accepting
<1>6. {row.offer.by, row.accepter} = Players(row.offer.match)
  BY <1>3, <1>5 DEF Honest
<1>7. \A i \in Ids : offers[i] # call.offer
  <2>1. call.offer \in Offer
    BY <1>2 DEF Accepting
  <2> QED
    BY <1>1, <1>2, <2>1, KindsDiffer DEF SpentOffersAreGone
<1>8. /\ Len(matches) < MaxMatches /\ matches' = Append(matches, row)
      /\ calls' = [calls EXCEPT ![t] = Idle]
      /\ UNCHANGED <<clock, offerVars, worldVars, failures>>
  BY DEF CommitNext
<1>9. calls' \in [Calls -> {Idle} \cup Offering \cup Accepting]
      /\ \A u \in Calls : calls'[u] \in {calls[u], Idle}
  BY <1>1, <1>8 DEF RematchTyped
<1> HIDE DEF row
<1>10. /\ Honest(row.offer) /\ matches[row.offer.match].over
       /\ {row.light, row.dark} = Players(row.offer.match)
       /\ \A i \in Ids : offers[i] # row.offer
  BY <1>3, <1>5, <1>7
<1> QED
  BY <1>5, <1>6, <1>8, <1>9, <1>10, AddedMatch

LEMMA SeatElsewhereKeeps ==
  ASSUME RematchInduction, NEW seats \in Elsewhere, SeatElsewhere(seats)
  PROVE  RematchInduction'
<1> DEFINE row == OnRecord(seats, FALSE, NoOffer, "none")
<1>1. seats \in Seats
  BY DEF RematchInduction, RematchConstants
<1>2. row \in Row /\ row.light # row.dark /\ row.offer = NoOffer
  BY <1>1 DEF OnRecord, Row, Seats
<1>3. /\ Len(matches) < MaxMatches /\ matches' = Append(matches, row)
      /\ calls' = calls /\ UNCHANGED <<clock, offerVars, worldVars, failures>>
  BY DEF SeatElsewhere
<1>4. calls' \in [Calls -> {Idle} \cup Offering \cup Accepting]
  BY <1>3 DEF RematchInduction, RematchTyped
<1> HIDE DEF row
<1> QED
  BY <1>2, <1>3, <1>4, AddedMatch

-----------------------------------------------------------------------------
LEMMA RematchStep == ASSUME RematchInduction, [OffersNext]_rematchVars PROVE RematchInduction'
<1>1. CASE \E t \in Calls, a \in Actors, i \in DOMAIN matches :
             BeginRequest(t, a, i) \/ BeginAccept(t, a, i)
  BY <1>1, BeginRequestKeeps, BeginAcceptKeeps
<1>2. CASE \E t \in Calls : CallStep(t)
  BY <1>2, ReadKeeps, StoreOfferKeeps, AcceptOfferKeeps, CommitNextKeeps, FailKeeps DEF CallStep
<1>3. CASE \E a \in Actors, i \in DOMAIN matches : Refuse(a, i)
  BY <1>3, RefuseKeeps
<1>4. CASE (\E a \in Actors : DisconnectPlayer(a)) \/ Sweep \/ DrainOffers
  BY <1>4, DisconnectKeeps, SweepKeeps, DrainKeeps
<1>5. CASE (\E a \in Actors : ConnectPlayer(a)) \/ (\E a \in Actors : SuspendPlayer(a)) \/ PassTime
  BY <1>5, WorldKeeps
<1>6. CASE \E seats \in Elsewhere : SeatElsewhere(seats)
  BY <1>6, SeatElsewhereKeeps
<1>7. CASE \E i \in DOMAIN matches : EndMatch(i)
  BY <1>7, EndMatchKeeps
<1>8. CASE UNCHANGED rematchVars
  <2>1. /\ RematchTyped' /\ DOMAIN matches' = DOMAIN matches /\ stored' = stored
        /\ offers' = offers /\ calls' = calls /\ matches' = matches
    BY <1>8 DEF rematchVars, offerVars, worldVars, RematchInduction, RematchTyped
  <2> QED
    BY <2>1, QuietKeepsRest
<1> QED
  BY <1>1, <1>2, <1>3, <1>4, <1>5, <1>6, <1>7, <1>8 DEF OffersNext

LEMMA RematchMeans == RematchInduction => OffersAreHonoured
<1> SUFFICES ASSUME RematchInduction PROVE OffersTypeOK
  BY DEF RematchInduction, OffersAreHonoured
<1>1. RematchTyped /\ OffersAreHonest
  BY DEF RematchInduction
<1>2. \A i \in DOMAIN matches :
        /\ matches[i].light \in Actors /\ matches[i].dark \in Actors \ {matches[i].light}
        /\ matches[i].offer \in Offer \cup {NoOffer}
  <2> SUFFICES ASSUME NEW i \in DOMAIN matches
               PROVE  /\ matches[i].light \in Actors /\ matches[i].dark \in Actors \ {matches[i].light}
                      /\ matches[i].offer \in Offer \cup {NoOffer}
    OBVIOUS
  <2>1. matches[i] \in Row /\ matches[i].light # matches[i].dark
    BY <1>1 DEF RematchTyped
  <2> QED
    BY <2>1 DEF Row
<1>3. \A i \in Ids : offers[i] # NoOffer =>
        offers[i].match = i /\ i \in DOMAIN matches /\ offers[i].by # offers[i].opponent
  <2> SUFFICES ASSUME NEW i \in Ids, offers[i] # NoOffer
               PROVE  offers[i].match = i /\ i \in DOMAIN matches /\ offers[i].by # offers[i].opponent
    OBVIOUS
  <2>1. Honest(offers[i]) /\ offers[i].match = i
    BY <1>1 DEF OffersAreHonest
  <2>2. matches[i].light # matches[i].dark
        /\ {offers[i].by, offers[i].opponent} = {matches[i].light, matches[i].dark}
    BY <1>1, <2>1 DEF Honest, Players, RematchTyped
  <2> QED
    BY <2>1, <2>2 DEF Honest
<1> QED
  BY <1>1, <1>2, <1>3 DEF RematchTyped, OffersTypeOK

\* However requests, answers, disconnections, deadlines and restarts of the queue cross: a
\* rematch is one that both players of a finished match asked for, and an offer that has
\* been answered is not there to be answered again (rematch.ts, request and respond).
THEOREM OffersAreAlwaysHonoured == RematchConstants /\ OffersSpec => []OffersAreHonoured
<1>1. RematchConstants /\ OffersInit => RematchInduction
  BY NothingIsOffered
<1>2. RematchInduction /\ [OffersNext]_rematchVars => RematchInduction'
  BY RematchStep
<1>3. RematchInduction => OffersAreHonoured
  BY RematchMeans
<1> QED
  BY <1>1, <1>2, <1>3, PTL DEF OffersSpec
=============================================================================
