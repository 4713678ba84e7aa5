-------------------------- MODULE WebClientProofs --------------------------
(***************************************************************************)
(* A window's connection knows its player, whatever is lost on the way and  *)
(* whichever screen asked.                                                  *)
(***************************************************************************)
EXTENDS WebClient, SequenceTheorems, TLAPS

-----------------------------------------------------------------------------
(* What can be on the wire, and the state it belongs to.                    *)

Versions == 1..Len(Legal)
Orders == [type : {"command"}, mount : Nat, version : Versions,
           move : (Origin \X Square) \cup {Resignation}]

Continuations == [type : {"join"}, mount : Nat] \cup [type : {"mute"}, mutes : Preferences]
Questions ==
  Continuations \cup [type : {"sync"}, mount : Nat, retry : BOOLEAN] \cup [type : {"leave"}]
  \cup [type : {"authenticate"}, of : Periods, token : Session \cup {Nobody}] \cup Orders

Events ==
  [type : {"ready"}, actor : Session] \cup [type : {"welcome", "refused"}, of : Periods]
  \cup [type : {"status", "ended"}]
  \cup [type : {"joined"}, mount : Nat, state : {"queued", "matched", "refused"}]
  \cup [type : {"found", "committed"}, version : Versions]
  \cup [type : {"snapshot"}, mount : Nat, retry : BOOLEAN, version : Versions, over : BOOLEAN]
  \cup [type : {"gone"}, mount : Nat]
  \cup [type : {"answer"}, command : Orders, ok : BOOLEAN, version : Versions, over : BOOLEAN]

Sockets ==
  [link : BOOLEAN, connections : 0..MaxConnections, barred : BOOLEAN,
   handshake : [of : {0} \cup Periods, settled : BOOLEAN],
   waiting : [Periods -> Seq(Continuations)], opening : [of : {0} \cup Periods, place : Nat],
   out : Seq(Questions), in : Seq(Events), told : SUBSET Preferences]

Boards ==
  [phase : {"connecting", "authenticating", "ready", "lost", "reconnecting"},
   shown : 0..Len(Legal), over : BOOLEAN, ended : BOOLEAN,
   pending : Orders \cup {NoCommand}, selected : Origin \cup {NoOrigin}]

WindowTyped ==
  /\ screen \in {"home", "play", "match", "closed"} /\ visits \in Nat \ {0}
  /\ session \in Session \cup {Nobody} /\ actor \in Session \cup {Nobody}
  /\ vault \in Session \cup {Nobody} /\ saves \in Seq(Session \cup {Nobody}) /\ lost \in BOOLEAN
  /\ phase \in {"idle", "joining", "waiting", "matched", "refused"}
  /\ mutes \in Preferences /\ board \in Boards
  /\ quit \in [asked : BOOLEAN, awaited : Orders \cup {NoCommand},
               how : {"open", "free", "unheard", "resigned"}, at : Nat]
  /\ who \in Session \cup {Nobody} /\ joining \in Seq(Nat)
  /\ entry \in Session \cup {Nobody} /\ player \in Session \cup {Nobody}
  /\ over \in BOOLEAN /\ version \in 0..Len(Legal)

-----------------------------------------------------------------------------
(* The inductive invariant. *)

Asks(f) == f.type = "authenticate"
Settles(e) == e.type \in {"welcome", "refused"}

\* Handshakes are answered in the order they were asked, and nobody waits for one that
\* is not on its way.
Queued(s) ==
  /\ \A i, j \in DOMAIN s.out : i < j /\ Asks(s.out[i]) /\ Asks(s.out[j]) => s.out[i].of < s.out[j].of
  /\ \A i, j \in DOMAIN s.in : i < j /\ Settles(s.in[i]) /\ Settles(s.in[j]) => s.in[i].of < s.in[j].of
  /\ \A i \in DOMAIN s.in, j \in DOMAIN s.out :
       Settles(s.in[i]) /\ Asks(s.out[j]) => s.in[i].of < s.out[j].of
Recent(s, p) == p <= Period(s) /\ (s.handshake.of = 0 => p < Period(s))
AllRecent(s) ==
  /\ \A i \in DOMAIN s.out : Asks(s.out[i]) => Recent(s, s.out[i].of)
  /\ \A i \in DOMAIN s.in : Settles(s.in[i]) => Recent(s, s.in[i].of)
OnItsWay(s, p) ==
  \/ \E i \in DOMAIN s.out : Asks(s.out[i]) /\ s.out[i].of = p
  \/ \E i \in DOMAIN s.in : Settles(s.in[i]) /\ s.in[i].of = p

Sound(s) ==
  /\ s \in Sockets
  /\ ~s.link => s.in = <<>> /\ ~s.handshake.settled
  /\ s.handshake.of \in {0, Period(s)}
  /\ s.handshake.of # 0 /\ ~s.handshake.settled => OnItsWay(s, s.handshake.of)
  /\ s.handshake.settled => s.handshake.of # 0 /\ s.waiting = Nothing
  /\ Queued(s) /\ AllRecent(s)
  /\ \A p \in Periods : s.waiting[p] # <<>> => OnItsWay(s, p)
  /\ s.opening.of # 0 => s.opening.place \in 1..Len(s.waiting[s.opening.of]) + 1

\* What only a connection that the server knows carries.
Private == {"join", "sync", "mute", "command"}
Known(s, w) ==
  /\ s.handshake.settled => w # Nobody
  /\ \A i \in DOMAIN s.out : s.out[i].type \in Private => s.link /\ w # Nobody
  /\ \A i \in DOMAIN s.in : s.in[i].type \in {"welcome", "snapshot"} => w # Nobody

\* The orders and versions under way are of the match's past, and were given by screens
\* that showed it: ms are the mounts that do, v the version, o whether the match is over.
Given(c, ms, v) ==
  c.mount \in ms /\ c.version <= v /\ (c.move # Resignation => c.move \in Legal[c.version])
Late(c, v, o) == c.move = Resignation => o \/ c.version < v
Told(e, ms, v, o) ==
  /\ e.type \in {"found", "committed", "snapshot", "answer"} => e.version <= v
  /\ e.type = "answer" => Given(e.command, ms, v) /\ Late(e.command, v, o)
Carried(s, ms, v, o) ==
  /\ \A i \in DOMAIN s.out : s.out[i].type = "command" => Given(s.out[i], ms, v)
  /\ \A i \in DOMAIN s.in : Told(s.in[i], ms, v, o)
Showing == {m \in 1..visits : screen = "match" /\ m = visits => board.shown # 0}

Fine(s, w, ms, v, o) == Sound(s) /\ Known(s, w) /\ Carried(s, ms, v, o)

\* What the connection was told of the mutes, or is about to be.
Telling(s, m) ==
  /\ s.handshake.of # 0
  /\ IF Said(s.waiting[s.handshake.of]) # {} THEN Said(s.waiting[s.handshake.of]) = {m}
     ELSE s.told = {m} /\ \A p \in Periods : Said(s.waiting[p]) = {}

ShownIsPast ==
  /\ player = Nobody <=> version = 0
  /\ board.shown <= version
  /\ board.pending # NoCommand => Given(board.pending, Showing, version) /\ board.shown # 0
  /\ board.phase = "ready" => sock.link /\ who # Nobody
Screened ==
  /\ screen # "play" => phase = "idle"
  /\ screen # "match" => board = NoBoard /\ sock.opening.of = 0
  /\ screen = "closed" => ~sock.link
CloseWaits ==
  /\ quit.asked => board.shown # 0
  /\ quit.awaited # NoCommand => quit.awaited.move = Resignation
  /\ quit.how = "resigned" => over \/ quit.at < version
Stored ==
  /\ screen = "closed" => saves = <<>>
  /\ screen # "closed" /\ saves # <<>> => saves[Len(saves)] = session
  /\ screen # "closed" /\ saves = <<>> /\ ~lost => vault = session

ClientInduction ==
  /\ WindowTyped
  /\ Fine(sock, who, Showing, version, over)
  /\ ShownIsPast /\ Screened /\ CloseWaits /\ Stored
  /\ joining # <<>> => who # Nobody
  /\ Seated(board, actor) /\ sock.link => Telling(sock, mutes)

-----------------------------------------------------------------------------
(* Sequences of frames. *)

LEMMA RestOf ==
  ASSUME NEW S, NEW q \in Seq(S), q # <<>>
  PROVE  /\ 1 \in DOMAIN q /\ Head(q) = q[1] /\ q[1] \in S
         /\ Tail(q) \in Seq(S)
         /\ \A i \in DOMAIN Tail(q) : i \in Nat /\ i + 1 \in DOMAIN q /\ Tail(q)[i] = q[i + 1]
         /\ \A i \in DOMAIN q : i = 1 \/ (i - 1 \in DOMAIN Tail(q) /\ Tail(q)[i - 1] = q[i])
OBVIOUS

LEMMA BothOf ==
  ASSUME NEW S, NEW q \in Seq(S), NEW r \in Seq(S)
  PROVE  /\ q \o r \in Seq(S)
         /\ \A i \in DOMAIN (q \o r) :
              \/ i \in DOMAIN q /\ (q \o r)[i] = q[i]
              \/ i > Len(q) /\ i - Len(q) \in DOMAIN r /\ (q \o r)[i] = r[i - Len(q)]
         /\ \A i \in DOMAIN q : i \in DOMAIN (q \o r) /\ (q \o r)[i] = q[i]
         /\ \A i \in DOMAIN r : i + Len(q) \in DOMAIN (q \o r) /\ (q \o r)[i + Len(q)] = r[i]
OBVIOUS

LEMMA MoreOf ==
  ASSUME NEW S, NEW q \in Seq(S), NEW x \in S
  PROVE  /\ Append(q, x) \in Seq(S)
         /\ \A i \in DOMAIN Append(q, x) :
              \/ i \in DOMAIN q /\ Append(q, x)[i] = q[i]
              \/ i = Len(q) + 1 /\ Append(q, x)[i] = x
         /\ \A i \in DOMAIN q : i \in DOMAIN Append(q, x) /\ Append(q, x)[i] = q[i]
         /\ Len(q) + 1 \in DOMAIN Append(q, x) /\ Append(q, x)[Len(q) + 1] = x
OBVIOUS

LEMMA Inserted ==
  ASSUME NEW S, NEW q \in Seq(S), NEW n \in 1..Len(q) + 1, NEW k \in S
  PROVE  /\ InsertAt(q, n, k) \in Seq(S) /\ Len(InsertAt(q, n, k)) = Len(q) + 1
         /\ \A i \in 1..Len(q) + 1 :
              InsertAt(q, n, k)[i] = IF i < n THEN q[i] ELSE IF i = n THEN k ELSE q[i - 1]
<1> DEFINE a == SubSeq(q, 1, n - 1)
           b == SubSeq(q, n, Len(q))
           c == a \o <<k>>
<1>0. n \in Nat /\ Len(q) \in Nat
  OBVIOUS
<1>1. a \in Seq(S) /\ Len(a) = n - 1 /\ \A i \in 1..n - 1 : a[i] = q[i]
  OBVIOUS
<1>2. b \in Seq(S) /\ Len(b) = Len(q) - n + 1 /\ \A i \in 1..Len(q) - n + 1 : b[i] = q[n + i - 1]
  OBVIOUS
<1>3. InsertAt(q, n, k) = c \o b
  BY DEF InsertAt
<1> HIDE DEF a, b
<1>4. c \in Seq(S) /\ Len(c) = n
  BY <1>0, <1>1
<1>5. \A i \in 1..n : c[i] = IF i < n THEN q[i] ELSE k
  BY <1>0, <1>1
<1> HIDE DEF c
<1> DEFINE d == c \o b
<1>6. d \in Seq(S) /\ Len(d) = Len(q) + 1
  BY <1>0, <1>2, <1>4
<1>7. \A i \in 1..Len(q) + 1 : d[i] = IF i <= n THEN c[i] ELSE b[i - n]
  BY <1>0, <1>2, <1>4
<1>8. \A i \in 1..Len(q) + 1 : i > n => b[i - n] = q[i - 1]
  BY <1>0, <1>2
<1> HIDE DEF d
<1>9. \A i \in 1..Len(q) + 1 :
        d[i] = IF i < n THEN q[i] ELSE IF i = n THEN k ELSE q[i - 1]
  <2> TAKE i \in 1..Len(q) + 1
  <2>1. CASE i < n
    BY <1>0, <1>5, <1>7, <2>1
  <2>2. CASE i = n
    BY <1>0, <1>5, <1>7, <2>2
  <2>3. CASE i > n
    BY <1>0, <1>7, <1>8, <2>3
  <2> QED BY <1>0, <2>1, <2>2, <2>3
<1> QED BY <1>3, <1>6, <1>9 DEF d

-----------------------------------------------------------------------------
(* What frames say of the mutes. *)

LEMMA SaidLast ==
  ASSUME NEW S, NEW q \in Seq(S), NEW m
  PROVE  Said(q \o <<Mute(m)>>) = {m}
<1> DEFINE r == q \o <<Mute(m)>>
           n == Len(q) + 1
<1>1. n \in DOMAIN r /\ r[n] = Mute(m) /\ \A i \in DOMAIN r : i <= n
  OBVIOUS
<1> HIDE DEF r, n
<1>2. n \in Mutes(r) /\ \A i \in Mutes(r) : i <= n
  BY <1>1 DEF Mutes, Mute
<1>3. DOMAIN r \subseteq Nat /\ n \in Nat
  BY DEF r, n
<1>4. {k \in Mutes(r) : \A j \in Mutes(r) : j <= k} = {n}
  BY <1>2, <1>3 DEF Mutes
<1>5. r[n].mutes = m
  BY <1>1 DEF Mute
<1>6. Said(r) = {m}
  BY <1>4, <1>5 DEF Said
<1> QED BY <1>6 DEF r

LEMMA SaidOne ==
  ASSUME NEW m PROVE Said(<<Mute(m)>>) = {m}
<1>1. <<Mute(m)>> = <<>> \o <<Mute(m)>> /\ <<>> \in Seq({})
  OBVIOUS
<1> QED BY <1>1, SaidLast

LEMMA SaidNothing ==
  ASSUME NEW q, \A i \in DOMAIN q : q[i].type # "mute"
  PROVE  Said(q) = {}
BY DEF Said, Mutes

LEMMA SaidTyped ==
  ASSUME NEW q \in Seq(Questions)
  PROVE  Said(q) \subseteq Preferences
<1>1. \A f \in Questions : f.type = "mute" => f.mutes \in Preferences
  BY DEF Questions, Continuations, Orders
<1> QED BY <1>1 DEF Said, Mutes

LEMMA SaidBetween ==
  ASSUME NEW S, NEW q \in Seq(S), NEW n \in 1..Len(q) + 1, NEW k \in S, k.type # "mute"
  PROVE  Said(InsertAt(q, n, k)) = Said(q)
<1> DEFINE r == InsertAt(q, n, k)
           to(i) == IF i < n THEN i ELSE i + 1
<1>0. n \in Nat /\ Len(q) \in Nat /\ DOMAIN q = 1..Len(q)
  OBVIOUS
<1>1. /\ r \in Seq(S) /\ Len(r) = Len(q) + 1 /\ DOMAIN r = 1..Len(q) + 1
      /\ \A i \in 1..Len(q) + 1 : r[i] = IF i < n THEN q[i] ELSE IF i = n THEN k ELSE q[i - 1]
  BY Inserted
<1> HIDE DEF r
<1>2. \A i \in 1..Len(q) : to(i) \in 1..Len(q) + 1 /\ r[to(i)] = q[i]
  BY <1>0, <1>1
<1>3. \A i, j \in 1..Len(q) : to(i) <= to(j) <=> i <= j
  BY <1>0
<1>4. \A j \in 1..Len(q) + 1 : r[j].type = "mute" => \E i \in 1..Len(q) : j = to(i)
  <2> SUFFICES ASSUME NEW j \in 1..Len(q) + 1, r[j].type = "mute" PROVE \E i \in 1..Len(q) : j = to(i)
    OBVIOUS
  <2>1. j # n
    BY <1>1
  <2>2. CASE j < n
    <3>1. j \in 1..Len(q) /\ j = to(j)
      BY <1>0, <2>2
    <3> QED BY <3>1
  <2>3. CASE j > n
    <3>1. j - 1 \in 1..Len(q) /\ j = to(j - 1)
      BY <1>0, <2>3
    <3> QED BY <3>1
  <2> QED BY <1>0, <2>1, <2>2, <2>3
<1> HIDE DEF to
<1>5. Mutes(q) \subseteq 1..Len(q) /\ Mutes(r) \subseteq 1..Len(q) + 1
  BY <1>0, <1>1 DEF Mutes
<1>6. \A i \in 1..Len(q) : to(i) \in Mutes(r) <=> i \in Mutes(q)
  BY <1>0, <1>1, <1>2 DEF Mutes
<1>7. \A j \in Mutes(r) : \E i \in Mutes(q) : j = to(i)
  BY <1>4, <1>5, <1>6 DEF Mutes
<1> DEFINE last(f, i) == i \in Mutes(f) /\ \A j \in Mutes(f) : j <= i
<1>8. \A i \in 1..Len(q) : last(r, to(i)) <=> last(q, i)
  BY <1>3, <1>5, <1>6, <1>7
<1>9. \A x : x \in Said(r) <=> \E j : last(r, j) /\ x = r[j].mutes
  BY DEF Said
<1>10. \A x : x \in Said(q) <=> \E i : last(q, i) /\ x = q[i].mutes
  BY DEF Said
<1> HIDE DEF last
<1>11. \A i : last(q, i) => i \in 1..Len(q)
  BY <1>5 DEF last
<1>12. \A j : last(r, j) => \E i \in 1..Len(q) : j = to(i)
  BY <1>5, <1>7 DEF last
<1>13. \A x : x \in Said(r) <=> x \in Said(q)
  BY <1>2, <1>8, <1>9, <1>10, <1>11, <1>12
<1> QED BY <1>13 DEF r

-----------------------------------------------------------------------------
(* What is done to a connection.                                            *)

LEMMA Kinds ==
  /\ \A f \in Questions :
       /\ f.type \in {"join", "mute", "sync", "leave", "authenticate", "command"}
       /\ f.type = "mute" => f.mutes \in Preferences
       /\ Asks(f) => f.of \in Periods /\ f.token \in Session \cup {Nobody}
       /\ f.type = "command" => f \in Orders
       /\ f.type \in {"join", "sync"} => f.mount \in Nat
       /\ f.type = "sync" => f.retry \in BOOLEAN
  /\ \A e \in Events :
       /\ Settles(e) => e.of \in Periods
       /\ e.type = "ready" => e.actor \in Session
       /\ e.type \in {"found", "committed", "snapshot", "answer"} => e.version \in Versions
       /\ e.type \in {"snapshot", "answer"} => e.over \in BOOLEAN
       /\ e.type = "answer" => e.command \in Orders /\ e.ok \in BOOLEAN
<1>1. \A f \in Questions :
       /\ f.type \in {"join", "mute", "sync", "leave", "authenticate", "command"}
       /\ f.type = "mute" => f.mutes \in Preferences
       /\ Asks(f) => f.of \in Periods /\ f.token \in Session \cup {Nobody}
       /\ f.type = "command" => f \in Orders
       /\ f.type \in {"join", "sync"} => f.mount \in Nat
       /\ f.type = "sync" => f.retry \in BOOLEAN
  <2> TAKE f \in Questions
  <2>1. CASE f \in Continuations
    BY <2>1 DEF Continuations, Asks
  <2>2. CASE f \in [type : {"sync"}, mount : Nat, retry : BOOLEAN] \cup [type : {"leave"}]
    BY <2>2 DEF Asks
  <2>3. CASE f \in [type : {"authenticate"}, of : Periods, token : Session \cup {Nobody}]
    BY <2>3 DEF Asks
  <2>4. CASE f \in Orders
    BY <2>4 DEF Asks, Orders
  <2> QED BY <2>1, <2>2, <2>3, <2>4 DEF Questions
<1>2. ASSUME NEW e \in Events
      PROVE  /\ Settles(e) => e.of \in Periods
             /\ e.type = "ready" => e.actor \in Session
             /\ e.type \in {"found", "committed", "snapshot", "answer"} => e.version \in Versions
             /\ e.type \in {"snapshot", "answer"} => e.over \in BOOLEAN
             /\ e.type = "answer" => e.command \in Orders /\ e.ok \in BOOLEAN
  BY DEF Events, Settles
<1> QED BY <1>1, <1>2

LEMMA SocketFields ==
  ASSUME NEW s \in Sockets
  PROVE  /\ s.link \in BOOLEAN /\ s.connections \in 0..MaxConnections
         /\ s.handshake \in [of : {0} \cup Periods, settled : BOOLEAN]
         /\ s.waiting \in [Periods -> Seq(Continuations)]
         /\ s.opening \in [of : {0} \cup Periods, place : Nat]
         /\ s.out \in Seq(Questions) /\ s.in \in Seq(Events) /\ s.told \subseteq Preferences
         /\ Period(s) \in Periods /\ MaxConnections \in Nat
BY ClientAssumption DEF Sockets, Period, Periods

\* Frames that ask for no handshake leave the handshakes as they are.
LEMMA SendKeeps ==
  ASSUME NEW s, NEW w, NEW ms, NEW v, NEW o, Fine(s, w, ms, v, o), NEW fs \in Seq(Questions),
         \A i \in DOMAIN fs : /\ ~Asks(fs[i])
                              /\ fs[i].type \in Private => s.link /\ w # Nobody
                              /\ fs[i].type = "command" => Given(fs[i], ms, v)
  PROVE  /\ Fine(Send(s, fs), w, ms, v, o)
         /\ Send(s, fs).link = s.link /\ Send(s, fs).opening = s.opening
         /\ Send(s, fs).handshake = s.handshake /\ Send(s, fs).waiting = s.waiting
         /\ Send(s, fs).in = s.in /\ Send(s, fs).connections = s.connections
         /\ Send(s, fs).told = IF Said(fs) = {} THEN s.told ELSE Said(fs)
<1> DEFINE t == Send(s, fs)
<1>1. s \in Sockets
  BY DEF Fine, Sound
<1>2. /\ t \in Sockets /\ t.out = s.out \o fs
      /\ t.link = s.link /\ t.opening = s.opening /\ t.connections = s.connections
      /\ t.handshake = s.handshake /\ t.waiting = s.waiting /\ t.in = s.in
      /\ t.told = IF Said(fs) = {} THEN s.told ELSE Said(fs)
  BY <1>1, SaidTyped, BothOf DEF Send, Sockets
<1>3. /\ t.out \in Seq(Questions)
      /\ \A i \in DOMAIN t.out :
           \/ i \in DOMAIN s.out /\ t.out[i] = s.out[i]
           \/ i - Len(s.out) \in DOMAIN fs /\ t.out[i] = fs[i - Len(s.out)]
      /\ \A i \in DOMAIN s.out : i \in DOMAIN t.out /\ t.out[i] = s.out[i]
  BY <1>1, <1>2, SocketFields, BothOf, SMTT(40)
<1> HIDE DEF t
<1>4. \A i \in DOMAIN t.out : Asks(t.out[i]) => i \in DOMAIN s.out /\ t.out[i] = s.out[i]
  BY <1>3
<1>5. Queued(t) /\ AllRecent(t)
  BY <1>2, <1>4 DEF Fine, Sound, Queued, AllRecent, Recent, Period
<1>6. \A p : OnItsWay(s, p) => OnItsWay(t, p)
  BY <1>2, <1>3 DEF OnItsWay
<1>7. Sound(t)
  BY <1>2, <1>5, <1>6 DEF Fine, Sound, Period
<1>8. Known(t, w)
  BY <1>2, <1>3 DEF Fine, Known
<1>9. Carried(t, ms, v, o)
  BY <1>2, <1>3 DEF Fine, Carried
<1> QED BY <1>2, <1>7, <1>8, <1>9 DEF Fine, t

\* A handshake that is not answered yet keeps what waits for it; a new one is the last.
LEMMA AuthenticateKeeps ==
  ASSUME NEW s, NEW w, NEW ms, NEW v, NEW o, Fine(s, w, ms, v, o), NEW ks \in Seq(Continuations),
         session \in Session \cup {Nobody}
  PROVE  /\ Fine(Authenticate(s, ks), w, ms, v, o)
         /\ Authenticate(s, ks).link = s.link /\ Authenticate(s, ks).opening = s.opening
         /\ Authenticate(s, ks).in = s.in /\ Authenticate(s, ks).handshake.of # 0
         /\ (Authenticate(s, ks).handshake.settled <=> s.handshake.settled)
<1> DEFINE t == Authenticate(s, ks)
<1>1. /\ Sound(s) /\ s \in Sockets
      /\ s.handshake \in [of : {0} \cup Periods, settled : BOOLEAN]
      /\ s.waiting \in [Periods -> Seq(Continuations)] /\ s.out \in Seq(Questions)
      /\ Period(s) \in Periods /\ Period(s) # 0
  BY SocketFields DEF Fine, Sound, Periods
<1>2. CASE s.handshake.settled
  <2>1. \A k \in Continuations : k \in Questions /\ k.type \in {"join", "mute"}
    BY DEF Continuations, Questions
  <2>2. ks \in Seq(Questions)
    BY <2>1
  <2>3. s.link /\ w # Nobody /\ s.handshake.of # 0
    BY <1>2 DEF Fine, Sound, Known
  <2>4. \A i \in DOMAIN ks : ~Asks(ks[i]) /\ ks[i].type # "command"
    BY <2>1 DEF Asks
  <2>5. t = Send(s, ks)
    BY <1>1, <1>2 DEF Authenticate
  <2> HIDE DEF t
  <2>7. \A i \in DOMAIN ks :
          /\ ~Asks(ks[i])
          /\ ks[i].type \in Private => s.link /\ w # Nobody
          /\ ks[i].type = "command" => Given(ks[i], ms, v)
    BY <2>3, <2>4
  <2>6. /\ Fine(Send(s, ks), w, ms, v, o)
        /\ Send(s, ks).link = s.link /\ Send(s, ks).opening = s.opening
        /\ Send(s, ks).handshake = s.handshake /\ Send(s, ks).in = s.in
    BY <2>2, <2>7, SendKeeps
  <2> QED BY <2>3, <2>5, <2>6 DEF t
<1>3. CASE ~s.handshake.settled /\ s.handshake.of # 0
  <2>1. s.handshake.of \in Periods /\ s.handshake.of = Period(s)
    BY <1>1, <1>3 DEF Sound
  <2>2. t = [s EXCEPT !.waiting[s.handshake.of] = @ \o ks]
    BY <1>3 DEF Authenticate
  <2>3. s.waiting[s.handshake.of] \o ks \in Seq(Continuations)
    BY <1>1, <2>1, BothOf
  <2> DEFINE ww == [s.waiting EXCEPT ![s.handshake.of] = @ \o ks]
  <2>a. ww \in [Periods -> Seq(Continuations)]
    BY <1>1, <2>1, <2>3
  <2>b. t = [s EXCEPT !.waiting = ww]
    BY <2>2
  <2> HIDE DEF ww, t
  <2>c. /\ t \in Sockets /\ t.out = s.out /\ t.in = s.in /\ t.link = s.link
        /\ t.opening = s.opening /\ t.connections = s.connections /\ t.handshake = s.handshake
        /\ t.waiting = ww
    BY <1>1, <2>a, <2>b DEF Sockets
  <2>4. /\ t \in Sockets /\ t.out = s.out /\ t.in = s.in /\ t.link = s.link
        /\ t.opening = s.opening /\ t.connections = s.connections /\ t.handshake = s.handshake
        /\ t.waiting = [s.waiting EXCEPT ![s.handshake.of] = @ \o ks]
    BY <2>c DEF ww
  <2>5. Queued(t) /\ AllRecent(t) /\ \A p : OnItsWay(t, p) <=> OnItsWay(s, p)
    BY <1>1, <2>4 DEF Sound, Queued, AllRecent, Recent, Period, OnItsWay
  <2>6. \A p \in Periods : t.waiting[p] # <<>> => s.waiting[p] # <<>> \/ p = s.handshake.of
    BY <1>1, <2>4
  <2>7. t.opening.of # 0 => t.opening.place \in 1..Len(t.waiting[t.opening.of]) + 1
    <3>3. t.opening = s.opening /\ s.opening.of \in {0} \cup Periods
      BY <1>1, <2>4, SocketFields
    <3>4. s.opening.of # 0 => s.opening.place \in 1..Len(s.waiting[s.opening.of]) + 1
      BY <1>1 DEF Sound
    <3>1. CASE s.opening.of = s.handshake.of
      <4>1. t.waiting[t.opening.of] = s.waiting[s.handshake.of] \o ks
        BY <1>1, <2>1, <2>4, <3>1
      <4>2. Len(s.waiting[s.handshake.of] \o ks) >= Len(s.waiting[s.handshake.of])
        BY <1>1, <2>1
      <4>3. Len(s.waiting[s.handshake.of] \o ks) \in Nat /\ Len(s.waiting[s.handshake.of]) \in Nat
        BY <1>1, <2>1, <2>3
      <4> DEFINE more == Len(s.waiting[s.handshake.of] \o ks)
                 before == Len(s.waiting[s.handshake.of])
      <4>4. s.opening.of # 0 => s.opening.place \in 1..before + 1
        BY <3>1, <3>4
      <4>5. Len(t.waiting[t.opening.of]) = more /\ more >= before /\ more \in Nat /\ before \in Nat
        BY <4>1, <4>2, <4>3
      <4> HIDE DEF more, before
      <4> QED BY <3>3, <4>4, <4>5
    <3>2. CASE s.opening.of # s.handshake.of
      <4>1. s.opening.of # 0 => t.waiting[s.opening.of] = s.waiting[s.opening.of]
        BY <1>1, <2>4, <3>2, <3>3
      <4> QED BY <3>3, <3>4, <4>1
    <3> QED BY <3>1, <3>2
  <2>8. Sound(t)
    BY <1>1, <1>3, <2>4, <2>5, <2>6, <2>7 DEF Sound, Period
  <2>9. Known(t, w) /\ Carried(t, ms, v, o)
    BY <2>4 DEF Fine, Known, Carried
  <2> QED BY <1>3, <2>4, <2>8, <2>9 DEF Fine, t
<1>4. CASE s.handshake.of = 0
  <2> DEFINE p == Period(s)
             f == [type |-> "authenticate", of |-> p, token |-> session]
  <2>1. t = [s EXCEPT !.handshake = [of |-> p, settled |-> FALSE],
                      !.waiting[p] = @ \o ks, !.out = Append(@, f)]
    BY <1>1, <1>4 DEF Authenticate, Sound
  <2>2. f \in Questions /\ Asks(f) /\ f.of = p /\ f.type \notin Private
    BY <1>1 DEF Questions, Asks, Private
  <2> HIDE DEF p
  <2>3. s.waiting[p] \o ks \in Seq(Continuations) /\ p \in Periods /\ p # 0
    BY <1>1, BothOf DEF p
  <2> HIDE DEF f
  <2>4. Append(s.out, f) \in Seq(Questions)
    BY <1>1, <2>2
  <2> DEFINE ww == [s.waiting EXCEPT ![p] = @ \o ks]
             hh == [of |-> p, settled |-> FALSE]
  <2>a. ww \in [Periods -> Seq(Continuations)] /\ hh \in [of : {0} \cup Periods, settled : BOOLEAN]
    BY <1>1, <2>3
  <2>b. t = [s EXCEPT !.handshake = hh, !.waiting = ww, !.out = Append(@, f)]
    BY <1>1, <2>1 DEF Sockets
  <2> HIDE DEF ww, hh, t
  <2>c. /\ t \in Sockets /\ t.out = Append(s.out, f) /\ t.in = s.in /\ t.link = s.link
        /\ t.opening = s.opening /\ t.connections = s.connections
        /\ t.handshake = hh /\ t.waiting = ww
    BY <1>1, <2>4, <2>a, <2>b DEF Sockets
  <2>5. /\ t \in Sockets /\ t.out = Append(s.out, f) /\ t.in = s.in /\ t.link = s.link
        /\ t.opening = s.opening /\ t.connections = s.connections
        /\ t.handshake = [of |-> p, settled |-> FALSE]
        /\ t.waiting = [s.waiting EXCEPT ![p] = @ \o ks]
    BY <2>c DEF ww, hh
  <2>d. t.handshake.of = p /\ ~t.handshake.settled
    BY <2>5
  <2>6. /\ t.out \in Seq(Questions)
        /\ \A i \in DOMAIN t.out :
             \/ i \in DOMAIN s.out /\ t.out[i] = s.out[i]
             \/ i = Len(s.out) + 1 /\ t.out[i] = f
        /\ \A i \in DOMAIN s.out : i \in DOMAIN t.out /\ t.out[i] = s.out[i]
        /\ Len(s.out) + 1 \in DOMAIN t.out /\ t.out[Len(s.out) + 1] = f
    BY <1>1, <2>2, <2>5, MoreOf
  <2>7. \A i \in DOMAIN s.out : i \in Nat /\ i < Len(s.out) + 1
    BY <1>1
  <2>8. /\ \A i \in DOMAIN s.out : Asks(s.out[i]) => s.out[i].of < p /\ s.out[i].of \in Nat
        /\ \A i \in DOMAIN s.in : Settles(s.in[i]) => s.in[i].of < p /\ s.in[i].of \in Nat
    <3>1. /\ \A i \in DOMAIN s.out : s.out[i] \in Questions
          /\ \A i \in DOMAIN s.in : s.in[i] \in Events
      BY <1>1, SocketFields
    <3>2. AllRecent(s) /\ p \in Nat
      BY <1>1, <2>3 DEF Sound, Periods
    <3> QED BY <1>4, <3>1, <3>2, Kinds DEF AllRecent, Recent, p, Periods
  <2>9. Queued(t)
    <3>1. Queued(s)
      BY <1>1 DEF Sound
    <3>2. /\ \A i \in DOMAIN t.out : i \notin DOMAIN s.out => i = Len(s.out) + 1 /\ t.out[i].of = p
          /\ \A i \in DOMAIN t.out : i \in DOMAIN s.out => t.out[i] = s.out[i] /\ i < Len(s.out) + 1
      BY <2>2, <2>6, <2>7
    <3>3. Len(s.out) + 1 \in Nat
      BY <1>1
    <3>4. ASSUME NEW i \in DOMAIN t.out, NEW j \in DOMAIN t.out, i < j, Asks(t.out[i]), Asks(t.out[j])
          PROVE  t.out[i].of < t.out[j].of
      <4>1. CASE i \in DOMAIN s.out /\ j \in DOMAIN s.out
        BY <3>1, <3>2, <3>4, <4>1 DEF Queued
      <4>2. CASE i \in DOMAIN s.out /\ j \notin DOMAIN s.out
        BY <2>8, <3>2, <3>4, <4>2
      <4>3. CASE i \notin DOMAIN s.out
        <5>1. i = Len(s.out) + 1
          BY <3>2, <4>3
        <5>2. j = Len(s.out) + 1 \/ j < Len(s.out) + 1
          BY <3>2
        <5>3. j \in DOMAIN t.out => j \in Nat
          BY <2>7, <3>2, <3>3
        <5> QED BY <3>3, <3>4, <5>1, <5>2, <5>3
      <4> QED BY <4>1, <4>2, <4>3
    <3>5. \A i \in DOMAIN t.in : Settles(t.in[i]) => t.in[i].of < p
      BY <2>5, <2>8
    <3>6. ASSUME NEW i \in DOMAIN t.in, NEW j \in DOMAIN t.out, Settles(t.in[i]), Asks(t.out[j])
          PROVE  t.in[i].of < t.out[j].of
      <4>1. CASE j \in DOMAIN s.out
        BY <2>5, <3>1, <3>2, <3>6, <4>1 DEF Queued
      <4>2. CASE j \notin DOMAIN s.out
        BY <3>2, <3>5, <3>6, <4>2
      <4> QED BY <4>1, <4>2
    <3>7. \A i, j \in DOMAIN t.in : i < j /\ Settles(t.in[i]) /\ Settles(t.in[j]) => t.in[i].of < t.in[j].of
      BY <2>5, <3>1 DEF Queued
    <3> QED BY <3>4, <3>6, <3>7 DEF Queued
  <2>10. AllRecent(t)
    BY <1>1, <2>2, <2>3, <2>5, <2>6, <2>8, SMTT(40) DEF AllRecent, Recent, Period, Periods, p
  <2>11. OnItsWay(t, p) /\ \A k : OnItsWay(s, k) => OnItsWay(t, k)
    BY <2>2, <2>5, <2>6 DEF OnItsWay
  <2>12. \A k \in Periods : t.waiting[k] # <<>> => s.waiting[k] # <<>> \/ k = p
    BY <1>1, <2>5
  <2>13. t.opening.of # 0 => t.opening.place \in 1..Len(t.waiting[t.opening.of]) + 1
    <3>1. CASE s.opening.of = p
      <4>1. t.waiting[t.opening.of] = s.waiting[p] \o ks
        BY <1>1, <2>3, <2>5, <3>1
      <4>2. Len(s.waiting[p] \o ks) >= Len(s.waiting[p])
        BY <1>1, <2>3
      <4>3. Len(s.waiting[p] \o ks) \in Nat /\ Len(s.waiting[p]) \in Nat
        BY <1>1, <2>3
      <4> QED BY <1>1, <2>5, <3>1, <4>1, <4>2, <4>3 DEF Sound
    <3>2. CASE s.opening.of # p
      BY <1>1, <2>5, <3>2 DEF Sound
    <3> QED BY <3>1, <3>2
  <2>14. p = Period(t)
    BY <2>5 DEF p, Period
  <2>15. Sound(t)
    BY <1>1, <2>3, <2>5, <2>d, <2>9, <2>10, <2>11, <2>12, <2>13, <2>14 DEF Sound
  <2>16. Known(t, w) /\ Carried(t, ms, v, o)
    BY <1>1, <2>2, <2>5, <2>6 DEF Fine, Known, Carried, Asks
  <2>17. ~s.handshake.settled
    BY <1>1, <1>4 DEF Sound
  <2> QED BY <1>1, <2>3, <2>5, <2>d, <2>15, <2>16, <2>17 DEF Fine, t
<1> QED BY <1>1, <1>2, <1>3, <1>4

LEMMA SendOneKeeps ==
  ASSUME NEW s, NEW w, NEW ms, NEW v, NEW o, Fine(s, w, ms, v, o), NEW f \in Questions,
         ~Asks(f), f.type \in Private => s.link /\ w # Nobody, f.type = "command" => Given(f, ms, v)
  PROVE  /\ Fine(Send(s, <<f>>), w, ms, v, o)
         /\ Send(s, <<f>>).link = s.link /\ Send(s, <<f>>).opening = s.opening
         /\ Send(s, <<f>>).handshake = s.handshake /\ Send(s, <<f>>).waiting = s.waiting
         /\ Send(s, <<f>>).in = s.in
         /\ f.type # "mute" => Send(s, <<f>>).told = s.told
<1> DEFINE fs == <<f>>
<1>1. fs \in Seq(Questions) /\ \A i \in DOMAIN fs : fs[i] = f
  OBVIOUS
<1> HIDE DEF fs
<1>2. \A i \in DOMAIN fs :
        /\ ~Asks(fs[i])
        /\ fs[i].type \in Private => s.link /\ w # Nobody
        /\ fs[i].type = "command" => Given(fs[i], ms, v)
  BY <1>1
<1>3. f.type # "mute" => Said(fs) = {}
  BY <1>1, SaidNothing
<1>4. /\ Fine(Send(s, fs), w, ms, v, o)
      /\ Send(s, fs).link = s.link /\ Send(s, fs).opening = s.opening
      /\ Send(s, fs).handshake = s.handshake /\ Send(s, fs).waiting = s.waiting
      /\ Send(s, fs).in = s.in
      /\ Send(s, fs).told = IF Said(fs) = {} THEN s.told ELSE Said(fs)
  BY <1>1, <1>2, SendKeeps
<1> QED BY <1>3, <1>4 DEF fs

\* The mutes that are sent last are what the connection is told.
LEMMA AuthenticateTells ==
  ASSUME NEW s, Sound(s), NEW m
  PROVE  Telling(Authenticate(s, <<Mute(m)>>), m)
<1> DEFINE t == Authenticate(s, <<Mute(m)>>)
           h == s.handshake.of
           p == Period(s)
<1>1. /\ s \in Sockets /\ s.handshake \in [of : {0} \cup Periods, settled : BOOLEAN]
      /\ s.waiting \in [Periods -> Seq(Continuations)] /\ p \in Periods /\ p # 0
  BY SocketFields DEF Sound, Periods
<1>2. \A k \in Periods : Said(s.waiting[k] \o <<Mute(m)>>) = {m}
  BY <1>1, SaidLast
<1>3. Said(<<>>) = {} /\ Said(<<Mute(m)>>) = {m} /\ {m} # {}
  BY SaidOne, SaidNothing
<1>4. CASE s.handshake.settled
  <2>1. t = Send(s, <<Mute(m)>>) /\ h # 0 /\ s.waiting = Nothing
    BY <1>4 DEF Authenticate, Sound
  <2>2. t.told = {m} /\ t.handshake = s.handshake /\ t.waiting = s.waiting
    BY <1>1, <1>3, <2>1 DEF Send, Sockets
  <2> HIDE DEF t
  <2>3. h \in Periods /\ \A k \in Periods : t.waiting[k] = <<>>
    BY <1>1, <2>1, <2>2 DEF Nothing
  <2> QED BY <1>3, <2>1, <2>2, <2>3 DEF Telling, t
<1>5. CASE ~s.handshake.settled /\ h # 0
  <2> DEFINE ww == [s.waiting EXCEPT ![h] = @ \o <<Mute(m)>>]
  <2>1. t = [s EXCEPT !.waiting = ww] /\ h \in Periods
    BY <1>1, <1>5 DEF Authenticate
  <2>2. ww[h] = s.waiting[h] \o <<Mute(m)>>
    BY <1>1, <2>1
  <2> HIDE DEF ww, t
  <2>3. t.handshake = s.handshake /\ t.waiting = ww
    BY <1>1, <2>1 DEF Sockets
  <2> QED BY <1>2, <1>3, <1>5, <2>1, <2>2, <2>3 DEF Telling, t
<1>6. CASE ~s.handshake.settled /\ h = 0
  <2> DEFINE ww == [s.waiting EXCEPT ![p] = @ \o <<Mute(m)>>]
             hh == [of |-> p, settled |-> FALSE]
             oo == Append(s.out, [type |-> "authenticate", of |-> p, token |-> session])
  <2>1. t = [s EXCEPT !.handshake = hh, !.waiting = ww, !.out = oo]
    BY <1>1, <1>6 DEF Authenticate, Sockets
  <2>2. ww[p] = s.waiting[p] \o <<Mute(m)>> /\ hh.of = p
    BY <1>1
  <2> HIDE DEF ww, hh, oo, t, p
  <2>3. t.handshake = hh /\ t.waiting = ww
    BY <1>1, <2>1 DEF Sockets
  <2> QED BY <1>1, <1>2, <1>3, <2>2, <2>3 DEF Telling, t
<1> QED BY <1>1, <1>4, <1>5, <1>6

LEMMA OpensKeeps ==
  ASSUME NEW s, NEW w, NEW ms, NEW v, NEW o, Fine(s, w, ms, v, o), s.handshake.of # 0, NEW n \in Nat
  PROVE  /\ Fine(Opens(s, n), w, ms, v, o)
         /\ Opens(s, n).link = s.link /\ Opens(s, n).handshake = s.handshake
         /\ \A m : Telling(s, m) => Telling(Opens(s, n), m)
<1> DEFINE t == Opens(s, n)
           h == s.handshake.of
<1>1. /\ Sound(s) /\ s \in Sockets
      /\ s.handshake \in [of : {0} \cup Periods, settled : BOOLEAN] /\ h \in Periods
      /\ s.waiting \in [Periods -> Seq(Continuations)]
  BY SocketFields DEF Fine, Sound
<1>2. CASE s.handshake.settled
  <2>1. Open(n) \in Questions /\ Open(n).type = "sync" /\ ~Asks(Open(n))
    BY DEF Open, Questions, Asks
  <2>2. s.link /\ w # Nobody
    BY <1>2 DEF Fine, Sound, Known
  <2> DEFINE f == Open(n)
  <2>4. t = Send(s, <<f>>)
    BY <1>2 DEF Opens
  <2>5. /\ f \in Questions /\ ~Asks(f) /\ f.type # "mute"
        /\ f.type \in Private => s.link /\ w # Nobody
        /\ f.type = "command" => Given(f, ms, v)
    BY <2>1, <2>2
  <2> HIDE DEF f, t
  <2>6. /\ Fine(Send(s, <<f>>), w, ms, v, o)
        /\ Send(s, <<f>>).link = s.link /\ Send(s, <<f>>).handshake = s.handshake
        /\ Send(s, <<f>>).waiting = s.waiting /\ Send(s, <<f>>).told = s.told
    BY <2>5, SendOneKeeps
  <2> QED BY <2>4, <2>6 DEF Telling, t
<1>3. CASE ~s.handshake.settled
  <2> DEFINE g == [of |-> h, place |-> Len(s.waiting[h]) + 1]
  <2>1. t = [s EXCEPT !.opening = g]
    BY <1>3 DEF Opens
  <2>2. s.waiting[h] \in Seq(Continuations) /\ Len(s.waiting[h]) \in Nat
    BY <1>1
  <2>3. g \in [of : {0} \cup Periods, place : Nat] /\ g.of = h /\ g.place \in 1..Len(s.waiting[h]) + 1
    BY <1>1, <2>2
  <2> HIDE DEF g, t
  <2>4. /\ t \in Sockets /\ t.out = s.out /\ t.in = s.in /\ t.link = s.link /\ t.told = s.told
        /\ t.opening = g /\ t.connections = s.connections /\ t.handshake = s.handshake
        /\ t.waiting = s.waiting
    BY <1>1, <2>1, <2>3 DEF Sockets
  <2>5. Queued(t) /\ AllRecent(t) /\ \A p : OnItsWay(t, p) <=> OnItsWay(s, p)
    BY <1>1, <2>4 DEF Sound, Queued, AllRecent, Recent, Period, OnItsWay
  <2>6. Sound(t)
    BY <1>1, <2>3, <2>4, <2>5 DEF Sound, Period
  <2>7. Known(t, w) /\ Carried(t, ms, v, o)
    BY <2>4 DEF Fine, Known, Carried
  <2>8. \A m : Telling(s, m) => Telling(t, m)
    BY <2>4 DEF Telling
  <2> QED BY <2>4, <2>6, <2>7, <2>8 DEF Fine, t
<1> QED BY <1>1, <1>2, <1>3

LEMMA CallOffKeeps ==
  ASSUME NEW s, NEW w, NEW ms, NEW v, NEW o, Fine(s, w, ms, v, o)
  PROVE  /\ Fine(WithoutOpening(s), w, ms, v, o)
         /\ WithoutOpening(s).link = s.link /\ WithoutOpening(s).handshake = s.handshake
         /\ WithoutOpening(s).opening = NoOpening
<1> DEFINE t == WithoutOpening(s)
<1>1. Sound(s) /\ s \in Sockets
  BY DEF Fine, Sound
<1>2. NoOpening \in [of : {0} \cup Periods, place : Nat] /\ NoOpening.of = 0
  BY DEF NoOpening
<1>3. /\ t \in Sockets /\ t.out = s.out /\ t.in = s.in /\ t.link = s.link
      /\ t.opening = NoOpening /\ t.connections = s.connections /\ t.handshake = s.handshake
      /\ t.waiting = s.waiting
  BY <1>1, <1>2 DEF WithoutOpening, Sockets
<1> HIDE DEF t
<1>4. Queued(t) /\ AllRecent(t) /\ \A p : OnItsWay(t, p) <=> OnItsWay(s, p)
  BY <1>1, <1>3 DEF Sound, Queued, AllRecent, Recent, Period, OnItsWay
<1>5. Sound(t)
  BY <1>1, <1>2, <1>3, <1>4 DEF Sound, Period
<1>6. Known(t, w) /\ Carried(t, ms, v, o)
  BY <1>3 DEF Fine, Known, Carried
<1> QED BY <1>3, <1>5, <1>6 DEF Fine, t

\* Hearing and taking leave the rest of a sequence.
LEMMA HearKeeps ==
  ASSUME NEW s, NEW w, NEW ms, NEW v, NEW o, Fine(s, w, ms, v, o), s.in # <<>>, ~Settles(Head(s.in)),
         NEW t, t = [s EXCEPT !.in = Tail(@)]
  PROVE  /\ Fine(t, w, ms, v, o)
         /\ t.link = s.link /\ t.handshake = s.handshake /\ t.opening = s.opening
         /\ \A m : Telling(s, m) => Telling(t, m)
<1>1. Sound(s) /\ s \in Sockets /\ s.in \in Seq(Events) /\ s.out \in Seq(Questions)
  BY SocketFields DEF Fine, Sound
<1>2. /\ t \in Sockets /\ t.out = s.out /\ t.in = Tail(s.in) /\ t.link = s.link
      /\ t.opening = s.opening /\ t.connections = s.connections /\ t.handshake = s.handshake
      /\ t.waiting = s.waiting /\ t.told = s.told
  BY <1>1, RestOf DEF Sockets
<1>3. /\ \A i \in DOMAIN t.in : i \in Nat /\ i + 1 \in DOMAIN s.in /\ t.in[i] = s.in[i + 1]
      /\ \A i \in DOMAIN s.in : i = 1 \/ (i - 1 \in DOMAIN t.in /\ t.in[i - 1] = s.in[i])
      /\ ~Settles(s.in[1])
  BY <1>1, <1>2, RestOf
<1>4. Queued(t)
  <2>1. ASSUME NEW i \in DOMAIN t.in, NEW j \in DOMAIN t.in, i < j, Settles(t.in[i]), Settles(t.in[j])
        PROVE  t.in[i].of < t.in[j].of
    <3>1. i + 1 \in DOMAIN s.in /\ j + 1 \in DOMAIN s.in /\ i + 1 < j + 1
      BY <1>3, <2>1
    <3> QED BY <1>1, <1>3, <2>1, <3>1 DEF Sound, Queued
  <2>2. Queued(s)
    BY <1>1 DEF Sound
  <2>3. \A i \in DOMAIN t.in, j \in DOMAIN t.out : Settles(t.in[i]) /\ Asks(t.out[j]) => t.in[i].of < t.out[j].of
    BY <1>2, <1>3, <2>2 DEF Queued
  <2> QED BY <1>2, <2>1, <2>2, <2>3 DEF Queued
<1>5. AllRecent(t)
  BY <1>1, <1>2, <1>3 DEF Sound, AllRecent, Recent, Period
<1>6. \A p : OnItsWay(s, p) => OnItsWay(t, p)
  BY <1>2, <1>3 DEF OnItsWay
<1>7. ~t.link => t.in = <<>>
  BY <1>1, <1>2 DEF Sound
<1>8. Sound(t)
  BY <1>1, <1>2, <1>4, <1>5, <1>6, <1>7 DEF Sound, Period
<1>9. Known(t, w) /\ Carried(t, ms, v, o)
  BY <1>2, <1>3 DEF Fine, Known, Carried
<1> QED BY <1>2, <1>8, <1>9 DEF Fine, Telling

LEMMA TakeKeeps ==
  ASSUME NEW s, NEW w, NEW ms, NEW v, NEW o, Fine(s, w, ms, v, o), s.out # <<>>, ~Asks(Head(s.out)),
         NEW t, t = [s EXCEPT !.out = Tail(@)]
  PROVE  /\ Fine(t, w, ms, v, o)
         /\ t.link = s.link /\ t.handshake = s.handshake /\ t.opening = s.opening
         /\ \A m : Telling(s, m) => Telling(t, m)
<1>1. Sound(s) /\ s \in Sockets /\ s.in \in Seq(Events) /\ s.out \in Seq(Questions)
  BY SocketFields DEF Fine, Sound
<1>2. /\ t \in Sockets /\ t.in = s.in /\ t.out = Tail(s.out) /\ t.link = s.link
      /\ t.opening = s.opening /\ t.connections = s.connections /\ t.handshake = s.handshake
      /\ t.waiting = s.waiting /\ t.told = s.told
  BY <1>1, RestOf DEF Sockets
<1>3. /\ \A i \in DOMAIN t.out : i \in Nat /\ i + 1 \in DOMAIN s.out /\ t.out[i] = s.out[i + 1]
      /\ \A i \in DOMAIN s.out : i = 1 \/ (i - 1 \in DOMAIN t.out /\ t.out[i - 1] = s.out[i])
      /\ ~Asks(s.out[1])
  BY <1>1, <1>2, RestOf
<1>4. Queued(t)
  <2>1. ASSUME NEW i \in DOMAIN t.out, NEW j \in DOMAIN t.out, i < j, Asks(t.out[i]), Asks(t.out[j])
        PROVE  t.out[i].of < t.out[j].of
    <3>1. i + 1 \in DOMAIN s.out /\ j + 1 \in DOMAIN s.out /\ i + 1 < j + 1
      BY <1>3, <2>1
    <3> QED BY <1>1, <1>3, <2>1, <3>1 DEF Sound, Queued
  <2>2. Queued(s)
    BY <1>1 DEF Sound
  <2>3. \A i \in DOMAIN t.in, j \in DOMAIN t.out : Settles(t.in[i]) /\ Asks(t.out[j]) => t.in[i].of < t.out[j].of
    BY <1>2, <1>3, <2>2 DEF Queued
  <2> QED BY <1>2, <2>1, <2>2, <2>3 DEF Queued
<1>5. AllRecent(t)
  BY <1>1, <1>2, <1>3 DEF Sound, AllRecent, Recent, Period
<1>6. \A p : OnItsWay(s, p) => OnItsWay(t, p)
  BY <1>2, <1>3 DEF OnItsWay
<1>8. Sound(t)
  BY <1>1, <1>2, <1>4, <1>5, <1>6 DEF Sound, Period
<1>9. Known(t, w) /\ Carried(t, ms, v, o)
  BY <1>2, <1>3 DEF Fine, Known, Carried
<1> QED BY <1>2, <1>8, <1>9 DEF Fine, Telling

\* The server tells a window nothing of handshakes but their answers.
LEMMA TellKeeps ==
  ASSUME NEW s, NEW w, NEW ms, NEW v, NEW o, Fine(s, w, ms, v, o), NEW es \in Seq(Events),
         \A i \in DOMAIN es : /\ ~Settles(es[i]) /\ Told(es[i], ms, v, o)
                              /\ es[i].type = "snapshot" => w # Nobody
  PROVE  /\ Fine(Tell(s, es), w, ms, v, o)
         /\ Tell(s, es).link = s.link /\ Tell(s, es).handshake = s.handshake
         /\ Tell(s, es).opening = s.opening
         /\ \A m : Telling(s, m) => Telling(Tell(s, es), m)
<1> DEFINE t == Tell(s, es)
<1>1. Sound(s) /\ s \in Sockets /\ s.in \in Seq(Events) /\ s.out \in Seq(Questions) /\ s.link \in BOOLEAN
  BY SocketFields DEF Fine, Sound
<1>2. CASE ~s.link
  <2>1. t = s
    BY <1>2 DEF Tell
  <2> QED BY <2>1
<1>3. CASE s.link
  <2>1. t = [s EXCEPT !.in = @ \o es]
    BY <1>3 DEF Tell
  <2> HIDE DEF t
  <2>2. /\ t \in Sockets /\ t.out = s.out /\ t.in = s.in \o es /\ t.link = s.link
        /\ t.opening = s.opening /\ t.connections = s.connections /\ t.handshake = s.handshake
        /\ t.waiting = s.waiting /\ t.told = s.told
    BY <1>1, <2>1, BothOf DEF Sockets
  <2>3. /\ t.in \in Seq(Events)
        /\ \A i \in DOMAIN t.in :
             \/ i \in DOMAIN s.in /\ t.in[i] = s.in[i]
             \/ i - Len(s.in) \in DOMAIN es /\ t.in[i] = es[i - Len(s.in)]
        /\ \A i \in DOMAIN s.in : i \in DOMAIN t.in /\ t.in[i] = s.in[i]
    BY <1>1, <2>2, BothOf
  <2>4. \A i \in DOMAIN t.in : Settles(t.in[i]) => i \in DOMAIN s.in /\ t.in[i] = s.in[i]
    BY <2>3
  <2>5. Queued(t) /\ AllRecent(t)
    BY <1>1, <2>2, <2>4 DEF Sound, Queued, AllRecent, Recent, Period
  <2>6. \A p : OnItsWay(s, p) => OnItsWay(t, p)
    BY <2>2, <2>3 DEF OnItsWay
  <2>7. Sound(t)
    BY <1>1, <1>3, <2>2, <2>5, <2>6 DEF Sound, Period
  <2>8. Known(t, w)
    <3>1. \A i \in DOMAIN es : es[i].type # "welcome"
      BY DEF Settles
    <3> QED BY <2>2, <2>3, <3>1 DEF Fine, Known
  <2>9. Carried(t, ms, v, o)
    BY <2>2, <2>3 DEF Fine, Carried
  <2> QED BY <2>2, <2>7, <2>8, <2>9 DEF Fine, Telling, t
<1> QED BY <1>1, <1>2, <1>3

\* A handshake is answered once, after those before it.
Answering(es, of, w) ==
  /\ es \in Seq(Events) /\ es # <<>> /\ Settles(es[Len(es)]) /\ es[Len(es)].of = of
  /\ \A i \in DOMAIN es : /\ i # Len(es) => ~Settles(es[i])
                          /\ es[i].type \in {"ready", "welcome", "refused"}
                          /\ es[i].type = "welcome" => w # Nobody

Replied(s, es, w, t) ==
  /\ s.link /\ s.out # <<>> /\ Asks(Head(s.out)) /\ Answering(es, Head(s.out).of, w)
  /\ t \in Sockets /\ t.out = Tail(s.out) /\ t.in = s.in \o es /\ t.link = s.link
  /\ t.opening = s.opening /\ t.connections = s.connections /\ t.handshake = s.handshake
  /\ t.waiting = s.waiting /\ t.told = s.told

LEMMA AnswerKeeps ==
  ASSUME NEW s, NEW w, NEW ms, NEW v, NEW o, Fine(s, w, ms, v, o),
         NEW es, NEW w2, w # Nobody => w2 # Nobody, NEW t, Replied(s, es, w2, t)
  PROVE  /\ Fine(t, w2, ms, v, o)
         /\ t.link = s.link /\ t.handshake = s.handshake /\ t.opening = s.opening
         /\ \A m : Telling(s, m) => Telling(t, m)
<1> DEFINE n == Len(s.in) + Len(es)
           p == Head(s.out).of
<1>b. s.link /\ s.out # <<>> /\ Asks(Head(s.out)) /\ Answering(es, p, w2)
  BY DEF Replied
<1>0. \A k \in DOMAIN es : /\ k # Len(es) => ~Settles(es[k])
                           /\ es[k].type \in {"ready", "welcome", "refused"}
                           /\ es[k].type = "welcome" => w2 # Nobody
  BY <1>b DEF Answering
<1>1. /\ Sound(s) /\ s \in Sockets /\ s.in \in Seq(Events) /\ s.out \in Seq(Questions)
      /\ es \in Seq(Events)
  BY <1>b, SocketFields DEF Fine, Sound, Answering
<1>2. /\ t \in Sockets /\ t.out = Tail(s.out) /\ t.in = s.in \o es /\ t.link = s.link
      /\ t.opening = s.opening /\ t.connections = s.connections /\ t.handshake = s.handshake
      /\ t.waiting = s.waiting /\ t.told = s.told
  BY DEF Replied
<1>3. /\ \A i \in DOMAIN t.out : i \in Nat /\ i + 1 \in DOMAIN s.out /\ t.out[i] = s.out[i + 1]
      /\ \A i \in DOMAIN s.out : i = 1 \/ (i - 1 \in DOMAIN t.out /\ t.out[i - 1] = s.out[i])
      /\ 1 \in DOMAIN s.out /\ Asks(s.out[1]) /\ s.out[1].of = p
  <2> DEFINE q == s.out
  <2>1. q \in Seq(Questions) /\ q # <<>> /\ t.out = Tail(q) /\ Asks(Head(q)) /\ Head(q).of = p
    BY <1>b, <1>1, <1>2
  <2> HIDE DEF q, p
  <2>2. /\ \A i \in DOMAIN Tail(q) : i \in Nat /\ i + 1 \in DOMAIN q /\ Tail(q)[i] = q[i + 1]
        /\ \A i \in DOMAIN q : i = 1 \/ (i - 1 \in DOMAIN Tail(q) /\ Tail(q)[i - 1] = q[i])
        /\ 1 \in DOMAIN q /\ Head(q) = q[1]
    BY <2>1, RestOf
  <2>3. /\ \A i \in DOMAIN t.out : i \in Nat /\ i + 1 \in DOMAIN q /\ t.out[i] = q[i + 1]
        /\ \A i \in DOMAIN q : i = 1 \/ (i - 1 \in DOMAIN t.out /\ t.out[i - 1] = q[i])
        /\ 1 \in DOMAIN q /\ Asks(q[1]) /\ q[1].of = p
    BY <2>1, <2>2, Zenon
  <2> QED BY <2>3 DEF q
<1>4. /\ \A i \in DOMAIN t.in :
           \/ i \in DOMAIN s.in /\ t.in[i] = s.in[i]
           \/ \E k \in DOMAIN es : i = k + Len(s.in) /\ t.in[i] = es[k]
      /\ \A i \in DOMAIN s.in : i \in DOMAIN t.in /\ t.in[i] = s.in[i]
      /\ \A i \in DOMAIN es : i + Len(s.in) \in DOMAIN t.in /\ t.in[i + Len(s.in)] = es[i]
  <2> DEFINE q == s.in
             r == q \o es
  <2>1. q \in Seq(Events) /\ es \in Seq(Events) /\ t.in = r
    BY <1>1, <1>2
  <2> HIDE DEF q, r
  <2>2. /\ \A i \in DOMAIN r : \/ i \in DOMAIN q /\ r[i] = q[i]
                               \/ i - Len(q) \in DOMAIN es /\ r[i] = es[i - Len(q)]
        /\ \A i \in DOMAIN q : i \in DOMAIN r /\ r[i] = q[i]
        /\ \A i \in DOMAIN es : i + Len(q) \in DOMAIN r /\ r[i + Len(q)] = es[i]
    BY <2>1, BothOf DEF r
  <2>3. DOMAIN r \subseteq Nat /\ Len(q) \in Nat
    BY <2>1, BothOf DEF r
  <2>4. \A i \in DOMAIN r : \/ i \in DOMAIN q /\ r[i] = q[i]
                            \/ \E k \in DOMAIN es : i = k + Len(q) /\ r[i] = es[k]
    <3> TAKE i \in DOMAIN r
    <3>1. i = (i - Len(q)) + Len(q)
      BY <2>3
    <3> QED BY <2>2, <3>1
  <2> QED BY <2>1, <2>2, <2>4 DEF q
<1>5. Len(s.in) \in Nat /\ Len(es) \in DOMAIN es /\ DOMAIN es \subseteq Nat /\ DOMAIN s.in \subseteq Nat
      /\ \A i \in DOMAIN s.in : i < n
  BY <1>b, <1>1 DEF Answering
<1>6. n \in DOMAIN t.in /\ Settles(t.in[n]) /\ t.in[n].of = p
  BY <1>b, <1>4, <1>5 DEF Answering
<1>7. \A i \in DOMAIN t.in : Settles(t.in[i]) => i = n \/ (i \in DOMAIN s.in /\ t.in[i] = s.in[i])
  <2> SUFFICES ASSUME NEW i \in DOMAIN t.in, Settles(t.in[i]), ~(i \in DOMAIN s.in /\ t.in[i] = s.in[i])
               PROVE  i = n
    OBVIOUS
  <2>1. PICK k \in DOMAIN es : i = k + Len(s.in) /\ t.in[i] = es[k]
    BY <1>4
  <2>2. Settles(es[k])
    BY <2>1, Zenon
  <2>3. k = Len(es)
    BY <1>0, <2>2, Zenon
  <2> QED BY <1>5, <2>1, <2>3
<1> HIDE DEF n, p
<1>8. Queued(s) /\ AllRecent(s)
  BY <1>1 DEF Sound
<1>9. Queued(t)
  <2>1. ASSUME NEW i \in DOMAIN t.out, NEW j \in DOMAIN t.out, i < j, Asks(t.out[i]), Asks(t.out[j])
        PROVE  t.out[i].of < t.out[j].of
    <3>1. i + 1 \in DOMAIN s.out /\ j + 1 \in DOMAIN s.out /\ i + 1 < j + 1
      BY <1>3, <2>1
    <3> QED BY <1>3, <1>8, <2>1, <3>1 DEF Queued
  <2>2. \A i \in DOMAIN t.in, j \in DOMAIN t.out : Settles(t.in[i]) /\ Asks(t.out[j]) => t.in[i].of < t.out[j].of
    <3> SUFFICES ASSUME NEW i \in DOMAIN t.in, NEW j \in DOMAIN t.out, Settles(t.in[i]), Asks(t.out[j])
                 PROVE  t.in[i].of < t.out[j].of
      OBVIOUS
    <3>1. j + 1 \in DOMAIN s.out /\ 1 < j + 1 /\ t.out[j] = s.out[j + 1]
      <4>1. DOMAIN t.out \subseteq Nat \ {0}
        BY <1>1, <1>2, RestOf
      <4> QED BY <1>3, <4>1
    <3>2. p < t.out[j].of
      BY <1>3, <1>8, <3>1 DEF Queued
    <3> QED BY <1>6, <1>7, <1>8, <3>1, <3>2 DEF Queued
  <2>3. \A i, j \in DOMAIN t.in : i < j /\ Settles(t.in[i]) /\ Settles(t.in[j]) => t.in[i].of < t.in[j].of
    <3> SUFFICES ASSUME NEW i \in DOMAIN t.in, NEW j \in DOMAIN t.in, i < j,
                        Settles(t.in[i]), Settles(t.in[j])
                 PROVE  t.in[i].of < t.in[j].of
      OBVIOUS
    <3>1. CASE i = n
      <4>1. j = n
        <5>1. n \in Nat /\ DOMAIN t.in \subseteq Nat
          BY <1>1, <1>2, <1>5 DEF n
        <5>2. \A k \in DOMAIN s.in : k < n
          BY <1>5
        <5>3. j = n \/ j \in DOMAIN s.in
          BY <1>7
        <5> QED BY <3>1, <5>1, <5>2, <5>3
      <4> QED BY <1>5, <3>1, <4>1 DEF n
    <3>2. CASE i # n /\ j = n
      BY <1>3, <1>6, <1>7, <1>8, <3>2 DEF Queued
    <3>3. CASE i # n /\ j # n
      BY <1>7, <1>8, <3>3 DEF Queued
    <3> QED BY <3>1, <3>2, <3>3
  <2> QED BY <2>1, <2>2, <2>3 DEF Queued
<1>10. AllRecent(t)
  <2>1. \A k : Recent(t, k) <=> Recent(s, k)
    BY <1>2 DEF Recent, Period
  <2>2. \A i \in DOMAIN t.out : Asks(t.out[i]) => Recent(s, t.out[i].of)
    BY <1>3, <1>8 DEF AllRecent
  <2>3. \A i \in DOMAIN t.in : Settles(t.in[i]) => Recent(s, t.in[i].of)
    BY <1>3, <1>6, <1>7, <1>8 DEF AllRecent
  <2> QED BY <2>1, <2>2, <2>3 DEF AllRecent
<1>11. ASSUME NEW k, OnItsWay(s, k) PROVE OnItsWay(t, k)
  <2>1. CASE \E i \in DOMAIN s.in : Settles(s.in[i]) /\ s.in[i].of = k
    BY <1>4, <2>1 DEF OnItsWay
  <2>2. CASE \E i \in DOMAIN s.out : Asks(s.out[i]) /\ s.out[i].of = k
    <3>1. PICK i \in DOMAIN s.out : Asks(s.out[i]) /\ s.out[i].of = k
      BY <2>2
    <3>2. CASE i = 1
      BY <1>3, <1>6, <3>1, <3>2 DEF OnItsWay
    <3>3. CASE i # 1
      <4>1. i - 1 \in DOMAIN t.out /\ t.out[i - 1] = s.out[i]
        BY <1>3, <3>3
      <4> QED BY <3>1, <4>1 DEF OnItsWay
    <3> QED BY <3>2, <3>3
  <2> QED BY <1>11, <2>1, <2>2 DEF OnItsWay
<1>12. Sound(t)
  <2>1. Period(t) = Period(s)
    BY <1>2 DEF Period
  <2>2. ~(~s.link)
    BY <1>b
  <2> QED BY <1>1, <1>2, <1>9, <1>10, <1>11, <2>1, <2>2, SMTT(40) DEF Sound
<1>13. Known(t, w2)
  <2>1. Known(s, w)
    BY DEF Fine
  <2>2. t.handshake.settled => w2 # Nobody
    BY <1>2, <2>1 DEF Known
  <2>3. \A i \in DOMAIN t.out : t.out[i].type \in Private => t.link /\ w2 # Nobody
    BY <1>2, <1>3, <2>1 DEF Known
  <2>4. ASSUME NEW i \in DOMAIN t.in, t.in[i].type \in {"welcome", "snapshot"} PROVE w2 # Nobody
    <3>1. CASE i \in DOMAIN s.in /\ t.in[i] = s.in[i]
      BY <2>1, <2>4, <3>1 DEF Known
    <3>2. CASE \E k \in DOMAIN es : i = k + Len(s.in) /\ t.in[i] = es[k]
      <4>1. PICK k \in DOMAIN es : t.in[i] = es[k]
        BY <3>2
      <4>2. es[k].type # "snapshot"
        BY <1>0
      <4>3. es[k].type \in {"welcome", "snapshot"}
        BY <2>4, <4>1, Zenon
      <4> QED BY <1>0, <4>2, <4>3
    <3> QED BY <1>4, <3>1, <3>2
  <2> QED BY <2>2, <2>3, <2>4 DEF Known
<1>14. Carried(t, ms, v, o)
  <2>1. Carried(s, ms, v, o)
    BY DEF Fine
  <2>2. \A i \in DOMAIN t.out : t.out[i].type = "command" => Given(t.out[i], ms, v)
    BY <1>3, <2>1 DEF Carried
  <2>3. ASSUME NEW i \in DOMAIN t.in PROVE Told(t.in[i], ms, v, o)
    <3>1. CASE i \in DOMAIN s.in /\ t.in[i] = s.in[i]
      BY <2>1, <3>1 DEF Carried
    <3>2. CASE \E k \in DOMAIN es : i = k + Len(s.in) /\ t.in[i] = es[k]
      <4>1. PICK k \in DOMAIN es : t.in[i] = es[k]
        BY <3>2
      <4>2. es[k].type \notin {"found", "committed", "snapshot", "answer"}
        BY <1>0
      <4>3. t.in[i].type \notin {"found", "committed", "snapshot", "answer"}
        BY <4>1, <4>2, Zenon
      <4> QED BY <4>3 DEF Told
    <3> QED BY <1>4, <3>1, <3>2
  <2> QED BY <2>2, <2>3 DEF Carried
<1> QED BY <1>2, <1>12, <1>13, <1>14 DEF Fine, Telling

\* What waited for a handshake goes on: whoever waited for another one still does.
\* The connection s goes on as t when its handshake's answer is heard.
Welcomed(s, t) ==
  /\ s.in # <<>> /\ Head(s.in).type = "welcome"
  /\ t = Continued([s EXCEPT !.in = Tail(@)], Head(s.in).of)

LEMMA ContinueKeeps ==
  ASSUME NEW s, NEW w, NEW ms, NEW v, NEW o, Fine(s, w, ms, v, o), visits \in Nat,
         NEW t, Welcomed(s, t)
  PROVE  /\ Fine(t, w, ms, v, o)
         /\ t.link = s.link /\ t.handshake.of = s.handshake.of
         /\ t.opening = IF s.opening.of = Head(s.in).of THEN NoOpening ELSE s.opening
         /\ \A m : Telling(s, m) => Telling(t, m)
<1> DEFINE p == Head(s.in).of
           h == s.handshake.of
           x == [s EXCEPT !.in = Tail(@)]
           ww == [s.waiting EXCEPT ![p] = <<>>]
           gg == IF s.opening.of = p THEN NoOpening ELSE s.opening
           hh == [s.handshake EXCEPT !.settled = @ \/ h = p]
           y == [x EXCEPT !.waiting = ww, !.opening = gg, !.handshake = hh]
           fs == Resumed(x, p)
<1>1. /\ Sound(s) /\ s \in Sockets /\ s.in \in Seq(Events) /\ s.out \in Seq(Questions)
      /\ s.handshake \in [of : {0} \cup Periods, settled : BOOLEAN]
      /\ s.waiting \in [Periods -> Seq(Continuations)] /\ Period(s) \in Periods
      /\ s.opening \in [of : {0} \cup Periods, place : Nat]
      /\ s.link /\ w # Nobody
  <2>1. Sound(s)
    BY DEF Fine
  <2>2. s.link
    BY <2>1 DEF Sound, Welcomed
  <2>3. s \in Sockets
    BY <2>1 DEF Sound
  <2>4. s.in[1].type = "welcome" /\ 1 \in DOMAIN s.in
    BY <2>3, SocketFields, RestOf DEF Welcomed
  <2>5. w # Nobody
    BY <2>4 DEF Fine, Known
  <2> QED BY <2>1, <2>2, <2>3, <2>5, SocketFields
<1>2. /\ p \in Periods /\ p \in Nat /\ p # 0 /\ p = s.in[1].of /\ 1 \in DOMAIN s.in
      /\ Settles(s.in[1]) /\ s.in[1].type = "welcome"
  <2>1. Head(s.in) = s.in[1] /\ s.in[1] \in Events /\ 1 \in DOMAIN s.in
    BY <1>1, RestOf DEF Welcomed
  <2> QED BY <2>1, Kinds DEF Welcomed, Settles, Periods
<1>3. /\ x \in Sockets /\ x.out = s.out /\ x.in = Tail(s.in) /\ x.link = s.link
      /\ x.opening = s.opening /\ x.connections = s.connections /\ x.handshake = s.handshake
      /\ x.waiting = s.waiting /\ x.told = s.told
  BY <1>1, RestOf DEF Sockets, Welcomed
<1>4. /\ ww \in [Periods -> Seq(Continuations)] /\ ww[p] = <<>>
      /\ \A k \in Periods : k # p => ww[k] = s.waiting[k]
  BY <1>1, <1>2
<1>5. /\ gg \in [of : {0} \cup Periods, place : Nat] /\ gg.of # p
      /\ gg.of # 0 => gg = s.opening
  BY <1>1, <1>2 DEF NoOpening
<1>6. /\ hh \in [of : {0} \cup Periods, settled : BOOLEAN] /\ hh.of = h
      /\ hh.settled <=> s.handshake.settled \/ h = p
  BY <1>1
<1>7. t = Send(y, fs)
  <2>1. t = Continued(x, p)
    BY DEF Welcomed
  <2> HIDE DEF x, p
  <2> QED BY <1>3, <2>1 DEF Continued
<1> HIDE DEF x
<1>8. /\ fs \in Seq(Questions) /\ Said(fs) = Said(s.waiting[p])
      /\ \A i \in DOMAIN fs : fs[i].type \in {"join", "mute", "sync"}
  <2>1. \A k \in Continuations : k \in Questions /\ k.type \in {"join", "mute"}
    BY DEF Continuations, Questions
  <2>2. Open(visits) \in Questions /\ Open(visits).type = "sync"
    BY DEF Open, Questions
  <2>3. s.waiting[p] \in Seq(Continuations) /\ s.waiting[p] \in Seq(Questions)
    BY <1>1, <1>2, <2>1
  <2>4. CASE s.opening.of # p
    BY <1>3, <2>1, <2>3, <2>4 DEF Resumed
  <2>5. CASE s.opening.of = p
    <3> DEFINE q == s.waiting[p]
               f == Open(visits)
               K == {k \in Questions : k.type \in {"join", "mute", "sync"}}
               z == s.opening.place
    <3>1. fs = InsertAt(q, z, f)
      BY <1>3, <2>5 DEF Resumed
    <3>2. q \in Seq(K) /\ f \in K
      BY <2>1, <2>2, <2>3, SMTT(40)
    <3>3. z \in 1..Len(q) + 1
      BY <1>1, <1>2, <2>5 DEF Sound
    <3> HIDE DEF q, f, z, K
    <3>4. f.type # "mute"
      BY <2>2 DEF f
    <3>5. InsertAt(q, z, f) \in Seq(K)
      BY <3>2, <3>3, Inserted
    <3>6. Said(InsertAt(q, z, f)) = Said(q)
      BY <3>2, <3>3, <3>4, SaidBetween
    <3>7. \A r \in Seq(K) : r \in Seq(Questions) /\ \A i \in DOMAIN r : r[i].type \in {"join", "mute", "sync"}
      BY DEF K
    <3> QED BY <3>1, <3>5, <3>6, <3>7 DEF q
  <2> QED BY <2>4, <2>5
<1> HIDE DEF ww, gg, hh, p
<1>9. /\ y \in Sockets /\ y.out = s.out /\ y.in = Tail(s.in) /\ y.link = s.link
      /\ y.opening = gg /\ y.connections = s.connections /\ y.handshake = hh
      /\ y.waiting = ww /\ y.told = s.told
  BY <1>3, <1>4, <1>5, <1>6 DEF Sockets
<1> HIDE DEF y, fs
<1>10. /\ \A i \in DOMAIN y.in : i \in Nat \ {0} /\ i + 1 \in DOMAIN s.in /\ y.in[i] = s.in[i + 1]
       /\ \A i \in DOMAIN s.in : i = 1 \/ (i - 1 \in DOMAIN y.in /\ y.in[i - 1] = s.in[i])
  BY <1>1, <1>9, RestOf
<1>11. Queued(s) /\ AllRecent(s)
  BY <1>1 DEF Sound
<1>12. Queued(y)
  <2>1. ASSUME NEW i \in DOMAIN y.in, NEW j \in DOMAIN y.in, i < j, Settles(y.in[i]), Settles(y.in[j])
        PROVE  y.in[i].of < y.in[j].of
    <3>1. i + 1 \in DOMAIN s.in /\ j + 1 \in DOMAIN s.in /\ i + 1 < j + 1
      BY <1>10, <2>1
    <3> QED BY <1>10, <1>11, <2>1, <3>1 DEF Queued
  <2>2. \A i \in DOMAIN y.in, j \in DOMAIN y.out : Settles(y.in[i]) /\ Asks(y.out[j]) => y.in[i].of < y.out[j].of
    BY <1>9, <1>10, <1>11 DEF Queued
  <2> QED BY <1>9, <1>11, <2>1, <2>2 DEF Queued
<1>13. AllRecent(y) /\ Period(y) = Period(s)
  BY <1>6, <1>9, <1>10, <1>11, ZenonT(40) DEF AllRecent, Recent, Period
<1>14. \A k : OnItsWay(s, k) /\ k # p => OnItsWay(y, k)
  BY <1>2, <1>9, <1>10 DEF OnItsWay
<1>15. \A k \in Periods : k # p /\ s.waiting[k] # <<>> => k > p
  <2> SUFFICES ASSUME NEW k \in Periods, k # p, s.waiting[k] # <<>> PROVE k > p
    OBVIOUS
  <2>1. OnItsWay(s, k)
    BY <1>1 DEF Sound
  <2>2. \A i \in DOMAIN s.in : i = 1 \/ 1 < i
    BY <1>1
  <2> QED BY <1>2, <1>11, <2>1, <2>2 DEF OnItsWay, Queued
<1>16. h = p => \A k \in Periods : ww[k] = <<>>
  <2> SUFFICES ASSUME h = p, NEW k \in Periods, k # p, s.waiting[k] # <<>> PROVE FALSE
    BY <1>4
  <2>1. OnItsWay(s, k) /\ k > p
    BY <1>1, <1>15 DEF Sound
  <2>2. k <= Period(s) /\ p = Period(s)
    BY <1>1, <1>2, <1>11, <2>1 DEF OnItsWay, AllRecent, Recent, Sound
  <2> QED BY <1>2, <2>1, <2>2 DEF Periods
<1>17. s.handshake.settled => \A k \in Periods : ww[k] = <<>>
  BY <1>1, <1>4 DEF Sound, Nothing
<1>18. y.handshake.settled => y.handshake.of # 0 /\ y.waiting = Nothing
  <2>1. (\A k \in Periods : ww[k] = <<>>) => ww = Nothing
    BY <1>4 DEF Nothing
  <2> QED BY <1>1, <1>2, <1>6, <1>9, <1>16, <1>17, <2>1 DEF Sound
<1>19. y.handshake.of # 0 /\ ~y.handshake.settled => OnItsWay(y, y.handshake.of)
  BY <1>1, <1>6, <1>9, <1>14 DEF Sound
<1>20. \A k \in Periods : y.waiting[k] # <<>> => OnItsWay(y, k)
  BY <1>1, <1>4, <1>9, <1>14 DEF Sound
<1>21. y.opening.of # 0 => y.opening.place \in 1..Len(y.waiting[y.opening.of]) + 1
  <2> SUFFICES ASSUME gg.of # 0 PROVE gg.place \in 1..Len(ww[gg.of]) + 1
    BY <1>9
  <2>1. gg = s.opening /\ gg.of # p /\ gg.of \in Periods
    BY <1>5
  <2>2. ww[gg.of] = s.waiting[s.opening.of]
    BY <1>4, <2>1
  <2> QED BY <1>1, <2>1, <2>2 DEF Sound
<1>22. Sound(y)
  BY <1>1, <1>6, <1>9, <1>12, <1>13, <1>18, <1>19, <1>20, <1>21 DEF Sound
<1>23. Known(y, w) /\ Carried(y, ms, v, o)
  BY <1>1, <1>9, <1>10 DEF Fine, Known, Carried
<1>24. Fine(y, w, ms, v, o)
  BY <1>22, <1>23 DEF Fine
<1>25. \A i \in DOMAIN fs :
         /\ ~Asks(fs[i])
         /\ fs[i].type \in Private => y.link /\ w # Nobody
         /\ fs[i].type = "command" => Given(fs[i], ms, v)
  BY <1>1, <1>8, <1>9 DEF Asks
<1>26. /\ Fine(t, w, ms, v, o) /\ t.link = y.link /\ t.opening = y.opening
       /\ t.handshake = y.handshake /\ t.waiting = y.waiting
       /\ t.told = IF Said(fs) = {} THEN y.told ELSE Said(fs)
  BY <1>7, <1>8, <1>24, <1>25, SendKeeps
<1>27. ASSUME NEW m, Telling(s, m) PROVE Telling(t, m)
  <2>1. h # 0 /\ h \in Periods /\ t.handshake.of = h /\ t.waiting = ww
    BY <1>1, <1>6, <1>9, <1>26, <1>27 DEF Telling
  <2>2. Said(<<>>) = {}
    BY SaidNothing
  <2>3. CASE h = p
    <3>1. \A k \in Periods : Said(ww[k]) = {}
      BY <1>16, <2>2, <2>3
    <3>2. t.told = {m}
      BY <1>8, <1>9, <1>26, <1>27, <2>3 DEF Telling
    <3> QED BY <2>1, <3>1, <3>2 DEF Telling
  <2>4. CASE h # p
    <3>1. ww[h] = s.waiting[h]
      BY <1>4, <2>1, <2>4
    <3>2. CASE Said(s.waiting[h]) # {}
      BY <1>27, <2>1, <3>1, <3>2 DEF Telling
    <3>3. CASE Said(s.waiting[h]) = {}
      <4>1. s.told = {m} /\ \A k \in Periods : Said(s.waiting[k]) = {}
        BY <1>27, <3>3 DEF Telling
      <4>2. t.told = {m}
        BY <1>2, <1>8, <1>9, <1>26, <4>1
      <4>3. \A k \in Periods : Said(ww[k]) = {}
        BY <1>4, <2>2, <4>1
      <4> QED BY <2>1, <4>2, <4>3 DEF Telling
    <3> QED BY <3>2, <3>3
  <2> QED BY <2>3, <2>4
<1> QED BY <1>6, <1>9, <1>26, <1>27 DEF gg, p

\* A connection on which nothing is under way fits any server.
LEMMA EmptyKeeps ==
  ASSUME NEW t \in Sockets, ~t.link, t.out = <<>>, t.in = <<>>, t.handshake = NoHandshake,
         t.waiting = Nothing, t.opening = NoOpening
  PROVE  \A w, ms, v, o : Fine(t, w, ms, v, o)
<1>1. DOMAIN t.out = {} /\ DOMAIN t.in = {}
  OBVIOUS
<1>2. \A p \in Periods : t.waiting[p] = <<>>
  BY DEF Nothing
<1>3. t.handshake.of = 0 /\ ~t.handshake.settled /\ t.opening.of = 0
  BY DEF NoHandshake, NoOpening
<1>4. Queued(t) /\ AllRecent(t)
  BY <1>1 DEF Queued, AllRecent
<1>5. Sound(t)
  BY <1>2, <1>3, <1>4 DEF Sound
<1>6. \A w : Known(t, w)
  BY <1>1, <1>3 DEF Known
<1>7. \A ms, v, o : Carried(t, ms, v, o)
  BY <1>1 DEF Carried
<1> QED BY <1>5, <1>6, <1>7 DEF Fine

LEMMA DropKeeps ==
  ASSUME NEW s \in Sockets
  PROVE  /\ Dropped(s) \in Sockets /\ ~Dropped(s).link /\ Dropped(s).opening = NoOpening
         /\ \A w, ms, v, o : Fine(Dropped(s), w, ms, v, o)
         /\ [Dropped(s) EXCEPT !.barred = TRUE] \in Sockets
         /\ ~[Dropped(s) EXCEPT !.barred = TRUE].link
         /\ [Dropped(s) EXCEPT !.barred = TRUE].opening = NoOpening
         /\ \A w, ms, v, o : Fine([Dropped(s) EXCEPT !.barred = TRUE], w, ms, v, o)
<1> DEFINE d == Dropped(s)
           b == [d EXCEPT !.barred = TRUE]
<1>1. Nothing \in [Periods -> Seq(Continuations)] /\ NoOpening \in [of : {0} \cup Periods, place : Nat]
      /\ NoHandshake \in [of : {0} \cup Periods, settled : BOOLEAN]
  BY DEF Nothing, NoOpening, NoHandshake
<1>2. /\ d \in Sockets /\ ~d.link /\ d.out = <<>> /\ d.in = <<>> /\ d.handshake = NoHandshake
      /\ d.waiting = Nothing /\ d.opening = NoOpening
  <2> DEFINE f == [s EXCEPT !.handshake = NoHandshake]
  <2>1. f \in Sockets /\ f.handshake = NoHandshake
    BY <1>1 DEF Sockets
  <2> DEFINE e == <<>>
  <2>2. e \in Seq(Questions) /\ e \in Seq(Events)
    OBVIOUS
  <2> HIDE DEF e, f
  <2>3. d = [f EXCEPT !.link = FALSE, !.out = e, !.in = e, !.waiting = Nothing, !.opening = NoOpening]
    BY DEF Dropped, Forget, e, f
  <2> HIDE DEF d
  <2>4. /\ d \in Sockets /\ ~d.link /\ d.out = e /\ d.in = e /\ d.handshake = f.handshake
        /\ d.waiting = Nothing /\ d.opening = NoOpening
    BY <1>1, <2>1, <2>2, <2>3 DEF Sockets
  <2> QED BY <2>1, <2>4 DEF e
<1> HIDE DEF d
<1>3. /\ b \in Sockets /\ ~b.link /\ b.out = <<>> /\ b.in = <<>> /\ b.handshake = NoHandshake
      /\ b.waiting = Nothing /\ b.opening = NoOpening
  BY <1>2 DEF Sockets
<1> HIDE DEF b
<1>4. \A w, ms, v, o : Fine(d, w, ms, v, o)
  BY <1>2, EmptyKeeps
<1>5. \A w, ms, v, o : Fine(b, w, ms, v, o)
  BY <1>3, EmptyKeeps
<1> QED BY <1>2, <1>3, <1>4, <1>5 DEF b, d

LEMMA ClosedTyped == Closed \in Sockets
<1> DEFINE e == <<>>
           z == {}
<1>1. e \in Seq(Questions) /\ e \in Seq(Events) /\ z \in SUBSET Preferences
      /\ 0 \in 0..MaxConnections
  BY ClientAssumption
<1>2. Nothing \in [Periods -> Seq(Continuations)] /\ NoOpening \in [of : {0} \cup Periods, place : Nat]
      /\ NoHandshake \in [of : {0} \cup Periods, settled : BOOLEAN]
  BY DEF Nothing, NoOpening, NoHandshake
<1>3. Closed = [link |-> FALSE, connections |-> 0, barred |-> FALSE, handshake |-> NoHandshake,
                waiting |-> Nothing, opening |-> NoOpening, out |-> e, in |-> e, told |-> z]
  BY DEF Closed
<1> HIDE DEF e, z
<1> QED BY <1>1, <1>2, <1>3 DEF Sockets

LEMMA ClosedKeeps ==
  ASSUME NEW n \in 0..MaxConnections
  PROVE  /\ [Closed EXCEPT !.connections = n] \in Sockets
         /\ ~[Closed EXCEPT !.connections = n].link
         /\ [Closed EXCEPT !.connections = n].opening = NoOpening
         /\ \A w, ms, v, o : Fine([Closed EXCEPT !.connections = n], w, ms, v, o)
<1> DEFINE t == [Closed EXCEPT !.connections = n]
<1>1. t \in Sockets
  BY ClosedTyped DEF Sockets
<1>2. /\ ~t.link /\ t.out = <<>> /\ t.in = <<>> /\ t.handshake = NoHandshake
      /\ t.waiting = Nothing /\ t.opening = NoOpening
  BY DEF Closed
<1> HIDE DEF t
<1>3. \A w, ms, v, o : Fine(t, w, ms, v, o)
  BY <1>1, <1>2, EmptyKeeps
<1> QED BY <1>1, <1>2, <1>3 DEF t

\* A link that comes up begins a new period, which no handshake under way is of.
LEMMA ConnectKeeps ==
  ASSUME NEW s, NEW w, NEW ms, NEW v, NEW o, Fine(s, w, ms, v, o),
         ~s.link, s.connections < MaxConnections,
         NEW t, t = [Forget(s) EXCEPT !.link = TRUE, !.connections = @ + 1, !.told = {}]
  PROVE  Fine(t, w, ms, v, o) /\ t.link /\ ~t.handshake.settled /\ t.opening = s.opening
<1>1. Sound(s) /\ s \in Sockets /\ s.connections \in 0..MaxConnections /\ MaxConnections \in Nat
      /\ s.in \in Seq(Events) /\ s.out \in Seq(Questions)
  BY SocketFields DEF Fine, Sound
<1>2. NoHandshake \in [of : {0} \cup Periods, settled : BOOLEAN] /\ NoHandshake.of = 0 /\ ~NoHandshake.settled
  BY DEF NoHandshake
<1>3. /\ t \in Sockets /\ t.link /\ t.connections = s.connections + 1 /\ t.handshake = NoHandshake
      /\ t.out = s.out /\ t.in = s.in /\ t.waiting = s.waiting /\ t.opening = s.opening
  <2> DEFINE f == [s EXCEPT !.handshake = NoHandshake]
             c == s.connections + 1
  <2>1. /\ f \in Sockets /\ f.handshake = NoHandshake /\ f.out = s.out /\ f.in = s.in
        /\ f.waiting = s.waiting /\ f.opening = s.opening /\ f.connections = s.connections
    BY <1>1, <1>2 DEF Sockets
  <2>2. c \in 0..MaxConnections
    BY <1>1
  <2> HIDE DEF f, c
  <2>3. t = [f EXCEPT !.link = TRUE, !.connections = c, !.told = {}]
    BY <2>1 DEF Forget, f, c
  <2>4. t \in Sockets
    BY <2>1, <2>2, <2>3 DEF Sockets
  <2> QED BY <2>1, <2>2, <2>3, <2>4 DEF Sockets, c
<1>4. ASSUME NEW p \in Periods, Recent(s, p) PROVE Recent(t, p)
  BY <1>1, <1>2, <1>3, <1>4, SMTT(40) DEF Recent, Period, Periods
<1>5. AllRecent(t)
  <2>1. AllRecent(s)
    BY <1>1 DEF Sound
  <2>2. \A i \in DOMAIN s.out : Asks(s.out[i]) => s.out[i].of \in Periods
    BY <1>1, Kinds
  <2>3. \A i \in DOMAIN s.in : Settles(s.in[i]) => s.in[i].of \in Periods
    BY <1>1, Kinds
  <2> QED BY <1>3, <1>4, <2>1, <2>2, <2>3 DEF AllRecent
<1>6. Queued(t)
  BY <1>1, <1>3 DEF Sound, Queued
<1>7. \A p : OnItsWay(s, p) => OnItsWay(t, p)
  BY <1>3 DEF OnItsWay
<1>8. Sound(t)
  BY <1>1, <1>2, <1>3, <1>5, <1>6, <1>7 DEF Sound
<1>9. Known(t, w) /\ Carried(t, ms, v, o)
  BY <1>2, <1>3 DEF Fine, Known, Carried
<1> QED BY <1>2, <1>3, <1>8, <1>9 DEF Fine

\* What was fine stays so as the match goes on and its screens show it.
LEMMA LaterKeeps ==
  ASSUME NEW s, NEW w, NEW ms, NEW v \in 0..Len(Legal), NEW o, Fine(s, w, ms, v, o),
         NEW w2, w # Nobody => w2 # Nobody, NEW ms2, ms \subseteq ms2,
         NEW v2 \in 0..Len(Legal), v <= v2, NEW o2, o => o2
  PROVE  Fine(s, w2, ms2, v2, o2)
<1>0. Sound(s) /\ s.in \in Seq(Events) /\ s.out \in Seq(Questions) /\ Len(Legal) \in Nat
  BY SocketFields, ClientAssumption DEF Fine, Sound
<1>1. ASSUME NEW c \in Orders, Given(c, ms, v) PROVE Given(c, ms2, v2)
  BY <1>0, <1>1 DEF Given, Orders, Versions
<1>2. ASSUME NEW c \in Orders, Late(c, v, o) PROVE Late(c, v2, o2)
  BY <1>0, <1>2 DEF Late, Orders, Versions
<1>3. ASSUME NEW e \in Events, Told(e, ms, v, o) PROVE Told(e, ms2, v2, o2)
  <2>1. e.type \in {"found", "committed", "snapshot", "answer"} => e.version \in 1..Len(Legal)
    BY Kinds DEF Versions
  <2>2. e.type = "answer" => e.command \in Orders
    BY Kinds
  <2> QED BY <1>0, <1>1, <1>2, <1>3, <2>1, <2>2 DEF Told
<1>4. Carried(s, ms2, v2, o2)
  <2>1. \A i \in DOMAIN s.in : s.in[i] \in Events
    BY <1>0
  <2>2. \A i \in DOMAIN s.out : s.out[i].type = "command" => s.out[i] \in Orders
    BY <1>0, Kinds
  <2> QED BY <1>1, <1>3, <2>1, <2>2 DEF Fine, Carried
<1>5. Known(s, w2)
  BY DEF Fine, Known
<1> QED BY <1>0, <1>4, <1>5 DEF Fine

\* A screen that opens asks for its handshake, tells what it has to, and then opens.
LEMMA OpenedKeeps ==
  ASSUME NEW s, NEW w, NEW ms, NEW v, NEW o, Fine(s, w, ms, v, o), NEW n \in Nat,
         NEW ks \in Seq(Continuations), session \in Session \cup {Nobody}
  PROVE  /\ Fine(Opened(s, n, ks).sock, w, ms, v, o) /\ Opened(s, n, ks).sock.link = s.link
         /\ Opened(s, n, ks).phase \in {"ready", "authenticating"}
         /\ Opened(s, n, ks).phase = "ready" <=> s.handshake.settled
         /\ \A m : ks = <<Mute(m)>> => Telling(Opened(s, n, ks).sock, m)
<1> DEFINE x == WithoutOpening(s)
           y == Authenticate(x, ks)
<1>1. Fine(x, w, ms, v, o) /\ x.link = s.link /\ x.handshake = s.handshake
  BY CallOffKeeps
<1>2. /\ Fine(y, w, ms, v, o) /\ y.link = x.link /\ y.handshake.of # 0
      /\ (y.handshake.settled <=> x.handshake.settled)
  <2> HIDE DEF x
  <2> QED BY <1>1, AuthenticateKeeps
<1>3. \A m : ks = <<Mute(m)>> => Telling(y, m)
  <2>1. Sound(x)
    BY <1>1 DEF Fine
  <2> HIDE DEF x
  <2> QED BY <2>1, AuthenticateTells
<1>4. /\ Opened(s, n, ks).sock = Opens(y, n)
      /\ Opened(s, n, ks).phase = IF y.handshake.settled THEN "ready" ELSE "authenticating"
  BY DEF Opened
<1> HIDE DEF x, y
<1>5. /\ Fine(Opens(y, n), w, ms, v, o) /\ Opens(y, n).link = y.link
      /\ \A m : Telling(y, m) => Telling(Opens(y, n), m)
  BY <1>2, OpensKeeps
<1> QED BY <1>1, <1>2, <1>3, <1>4, <1>5

\* A connection whose handshake is answered is up, and the server knows it.
LEMMA SettledKnows ==
  ASSUME NEW s, NEW w, NEW ms, NEW v, NEW o, Fine(s, w, ms, v, o), s.handshake.settled
  PROVE  s.link /\ w # Nobody
BY DEF Fine, Sound, Known

\* The mutes are told as soon as the seat is shown, and stay told.
LEMMA EffectsKeep ==
  ASSUME NEW s, NEW w, NEW ms, NEW v, NEW o, Fine(s, w, ms, v, o), NEW b, NEW a,
         session \in Session \cup {Nobody}, mutes \in Preferences,
         Seated(board, actor) /\ s.link => Telling(s, mutes)
  PROVE  /\ Fine(Effects(s, b, a), w, ms, v, o) /\ Effects(s, b, a).link = s.link
         /\ Effects(s, b, a).opening = s.opening
         /\ Seated(b, a) /\ s.link => Telling(Effects(s, b, a), mutes)
<1> DEFINE ks == <<Mute(mutes)>>
<1>1. ks \in Seq(Continuations)
  BY DEF Continuations, Mute
<1>2. Sound(s)
  BY DEF Fine
<1>3. Telling(Authenticate(s, ks), mutes)
  BY <1>2, AuthenticateTells
<1> HIDE DEF ks
<1>4. CASE ~Seated(board, actor) /\ Seated(b, a)
  <2>1. Effects(s, b, a) = Authenticate(s, ks)
    BY <1>4 DEF Effects, ks
  <2>2. Fine(Authenticate(s, ks), w, ms, v, o) /\ Authenticate(s, ks).link = s.link
        /\ Authenticate(s, ks).opening = s.opening
    BY <1>1, AuthenticateKeeps
  <2> QED BY <1>3, <2>1, <2>2
<1>5. CASE ~(~Seated(board, actor) /\ Seated(b, a))
  <2>1. Effects(s, b, a) = s
    BY <1>5 DEF Effects
  <2> QED BY <1>5, <2>1
<1> QED BY <1>4, <1>5

\* An answer to a handshake.
LEMMA AnsweredKeeps ==
  ASSUME NEW s, NEW w, NEW ms, NEW v, NEW o, Fine(s, w, ms, v, o),
         s.link, s.out # <<>>, Asks(Head(s.out)),
         NEW es, NEW w2, Answering(es, Head(s.out).of, w2), w # Nobody => w2 # Nobody
  PROVE  /\ Fine(Tell([s EXCEPT !.out = Tail(@)], es), w2, ms, v, o)
         /\ Tell([s EXCEPT !.out = Tail(@)], es).link = s.link
         /\ Tell([s EXCEPT !.out = Tail(@)], es).opening = s.opening
         /\ \A m : Telling(s, m) => Telling(Tell([s EXCEPT !.out = Tail(@)], es), m)
<1> DEFINE q == Tail(s.out)
           x == [s EXCEPT !.out = q]
           r == x.in \o es
           t == [x EXCEPT !.in = r]
<1>1. s \in Sockets /\ s.in \in Seq(Events) /\ s.out \in Seq(Questions) /\ es \in Seq(Events)
  BY SocketFields DEF Fine, Sound, Answering
<1>2. q \in Seq(Questions)
  BY <1>1, RestOf
<1> HIDE DEF q
<1>3. /\ x \in Sockets /\ x.out = q /\ x.in = s.in /\ x.link = s.link
      /\ x.opening = s.opening /\ x.connections = s.connections /\ x.handshake = s.handshake
      /\ x.waiting = s.waiting /\ x.told = s.told
  BY <1>1, <1>2 DEF Sockets
<1>4. Tell(x, es) = t
  BY <1>3 DEF Tell
<1> HIDE DEF x
<1>5. r \in Seq(Events)
  BY <1>1, <1>3, BothOf
<1>6. r = s.in \o es
  BY <1>3
<1> HIDE DEF r
<1>7. /\ t \in Sockets /\ t.out = q /\ t.in = r /\ t.link = s.link
      /\ t.opening = s.opening /\ t.connections = s.connections /\ t.handshake = s.handshake
      /\ t.waiting = s.waiting /\ t.told = s.told
  BY <1>3, <1>5 DEF Sockets
<1> HIDE DEF t
<1>8. /\ Fine(t, w2, ms, v, o) /\ t.link = s.link /\ t.opening = s.opening
      /\ \A m : Telling(s, m) => Telling(t, m)
  <2>1. Replied(s, es, w2, t)
    BY <1>6, <1>7 DEF Replied, q
  <2>2. Fine(t, w2, ms, v, o)
    BY <2>1, AnswerKeeps
  <2>3. t.link = s.link /\ t.opening = s.opening
    BY <2>1 DEF Replied
  <2>4. \A m : Telling(s, m) => Telling(t, m)
    BY <2>1, AnswerKeeps
  <2> QED BY <2>2, <2>3, <2>4
<1>9. Tell([s EXCEPT !.out = Tail(@)], es) = t
  BY <1>4 DEF x, q
<1> QED BY <1>8, <1>9

-----------------------------------------------------------------------------
(* Steps of the server.                                                     *)

LEMMA ShowingTyped ==
  ASSUME WindowTyped, screen = "match", board.shown # 0
  PROVE  visits \in Showing
BY DEF WindowTyped, Showing

\* What the server does to the match and to who waits for one: the match goes on.
GoesOn ==
  /\ who' \in Session \cup {Nobody} /\ (who # Nobody => who' # Nobody)
  /\ joining' \in Seq(Nat) /\ (joining' # <<>> => who' # Nobody)
  /\ entry' \in Session \cup {Nobody} /\ player' \in Session \cup {Nobody}
  /\ (player' = player \/ player = Nobody) /\ (player' = Nobody <=> version' = 0)
  /\ over' \in BOOLEAN /\ (over => over') /\ version' \in 0..Len(Legal) /\ version <= version'

\* A connection that stands as the window's does.
Stands(s) ==
  s.link = sock.link /\ s.opening = sock.opening /\ \A m : Telling(sock, m) => Telling(s, m)

LEMMA ServerStep ==
  ASSUME ClientInduction, UNCHANGED Untouched, GoesOn,
         Fine(sock', who', Showing, version', over'), Stands(sock')
  PROVE  ClientInduction'
<1>0. /\ who' \in Session \cup {Nobody} /\ (who # Nobody => who' # Nobody)
      /\ joining' \in Seq(Nat) /\ (joining' # <<>> => who' # Nobody)
      /\ entry' \in Session \cup {Nobody} /\ player' \in Session \cup {Nobody}
      /\ (player' = player \/ player = Nobody) /\ (player' = Nobody <=> version' = 0)
      /\ over' \in BOOLEAN /\ (over => over') /\ version' \in 0..Len(Legal) /\ version <= version'
      /\ sock'.link = sock.link /\ sock'.opening = sock.opening
      /\ \A m : Telling(sock, m) => Telling(sock', m)
  BY DEF GoesOn, Stands
<1>1. UNCHANGED <<screen, visits, session, vault, saves, lost, actor, phase, mutes, board, quit>>
  BY DEF Untouched, home
<1>2. /\ WindowTyped /\ Fine(sock, who, Showing, version, over)
      /\ ShownIsPast /\ Screened /\ CloseWaits /\ Stored
      /\ Seated(board, actor) /\ sock.link => Telling(sock, mutes)
  BY DEF ClientInduction
<1>3. WindowTyped'
  BY <1>0, <1>1, <1>2 DEF WindowTyped
<1>4. Showing' = Showing
  BY <1>0, <1>1 DEF Showing
<1>5. Len(Legal) \in Nat /\ version \in Nat /\ version' \in Nat /\ board.shown \in Nat
  BY <1>0, <1>2, ClientAssumption DEF WindowTyped, Boards
<1>6. ShownIsPast'
  <2>1. board.pending # NoCommand => Given(board.pending, Showing, version')
    <3>1. ASSUME board.pending # NoCommand PROVE board.pending.version \in Nat
      BY <1>0, <1>2, <3>1, <1>5 DEF WindowTyped, Boards, Orders, Versions
    <3> QED BY <1>0, <1>2, <1>5, <3>1 DEF ShownIsPast, Given
  <2>2. board.shown <= version'
    BY <1>0, <1>2, <1>5 DEF ShownIsPast
  <2> QED BY <1>0, <1>1, <1>2, <1>4, <2>1, <2>2 DEF ShownIsPast
<1>7. Screened'
  BY <1>0, <1>1, <1>2 DEF Screened
<1>8. CloseWaits'
  <2>1. quit.at \in Nat
    BY <1>0, <1>2 DEF WindowTyped
  <2> QED BY <1>0, <1>1, <1>2, <1>5, <2>1 DEF CloseWaits
<1>9. Stored'
  BY <1>0, <1>1, <1>2 DEF Stored
<1>10. ASSUME Seated(board, actor)', sock'.link PROVE Telling(sock', mutes')
  <2>1. player = Nobody => board.shown = 0
    BY <1>0, <1>2, <1>5 DEF ShownIsPast
  <2>2. Seated(board, actor)
    BY <1>0, <1>1, <1>10, <2>1 DEF Seated
  <2> QED BY <1>0, <1>1, <1>2, <1>10, <2>2
<1> QED BY <1>0, <1>3, <1>4, <1>6, <1>7, <1>8, <1>9, <1>10 DEF ClientInduction

\* What the steps of the server find.
LEMMA ServerFinds ==
  ASSUME ClientInduction
  PROVE  /\ Fine(sock, who, Showing, version, over) /\ Sound(sock) /\ sock \in Sockets
         /\ sock.in \in Seq(Events) /\ sock.out \in Seq(Questions)
         /\ who \in Session \cup {Nobody} /\ joining \in Seq(Nat)
         /\ entry \in Session \cup {Nobody} /\ player \in Session \cup {Nobody}
         /\ over \in BOOLEAN /\ version \in 0..Len(Legal) /\ Len(Legal) \in Nat /\ version \in Nat
         /\ (player = Nobody <=> version = 0) /\ (joining # <<>> => who # Nobody)
BY SocketFields, ClientAssumption DEF ClientInduction, WindowTyped, Fine, Sound, ShownIsPast

\* The frame that is served.
LEMMA FrameServed ==
  ASSUME ClientInduction, sock.out # <<>>
  PROVE  Frame = sock.out[1] /\ 1 \in DOMAIN sock.out /\ Frame \in Questions
<1>1. sock.out \in Seq(Questions)
  BY ServerFinds
<1> QED BY <1>1, RestOf DEF Frame

LEMMA ServeAuthenticateStep == ASSUME ClientInduction, ServeAuthenticate PROVE ClientInduction'
<1>1. Received("authenticate") /\ sock.link /\ sock.out # <<>> /\ Asks(Frame) /\ Asks(Head(sock.out))
  BY DEF ServeAuthenticate, Received, Asks, Frame
<1>2. Frame.of \in Periods /\ Frame.token \in Session \cup {Nobody}
  BY <1>1, FrameServed, Kinds
<1>3. UNCHANGED <<Untouched, joining, entry, player, over, version>>
  BY DEF ServeAuthenticate
<1>4. Taken = [sock EXCEPT !.out = Tail(@)] /\ Frame = Head(sock.out)
  BY DEF Taken, Frame
<1>5. ASSUME NEW es, NEW w2, Answering(es, Frame.of, w2), who # Nobody => w2 # Nobody,
             w2 \in Session \cup {Nobody}, sock' = Tell(Taken, es), who' = w2
      PROVE  ClientInduction'
  <2>1. Fine(sock, who, Showing, version, over) /\ Answering(es, Head(sock.out).of, w2)
    BY <1>4, <1>5, ServerFinds
  <2>2. /\ Fine(Tell(Taken, es), w2, Showing, version, over)
        /\ Tell(Taken, es).link = sock.link /\ Tell(Taken, es).opening = sock.opening
        /\ \A m : Telling(sock, m) => Telling(Tell(Taken, es), m)
    <3>1. /\ Fine(Tell([sock EXCEPT !.out = Tail(@)], es), w2, Showing, version, over)
          /\ Tell([sock EXCEPT !.out = Tail(@)], es).link = sock.link
          /\ Tell([sock EXCEPT !.out = Tail(@)], es).opening = sock.opening
          /\ \A m : Telling(sock, m) => Telling(Tell([sock EXCEPT !.out = Tail(@)], es), m)
      BY <1>1, <1>5, <2>1, AnsweredKeeps
    <3> QED BY <1>4, <3>1, Zenon
  <2>3. Fine(sock', who', Showing, version', over') /\ Stands(sock')
    BY <1>3, <1>5, <2>2 DEF Stands
  <2>4. GoesOn
    BY <1>3, <1>5, ServerFinds DEF GoesOn
  <2> QED BY <1>3, <2>3, <2>4, ServerStep
<1>6. CASE Frame.token = Nobody
  <2> DEFINE e == [type |-> "refused", of |-> Frame.of]
             es == <<e>>
  <2>1. sock' = Tell(Taken, es) /\ who' = who
    BY <1>6 DEF ServeAuthenticate
  <2>2. e \in Events /\ Settles(e) /\ e.of = Frame.of /\ e.type = "refused"
    BY <1>2 DEF Events, Settles
  <2> HIDE DEF e
  <2>3. Answering(es, Frame.of, who)
    BY <2>2 DEF Answering
  <2> HIDE DEF es
  <2> QED BY <1>5, <2>1, <2>3, ServerFinds
<1>7. CASE Frame.token # Nobody
  <2> DEFINE r == [type |-> "ready", actor |-> Frame.token]
             e == [type |-> "welcome", of |-> Frame.of]
             es == <<r, e>>
  <2>1. sock' = Tell(Taken, es) /\ who' = Frame.token
    BY <1>7 DEF ServeAuthenticate
  <2>2. e \in Events /\ Settles(e) /\ e.of = Frame.of /\ e.type = "welcome"
    BY <1>2 DEF Events, Settles
  <2>3. r \in Events /\ ~Settles(r) /\ r.type = "ready"
    BY <1>2, <1>7 DEF Events, Settles
  <2> HIDE DEF r, e
  <2>4. Answering(es, Frame.of, Frame.token)
    BY <1>7, <2>2, <2>3 DEF Answering
  <2> HIDE DEF es
  <2> QED BY <1>2, <1>5, <1>7, <2>1, <2>4
<1> QED BY <1>6, <1>7

\* A step that takes a frame, or none, and tells something of the match.
News(es, w, ms, v, o) ==
  /\ es \in Seq(Events)
  /\ \A i \in DOMAIN es : /\ ~Settles(es[i]) /\ Told(es[i], ms, v, o)
                          /\ es[i].type = "snapshot" => w # Nobody

LEMMA TellStep ==
  ASSUME ClientInduction, UNCHANGED <<Untouched, who>>, GoesOn,
         NEW s, Fine(s, who, Showing, version, over), Stands(s),
         NEW es, News(es, who, Showing, version', over'), sock' \in {s, Tell(s, es)}
  PROVE  ClientInduction'
<1>1. Fine(s, who, Showing, version', over')
  BY ServerFinds, LaterKeeps DEF GoesOn
<1>2. /\ Fine(Tell(s, es), who, Showing, version', over') /\ Tell(s, es).link = s.link
      /\ Tell(s, es).opening = s.opening
      /\ \A m : Telling(s, m) => Telling(Tell(s, es), m)
  BY <1>1, TellKeeps DEF News
<1>3. Fine(sock', who', Showing, version', over') /\ Stands(sock')
  <2>1. CASE sock' = s
    BY <1>1, <2>1 DEF Stands
  <2>2. CASE sock' = Tell(s, es)
    BY <1>2, <2>2 DEF Stands
  <2> QED BY <2>1, <2>2
<1> QED BY <1>3, ServerStep

\* A frame taken leaves a connection as fine as it was.
LEMMA TakenKeeps ==
  ASSUME ClientInduction, sock.out # <<>>, ~Asks(Frame)
  PROVE  Fine(Taken, who, Showing, version, over) /\ Stands(Taken)
<1>1. Fine(sock, who, Showing, version, over) /\ ~Asks(Head(sock.out))
  BY ServerFinds DEF Frame
<1>2. Taken = [sock EXCEPT !.out = Tail(@)]
  BY DEF Taken
<1> HIDE DEF Taken
<1>3. /\ Fine(Taken, who, Showing, version, over) /\ Taken.link = sock.link
      /\ Taken.opening = sock.opening /\ \A m : Telling(sock, m) => Telling(Taken, m)
  BY <1>1, <1>2, TakeKeeps, SMTT(40)
<1> QED BY <1>3 DEF Stands

LEMMA SockStands ==
  ASSUME ClientInduction PROVE Fine(sock, who, Showing, version, over) /\ Stands(sock)
BY ServerFinds DEF Stands

LEMMA ServeJoinStep == ASSUME ClientInduction, ServeJoin PROVE ClientInduction'
<1>1. Received("join") /\ sock.out # <<>> /\ Frame.type = "join" /\ ~Asks(Frame)
  BY DEF ServeJoin, Received, Asks
<1>2. Frame.mount \in Nat
  BY <1>1, FrameServed, Kinds
<1>3. UNCHANGED <<Untouched, who, entry, player, over, version>>
  BY DEF ServeJoin
<1>4. joining' \in Seq(Nat) /\ (joining' # <<>> => who # Nobody)
  <2>1. joining' = joining \/ (joining' = Append(joining, Frame.mount) /\ who # Nobody)
    BY DEF ServeJoin
  <2>2. joining \in Seq(Nat) /\ (joining # <<>> => who # Nobody)
    BY ServerFinds
  <2>3. Append(joining, Frame.mount) \in Seq(Nat)
    BY <1>2, <2>2, MoreOf
  <2> QED BY <2>1, <2>2, <2>3
<1> DEFINE e == Joined(Frame.mount, "refused")
           es == <<e>>
<1>5. e \in Events /\ e.type = "joined"
  BY <1>2 DEF Joined, Events
<1>6. sock' \in {Taken, Tell(Taken, es)}
  BY DEF ServeJoin
<1> HIDE DEF e
<1>7. News(es, who, Showing, version', over')
  BY <1>3, <1>5 DEF News, Settles, Told
<1> HIDE DEF es
<1>8. GoesOn
  BY <1>3, <1>4, ServerFinds DEF GoesOn
<1>9. Fine(Taken, who, Showing, version, over) /\ Stands(Taken)
  BY <1>1, TakenKeeps
<1> QED BY <1>3, <1>6, <1>7, <1>8, <1>9, TellStep

LEMMA ServeLeaveStep == ASSUME ClientInduction, ServeLeave PROVE ClientInduction'
<1>1. Received("leave") /\ sock.out # <<>> /\ ~Asks(Frame)
  BY DEF ServeLeave, Received, Asks
<1>2. UNCHANGED <<Untouched, who, joining, player, over, version>> /\ sock' = Taken
  BY DEF ServeLeave
<1>3. entry' \in Session \cup {Nobody}
  BY ServerFinds DEF ServeLeave
<1>4. GoesOn
  BY <1>2, <1>3, ServerFinds DEF GoesOn
<1>5. Fine(Taken, who, Showing, version, over) /\ Stands(Taken)
  BY <1>1, TakenKeeps
<1> QED BY <1>2, <1>4, <1>5, ServerStep

LEMMA ServeMuteStep == ASSUME ClientInduction, ServeMute PROVE ClientInduction'
<1>1. Received("mute") /\ sock.out # <<>> /\ ~Asks(Frame)
  BY DEF ServeMute, Received, Asks
<1>2. UNCHANGED <<Untouched, who, joining, entry, player, over, version>> /\ sock' = Taken
  BY DEF ServeMute, server
<1>3. GoesOn
  BY <1>2, ServerFinds DEF GoesOn
<1>4. Fine(Taken, who, Showing, version, over) /\ Stands(Taken)
  BY <1>1, TakenKeeps
<1> QED BY <1>2, <1>3, <1>4, ServerStep

LEMMA ServeSyncStep == ASSUME ClientInduction, ServeSync PROVE ClientInduction'
<1>1. Received("sync") /\ sock.out # <<>> /\ Frame.type = "sync" /\ ~Asks(Frame)
  BY DEF ServeSync, Received, Asks
<1>2. Frame.mount \in Nat /\ Frame.retry \in BOOLEAN
  BY <1>1, FrameServed, Kinds
<1>3. UNCHANGED <<Untouched, who, joining, entry, player, over, version>>
  BY DEF ServeSync, server
<1> DEFINE seated == who # Nobody /\ who = player
           snap == [type |-> "snapshot", mount |-> Frame.mount, retry |-> Frame.retry,
                    version |-> version, over |-> over]
           gone == [type |-> "gone", mount |-> Frame.mount]
           e == IF seated THEN snap ELSE gone
           es == <<e>>
<1>4. sock' = Tell(Taken, es)
  BY DEF ServeSync
<1>5. /\ e \in Events /\ ~Settles(e) /\ Told(e, Showing, version, over)
      /\ e.type = "snapshot" => who # Nobody
  <2>1. CASE seated
    <3>1. version \in Versions
      BY <2>1, ServerFinds DEF Versions
    <3>2. snap \in Events
      BY <1>2, <3>1, ServerFinds DEF Events
    <3> QED BY <2>1, <3>2, ServerFinds DEF Settles, Told
  <2>2. CASE ~seated
    BY <1>2, <2>2 DEF Events, Settles, Told
  <2> QED BY <2>1, <2>2
<1> HIDE DEF e
<1>6. News(es, who, Showing, version', over')
  BY <1>3, <1>5 DEF News
<1> HIDE DEF es
<1>7. GoesOn
  BY <1>3, ServerFinds DEF GoesOn
<1>8. Fine(Taken, who, Showing, version, over) /\ Stands(Taken)
  BY <1>1, TakenKeeps
<1> QED BY <1>3, <1>4, <1>6, <1>7, <1>8, TellStep

LEMMA ServeCommandStep == ASSUME ClientInduction, ServeCommand PROVE ClientInduction'
<1>1. Received("command") /\ sock.out # <<>> /\ Frame.type = "command" /\ ~Asks(Frame)
  BY DEF ServeCommand, Received, Asks
<1>2. Frame \in Orders /\ Frame.version \in Versions
  BY <1>1, FrameServed, Kinds DEF Orders
<1>3. UNCHANGED <<Untouched, who, joining, entry, player>>
  BY DEF ServeCommand
<1>4. Given(Frame, Showing, version)
  <2>1. Carried(sock, Showing, version, over) /\ Frame = sock.out[1] /\ 1 \in DOMAIN sock.out
    BY <1>1, ServerFinds, FrameServed DEF Fine
  <2> QED BY <1>1, <2>1 DEF Carried
<1>5. Frame.version \in Nat /\ Frame.version <= version /\ version \in Versions /\ version # 0
  BY <1>2, <1>4, ServerFinds DEF Given, Versions
<1>6. ASSUME NEW es \in Seq(Events), sock' = Tell(Taken, es),
             over' \in BOOLEAN, over => over', version' \in 1..Len(Legal), version <= version',
             \A i \in DOMAIN es : ~Settles(es[i]) /\ es[i].type # "snapshot"
                                  /\ Told(es[i], Showing, version', over')
      PROVE  ClientInduction'
  <2>1. GoesOn
    BY <1>3, <1>5, <1>6, ServerFinds DEF GoesOn
  <2>2. News(es, who, Showing, version', over')
    BY <1>6 DEF News
  <2>3. Fine(Taken, who, Showing, version, over) /\ Stands(Taken)
    BY <1>1, TakenKeeps
  <2> QED BY <1>3, <1>6, <2>1, <2>2, <2>3, TellStep
<1> DEFINE ans(ok) == Answer(Frame, ok)
<1>7. \A ok \in BOOLEAN :
        /\ ans(ok) \in Events /\ ~Settles(ans(ok)) /\ ans(ok).type = "answer"
        /\ ans(ok).command = Frame /\ ans(ok).version = version
  BY <1>2, <1>5, ServerFinds DEF Answer, Events, Settles
<1> HIDE DEF ans
<1>8. ASSUME NEW ok \in BOOLEAN, version' \in Versions, version <= version',
             Frame.move = Resignation => over' \/ Frame.version < version'
      PROVE  Told(ans(ok), Showing, version', over')
  <2>1. Given(Frame, Showing, version')
    BY <1>4, <1>5, <1>8 DEF Given, Versions
  <2>2. Late(Frame, version', over')
    BY <1>8 DEF Late
  <2> QED BY <1>5, <1>7, <1>8, <2>1, <2>2 DEF Told, Versions
<1>9. CASE over \/ Frame.version # version
  <2> DEFINE e == ans(FALSE)
             es == <<e>>
  <2>1. sock' = Tell(Taken, es) /\ UNCHANGED <<over, version>>
    BY <1>9 DEF ServeCommand, ans
  <2>2. (over' <=> over) /\ version' \in Versions /\ version <= version'
        /\ (over' \/ Frame.version < version')
    BY <1>5, <1>9, <2>1, ServerFinds
  <2>3. e \in Events /\ ~Settles(e) /\ e.type = "answer" /\ Told(e, Showing, version', over')
    BY <1>7, <1>8, <2>2
  <2> HIDE DEF e
  <2>4. es \in Seq(Events) /\ \A i \in DOMAIN es : ~Settles(es[i]) /\ es[i].type # "snapshot"
                                                  /\ Told(es[i], Showing, version', over')
    BY <2>3
  <2> HIDE DEF es
  <2> QED BY <1>5, <1>6, <2>1, <2>4, ServerFinds DEF Versions
<1>10. CASE ~(over \/ Frame.version # version) /\ Frame.move = Resignation
  <2> DEFINE n == Plain("ended")
             e == ans(TRUE)
             es == <<n, e>>
  <2>1. sock' = Tell(Taken, es) /\ over' = TRUE /\ version' = version
    BY <1>10 DEF ServeCommand, ans
  <2>2. over' /\ version' \in Versions /\ version <= version'
    BY <1>5, <2>1, ServerFinds
  <2>3. e \in Events /\ ~Settles(e) /\ e.type = "answer" /\ Told(e, Showing, version', over')
    BY <1>7, <1>8, <2>2
  <2>4. n \in Events /\ ~Settles(n) /\ n.type = "ended" /\ Told(n, Showing, version', over')
    BY DEF Plain, Events, Settles, Told
  <2> HIDE DEF n, e
  <2>5. es \in Seq(Events) /\ \A i \in DOMAIN es : ~Settles(es[i]) /\ es[i].type # "snapshot"
                                                  /\ Told(es[i], Showing, version', over')
    BY <2>3, <2>4
  <2> HIDE DEF es
  <2>6. over' \in BOOLEAN /\ version' \in 1..Len(Legal)
    BY <2>1, <2>2 DEF Versions
  <2> QED BY <1>6, <2>1, <2>2, <2>5, <2>6
<1>11. CASE ~(over \/ Frame.version # version) /\ Frame.move # Resignation
  <2> DEFINE n == Committed(version + 1)
             e == ans(TRUE)
             es == <<n, e>>
  <2>1. sock' = Tell(Taken, es) /\ over' = over /\ version' = version + 1
    BY <1>11 DEF ServeCommand, ans
  <2>2. version + 1 \in Versions
    <3>1. Legal[version] # {}
      BY <1>4, <1>11 DEF Given
    <3> QED BY <1>5, <3>1, ClientAssumption DEF Versions
  <2>3. version' \in Versions /\ version <= version'
    BY <1>5, <2>1, <2>2, ServerFinds
  <2>4. e \in Events /\ ~Settles(e) /\ e.type = "answer" /\ Told(e, Showing, version', over')
    BY <1>7, <1>8, <1>11, <2>3
  <2>5. n \in Events /\ ~Settles(n) /\ n.type = "committed" /\ n.version = version + 1
    BY <2>2 DEF Committed, Events, Settles
  <2>6. Told(n, Showing, version', over')
    BY <1>5, <2>1, <2>2, <2>5 DEF Told, Versions
  <2> HIDE DEF n, e
  <2>7. es \in Seq(Events) /\ \A i \in DOMAIN es : ~Settles(es[i]) /\ es[i].type # "snapshot"
                                                  /\ Told(es[i], Showing, version', over')
    BY <2>4, <2>5, <2>6
  <2> HIDE DEF es
  <2> QED BY <1>5, <1>6, <2>1, <2>2, <2>7, ServerFinds DEF Versions
<1> QED BY <1>9, <1>10, <1>11

LEMMA SettleJoinStep == ASSUME ClientInduction, SettleJoin PROVE ClientInduction'
<1>1. UNCHANGED <<Untouched, who, over>> /\ joining # <<>> /\ joining' = Tail(joining)
  BY DEF SettleJoin
<1>2. Head(joining) \in Nat /\ joining' \in Seq(Nat) /\ who # Nobody
  <2>1. joining \in Seq(Nat)
    BY ServerFinds
  <2>2. Head(joining) = joining[1] /\ joining[1] \in Nat /\ Tail(joining) \in Seq(Nat)
    BY <1>1, <2>1, RestOf
  <2> QED BY <1>1, <2>2, ServerFinds
<1>3. Fine(sock, who, Showing, version, over) /\ who \in Session \cup {Nobody} /\ over \in BOOLEAN
  BY ServerFinds
<1>4. ASSUME NEW es \in Seq(Events), sock' = Tell(sock, es),
             entry' \in Session \cup {Nobody}, player' \in Session \cup {Nobody},
             player' = player \/ player = Nobody, player' = Nobody <=> version' = 0,
             version' \in 0..Len(Legal), version <= version',
             \A i \in DOMAIN es :
               \/ es[i].type = "joined"
               \/ es[i].type = "found" /\ es[i].version \in Nat /\ es[i].version <= version'
      PROVE  ClientInduction'
  <2>1. News(es, who, Showing, version', over')
    BY <1>4 DEF News, Settles, Told
  <2>2. GoesOn
    BY <1>1, <1>2, <1>3, <1>4 DEF GoesOn
  <2> QED BY <1>1, <1>4, <2>1, <2>2, SockStands, TellStep
<1> DEFINE answer(state) == Joined(Head(joining), state)
<1>5. \A state \in {"queued", "matched", "refused"} :
        answer(state) \in Events /\ answer(state).type = "joined"
  BY <1>2 DEF Joined, Events
<1> HIDE DEF answer
<1>6. ASSUME NEW state \in {"queued", "refused"}, sock' = Tell(sock, <<answer(state)>>),
             UNCHANGED <<player, version>>, entry' \in Session \cup {Nobody}
      PROVE  ClientInduction'
  <2> DEFINE e == answer(state)
             es == <<e>>
  <2>1. e \in Events /\ e.type = "joined"
    BY <1>5
  <2> HIDE DEF e
  <2>2. es \in Seq(Events) /\ \A i \in DOMAIN es : es[i].type = "joined"
    BY <2>1
  <2>3. sock' = Tell(sock, es)
    BY <1>6 DEF e
  <2> HIDE DEF es
  <2>4. /\ player' \in Session \cup {Nobody} /\ version' \in 0..Len(Legal) /\ version <= version'
        /\ player' = player /\ (player' = Nobody <=> version' = 0)
    BY <1>6, ServerFinds
  <2> QED BY <1>4, <1>6, <2>2, <2>3, <2>4
<1>7. CASE /\ player = Nobody
           /\ player' = who /\ version' = 1 /\ entry' = Nobody
           /\ sock' = Tell(sock, <<[type |-> "found", version |-> 1], answer("matched")>>)
  <2> DEFINE f == [type |-> "found", version |-> 1]
             e == answer("matched")
             es == <<f, e>>
  <2>1. e \in Events /\ e.type = "joined"
    BY <1>5
  <2>2. f \in Events /\ f.type = "found" /\ f.version = 1
    BY ClientAssumption DEF Events, Versions
  <2> HIDE DEF e, f
  <2>3. /\ es \in Seq(Events)
        /\ \A i \in DOMAIN es : es[i].type = "joined" \/ (es[i].type = "found" /\ es[i].version = 1)
    BY <2>1, <2>2
  <2>4. sock' = Tell(sock, es)
    BY <1>7 DEF e, f
  <2> HIDE DEF es
  <2>5. version' \in 0..Len(Legal) /\ version = 0 /\ version <= version'
    BY <1>7, ServerFinds, ClientAssumption
  <2>6. \A i \in DOMAIN es :
          \/ es[i].type = "joined"
          \/ es[i].type = "found" /\ es[i].version \in Nat /\ es[i].version <= version'
    BY <1>7, <2>3
  <2>7. /\ player' \in Session \cup {Nobody} /\ (player' = Nobody <=> version' = 0)
        /\ entry' \in Session \cup {Nobody}
    BY <1>2, <1>3, <1>7
  <2> QED BY <1>4, <1>7, <2>3, <2>4, <2>5, <2>6, <2>7
<1>8. CASE /\ entry' = who /\ UNCHANGED <<player, version>>
           /\ sock' = Tell(sock, <<answer("queued")>>)
  BY <1>3, <1>6, <1>8
<1>9. CASE /\ sock' = Tell(sock, <<answer("refused")>>) /\ UNCHANGED <<entry, player, version>>
  BY <1>6, <1>9, ServerFinds
<1> USE DEF answer
<1> QED BY <1>7, <1>8, <1>9 DEF SettleJoin

LEMMA TickStep == ASSUME ClientInduction, Tick PROVE ClientInduction'
<1>1. UNCHANGED <<Untouched, who, joining, entry, player, over, version>>
  BY DEF Tick, server
<1> DEFINE e == Plain("status")
           es == <<e>>
<1>2. sock' = Tell(sock, es)
  BY DEF Tick
<1>3. e \in Events /\ e.type = "status"
  BY DEF Plain, Events
<1> HIDE DEF e
<1>4. News(es, who, Showing, version', over')
  BY <1>1, <1>3 DEF Settles, Told, News
<1> HIDE DEF es
<1>5. GoesOn
  BY <1>1, ServerFinds DEF GoesOn
<1> QED BY <1>1, <1>2, <1>4, <1>5, SockStands, TellStep

LEMMA PairStep == ASSUME ClientInduction, Pair PROVE ClientInduction'
<1>1. /\ UNCHANGED <<Untouched, who, joining, over>> /\ entry # Nobody /\ player = Nobody
      /\ player' = entry /\ version' = 1 /\ entry' = Nobody
  BY DEF Pair
<1> DEFINE e == [type |-> "found", version |-> 1]
           es == <<e>>
<1>2. sock' \in {sock, Tell(sock, es)}
  BY DEF Pair, TellActor
<1>3. e \in Events /\ e.type = "found" /\ e.version = 1
  BY ClientAssumption DEF Events, Versions
<1> HIDE DEF e
<1>4. News(es, who, Showing, version', over')
  BY <1>1, <1>3 DEF Settles, Told, News
<1> HIDE DEF es
<1>5. version' \in 0..Len(Legal) /\ version <= version'
  BY <1>1, ServerFinds, ClientAssumption
<1>6. GoesOn
  BY <1>1, <1>5, ServerFinds DEF GoesOn
<1> QED BY <1>1, <1>2, <1>4, <1>5, <1>6, SockStands, TellStep

LEMMA AdvanceStep == ASSUME ClientInduction, Advance PROVE ClientInduction'
<1>1. /\ UNCHANGED <<Untouched, who, joining, entry, player, over>> /\ player # Nobody
      /\ version < Len(Legal) /\ version' = version + 1
  BY DEF Advance
<1> DEFINE e == Committed(version + 1)
           es == <<e>>
<1>2. sock' \in {sock, Tell(sock, es)}
  BY DEF Advance, TellActor
<1>3. version + 1 \in Versions /\ version' \in 0..Len(Legal) /\ version <= version' /\ version' # 0
  BY <1>1, ServerFinds DEF Versions
<1>4. e \in Events /\ e.type = "committed" /\ e.version = version + 1
  BY <1>3 DEF Committed, Events
<1>5. ~Settles(e) /\ Told(e, Showing, version', over')
  BY <1>1, <1>3, <1>4 DEF Settles, Told, Versions
<1> HIDE DEF e
<1>6. News(es, who, Showing, version', over')
  BY <1>1, <1>4, <1>5 DEF News
<1> HIDE DEF es
<1>7. GoesOn
  BY <1>1, <1>3, ServerFinds DEF GoesOn
<1> QED BY <1>1, <1>2, <1>3, <1>6, <1>7, SockStands, TellStep

LEMMA FinishStep == ASSUME ClientInduction, Finish PROVE ClientInduction'
<1>1. UNCHANGED <<Untouched, who, joining, entry, player, version>> /\ over' = TRUE
  BY DEF Finish
<1> DEFINE e == Plain("ended")
           es == <<e>>
<1>2. sock' \in {sock, Tell(sock, es)}
  BY DEF Finish, TellActor
<1>3. e \in Events /\ e.type = "ended"
  BY DEF Plain, Events
<1> HIDE DEF e
<1>4. ~Settles(e) /\ Told(e, Showing, version', over')
  BY <1>3 DEF Settles, Told
<1>5. News(es, who, Showing, version', over')
  BY <1>3, <1>4 DEF News
<1> HIDE DEF es
<1>6. GoesOn
  BY <1>1, ServerFinds DEF GoesOn
<1> QED BY <1>1, <1>2, <1>5, <1>6, SockStands, TellStep

-----------------------------------------------------------------------------
(* Steps of the window.                                                     *)

LEMMA ClientFinds ==
  ASSUME ClientInduction
  PROVE  /\ WindowTyped /\ ShownIsPast /\ Screened /\ CloseWaits /\ Stored
         /\ screen \in {"home", "play", "match", "closed"} /\ visits \in Nat \ {0}
         /\ session \in Session \cup {Nobody} /\ actor \in Session \cup {Nobody}
         /\ phase \in {"idle", "joining", "waiting", "matched", "refused"}
         /\ mutes \in Preferences /\ board \in Boards /\ board.shown \in Nat
         /\ quit \in [asked : BOOLEAN, awaited : Orders \cup {NoCommand},
                      how : {"open", "free", "unheard", "resigned"}, at : Nat]
         /\ (Seated(board, actor) /\ sock.link => Telling(sock, mutes))
BY ServerFinds DEF ClientInduction, WindowTyped, Boards

\* What a screen that stays can show beside a connection s.
BoardFits(b, s) ==
  /\ b \in Boards /\ b.shown <= version /\ (board.shown # 0 => b.shown # 0)
  /\ b.pending # NoCommand => Given(b.pending, Showing, version) /\ b.shown # 0
  /\ b.phase = "ready" => s.link /\ who # Nobody
  /\ screen # "match" => b = NoBoard /\ s.opening.of = 0
  /\ screen = "closed" => ~s.link

QuitFits(q, b) ==
  /\ q \in [asked : BOOLEAN, awaited : Orders \cup {NoCommand},
            how : {"open", "free", "unheard", "resigned"}, at : Nat]
  /\ q.asked => b.shown # 0
  /\ q.awaited # NoCommand => q.awaited.move = Resignation
  /\ q.how = "resigned" => over \/ q.at < version

LEMMA SameFits ==
  ASSUME ClientInduction
  PROVE  BoardFits(board, sock) /\ QuitFits(quit, board)
BY ClientFinds DEF ShownIsPast, Screened, CloseWaits, BoardFits, QuitFits

LEMMA WindowStep ==
  ASSUME ClientInduction, UNCHANGED <<screen, visits, home, server>>,
         Fine(sock', who, Showing, version, over), BoardFits(board', sock'), QuitFits(quit', board'),
         actor' \in Session \cup {Nobody}, mutes' \in Preferences,
         phase' \in {"idle", "joining", "waiting", "matched", "refused"},
         screen # "play" => phase' = "idle",
         Seated(board', actor') /\ sock'.link => Telling(sock', mutes')
  PROVE  ClientInduction'
<1>1. /\ UNCHANGED <<screen, visits, session, vault, saves, lost>>
      /\ UNCHANGED <<who, joining, entry, player, over, version>>
  BY DEF home, server
<1>2. WindowTyped'
  BY <1>1, ClientFinds DEF WindowTyped, BoardFits, QuitFits
<1>3. Showing \subseteq Showing'
  BY <1>1 DEF Showing, BoardFits
<1>4. Fine(sock', who', Showing', version', over')
  <2>1. version \in 0..Len(Legal) /\ version <= version
    BY ServerFinds
  <2>2. Fine(sock', who, Showing', version, over)
    BY <1>3, <2>1, LaterKeeps
  <2> QED BY <1>1, <2>2
<1>5. ShownIsPast'
  <2>1. board'.pending # NoCommand => Given(board'.pending, Showing', version')
    BY <1>1, <1>3 DEF BoardFits, Given
  <2> QED BY <1>1, <2>1, ClientFinds DEF BoardFits, ShownIsPast
<1>6. Screened'
  BY <1>1 DEF BoardFits, Screened
<1>7. CloseWaits'
  BY <1>1 DEF QuitFits, CloseWaits
<1>8. Stored'
  BY <1>1, ClientFinds DEF Stored
<1>9. (joining # <<>> => who # Nobody)'
  BY <1>1, ServerFinds
<1>10. (Seated(board, actor) /\ sock.link => Telling(sock, mutes))'
  BY <1>1 DEF Seated
<1> QED BY <1>2, <1>4, <1>5, <1>6, <1>7, <1>8, <1>9, <1>10 DEF ClientInduction

LEMMA HomeStep ==
  ASSUME ClientInduction, UNCHANGED <<screen, visits, sock, phase, mutes, board, quit, server>>,
         actor' \in {actor, Nobody}, session' \in Session \cup {Nobody}, vault' \in Session \cup {Nobody},
         saves' \in Seq(Session \cup {Nobody}), lost' \in BOOLEAN, Stored'
  PROVE  ClientInduction'
<1>1. UNCHANGED <<who, joining, entry, player, over, version>>
  BY DEF server
<1>2. WindowTyped'
  BY <1>1, ClientFinds DEF WindowTyped
<1>3. Showing' = Showing
  BY <1>1 DEF Showing
<1>4. Fine(sock', who', Showing', version', over')
  BY <1>1, <1>3, ServerFinds
<1>5. ShownIsPast' /\ Screened' /\ CloseWaits'
  BY <1>1, <1>3, ClientFinds DEF ShownIsPast, Screened, CloseWaits
<1>6. (Seated(board, actor) /\ sock.link => Telling(sock, mutes))'
  BY <1>1, ClientFinds DEF Seated
<1>7. (joining # <<>> => who # Nobody)'
  BY <1>1, ServerFinds
<1> QED BY <1>2, <1>4, <1>5, <1>6, <1>7 DEF ClientInduction

\* A frame that is heard, unless it answers a handshake.
LEMMA EventHeard ==
  ASSUME ClientInduction, sock.in # <<>>
  PROVE  /\ Event = sock.in[1] /\ 1 \in DOMAIN sock.in /\ Event \in Events
         /\ sock.link /\ screen # "closed" /\ Event = Head(sock.in)
         /\ Told(Event, Showing, version, over)
         /\ Event.type \in {"welcome", "snapshot"} => who # Nobody
<1>1. sock.in \in Seq(Events) /\ Sound(sock) /\ Known(sock, who) /\ Carried(sock, Showing, version, over)
  BY ServerFinds DEF Fine
<1>2. Event = sock.in[1] /\ 1 \in DOMAIN sock.in /\ Event \in Events
  BY <1>1, RestOf DEF Event
<1>3. sock.link
  BY <1>1 DEF Sound
<1>4. screen # "closed"
  BY <1>3, ClientFinds DEF Screened
<1> QED BY <1>1, <1>2, <1>3, <1>4 DEF Known, Carried, Event

LEMMA HeardKeeps ==
  ASSUME ClientInduction, sock.in # <<>>, ~Settles(Event)
  PROVE  Fine(Heard, who, Showing, version, over) /\ Stands(Heard)
<1>1. Fine(sock, who, Showing, version, over) /\ ~Settles(Head(sock.in))
  BY ServerFinds DEF Event
<1>2. Heard = [sock EXCEPT !.in = Tail(@)]
  BY DEF Heard
<1> HIDE DEF Heard
<1>3. /\ Fine(Heard, who, Showing, version, over) /\ Heard.link = sock.link
      /\ Heard.opening = sock.opening /\ \A m : Telling(sock, m) => Telling(Heard, m)
  BY <1>1, <1>2, HearKeeps, SMTT(40)
<1> QED BY <1>3 DEF Stands

-----------------------------------------------------------------------------
(* What a window hears.                                                     *)

LEMMA FieldsHeard ==
  /\ \A e \in Events : e.type = "joined" => e.state \in {"queued", "matched", "refused"}
  /\ \A b \in Boards :
       /\ b.phase \in {"connecting", "authenticating", "ready", "lost", "reconnecting"}
       /\ b.shown \in 0..Len(Legal) /\ b.shown \in Nat /\ b.over \in BOOLEAN /\ b.ended \in BOOLEAN
       /\ b.pending \in Orders \cup {NoCommand} /\ b.selected \in Origin \cup {NoOrigin}
BY DEF Events, Boards

\* The hearing of a frame, whose effects follow on what it does to the board.
LEMMA HearingStep ==
  ASSUME ClientInduction, UNCHANGED <<screen, visits, home, phase, mutes, quit, server>>,
         NEW s, Fine(s, who, Showing, version, over), s.link = sock.link, s.opening = sock.opening,
         \A m : Telling(sock, m) => Telling(s, m),
         BoardFits(board', s), actor' \in Session \cup {Nobody},
         sock' \in {Effects(s, board', actor')} \cup (IF Seated(board', actor') => Seated(board, actor) THEN {s} ELSE {})
  PROVE  ClientInduction'
<1>1. Seated(board, actor) /\ s.link => Telling(s, mutes)
  BY ClientFinds
<1>2. /\ Fine(Effects(s, board', actor'), who, Showing, version, over)
      /\ Effects(s, board', actor').link = s.link /\ Effects(s, board', actor').opening = s.opening
      /\ Seated(board', actor') /\ s.link => Telling(Effects(s, board', actor'), mutes)
  BY <1>1, ClientFinds, EffectsKeep
<1> HIDE DEF Effects, Seated
<1>3. /\ Fine(sock', who, Showing, version, over) /\ sock'.link = s.link /\ sock'.opening = s.opening
      /\ Seated(board', actor') /\ s.link => Telling(sock', mutes)
  BY <1>1, <1>2
<1>4. BoardFits(board', sock')
  BY <1>3 DEF BoardFits
<1>5. QuitFits(quit', board')
  BY SameFits, ClientFinds, FieldsHeard DEF QuitFits, BoardFits
<1>6. screen # "play" => phase' = "idle"
  BY ClientFinds DEF Screened
<1>7. mutes' = mutes /\ phase' = phase
  OBVIOUS
<1> QED BY <1>3, <1>4, <1>5, <1>6, <1>7, ClientFinds, WindowStep

\* What the board shows after a snapshot, or what clears it, fits.
LEMMA ClearedFits ==
  ASSUME ClientInduction, NEW v \in Versions, screen = "match"
  PROVE  BoardFits(Cleared(board, v), sock)
BY SameFits, FieldsHeard DEF BoardFits, Cleared, Boards

LEMMA ShownFits ==
  ASSUME ClientInduction, NEW v \in Versions, v <= version, v >= board.shown, screen = "match"
  PROVE  BoardFits([Cleared(board, v) EXCEPT !.shown = v], sock)
<1> DEFINE b == Cleared(board, v)
<1>1. BoardFits(b, sock) /\ b \in Boards
  BY ClearedFits DEF BoardFits
<1> HIDE DEF b
<1>2. v \in 0..Len(Legal) /\ v # 0
  BY ServerFinds DEF Versions
<1>3. [b EXCEPT !.shown = v] \in Boards
  BY <1>1, <1>2 DEF Boards
<1>4. /\ [b EXCEPT !.shown = v].pending = b.pending /\ [b EXCEPT !.shown = v].shown = v
      /\ [b EXCEPT !.shown = v].phase = b.phase
  BY <1>1 DEF Boards
<1>5. BoardFits([b EXCEPT !.shown = v], sock)
  BY <1>1, <1>2, <1>3, <1>4 DEF BoardFits
<1> QED BY <1>5 DEF b

LEMMA SnapshotFits ==
  ASSUME ClientInduction, NEW v \in Versions, v <= version, NEW o \in BOOLEAN, screen = "match"
  PROVE  BoardFits(Snapshot(board, v, o), sock)
<1>1. CASE v < board.shown
  BY <1>1, SameFits DEF Snapshot
<1>2. CASE ~(v < board.shown)
  <2>0. v >= board.shown
    BY <1>2, ClientFinds, ServerFinds DEF Versions
  <2> DEFINE b == [Cleared(board, v) EXCEPT !.shown = v]
  <2>1. BoardFits(b, sock) /\ b \in Boards
    BY <2>0, ShownFits DEF BoardFits
  <2>2. Snapshot(board, v, o) = [b EXCEPT !.over = o]
    BY <1>2, ClearedFits, FieldsHeard DEF Snapshot, BoardFits, Boards
  <2> HIDE DEF b
  <2>3. [b EXCEPT !.over = o] \in Boards
    BY <2>1 DEF Boards
  <2>4. /\ [b EXCEPT !.over = o].pending = b.pending /\ [b EXCEPT !.over = o].shown = b.shown
        /\ [b EXCEPT !.over = o].phase = b.phase
    BY <2>1 DEF Boards
  <2>5. BoardFits([b EXCEPT !.over = o], sock)
    BY <2>1, <2>3, <2>4 DEF BoardFits
  <2> QED BY <2>2, <2>5
<1> QED BY <1>1, <1>2

LEMMA ReceiveReadyStep ==
  ASSUME ClientInduction, ReceiveReady PROVE ClientInduction'
<1>1. sock.in # <<>> /\ ~Settles(Event) /\ Event.type = "ready"
  BY DEF ReceiveReady, Incoming, Event, Settles
<1>2. Fine(Heard, who, Showing, version, over) /\ Stands(Heard)
  BY <1>1, HeardKeeps
<1>3. Event.actor \in Session
  BY <1>1, EventHeard, Kinds
<1> DEFINE h == Heard
<1>4. /\ Fine(h, who, Showing, version, over) /\ h.link = sock.link /\ h.opening = sock.opening
      /\ \A m : Telling(sock, m) => Telling(h, m)
  BY <1>2 DEF Stands
<1>5. /\ UNCHANGED <<screen, visits, home, phase, mutes, quit, server>>
      /\ actor' = Event.actor /\ board' = board /\ sock' = Effects(h, board', actor')
  BY DEF ReceiveReady
<1> HIDE DEF h
<1>6. BoardFits(board', h)
  BY <1>4, <1>5, SameFits DEF BoardFits
<1> QED BY <1>3, <1>4, <1>5, <1>6, HearingStep

\* A frame that changes the board only, or nothing.
LEMMA BoardHeard ==
  ASSUME ClientInduction, sock.in # <<>>, ~Settles(Event),
         UNCHANGED <<screen, visits, home, actor, phase, mutes, quit, server>>,
         BoardFits(board', sock), Seated(board', actor) => Seated(board, actor), sock' = Heard
  PROVE  ClientInduction'
<1> DEFINE h == Heard
<1>1. /\ Fine(h, who, Showing, version, over) /\ h.link = sock.link /\ h.opening = sock.opening
      /\ \A m : Telling(sock, m) => Telling(h, m)
  BY HeardKeeps DEF Stands
<1>2. sock' = h /\ actor' = actor
  OBVIOUS
<1> HIDE DEF h
<1>3. BoardFits(board', h)
  BY <1>1 DEF BoardFits
<1>4. sock' \in {Effects(h, board', actor')} \cup (IF Seated(board', actor') => Seated(board, actor) THEN {h} ELSE {})
  BY <1>2
<1> QED BY <1>1, <1>2, <1>3, <1>4, ClientFinds, HearingStep

LEMMA ReceiveStatusStep ==
  ASSUME ClientInduction, ReceiveStatus PROVE ClientInduction'
<1>1. sock.in # <<>> /\ ~Settles(Event)
  BY DEF ReceiveStatus, Incoming, Event, Settles
<1>2. Fine(Heard, who, Showing, version, over) /\ Stands(Heard)
  BY <1>1, HeardKeeps
<1>3. /\ UNCHANGED <<screen, visits, home, actor, mutes, board, quit, server>>
      /\ sock' = Heard /\ phase' = Searching
  BY DEF ReceiveStatus
<1>4. Fine(sock', who, Showing, version, over) /\ sock'.link = sock.link /\ sock'.opening = sock.opening
      /\ \A m : Telling(sock, m) => Telling(sock', m)
  BY <1>2, <1>3 DEF Stands
<1>5. BoardFits(board', sock') /\ QuitFits(quit', board')
  BY <1>3, <1>4, SameFits DEF BoardFits
<1>6. phase' \in {"idle", "joining", "waiting", "matched", "refused"} /\ (screen # "play" => phase' = "idle")
  BY <1>3, ClientFinds DEF Searching, Screened
<1>7. Seated(board', actor') /\ sock'.link => Telling(sock', mutes')
  BY <1>3, <1>4, ClientFinds DEF Seated
<1> QED BY <1>3, <1>4, <1>5, <1>6, <1>7, ClientFinds, WindowStep

LEMMA ReceiveJoinedStep ==
  ASSUME ClientInduction, ReceiveJoined PROVE ClientInduction'
<1>1. sock.in # <<>> /\ ~Settles(Event) /\ Event.type = "joined"
  BY DEF ReceiveJoined, Incoming, Event, Settles
<1>2. Fine(Heard, who, Showing, version, over) /\ Stands(Heard)
  BY <1>1, HeardKeeps
<1>3. /\ UNCHANGED <<screen, visits, home, actor, mutes, board, quit, server>> /\ sock' = Heard
  BY DEF ReceiveJoined
<1>4. Fine(sock', who, Showing, version, over) /\ sock'.link = sock.link /\ sock'.opening = sock.opening
      /\ \A m : Telling(sock, m) => Telling(sock', m)
  BY <1>2, <1>3 DEF Stands
<1>5. BoardFits(board', sock') /\ QuitFits(quit', board')
  BY <1>3, <1>4, SameFits DEF BoardFits
<1>6. phase' \in {"idle", "joining", "waiting", "matched", "refused"} /\ (screen # "play" => phase' = "idle")
  <2>1. Event.state \in {"queued", "matched", "refused"}
    BY <1>1, EventHeard, FieldsHeard
  <2>2. CASE screen # "play" \/ Event.mount # visits \/ phase = "matched"
    BY <2>2, ClientFinds DEF ReceiveJoined, Screened
  <2>3. CASE screen = "play" /\ Event.mount = visits /\ phase # "matched"
    <3>1. CASE Event.state = "queued"
      BY <2>3, <3>1 DEF ReceiveJoined
    <3>2. CASE Event.state = "matched"
      BY <2>3, <3>2 DEF ReceiveJoined
    <3>3. CASE Event.state = "refused"
      BY <2>3, <3>3 DEF ReceiveJoined
    <3> QED BY <2>1, <3>1, <3>2, <3>3, <2>3
  <2> QED BY <2>2, <2>3
<1>7. Seated(board', actor') /\ sock'.link => Telling(sock', mutes')
  BY <1>3, <1>4, ClientFinds DEF Seated
<1> QED BY <1>3, <1>4, <1>5, <1>6, <1>7, ClientFinds, WindowStep

LEMMA ReceiveGoneStep ==
  ASSUME ClientInduction, ReceiveGone PROVE ClientInduction'
<1>1. sock.in # <<>> /\ ~Settles(Event)
  BY DEF ReceiveGone, Incoming, Event, Settles
<1>2. /\ UNCHANGED <<screen, visits, home, actor, phase, mutes, quit, server>> /\ sock' = Heard
      /\ board' = board \/ (screen = "match" /\ board' = [board EXCEPT !.phase = "lost"])
  BY DEF ReceiveGone
<1>3. BoardFits(board', sock)
  BY <1>2, SameFits DEF BoardFits, Boards
<1>4. Seated(board', actor) => Seated(board, actor)
  BY <1>2, ClientFinds DEF Seated, Boards
<1> QED BY <1>1, <1>2, <1>3, <1>4, BoardHeard

LEMMA ReceiveEndedStep ==
  ASSUME ClientInduction, ReceiveEnded PROVE ClientInduction'
<1>1. sock.in # <<>> /\ ~Settles(Event)
  BY DEF ReceiveEnded, Incoming, Event, Settles
<1>2. /\ UNCHANGED <<screen, visits, home, actor, phase, mutes, quit, server>> /\ sock' = Heard
      /\ \/ board' = board
         \/ screen = "match" /\ board' = [board EXCEPT !.ended = TRUE, !.pending = NoCommand]
  BY DEF ReceiveEnded
<1>3. BoardFits(board', sock)
  BY <1>2, SameFits DEF BoardFits, Boards
<1>4. Seated(board', actor) => Seated(board, actor)
  BY <1>2, ClientFinds DEF Seated, Boards
<1> QED BY <1>1, <1>2, <1>3, <1>4, BoardHeard

LEMMA ReceiveCommittedStep ==
  ASSUME ClientInduction, ReceiveCommitted PROVE ClientInduction'
<1> DEFINE v == Event.version
           gap == board.shown # 0 /\ v > board.shown + 1
<1>1. sock.in # <<>> /\ ~Settles(Event) /\ Event.type = "committed"
  BY DEF ReceiveCommitted, Incoming, Event, Settles
<1>2. v \in Versions /\ v <= version
  BY <1>1, EventHeard, Kinds DEF Told
<1>3. /\ UNCHANGED <<screen, visits, home, actor, phase, mutes, quit, server>>
      /\ board' = IF board.shown = 0 \/ gap THEN board
                  ELSE IF v = board.shown + 1 THEN [Cleared(board, v) EXCEPT !.shown = v]
                  ELSE Cleared(board, v)
      /\ sock' = IF gap /\ board.phase = "ready" THEN Send(Heard, <<Resync>>) ELSE Heard
  BY DEF ReceiveCommitted
<1> HIDE DEF v
<1>4. board.shown # 0 => screen = "match"
  BY ClientFinds DEF Screened, NoBoard
<1>5. BoardFits(board', sock)
  <2>1. CASE board' = board
    BY <2>1, SameFits
  <2>2. CASE board.shown # 0 /\ v = board.shown + 1 /\ board' = [Cleared(board, v) EXCEPT !.shown = v]
    <3>1. v >= board.shown
      BY <2>2, ClientFinds
    <3> QED BY <2>2, <3>1, <1>2, <1>4, ShownFits
  <2>3. CASE board.shown # 0 /\ board' = Cleared(board, v)
    BY <2>3, <1>2, <1>4, ClearedFits
  <2> QED BY <1>3, <2>1, <2>2, <2>3
<1>6. Seated(board', actor) => Seated(board, actor)
  BY <1>3, ClientFinds DEF Seated
<1>7. CASE ~(gap /\ board.phase = "ready")
  BY <1>1, <1>3, <1>5, <1>6, <1>7, BoardHeard
<1>8. CASE gap /\ board.phase = "ready"
  <2> DEFINE h == Heard
             f == Resync
             s == Send(h, <<f>>)
  <2>1. /\ Fine(h, who, Showing, version, over) /\ h.link = sock.link /\ h.opening = sock.opening
        /\ \A m : Telling(sock, m) => Telling(h, m)
    BY <1>1, HeardKeeps DEF Stands
  <2>2. sock' = s /\ board' = board /\ actor' = actor
    BY <1>3, <1>8
  <2>3. sock.link /\ who # Nobody
    BY <1>8, ClientFinds DEF ShownIsPast
  <2>4. f \in Questions /\ ~Asks(f) /\ f.type = "sync"
    BY ClientFinds DEF Resync, Questions, Asks
  <2> HIDE DEF h, f
  <2>5. /\ Fine(s, who, Showing, version, over) /\ s.link = h.link /\ s.opening = h.opening
        /\ s.handshake = h.handshake /\ s.waiting = h.waiting /\ s.told = h.told
    <3>1. (f.type \in Private => h.link /\ who # Nobody) /\ (f.type = "command" => Given(f, Showing, version))
      BY <2>1, <2>3, <2>4
    <3>2. Fine(h, who, Showing, version, over) /\ f \in Questions /\ ~Asks(f) /\ f.type # "mute"
      BY <2>1, <2>4
    <3> QED BY <3>1, <3>2, SendOneKeeps
  <2> HIDE DEF s
  <2>6. \A m : Telling(sock, m) => Telling(s, m)
    BY <2>1, <2>5 DEF Telling
  <2>7. BoardFits(board', s)
    BY <1>5, <2>1, <2>5 DEF BoardFits
  <2>8. sock' \in {Effects(s, board', actor')} \cup (IF Seated(board', actor') => Seated(board, actor) THEN {s} ELSE {})
    BY <1>6, <2>2
  <2>9. s.link = sock.link /\ s.opening = sock.opening
    BY <2>1, <2>5
  <2> QED BY <1>3, <2>2, <2>5, <2>6, <2>7, <2>8, <2>9, ClientFinds, HearingStep
<1> QED BY <1>7, <1>8

LEMMA ReceiveWelcomeStep ==
  ASSUME ClientInduction, ReceiveWelcome PROVE ClientInduction'
<1> DEFINE of == Event.of
           t == Continued(Heard, of)
<1>1. sock.in # <<>> /\ Event.type = "welcome" /\ Settles(Event)
  BY DEF ReceiveWelcome, Incoming, Event, Settles
<1>2. Event = Head(sock.in) /\ sock.link /\ who # Nobody /\ of \in Periods
  BY <1>1, EventHeard, Kinds
<1>3. /\ UNCHANGED <<screen, visits, home, actor, phase, mutes, quit, server>> /\ sock' = t
      /\ board' = IF sock.opening.of = of THEN [board EXCEPT !.phase = "ready"] ELSE board
  BY DEF ReceiveWelcome
<1>4. t = Continued([sock EXCEPT !.in = Tail(@)], Head(sock.in).of)
  BY <1>2 DEF Heard
<1>5. Fine(sock, who, Showing, version, over) /\ Welcomed(sock, t) /\ visits \in Nat
  BY <1>1, <1>2, <1>4, ServerFinds, ClientFinds DEF Welcomed
<1> HIDE DEF t
<1>6. /\ Fine(t, who, Showing, version, over) /\ t.link = sock.link
      /\ t.opening = IF sock.opening.of = of THEN NoOpening ELSE sock.opening
      /\ \A m : Telling(sock, m) => Telling(t, m)
  <2>1. /\ Fine(t, who, Showing, version, over) /\ t.link = sock.link
        /\ t.opening = IF sock.opening.of = Head(sock.in).of THEN NoOpening ELSE sock.opening
        /\ \A m : Telling(sock, m) => Telling(t, m)
    BY <1>5, ContinueKeeps
  <2>2. of = Head(sock.in).of
    BY <1>2
  <2> QED BY <2>1, <2>2
<1>7. of # 0
  BY <1>2, ServerFinds, SocketFields DEF Periods
<1> HIDE DEF of
<1>8. screen # "match" => sock.opening.of = 0 /\ board' = board
  BY <1>3, <1>7, ClientFinds DEF Screened
<1>9. t.opening.of = 0 \/ t.opening = sock.opening
  BY <1>6 DEF NoOpening
<1>10. board' \in Boards /\ board'.shown = board.shown /\ board'.pending = board.pending
  BY <1>3, ClientFinds DEF Boards
<1>11. BoardFits(board', t)
  BY <1>2, <1>6, <1>8, <1>9, <1>10, SameFits, ClientFinds DEF BoardFits, Screened
<1>12. QuitFits(quit', board')
  BY <1>3, <1>10, SameFits DEF QuitFits
<1>13. Seated(board', actor') /\ sock'.link => Telling(sock', mutes')
  BY <1>3, <1>6, <1>10, ClientFinds DEF Seated
<1>14. screen # "play" => phase' = "idle"
  BY <1>3, ClientFinds DEF Screened
<1> QED BY <1>3, <1>6, <1>11, <1>12, <1>13, <1>14, ClientFinds, WindowStep

LEMMA ReceiveSnapshotStep ==
  ASSUME ClientInduction, ReceiveSnapshot PROVE ClientInduction'
<1> DEFINE mine == screen = "match" /\ Event.mount = visits
           b == IF mine THEN Snapshot(board, Event.version, Event.over) ELSE board
           retry == mine /\ Event.retry /\ board.pending.version = Event.version
           h == Heard
           c == board.pending
           s == IF retry THEN Send(h, <<c>>) ELSE h
<1>1. sock.in # <<>> /\ ~Settles(Event) /\ Event.type = "snapshot"
  BY DEF ReceiveSnapshot, Incoming, Event, Settles
<1>2. /\ Event.version \in Versions /\ Event.version <= version /\ Event.over \in BOOLEAN
      /\ sock.link /\ who # Nobody
  BY <1>1, EventHeard, Kinds DEF Told
<1>3. /\ UNCHANGED <<screen, visits, home, actor, phase, mutes, quit, server>>
      /\ board' = b /\ sock' = Effects(s, b, actor)
  BY DEF ReceiveSnapshot
<1>4. BoardFits(b, sock)
  BY <1>2, SameFits, SnapshotFits
<1>5. /\ Fine(h, who, Showing, version, over) /\ h.link = sock.link /\ h.opening = sock.opening
      /\ \A m : Telling(sock, m) => Telling(h, m)
  BY <1>1, HeardKeeps DEF Stands
<1> HIDE DEF h, b
<1>6. /\ Fine(s, who, Showing, version, over) /\ s.link = sock.link /\ s.opening = sock.opening
      /\ \A m : Telling(sock, m) => Telling(s, m)
  <2>1. CASE ~retry
    BY <2>1, <1>5
  <2>2. CASE retry
    <3>1. c # NoCommand
      BY <2>2, <1>2 DEF NoCommand, Order, Versions
    <3>2. c \in Orders /\ Given(c, Showing, version)
      BY <3>1, ClientFinds, FieldsHeard DEF ShownIsPast
    <3>3. c \in Questions /\ ~Asks(c) /\ c.type = "command"
      BY <3>2 DEF Questions, Orders, Asks
    <3>4. (c.type \in Private => h.link /\ who # Nobody) /\ (c.type = "command" => Given(c, Showing, version))
      BY <1>2, <1>5, <3>2
    <3>5. c.type # "mute"
      BY <3>3
    <3> HIDE DEF c
    <3>6. /\ Fine(Send(h, <<c>>), who, Showing, version, over) /\ Send(h, <<c>>).link = h.link
          /\ Send(h, <<c>>).opening = h.opening /\ Send(h, <<c>>).handshake = h.handshake
          /\ Send(h, <<c>>).waiting = h.waiting /\ Send(h, <<c>>).told = h.told
      BY <1>5, <3>3, <3>4, <3>5, SendOneKeeps
    <3>7. \A m : Telling(h, m) => Telling(Send(h, <<c>>), m)
      BY <3>6 DEF Telling
    <3>8. s = Send(h, <<c>>)
      BY <2>2 DEF c
    <3> QED BY <1>5, <3>6, <3>7, <3>8
  <2> QED BY <2>1, <2>2
<1> HIDE DEF s
<1>7. BoardFits(board', s)
  BY <1>3, <1>4, <1>6 DEF BoardFits
<1>8. sock' = Effects(s, board', actor') /\ actor' = actor
  BY <1>3
<1> QED BY <1>3, <1>6, <1>7, <1>8, ClientFinds, HearingStep

LEMMA FoundHere ==
  ASSUME ClientInduction, ReceiveFound, screen # "play" PROVE ClientInduction'
<1> DEFINE h == Heard
<1>1. sock.in # <<>> /\ ~Settles(Event) /\ Event.type = "found"
  BY DEF ReceiveFound, Incoming, Event, Settles
<1>2. Event.version \in Versions /\ Event.version <= version /\ screen \in {"match", "home"}
  BY <1>1, EventHeard, Kinds, ClientFinds DEF Told
<1>3. CASE screen = "match"
  <2>1. /\ UNCHANGED <<screen, visits, home, actor, phase, mutes, quit, server>>
        /\ board' = Snapshot(board, Event.version, FALSE) /\ sock' = Effects(h, board', actor')
    BY <1>3 DEF ReceiveFound
  <2>2. BoardFits(board', sock)
    BY <1>2, <1>3, <2>1, SnapshotFits
  <2>3. /\ Fine(h, who, Showing, version, over) /\ h.link = sock.link /\ h.opening = sock.opening
        /\ \A m : Telling(sock, m) => Telling(h, m)
    BY <1>1, HeardKeeps DEF Stands
  <2> HIDE DEF h
  <2>4. BoardFits(board', h)
    BY <2>2, <2>3 DEF BoardFits
  <2> QED BY <2>1, <2>3, <2>4, ClientFinds, HearingStep
<1>4. CASE screen = "home"
  <2>1. /\ UNCHANGED <<screen, visits, home, actor, phase, mutes, board, quit, server>> /\ sock' = Heard
    BY <1>4 DEF ReceiveFound
  <2>2. BoardFits(board', sock) /\ (Seated(board', actor) => Seated(board, actor))
    BY <2>1, SameFits
  <2> QED BY <1>1, <2>1, <2>2, BoardHeard
<1> QED BY <1>2, <1>3, <1>4

-----------------------------------------------------------------------------
(* What the player does on a screen.                                        *)

LEMMA SetMutesStep ==
  ASSUME ClientInduction, NEW m \in Preferences, SetMutes(m) PROVE ClientInduction'
<1> DEFINE t == Authenticate(sock, <<Mute(m)>>)
<1>1. /\ UNCHANGED <<screen, visits, home, actor, phase, board, quit, server>> /\ mutes' = m
      /\ sock' = IF Seated(board, actor) THEN t ELSE sock
  BY DEF SetMutes
<1>2. <<Mute(m)>> \in Seq(Continuations)
  BY DEF Mute, Continuations
<1>3. Fine(sock, who, Showing, version, over) /\ Sound(sock)
  BY ServerFinds
<1>4. /\ Fine(t, who, Showing, version, over) /\ t.link = sock.link /\ t.opening = sock.opening
  BY <1>2, <1>3, ClientFinds, AuthenticateKeeps
<1>5. Telling(t, m)
  BY <1>3, AuthenticateTells
<1> HIDE DEF t
<1>6. Fine(sock', who, Showing, version, over) /\ sock'.link = sock.link /\ sock'.opening = sock.opening
  BY <1>1, <1>3, <1>4
<1>7. BoardFits(board', sock') /\ QuitFits(quit', board')
  BY <1>1, <1>6, SameFits DEF BoardFits
<1>8. Seated(board', actor') /\ sock'.link => Telling(sock', mutes')
  BY <1>1, <1>5 DEF Seated
<1>9. screen # "play" => phase' = "idle"
  BY <1>1, ClientFinds DEF Screened
<1> QED BY <1>1, <1>6, <1>7, <1>8, <1>9, ClientFinds, WindowStep

LEMMA StartSearchStep ==
  ASSUME ClientInduction, StartSearch PROVE ClientInduction'
<1> DEFINE t == Authenticate(sock, <<Join>>)
<1>1. /\ UNCHANGED <<screen, visits, home, actor, mutes, board, quit, server>>
      /\ sock' = t /\ phase' = "joining" /\ screen = "play"
  BY DEF StartSearch
<1>2. <<Join>> \in Seq(Continuations)
  BY ClientFinds DEF Join, Continuations
<1>3. /\ Fine(t, who, Showing, version, over) /\ t.link = sock.link /\ t.opening = sock.opening
  BY <1>2, ServerFinds, ClientFinds, AuthenticateKeeps
<1> HIDE DEF t
<1>4. BoardFits(board', sock') /\ QuitFits(quit', board')
  BY <1>1, <1>3, SameFits DEF BoardFits
<1>5. ~Seated(board', actor')
  BY <1>1 DEF Seated
<1> QED BY <1>1, <1>3, <1>4, <1>5, ClientFinds, WindowStep

LEMMA StopSearchStep ==
  ASSUME ClientInduction, StopSearch PROVE ClientInduction'
<1> DEFINE f == Plain("leave")
           t == Send(sock, <<f>>)
<1>1. /\ UNCHANGED <<screen, visits, home, actor, mutes, board, quit, server>>
      /\ sock' = t /\ phase' = "idle" /\ screen = "play"
  BY DEF StopSearch
<1>2. f \in Questions /\ ~Asks(f) /\ f.type \notin Private /\ f.type # "command"
  BY DEF Plain, Questions, Asks, Private
<1> HIDE DEF f
<1>3. /\ Fine(t, who, Showing, version, over) /\ t.link = sock.link /\ t.opening = sock.opening
  BY <1>2, ServerFinds, SendOneKeeps
<1> HIDE DEF t
<1>4. BoardFits(board', sock') /\ QuitFits(quit', board')
  BY <1>1, <1>3, SameFits DEF BoardFits
<1>5. ~Seated(board', actor')
  BY <1>1 DEF Seated
<1> QED BY <1>1, <1>3, <1>4, <1>5, ClientFinds, WindowStep

\* An order that a screen gives is of the match it shows, and of what is open to it.
LEMMA OrderGiven ==
  ASSUME ClientInduction, screen = "match", board.shown # 0, ~InputLocked(board),
         NEW move, move = Resignation \/ move \in (Origin \X Square) \cap Legal[board.shown]
  PROVE  /\ Command(board.shown, move) \in Orders /\ Command(board.shown, move) # NoCommand
         /\ Given(Command(board.shown, move), Showing, version)
         /\ sock.link /\ who # Nobody
<1>1. board.shown \in Versions /\ board.shown <= version /\ visits \in Nat /\ visits \in Showing
  BY ClientFinds, FieldsHeard, ServerFinds, ShowingTyped DEF ShownIsPast, Versions
<1>2. board.phase = "ready"
  BY DEF InputLocked
<1>3. sock.link /\ who # Nobody
  BY <1>2, ClientFinds DEF ShownIsPast
<1>4. Command(board.shown, move) \in Orders
  BY <1>1 DEF Command, Order, Orders
<1>5. Command(board.shown, move) # NoCommand
  BY DEF Command, Order, NoCommand
<1>6. Given(Command(board.shown, move), Showing, version)
  BY <1>1 DEF Command, Order, Given
<1> QED BY <1>3, <1>4, <1>5, <1>6

LEMMA OrderStep ==
  ASSUME ClientInduction, screen = "match", board.shown # 0, ~InputLocked(board),
         NEW move, move = Resignation \/ move \in (Origin \X Square) \cap Legal[board.shown],
         sock' = Send(sock, <<Command(board.shown, move)>>),
         NEW x \in Origin \cup {NoOrigin},
         board' = [board EXCEPT !.pending = Command(board.shown, move), !.selected = x],
         UNCHANGED <<screen, visits, home, actor, phase, mutes, server>>, QuitFits(quit', board)
  PROVE  ClientInduction'
<1> DEFINE c == Command(board.shown, move)
           t == Send(sock, <<c>>)
<1>1. c \in Orders /\ c # NoCommand /\ Given(c, Showing, version) /\ sock.link /\ who # Nobody
  BY OrderGiven
<1>2. sock' = t /\ board' = [board EXCEPT !.pending = c, !.selected = x]
  OBVIOUS
<1> HIDE DEF c
<1>3. c \in Questions /\ ~Asks(c) /\ c.type = "command" /\ c.type # "mute"
  BY <1>1 DEF Questions, Orders, Asks
<1>4. (c.type \in Private => sock.link /\ who # Nobody) /\ (c.type = "command" => Given(c, Showing, version))
  BY <1>1
<1>5. /\ Fine(t, who, Showing, version, over) /\ t.link = sock.link
      /\ t.opening = sock.opening /\ t.handshake = sock.handshake
      /\ t.waiting = sock.waiting /\ t.told = sock.told
  BY <1>3, <1>4, ServerFinds, SendOneKeeps
<1> HIDE DEF t
<1>6. \A m : Telling(sock, m) => Telling(t, m)
  BY <1>5 DEF Telling
<1>7. board' \in Boards /\ board'.pending = c /\ board'.shown = board.shown /\ board'.phase = board.phase
  BY <1>1, <1>2, ClientFinds DEF Boards
<1>8. BoardFits(board', sock')
  BY <1>1, <1>2, <1>5, <1>7, SameFits DEF BoardFits
<1>9. QuitFits(quit', board')
  BY <1>7 DEF QuitFits
<1>10. Seated(board', actor') /\ sock'.link => Telling(sock', mutes')
  BY <1>2, <1>5, <1>6, <1>7, ClientFinds DEF Seated
<1>11. screen # "play" => phase' = "idle"
  BY ClientFinds DEF Screened
<1> QED BY <1>2, <1>5, <1>8, <1>9, <1>10, <1>11, ClientFinds, WindowStep

\* The board is touched, or the close guard is, and nothing is sent.
LEMMA TouchStep ==
  ASSUME ClientInduction, UNCHANGED <<screen, visits, home, actor, sock, phase, mutes, server>>,
         BoardFits(board', sock), QuitFits(quit', board'), board'.shown = board.shown
  PROVE  ClientInduction'
<1>1. Seated(board', actor') /\ sock'.link => Telling(sock', mutes')
  BY ClientFinds DEF Seated
<1>2. screen # "play" => phase' = "idle"
  BY ClientFinds DEF Screened
<1>3. sock' = sock
  OBVIOUS
<1> QED BY <1>1, <1>2, <1>3, ClientFinds, ServerFinds, WindowStep

LEMMA Selects ==
  ASSUME ClientInduction, screen = "match", NEW x \in Origin \cup {NoOrigin}
  PROVE  /\ BoardFits([board EXCEPT !.selected = x], sock)
         /\ [board EXCEPT !.selected = x].shown = board.shown
         /\ QuitFits(quit, [board EXCEPT !.selected = x])
<1>1. /\ [board EXCEPT !.selected = x] \in Boards /\ [board EXCEPT !.selected = x].shown = board.shown
      /\ [board EXCEPT !.selected = x].pending = board.pending
      /\ [board EXCEPT !.selected = x].phase = board.phase
  BY ClientFinds DEF Boards
<1> QED BY <1>1, SameFits DEF BoardFits, QuitFits

LEMMA GestureStep ==
  ASSUME ClientInduction, NEW o \in Origin, Gesture(o) PROVE ClientInduction'
<1>1. /\ screen = "match" /\ board.shown # 0 /\ ~InputLocked(board)
      /\ UNCHANGED <<screen, visits, home, actor, phase, mutes, quit, server>>
  BY DEF Gesture, Locked
<1>2. CASE board.selected # NoOrigin /\ o \in Destinations(board.selected)
  <2> DEFINE move == <<board.selected, o>>
  <2>1. board.selected \in Origin /\ o \in Square /\ move \in Legal[board.shown]
    BY <1>2, ClientFinds, FieldsHeard DEF Destinations
  <2>2. /\ sock' = Send(sock, <<Command(board.shown, move)>>)
        /\ board' = [board EXCEPT !.pending = Command(board.shown, move), !.selected = NoOrigin]
    BY <1>2 DEF Gesture, Submit
  <2>3. move \in (Origin \X Square) \cap Legal[board.shown]
    BY <2>1
  <2>4. QuitFits(quit', board)
    BY <1>1, SameFits
  <2> HIDE DEF move
  <2> QED BY <1>1, <2>2, <2>3, <2>4, OrderStep
<1>3. CASE ~(board.selected # NoOrigin /\ o \in Destinations(board.selected))
  <2>1. Choose(o)
    BY <1>3 DEF Gesture
  <2>2. PICK x \in Origin \cup {NoOrigin} : board' = [board EXCEPT !.selected = x]
    <3>1. board' = [board EXCEPT !.selected = IF board.selected = o THEN NoOrigin ELSE o]
      BY <2>1, ClientFinds DEF Choose, Boards
    <3> QED BY <3>1
  <2>3. sock' = sock
    BY <2>1 DEF Choose
  <2> QED BY <1>1, <2>2, <2>3, Selects, TouchStep
<1> QED BY <1>2, <1>3

LEMMA CancelStep ==
  ASSUME ClientInduction, Cancel PROVE ClientInduction'
<1>1. /\ screen = "match" /\ board' = [board EXCEPT !.selected = NoOrigin]
      /\ UNCHANGED <<screen, visits, home, actor, sock, phase, mutes, quit, server>>
  BY DEF Cancel
<1> QED BY <1>1, Selects, TouchStep

LEMMA ResignStep ==
  ASSUME ClientInduction, Resign PROVE ClientInduction'
<1>1. /\ screen = "match" /\ board.shown # 0 /\ ~InputLocked(board)
      /\ UNCHANGED <<screen, visits, home, actor, phase, mutes, quit, server>>
      /\ sock' = Send(sock, <<Command(board.shown, Resignation)>>)
      /\ board' = [board EXCEPT !.pending = Command(board.shown, Resignation)]
  BY DEF Resign, Locked, Seated
<1>2. /\ board' = [board EXCEPT !.pending = Command(board.shown, Resignation), !.selected = board.selected]
      /\ board.selected \in Origin \cup {NoOrigin}
  BY <1>1, ClientFinds DEF Boards
<1>3. QuitFits(quit', board)
  BY <1>1, SameFits
<1> QED BY <1>1, <1>2, <1>3, OrderStep

LEMMA AwaitResignationStep ==
  ASSUME ClientInduction, quit.asked, ~InputLocked(board), AwaitResignation PROVE ClientInduction'
<1> DEFINE c == Command(board.shown, Resignation)
<1>1. screen = "match" /\ board.shown # 0
  BY ClientFinds DEF CloseWaits, Screened, NoBoard
<1>2. /\ UNCHANGED <<screen, visits, home, actor, phase, mutes, server>>
      /\ sock' = Send(sock, <<c>>) /\ board' = [board EXCEPT !.pending = c]
      /\ quit' = [quit EXCEPT !.asked = FALSE, !.awaited = c]
  BY DEF AwaitResignation
<1>3. /\ board' = [board EXCEPT !.pending = c, !.selected = board.selected]
      /\ board.selected \in Origin \cup {NoOrigin}
  BY <1>2, ClientFinds DEF Boards
<1>4. c \in Orders /\ c.move = Resignation
  BY <1>1, OrderGiven DEF Command, Order
<1> HIDE DEF c
<1>5. QuitFits(quit', board)
  BY <1>2, <1>4, SameFits DEF QuitFits
<1> QED BY <1>1, <1>2, <1>3, <1>5, OrderStep DEF c

LEMMA DismissQuitStep ==
  ASSUME ClientInduction, DismissQuit PROVE ClientInduction'
<1>1. /\ quit' = [quit EXCEPT !.asked = FALSE] /\ board' = board
      /\ UNCHANGED <<screen, visits, home, actor, sock, phase, mutes, server>>
  BY DEF DismissQuit
<1>2. BoardFits(board', sock) /\ QuitFits(quit', board') /\ board'.shown = board.shown
  BY <1>1, SameFits DEF QuitFits
<1> QED BY <1>1, <1>2, TouchStep

LEMMA CloseAsked ==
  ASSUME ClientInduction, RequestClose, InMatch PROVE ClientInduction'
<1>1. /\ quit' = [quit EXCEPT !.asked = TRUE] /\ board' = board
      /\ UNCHANGED <<screen, visits, home, actor, sock, phase, mutes, server>>
  BY DEF RequestClose
<1>2. board.shown # 0
  BY DEF InMatch, Seated
<1>3. BoardFits(board', sock) /\ QuitFits(quit', board') /\ board'.shown = board.shown
  BY <1>1, <1>2, SameFits DEF QuitFits
<1> QED BY <1>1, <1>3, TouchStep

-----------------------------------------------------------------------------
(* Connections that come and go, and screens and windows that do.           *)

LEMMA ConnectStep ==
  ASSUME ClientInduction, Connect PROVE ClientInduction'
<1> DEFINE s == [Forget(sock) EXCEPT !.link = TRUE, !.connections = @ + 1, !.told = {}]
           o == Opened(s, visits, Reminders)
<1>1. /\ ~sock.link /\ sock.connections < MaxConnections
      /\ UNCHANGED <<screen, visits, home, actor, phase, mutes, quit, server>>
      /\ IF screen = "match" THEN sock' = o.sock /\ board' = [board EXCEPT !.phase = o.phase]
         ELSE sock' = s /\ UNCHANGED board
      /\ screen # "closed"
  BY DEF Connect
<1>2. /\ Fine(s, who, Showing, version, over) /\ s.link /\ ~s.handshake.settled
      /\ s.opening = sock.opening
  BY <1>1, ServerFinds, ConnectKeeps
<1> HIDE DEF s
<1>3. screen # "play" => phase' = "idle"
  BY <1>1, ClientFinds DEF Screened
<1>4. CASE screen = "match"
  <2>1. Reminders \in Seq(Continuations)
    <3>1. Mute(mutes) \in Continuations
      BY ClientFinds DEF Mute, Continuations
    <3> QED BY <3>1 DEF Reminders
  <2>2. visits \in Nat /\ session \in Session \cup {Nobody}
    BY ClientFinds
  <2>3. /\ Fine(o.sock, who, Showing, version, over) /\ o.sock.link = s.link
        /\ o.phase \in {"ready", "authenticating"} /\ (o.phase = "ready" <=> s.handshake.settled)
        /\ \A m : Reminders = <<Mute(m)>> => Telling(o.sock, m)
    BY <1>2, <2>1, <2>2, OpenedKeeps
  <2> HIDE DEF o
  <2>4. sock' = o.sock /\ board' = [board EXCEPT !.phase = o.phase] /\ o.phase = "authenticating"
    BY <1>1, <1>2, <1>4, <2>3
  <2>5. /\ board' \in Boards /\ board'.shown = board.shown /\ board'.pending = board.pending
        /\ board'.phase = "authenticating"
    BY <2>4, ClientFinds DEF Boards
  <2>6. BoardFits(board', sock')
    BY <1>4, <2>5, SameFits DEF BoardFits
  <2>7. QuitFits(quit', board')
    BY <1>1, <2>5, SameFits DEF QuitFits
  <2>8. Seated(board', actor') /\ sock'.link => Telling(sock', mutes')
    BY <1>1, <2>3, <2>4, <2>5 DEF Seated, Reminders
  <2> QED BY <1>1, <1>3, <2>3, <2>4, <2>6, <2>7, <2>8, ClientFinds, WindowStep
<1>5. CASE screen # "match"
  <2>1. sock' = s /\ board' = board /\ board = NoBoard /\ s.opening.of = 0
    BY <1>1, <1>2, <1>5, ClientFinds DEF Screened
  <2>2. BoardFits(board', sock')
    BY <1>1, <1>2, <1>5, <2>1, SameFits DEF BoardFits, NoBoard
  <2>3. QuitFits(quit', board')
    BY <1>1, <2>1, SameFits
  <2>4. ~Seated(board', actor')
    BY <1>5 DEF Seated
  <2> QED BY <1>1, <1>2, <1>3, <2>1, <2>2, <2>3, <2>4, ClientFinds, WindowStep
<1> QED BY <1>4, <1>5

\* A connection that goes, and what it takes with it on both sides.
LEMMA LostStep ==
  ASSUME ClientInduction, NEW s \in Sockets, ~s.link, s.opening = NoOpening,
         \A w, ms, v, o : Fine(s, w, ms, v, o), sock' = s, screen # "closed",
         phase' \in {"idle", phase}, screen # "play" => phase' = "idle",
         BoardFreezes, AnswerLost, ServerForgets, UNCHANGED <<screen, visits, home, actor, mutes>>
  PROVE  ClientInduction'
<1>1. /\ UNCHANGED <<screen, visits, session, vault, saves, lost, actor, mutes>>
      /\ UNCHANGED <<player, over, version>> /\ who' = Nobody /\ joining' = <<>>
      /\ quit' = [quit EXCEPT !.awaited = NoCommand] /\ entry' \in {entry, Nobody}
      /\ board' = IF screen = "match" THEN [board EXCEPT !.phase = "reconnecting"] ELSE board
  BY DEF home, ServerForgets, AnswerLost, BoardFreezes
<1>2. /\ board' \in Boards /\ board'.shown = board.shown /\ board'.pending = board.pending
      /\ board'.phase # "ready"
  BY <1>1, ClientFinds DEF Boards, Screened, NoBoard
<1>3. Showing' = Showing
  BY <1>1, <1>2 DEF Showing
<1>4. /\ quit' \in [asked : BOOLEAN, awaited : Orders \cup {NoCommand},
                    how : {"open", "free", "unheard", "resigned"}, at : Nat]
      /\ quit'.awaited = NoCommand /\ quit'.asked = quit.asked /\ quit'.how = quit.how /\ quit'.at = quit.at
  BY <1>1, ClientFinds
<1>5. WindowTyped'
  BY <1>1, <1>2, <1>4, ClientFinds, ServerFinds DEF WindowTyped
<1>6. Fine(sock', who', Showing', version', over')
  OBVIOUS
<1>7. ShownIsPast'
  BY <1>1, <1>2, <1>3, ClientFinds DEF ShownIsPast
<1>8. Screened'
  BY <1>1, ClientFinds DEF Screened, NoOpening
<1>9. CloseWaits'
  BY <1>1, <1>2, <1>4, ClientFinds DEF CloseWaits
<1>10. Stored'
  BY <1>1, ClientFinds DEF Stored
<1> QED BY <1>1, <1>5, <1>6, <1>7, <1>8, <1>9, <1>10 DEF ClientInduction

LEMMA DisconnectStep ==
  ASSUME ClientInduction, Disconnect PROVE ClientInduction'
<1> DEFINE s == Dropped(sock)
<1>1. s \in Sockets /\ ~s.link /\ s.opening = NoOpening /\ \A w, ms, v, o : Fine(s, w, ms, v, o)
  BY ServerFinds, DropKeeps
<1>2. /\ sock.link /\ sock' = s /\ SearchStops /\ BoardFreezes /\ AnswerLost /\ ServerForgets
      /\ UNCHANGED <<screen, visits, home, actor, mutes>>
  BY DEF Disconnect
<1> HIDE DEF s
<1>3. screen # "closed" /\ phase' \in {"idle", phase} /\ (screen # "play" => phase' = "idle")
  BY <1>2, ClientFinds DEF Screened, SearchStops
<1> QED BY <1>1, <1>2, <1>3, LostStep

LEMMA ReceiveRefusedStep ==
  ASSUME ClientInduction, ReceiveRefused PROVE ClientInduction'
<1> DEFINE s == [Dropped(sock) EXCEPT !.barred = TRUE]
<1>1. s \in Sockets /\ ~s.link /\ s.opening = NoOpening /\ \A w, ms, v, o : Fine(s, w, ms, v, o)
  BY ServerFinds, DropKeeps
<1>2. /\ sock.in # <<>> /\ sock' = s /\ phase' = "idle" /\ BoardFreezes /\ AnswerLost /\ ServerForgets
      /\ UNCHANGED <<screen, visits, home, actor, mutes>>
  BY DEF ReceiveRefused, Incoming
<1> HIDE DEF s
<1>3. screen # "closed"
  BY <1>2, EventHeard
<1> QED BY <1>1, <1>2, <1>3, LostStep

\* A window that closes leaves nothing but what was stored, and a match behind it that
\* its answer was about.
LEMMA ShutStep ==
  ASSUME ClientInduction, NEW how \in {"free", "unheard", "resigned"}, NEW at \in Nat,
         how = "resigned" => over \/ at < version, Shut(how, at)
  PROVE  ClientInduction'
<1>1. /\ screen' = "closed" /\ quit' = [NoQuit EXCEPT !.how = how, !.at = at] /\ sock' = Dropped(sock)
      /\ actor' = Nobody /\ phase' = "idle" /\ board' = NoBoard /\ saves' = <<>>
      /\ UNCHANGED <<visits, session, mutes, player, over, version>>
      /\ who' = Nobody /\ joining' = <<>> /\ entry' \in {entry, Nobody}
  BY DEF Shut, ServerForgets
<1>2. vault' \in Session \cup {Nobody} /\ lost' \in BOOLEAN
  <2>1. PICK k \in 0..Len(saves) : /\ vault' = IF k = 0 THEN vault ELSE saves[k]
                                   /\ lost' = (lost \/ k < Len(saves))
    BY DEF Shut
  <2>2. saves \in Seq(Session \cup {Nobody}) /\ vault \in Session \cup {Nobody}
    BY ClientFinds DEF WindowTyped
  <2>3. CASE k = 0
    BY <2>1, <2>2, <2>3
  <2>4. CASE k # 0
    <3>1. k \in 1..Len(saves)
      BY <2>1, <2>2, <2>4
    <3> QED BY <2>1, <2>2, <2>4, <3>1
  <2> QED BY <2>3, <2>4
<1>3. NoBoard \in Boards /\ NoBoard.shown = 0 /\ NoBoard.pending = NoCommand /\ NoBoard.phase = "connecting"
  BY ServerFinds DEF NoBoard, Boards
<1>4. /\ quit' \in [asked : BOOLEAN, awaited : Orders \cup {NoCommand},
                    how : {"open", "free", "unheard", "resigned"}, at : Nat]
      /\ quit'.awaited = NoCommand /\ ~quit'.asked /\ quit'.how = how /\ quit'.at = at
  BY <1>1 DEF NoQuit
<1>5. ~Dropped(sock).link /\ Dropped(sock).opening = NoOpening /\ \A w, ms, v, o : Fine(Dropped(sock), w, ms, v, o)
  BY ServerFinds, DropKeeps
<1>6. WindowTyped'
  <2>1. session \in Session \cup {Nobody}
    BY ClientFinds
  <2>2. saves' \in Seq(Session \cup {Nobody}) /\ joining' \in Seq(Nat)
    BY <1>1
  <2> QED BY <1>1, <1>2, <1>3, <1>4, <2>1, <2>2, ClientFinds, ServerFinds DEF WindowTyped
<1>7. Fine(sock', who', Showing', version', over')
  BY <1>1, <1>5
<1>8. ShownIsPast'
  BY <1>1, <1>3, ServerFinds DEF ShownIsPast
<1>9. Screened'
  BY <1>1, <1>5 DEF Screened, NoOpening
<1>10. CloseWaits'
  BY <1>1, <1>4 DEF CloseWaits
<1>11. Stored'
  BY <1>1 DEF Stored
<1>12. ~Seated(board, actor)'
  BY <1>1 DEF Seated
<1> QED BY <1>1, <1>6, <1>7, <1>8, <1>9, <1>10, <1>11, <1>12 DEF ClientInduction

LEMMA RequestCloseStep ==
  ASSUME ClientInduction, RequestClose PROVE ClientInduction'
<1>1. CASE InMatch
  BY <1>1, CloseAsked
<1>2. CASE ~InMatch
  <2>1. Shut("free", 0)
    BY <1>2 DEF RequestClose
  <2> QED BY <2>1, ShutStep
<1> QED BY <1>1, <1>2

LEMMA ConfirmQuitStep ==
  ASSUME ClientInduction, ConfirmQuit PROVE ClientInduction'
<1>1. CASE InputLocked(board)
  <2>1. Shut("unheard", 0)
    BY <1>1 DEF ConfirmQuit
  <2> QED BY <2>1, ShutStep
<1>2. CASE ~InputLocked(board)
  <2>1. quit.asked /\ AwaitResignation
    BY <1>2 DEF ConfirmQuit
  <2> QED BY <1>2, <2>1, AwaitResignationStep
<1> QED BY <1>1, <1>2

LEMMA ReceiveAnswerStep ==
  ASSUME ClientInduction, ReceiveAnswer PROVE ClientInduction'
<1> DEFINE e == Event
           mine == screen = "match" /\ e.command.mount = visits
           known == board.pending = NoCommand \/ board.pending = e.command
<1>1. sock.in # <<>> /\ ~Settles(e) /\ e.type = "answer"
  BY DEF ReceiveAnswer, Incoming, Event, Settles
<1>2. /\ e.version \in Versions /\ e.version <= version /\ e.over \in BOOLEAN /\ e.command \in Orders
      /\ Given(e.command, Showing, version) /\ Late(e.command, version, over)
  BY <1>1, EventHeard, Kinds DEF Told
<1>3. CASE quit.awaited = e.command
  <2>1. Shut("resigned", e.command.version)
    BY <1>3 DEF ReceiveAnswer
  <2> HIDE DEF e
  <2>2. e.command.version \in Nat /\ e.command.version # 0
    BY <1>2, ServerFinds DEF Orders, Versions
  <2>3. e.command # NoCommand
    BY <2>2 DEF NoCommand, Order
  <2>4. over \/ e.command.version < version
    BY <1>2, <1>3, <2>3, ClientFinds DEF CloseWaits, Late
  <2> DEFINE at == e.command.version
  <2>5. at \in Nat /\ (over \/ at < version) /\ Shut("resigned", at)
    BY <2>1, <2>2, <2>4
  <2> HIDE DEF at
  <2> QED BY <2>5, ShutStep
<1>4. CASE quit.awaited # e.command
  <2>1. /\ UNCHANGED <<screen, visits, home, actor, phase, mutes, quit, server>> /\ sock' = Heard
        /\ board' = IF ~mine \/ ~known THEN board
                    ELSE IF e.ok THEN [board EXCEPT !.pending = NoCommand]
                    ELSE [board EXCEPT !.pending = NoCommand, !.shown = e.version, !.over = e.over]
    BY <1>4 DEF ReceiveAnswer
  <2>2. mine => board.shown # 0
    BY <1>2, ClientFinds DEF Given, Showing
  <2> HIDE DEF e
  <2>3. BoardFits(board', sock) /\ (Seated(board', actor) => Seated(board, actor))
    <3>1. CASE board' = board
      BY <3>1, SameFits
    <3>2. CASE mine /\ board' = [board EXCEPT !.pending = NoCommand]
      <4>1. /\ board' \in Boards /\ board'.pending = NoCommand /\ board'.shown = board.shown
            /\ board'.phase = board.phase
        BY <3>2, ClientFinds DEF Boards
      <4> QED BY <3>2, <4>1, SameFits DEF BoardFits, Seated
    <3>3. CASE mine /\ board' = [board EXCEPT !.pending = NoCommand, !.shown = e.version, !.over = e.over]
      <4>1. e.version \in 0..Len(Legal) /\ e.version # 0
        BY <1>2, ServerFinds DEF Versions
      <4>2. /\ board' \in Boards /\ board'.pending = NoCommand /\ board'.shown = e.version
            /\ board'.phase = board.phase
        BY <1>2, <3>3, <4>1, ClientFinds DEF Boards
      <4> QED BY <1>2, <2>2, <3>3, <4>1, <4>2, SameFits DEF BoardFits, Seated
    <3> QED BY <2>1, <3>1, <3>2, <3>3
  <2> QED BY <1>1, <2>1, <2>3, BoardHeard DEF e
<1> QED BY <1>3, <1>4

\* Another screen opens, over the connection as it is.
LEMMA EnterStep ==
  ASSUME ClientInduction, NEW s \in {"home", "play", "match"}, screen # "closed",
         NEW t, Fine(t, who, Showing, version, over), Enter(s, t),
         UNCHANGED <<mutes, server>>, actor' \in {actor, Nobody},
         session' \in Session \cup {Nobody}, vault' \in Session \cup {Nobody},
         saves' \in Seq(Session \cup {Nobody}), lost' \in BOOLEAN, Stored'
  PROVE  ClientInduction'
<1> DEFINE o == Opened(t, visits + 1, <<>>)
<1>1. /\ screen' = s /\ visits' = visits + 1 /\ phase' = "idle" /\ quit' = [quit EXCEPT !.asked = FALSE]
      /\ IF s = "match" /\ t.link THEN sock' = o.sock /\ board' = [NoBoard EXCEPT !.phase = o.phase]
         ELSE sock' = WithoutOpening(t) /\ board' = NoBoard
      /\ UNCHANGED <<mutes, who, joining, entry, player, over, version>>
  BY DEF Enter, server
<1>2. /\ Fine(o.sock, who, Showing, version, over) /\ o.sock.link = t.link
      /\ o.phase \in {"ready", "authenticating"} /\ (o.phase = "ready" <=> t.handshake.settled)
  <2> DEFINE n == visits + 1
             ks == <<>>
  <2>1. ks \in Seq(Continuations) /\ n \in Nat /\ session \in Session \cup {Nobody}
    BY ClientFinds
  <2>2. o = Opened(t, n, ks)
    OBVIOUS
  <2> HIDE DEF o, n, ks
  <2>3. /\ Fine(Opened(t, n, ks).sock, who, Showing, version, over) /\ Opened(t, n, ks).sock.link = t.link
        /\ Opened(t, n, ks).phase \in {"ready", "authenticating"}
        /\ Opened(t, n, ks).phase = "ready" <=> t.handshake.settled
    BY <2>1, OpenedKeeps
  <2> QED BY <2>2, <2>3
<1>3. t.handshake.settled => t.link /\ who # Nobody
  BY SettledKnows
<1>4. Fine(WithoutOpening(t), who, Showing, version, over) /\ WithoutOpening(t).opening = NoOpening
  BY CallOffKeeps
<1> HIDE DEF o
<1>5. /\ board' \in Boards /\ board'.shown = 0 /\ board'.pending = NoCommand
      /\ board'.phase = "ready" => sock'.link /\ who # Nobody
  <2>1. NoBoard \in Boards /\ NoBoard.shown = 0 /\ NoBoard.pending = NoCommand /\ NoBoard.phase = "connecting"
    BY ServerFinds DEF NoBoard, Boards
  <2>2. CASE s = "match" /\ t.link
    <3>1. sock' = o.sock /\ board' = [NoBoard EXCEPT !.phase = o.phase]
      BY <1>1, <2>2
    <3>2. /\ board' \in Boards /\ board'.shown = 0 /\ board'.pending = NoCommand /\ board'.phase = o.phase
      BY <1>2, <2>1, <3>1 DEF Boards
    <3> QED BY <1>2, <1>3, <2>2, <3>1, <3>2
  <2>3. CASE ~(s = "match" /\ t.link)
    BY <1>1, <2>1, <2>3
  <2> QED BY <2>2, <2>3
<1>6. Fine(sock', who, Showing, version, over)
  BY <1>1, <1>2, <1>4
<1>7. Showing \subseteq Showing'
  BY <1>1, ClientFinds DEF Showing
<1>8. WindowTyped'
  <2>1. quit' \in [asked : BOOLEAN, awaited : Orders \cup {NoCommand},
                   how : {"open", "free", "unheard", "resigned"}, at : Nat]
    BY <1>1, ClientFinds
  <2>2. visits' \in Nat \ {0} /\ actor' \in Session \cup {Nobody}
    BY <1>1, ClientFinds
  <2> QED BY <1>1, <1>5, <2>1, <2>2, ClientFinds, ServerFinds DEF WindowTyped
<1>9. Fine(sock', who', Showing', version', over')
  <2>1. version <= version /\ version \in 0..Len(Legal)
    BY ServerFinds
  <2>2. Fine(sock', who, Showing', version, over)
    BY <1>6, <1>7, <2>1, LaterKeeps
  <2> QED BY <1>1, <2>2
<1>10. ShownIsPast'
  BY <1>1, <1>5, ServerFinds DEF ShownIsPast
<1>11. Screened'
  BY <1>1, <1>4 DEF Screened, NoOpening
<1>12. CloseWaits'
  BY <1>1, ClientFinds DEF CloseWaits
<1>13. ~Seated(board, actor)'
  BY <1>5 DEF Seated
<1>14. (joining # <<>> => who # Nobody)'
  BY <1>1, ServerFinds
<1> QED BY <1>8, <1>9, <1>10, <1>11, <1>12, <1>13, <1>14 DEF ClientInduction

LEMMA VisitStep ==
  ASSUME ClientInduction, NEW s \in {"home", "play", "match"}, Visit(s) PROVE ClientInduction'
<1>1. /\ screen # "closed" /\ Enter(s, sock) /\ UNCHANGED <<mutes, server>>
      /\ UNCHANGED <<session, vault, saves, lost, actor>>
  BY DEF Visit, home
<1>2. screen' # "closed"
  BY <1>1 DEF Enter
<1>3. Stored'
  BY <1>1, <1>2, ClientFinds DEF Stored
<1> QED BY <1>1, <1>3, ClientFinds, ServerFinds, EnterStep DEF WindowTyped

LEMMA ReceiveFoundStep ==
  ASSUME ClientInduction, ReceiveFound PROVE ClientInduction'
<1>1. CASE screen # "play"
  BY <1>1, FoundHere
<1>2. CASE screen = "play"
  <2>1. sock.in # <<>> /\ ~Settles(Event)
    BY DEF ReceiveFound, Incoming, Event, Settles
  <2>2. /\ Enter("match", Heard) /\ UNCHANGED <<mutes, server>>
        /\ UNCHANGED <<session, vault, saves, lost, actor>>
    BY <1>2 DEF ReceiveFound, home
  <2> DEFINE h == Heard
  <2>3. Fine(h, who, Showing, version, over) /\ Enter("match", h)
    BY <2>1, <2>2, HeardKeeps
  <2> HIDE DEF h
  <2>4. screen' # "closed"
    BY <2>2 DEF Enter
  <2>5. Stored'
    BY <1>2, <2>2, <2>4, ClientFinds DEF Stored
  <2> QED BY <1>2, <2>2, <2>3, <2>5, ClientFinds, EnterStep DEF WindowTyped
<1> QED BY <1>1, <1>2

LEMMA SaveAdded ==
  ASSUME NEW S, NEW q \in Seq(S), NEW x \in S
  PROVE  Append(q, x) \in Seq(S) /\ Append(q, x) # <<>> /\ Append(q, x)[Len(Append(q, x))] = x
OBVIOUS

LEMMA SignOutStep ==
  ASSUME ClientInduction, SignOut PROVE ClientInduction'
<1>1. /\ screen # "closed" /\ session' = Nobody /\ actor' = Nobody /\ saves' = Append(saves, Nobody)
      /\ UNCHANGED <<vault, lost, mutes, server>>
      /\ IF screen = "home" THEN UNCHANGED <<screen, visits, phase, quit, sock, board>>
         ELSE Enter("home", sock)
  BY DEF SignOut, Unstored
<1>2. /\ saves \in Seq(Session \cup {Nobody}) /\ Nobody \in Session \cup {Nobody}
      /\ vault \in Session \cup {Nobody} /\ lost \in BOOLEAN
  BY ClientFinds DEF WindowTyped
<1>3. /\ saves' \in Seq(Session \cup {Nobody}) /\ saves' # <<>> /\ saves'[Len(saves')] = session'
  BY <1>1, <1>2, SaveAdded
<1>4. screen' # "closed"
  BY <1>1 DEF Enter
<1>5. Stored'
  BY <1>3, <1>4 DEF Stored
<1>6. CASE screen = "home"
  BY <1>1, <1>2, <1>3, <1>5, <1>6, HomeStep
<1>7. CASE screen # "home"
  BY <1>1, <1>2, <1>3, <1>5, <1>7, ServerFinds, EnterStep
<1> QED BY <1>6, <1>7

LEMMA SignInStep ==
  ASSUME ClientInduction, NEW s \in Session, SignIn(s) PROVE ClientInduction'
<1>1. /\ screen = "home" /\ session' = s /\ saves' = Append(saves, s)
      /\ UNCHANGED <<screen, visits, vault, lost, actor, sock, phase, mutes, board, quit, server>>
  BY DEF SignIn
<1>2. /\ saves \in Seq(Session \cup {Nobody}) /\ s \in Session \cup {Nobody}
      /\ vault \in Session \cup {Nobody} /\ lost \in BOOLEAN
  BY ClientFinds DEF WindowTyped
<1>3. /\ saves' \in Seq(Session \cup {Nobody}) /\ saves' # <<>> /\ saves'[Len(saves')] = session'
  BY <1>1, <1>2, SaveAdded
<1>4. Stored'
  BY <1>1, <1>3 DEF Stored
<1> QED BY <1>1, <1>2, <1>3, <1>4, HomeStep

\* The store that is at hand ends, one way or the other.
LEMMA SaveEnds ==
  ASSUME ClientInduction, saves # <<>>, saves' = Tail(saves),
         \/ vault' = Head(saves) /\ lost' = FALSE
         \/ vault' = vault /\ lost' = TRUE,
         UNCHANGED <<screen, visits, session, actor, sock, phase, mutes, board, quit, server>>
  PROVE  ClientInduction'
<1>1. saves \in Seq(Session \cup {Nobody}) /\ vault \in Session \cup {Nobody}
  BY ClientFinds DEF WindowTyped
<1>2. /\ Head(saves) = saves[1] /\ saves[1] \in Session \cup {Nobody}
      /\ Tail(saves) \in Seq(Session \cup {Nobody})
  BY <1>1, RestOf
<1>3. screen # "closed" /\ saves[Len(saves)] = session
  BY ClientFinds DEF Stored
<1>4. Tail(saves) # <<>> => Tail(saves)[Len(Tail(saves))] = saves[Len(saves)]
  BY <1>1
<1>5. Tail(saves) = <<>> => saves[1] = saves[Len(saves)]
  BY <1>1
<1>6. Stored'
  BY <1>2, <1>3, <1>4, <1>5 DEF Stored
<1> QED BY <1>1, <1>2, <1>6, ClientFinds, HomeStep

LEMMA LaunchStep ==
  ASSUME ClientInduction, Launch PROVE ClientInduction'
<1> DEFINE n == sock.connections
           t == [Closed EXCEPT !.connections = n]
<1>1. /\ screen = "closed" /\ screen' = "home" /\ visits' = visits + 1 /\ session' = vault /\ lost' = FALSE
      /\ sock' = t /\ quit' = NoQuit
      /\ UNCHANGED <<vault, saves, actor, phase, mutes, board, who, joining, entry, player, over, version>>
  BY DEF Launch, server
<1>2. n \in 0..MaxConnections
  BY ServerFinds, SocketFields
<1>3. t.opening = NoOpening /\ \A w, ms, v, o : Fine(t, w, ms, v, o)
  BY <1>2, ClosedKeeps
<1> HIDE DEF t
<1>4. board = NoBoard /\ phase = "idle" /\ saves = <<>>
  BY <1>1, ClientFinds DEF Screened, Stored
<1>5. NoBoard.shown = 0 /\ NoBoard.pending = NoCommand /\ NoBoard.phase = "connecting"
  BY DEF NoBoard
<1>6. WindowTyped'
  <2>1. NoQuit \in [asked : BOOLEAN, awaited : Orders \cup {NoCommand},
                    how : {"open", "free", "unheard", "resigned"}, at : Nat]
    BY DEF NoQuit
  <2>2. visits' \in Nat \ {0} /\ vault \in Session \cup {Nobody} /\ saves \in Seq(Session \cup {Nobody})
    BY <1>1, ClientFinds DEF WindowTyped
  <2>3. board' \in Boards /\ quit' = NoQuit /\ phase' = "idle" /\ session' = vault /\ lost' = FALSE
    BY <1>1, <1>4, ClientFinds
  <2>4. actor' \in Session \cup {Nobody} /\ mutes' \in Preferences /\ screen' = "home"
    BY <1>1, ClientFinds
  <2>5. /\ who' \in Session \cup {Nobody} /\ joining' \in Seq(Nat) /\ entry' \in Session \cup {Nobody}
        /\ player' \in Session \cup {Nobody} /\ over' \in BOOLEAN /\ version' \in 0..Len(Legal)
    BY <1>1, ServerFinds
  <2>6. vault' = vault /\ saves' = saves
    BY <1>1
  <2> HIDE DEF n
  <2> QED BY <2>1, <2>2, <2>3, <2>4, <2>5, <2>6 DEF WindowTyped
<1>7. Fine(sock', who', Showing', version', over')
  BY <1>1, <1>3
<1>8. ShownIsPast'
  BY <1>1, <1>4, <1>5, ServerFinds DEF ShownIsPast
<1>9. Screened'
  BY <1>1, <1>3, <1>4 DEF Screened, NoOpening
<1>10. CloseWaits'
  BY <1>1 DEF CloseWaits, NoQuit
<1>11. Stored'
  BY <1>1, <1>4 DEF Stored
<1>12. ~Seated(board, actor)'
  BY <1>1 DEF Seated
<1>13. (joining # <<>> => who # Nobody)'
  BY <1>1, ServerFinds
<1> QED BY <1>6, <1>7, <1>8, <1>9, <1>10, <1>11, <1>12, <1>13 DEF ClientInduction

-----------------------------------------------------------------------------
(* The theorem.                                                             *)

LEMMA FirstWindow ==
  Init => ClientInduction
<1> SUFFICES ASSUME Init PROVE ClientInduction
  OBVIOUS
<1> DEFINE t == Closed
<1>1. sock = t
  BY DEF Init
<1>2. MaxConnections \in Nat /\ Len(Legal) \in Nat /\ Len(Legal) > 0 /\ Default \in Preferences
  BY ClientAssumption
<1>3. t.opening = NoOpening /\ ~t.link /\ \A w, ms, v, o : Fine(t, w, ms, v, o)
  <2>1. /\ t \in Sockets /\ ~t.link /\ t.out = <<>> /\ t.in = <<>> /\ t.handshake = NoHandshake
        /\ t.waiting = Nothing /\ t.opening = NoOpening
    BY ClosedTyped DEF Closed
  <2> HIDE DEF t
  <2> QED BY <2>1, EmptyKeeps
<1> HIDE DEF t
<1>4. /\ screen \in {"home", "play", "match"} /\ visits = 1
      /\ session \in Session \cup {Nobody} /\ vault = session /\ saves = <<>> /\ lost = FALSE
      /\ actor = Nobody /\ phase = "idle" /\ mutes = Default /\ board = NoBoard /\ quit = NoQuit
      /\ who = Nobody /\ joining = <<>> /\ entry = Nobody /\ over = FALSE
      /\ player \in {Nobody, session} /\ (version = IF player = Nobody THEN 0 ELSE 1)
  BY DEF Init
<1>5. NoBoard \in Boards /\ NoBoard.shown = 0 /\ NoBoard.pending = NoCommand /\ NoBoard.phase = "connecting"
  BY <1>2 DEF NoBoard, Boards
<1>6. WindowTyped
  <2>1. NoQuit \in [asked : BOOLEAN, awaited : Orders \cup {NoCommand},
                    how : {"open", "free", "unheard", "resigned"}, at : Nat]
    BY DEF NoQuit
  <2>2. saves \in Seq(Session \cup {Nobody}) /\ joining \in Seq(Nat)
    <3>1. saves = <<>> /\ joining = <<>>
      BY <1>4
    <3> QED BY <3>1
  <2>3. version \in 0..Len(Legal) /\ player \in Session \cup {Nobody}
    BY <1>2, <1>4
  <2>4. board \in Boards /\ quit = NoQuit /\ phase = "idle" /\ mutes \in Preferences
    <3>1. board = NoBoard /\ quit = NoQuit /\ phase = "idle" /\ mutes = Default
      BY <1>4
    <3> QED BY <1>2, <1>5, <3>1
  <2>5. /\ lost \in BOOLEAN /\ over \in BOOLEAN /\ visits \in Nat \ {0}
        /\ screen \in {"home", "play", "match", "closed"}
    <3>1. (lost = FALSE) /\ (over = FALSE)
      BY <1>4
    <3>2. lost \in BOOLEAN /\ over \in BOOLEAN
      BY <3>1
    <3>3. visits = 1 /\ screen \in {"home", "play", "match"}
      BY <1>4
    <3> QED BY <3>2, <3>3
  <2>6. /\ session \in Session \cup {Nobody} /\ vault \in Session \cup {Nobody}
        /\ actor \in Session \cup {Nobody} /\ who \in Session \cup {Nobody} /\ entry \in Session \cup {Nobody}
    BY <1>4
  <2> QED BY <2>1, <2>2, <2>3, <2>4, <2>5, <2>6 DEF WindowTyped
<1>7. ShownIsPast
  BY <1>2, <1>4, <1>5 DEF ShownIsPast
<1>8. Screened
  BY <1>1, <1>3, <1>4 DEF Screened, NoOpening
<1>9. CloseWaits /\ Stored
  BY <1>4 DEF CloseWaits, NoQuit, Stored
<1>10. ~Seated(board, actor)
  BY <1>4 DEF Seated
<1>11. Fine(sock, who, Showing, version, over)
  BY <1>1, <1>3
<1> QED BY <1>4, <1>6, <1>7, <1>8, <1>9, <1>10, <1>11 DEF ClientInduction

LEMMA ClientRests ==
  ASSUME ClientInduction, UNCHANGED vars PROVE ClientInduction'
<1>1. UNCHANGED <<screen, visits, home, actor, sock, phase, mutes, board, quit, server>>
  BY DEF vars
<1>2. BoardFits(board', sock) /\ QuitFits(quit', board') /\ board'.shown = board.shown
  BY <1>1, SameFits
<1> QED BY <1>1, <1>2, TouchStep

LEMMA ReceiveStep ==
  ASSUME ClientInduction, Receive PROVE ClientInduction'
BY ReceiveReadyStep, ReceiveWelcomeStep, ReceiveRefusedStep, ReceiveStatusStep, ReceiveJoinedStep,
   ReceiveFoundStep, ReceiveSnapshotStep, ReceiveGoneStep, ReceiveCommittedStep, ReceiveEndedStep,
   ReceiveAnswerStep DEF Receive

LEMMA ServeStep ==
  ASSUME ClientInduction, Serve PROVE ClientInduction'
BY ServeAuthenticateStep, ServeJoinStep, ServeLeaveStep, ServeSyncStep, ServeMuteStep, ServeCommandStep
   DEF Serve

LEMMA ActStep ==
  ASSUME ClientInduction, Act PROVE ClientInduction'
BY StartSearchStep, StopSearchStep, GestureStep, CancelStep, ResignStep, SetMutesStep, RequestCloseStep,
   ConfirmQuitStep, DismissQuitStep, LaunchStep, VisitStep, SignInStep, SignOutStep DEF Act

LEMMA HappenStep ==
  ASSUME ClientInduction, Happen PROVE ClientInduction'
<1>1. CASE SaveLands
  BY <1>1, SaveEnds DEF SaveLands
<1>2. CASE SaveFails
  BY <1>2, SaveEnds DEF SaveFails
<1> QED BY <1>1, <1>2, ConnectStep, DisconnectStep, SettleJoinStep, PairStep, AdvanceStep, FinishStep DEF Happen

\* The opening of a handshake, its answer and what waits for it keep the connection's
\* player and its mutes; what is on the wire is the match's past.
LEMMA ClientFollows ==
  ClientInduction => ConnectionKnowsItsPlayer
<1> SUFFICES ASSUME ClientInduction PROVE ConnectionKnowsItsPlayer
  OBVIOUS
<1>1. TypeOK
  <2>1. sock.told \subseteq Preferences /\ (~sock.link => sock.in = <<>>)
    BY ServerFinds, SocketFields DEF Sound
  <2>2. {session, vault, actor, who, entry, player} \subseteq Session \cup {Nobody}
    BY ClientFinds, ServerFinds DEF WindowTyped
  <2> QED BY <2>1, <2>2, ClientFinds, FieldsHeard DEF TypeOK, Screened
<1>2. HandshakeFirst
  BY FrameServed, ServerFinds DEF HandshakeFirst, Frame, Fine, Known, Private
<1>3. SubmittedIsLegal
  BY ServerFinds DEF SubmittedIsLegal, Fine, Carried, Given
<1>4. MutesAreTold
  <2> SUFFICES ASSUME Seated(board, actor), sock.link, sock.waiting = Nothing PROVE sock.told = {mutes}
    BY DEF MutesAreTold
  <2>1. Telling(sock, mutes)
    BY ClientFinds
  <2>2. sock.handshake.of \in Periods
    BY <2>1, ServerFinds, SocketFields DEF Telling
  <2>3. sock.waiting[sock.handshake.of] = <<>>
    BY <2>2 DEF Nothing
  <2>4. Said(<<>>) = {}
    BY SaidNothing
  <2> QED BY <2>1, <2>3, <2>4 DEF Telling
<1>5. ClosingIsAnswered
  BY ClientFinds, ServerFinds DEF ClosingIsAnswered, CloseWaits
<1>6. NextLaunchKnows
  BY ClientFinds DEF NextLaunchKnows, Stored
<1> QED BY <1>1, <1>2, <1>3, <1>4, <1>5, <1>6 DEF ConnectionKnowsItsPlayer

\* Whatever is lost on the way, and however often the connection is replaced: the server
\* hears nothing of a match from a connection it does not know, knows this window's mutes
\* once its seat is shown, and gets only moves that were legal at the version they name;
\* a window closes on its resignation only once the server answered it, and the next
\* launch finds what was stored (MatchSocket, useCommunication, useBoardInteraction,
\* installCloseGuard, createKeyringStore).
THEOREM ConnectionAlwaysKnows == Spec => []ConnectionKnowsItsPlayer
<1>1. ASSUME ClientInduction, [Next]_vars PROVE ClientInduction'
  <2>1. CASE UNCHANGED vars
    BY <1>1, <2>1, ClientRests
  <2>2. CASE Next
    BY <1>1, <2>2, ActStep, HappenStep, ReceiveStep, ServeStep, TickStep DEF Next
  <2> QED BY <1>1, <2>1, <2>2
<1> QED BY <1>1, FirstWindow, ClientFollows, PTL DEF Spec

=============================================================================
