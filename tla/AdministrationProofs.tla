------------------------ MODULE AdministrationProofs ------------------------
(***************************************************************************)
(* Proofs about Identity, for any accounts, guests, tokens, matches and    *)
(* number of requests in flight; and about the catalogue and the listings  *)
(* of Administration, for any administrators, records and page size.       *)
(***************************************************************************)
EXTENDS Identity, Administration, FiniteSetTheorems, SequenceTheorems, TLAPS

Seats == Matches \X Sides
Fields == {"status", "role"}
Forms == {form[1] : form \in Applications}
NamesAsked == {form[2] : form \in Applications}

\* What a request may be doing.
Registering == [op : {"register"}, at : {"insert", "commit"}, email : Forms, name : NamesAsked,
                user : Users \cup {Nobody}]
Claiming == [op : {"claim"}, at : {"insert", "guest", "light", "dark", "commit"}, email : Forms,
             name : NamesAsked, user : Users \cup {Nobody}, guest : Guests, had : SUBSET Seats,
             rows : SUBSET Matches, kept : SUBSET Seats]
Others == [op : {"sign-in"}, at : {"open"}, user : Users]
          \cup [op : {"verify"}, at : {"consume"}, user : Users]
          \cup [op : {"moderate"}, at : {"commit"}, user : Users, to : {"active", "suspended"}]
          \cup [op : {"grant"}, at : {"commit"}, user : Users, to : Roles]
Works == {Idle} \cup Registering \cup Claiming \cup Others

Typed ==
  /\ users \in [Users -> UserRows \cup {Nobody}]
  /\ mail \in [Users -> {"none", "unused", "consumed"}]
  /\ sessions \in [Tokens -> SessionRows \cup {Nobody}]
  /\ guests \in [Guests -> GuestRows \cup {Nobody}]
  /\ seats \in [Matches -> [Sides -> Users \cup Guests \cup {Nobody}]]
  /\ audit \in Seq([target : Users, field : Fields, after : {"active", "suspended"} \cup Roles])
  /\ req \in [Requests -> Works]
  /\ sockets \subseteq Guests
  /\ history \in [Guests -> SUBSET Seats]
  /\ answers \in [Users -> Nat]

-----------------------------------------------------------------------------
(* The parts of the invariant *)

\* Addresses and names are of one account each, and were asked for together.
RowsAreUnique ==
  \A u \in Accounts :
    /\ <<users[u].email, users[u].name>> \in Applications
    /\ \A v \in Accounts \ {u} : users[u].email # users[v].email /\ users[u].name # users[v].name

\* Every account has a session, every session an account.
SessionsHaveOwners ==
  /\ \A u \in Accounts : \E t \in Tokens : sessions[t] # Nobody /\ sessions[t].user = u
  /\ \A t \in Tokens : sessions[t] # Nobody => sessions[t].user \in Accounts

\* A guest's token is a session of who claimed it, and nobody claims two guests.
ClaimsAreOne ==
  /\ \A g \in Guests : guests[g] # Nobody /\ guests[g].claimedBy # Nobody =>
       /\ guests[g].claimedBy \in Accounts
       /\ sessions[g] # Nobody /\ sessions[g].user = guests[g].claimedBy
       /\ \A h \in Guests \ {g} : guests[h] # Nobody => guests[h].claimedBy # guests[g].claimedBy
  /\ \A g \in Guests : sessions[g] # Nobody => guests[g] # Nobody /\ guests[g].claimedBy # Nobody

LinksAreUsedOnce ==
  \A u \in Users :
    /\ mail[u] # "none" <=> u \in Accounts
    /\ answers[u] = IF mail[u] = "consumed" THEN 1 ELSE 0
    /\ u \in Accounts => (users[u].verified <=> mail[u] = "consumed")

RecordsAreTrue ==
  /\ \A i \in DOMAIN audit : audit[i].target \in Accounts
  /\ AuditTellsTheRow

\* A guest that exists has its seats, or who claimed it has.
HistoriesAreKept ==
  /\ \A g \in sockets : guests[g] # Nobody
  /\ \A g \in Guests : \A seat \in history[g] :
       /\ guests[g] # Nobody
       /\ \/ seats[seat[1]][seat[2]] = g
          \/ guests[g].claimedBy # Nobody /\ seats[seat[1]][seat[2]] = guests[g].claimedBy

InsertedWork(w) == w.op \in {"register", "claim"} /\ w.at # "insert"
HoldingWork(w) == w.op = "claim" /\ w.at \in {"light", "dark", "commit"}

\* A request that works on an account works on one that is there; one that inserts has a
\* free id, address and name; one that claims holds a guest nobody has, and its seats.
WorkOK(w) ==
  /\ w.op \in {"sign-in", "verify", "moderate", "grant"} => w.user \in Accounts
  /\ w.op \in {"register", "claim"} => <<w.email, w.name>> \in Applications
  /\ InsertedWork(w) =>
       /\ w.user \in Users /\ w.user \notin Accounts
       /\ \A u \in Accounts : users[u].email # w.email /\ users[u].name # w.name
  /\ w.op = "claim" => guests[w.guest] # Nobody /\ w.had \subseteq history[w.guest]
  /\ HoldingWork(w) => guests[w.guest].claimedBy = Nobody
  /\ w.op = "claim" /\ w.at \in {"dark", "commit"} =>
       \A seat \in w.kept : seats[seat[1]][seat[2]] = w.guest
  /\ w.op = "claim" /\ w.at = "dark" => \A seat \in w.had : seat[2] = "light" => seat \in w.kept
  /\ w.op = "claim" /\ w.at = "commit" => w.had \subseteq w.kept

\* Two requests never insert the same, nor hold the same guest.
Apart(w, v) ==
  /\ InsertedWork(w) /\ InsertedWork(v) =>
       w.user # v.user /\ w.email # v.email /\ w.name # v.name
  /\ HoldingWork(w) /\ HoldingWork(v) => w.guest # v.guest

WorksAgree ==
  \A q \in Requests : WorkOK(req[q]) /\ \A p \in Requests \ {q} : Apart(req[q], req[p])

IdentityInduction ==
  /\ IdentityConstants /\ Typed
  /\ RowsAreUnique /\ SessionsHaveOwners /\ ClaimsAreOne /\ LinksAreUsedOnce /\ RecordsAreTrue
  /\ HistoriesAreKept /\ WorksAgree

-----------------------------------------------------------------------------
(* Rows, requests and tokens *)

LEMMA KindsOfWork ==
  /\ Idle \in Works /\ Idle.op = "none" /\ Idle.at = "idle"
  /\ \A w \in Works :
       /\ w.op = "register" => w \in Registering
       /\ w.op = "claim" => w \in Claiming
       /\ w.op \in {"sign-in", "verify", "moderate", "grant"} => w.user \in Users
       /\ w.op = "moderate" => w.to \in {"active", "suspended"}
       /\ w.op = "grant" => w.to \in Roles
       /\ w.op \in {"none", "register", "claim", "sign-in", "verify", "moderate", "grant"}
<1>1. Idle \in Works /\ Idle.op = "none" /\ Idle.at = "idle"
  BY DEF Idle, Works
<1>2. ASSUME NEW w \in Registering PROVE w.op = "register"
  BY DEF Registering
<1>3. ASSUME NEW w \in Claiming PROVE w.op = "claim"
  BY DEF Claiming
<1>4. ASSUME NEW w \in Others
      PROVE  /\ w.op \in {"sign-in", "verify", "moderate", "grant"} /\ w.user \in Users
             /\ w.op = "moderate" => w.to \in {"active", "suspended"}
             /\ w.op = "grant" => w.to \in Roles
  BY DEF Others
<1> QED
  BY <1>1, <1>2, <1>3, <1>4 DEF Works

LEMMA IdleIsOK ==
  /\ WorkOK(Idle) /\ ~ InsertedWork(Idle) /\ ~ HoldingWork(Idle)
BY KindsOfWork DEF WorkOK, InsertedWork, HoldingWork

\* What is in a table is a row.
LEMMA RowsAreRows ==
  ASSUME Typed
  PROVE  /\ \A u \in Accounts : u \in Users /\ users[u] # Nobody /\ users[u] \in UserRows
         /\ \A t \in Tokens : sessions[t] # Nobody => sessions[t] \in SessionRows
         /\ \A g \in Guests : guests[g] # Nobody => guests[g] \in GuestRows
BY DEF Typed, Accounts

\* Who acts as a guest is that guest, and who acts as an account has a live session of it.
LEMMA Resolved ==
  ASSUME IdentityConstants, Typed
  PROVE  /\ \A g \in Guests : Resolve(g) = g => guests[g] # Nobody
         /\ \A t \in Tokens : Resolve(t) \in Users =>
              LiveSession(t) /\ Resolve(t) = sessions[t].user
<1>1. \A t \in Tokens : LiveSession(t) => sessions[t].user \in Users /\ Resolve(t) = sessions[t].user
  BY RowsAreRows DEF LiveSession, SessionRows, Resolve
<1>2. \A t \in Tokens : ~ LiveSession(t) => Resolve(t) = Nobody \/ (LiveGuest(t) /\ Resolve(t) = t)
  BY DEF Resolve
<1>3. \A g \in Guests : g \in Tokens /\ g \notin Users
  BY DEF IdentityConstants, Tokens
<1>4. Nobody \notin Users /\ Nobody \notin Guests
  BY DEF IdentityConstants
<1>5. \A t : LiveGuest(t) => t \in Guests /\ guests[t] # Nobody
  BY DEF LiveGuest
<1> QED
  BY <1>1, <1>2, <1>3, <1>4, <1>5

\* A request that goes on, alone.
LEMMA OnlyWorkMoves ==
  ASSUME IdentityInduction, NEW r \in Requests, NEW w \in Works, req' = [req EXCEPT ![r] = w],
         WorkOK(w), \A q \in Requests \ {r} : Apart(w, req[q]),
         UNCHANGED <<tables, sockets, history, answers>>
  PROVE  IdentityInduction'
<1>1. UNCHANGED <<users, mail, sessions, guests, seats, audit>>
  BY DEF tables
<1>2. req' \in [Requests -> Works]
  BY DEF IdentityInduction, Typed
<1>3. Typed' /\ IdentityConstants' /\ Accounts' = Accounts
  BY <1>1, <1>2 DEF IdentityInduction, Typed, IdentityConstants, Accounts
<1>4. /\ RowsAreUnique' /\ SessionsHaveOwners' /\ ClaimsAreOne' /\ LinksAreUsedOnce'
  BY <1>1, <1>3 DEF IdentityInduction, RowsAreUnique, SessionsHaveOwners, ClaimsAreOne, LinksAreUsedOnce
<1>5. RecordsAreTrue' /\ HistoriesAreKept'
  BY <1>1, <1>3 DEF IdentityInduction, RecordsAreTrue, HistoriesAreKept, AuditTellsTheRow
<1>6. \A q \in Requests : req'[q] = IF q = r THEN w ELSE req[q]
  BY DEF IdentityInduction, Typed
<1>7. \A q \in Requests : WorkOK(req'[q])
  BY <1>6 DEF IdentityInduction, WorksAgree
<1>8. \A q \in Requests : WorkOK(req[q])'
  BY <1>1, <1>3, <1>7 DEF WorkOK, InsertedWork, HoldingWork
<1>9. \A q \in Requests : \A p \in Requests \ {q} : Apart(req'[q], req'[p])
  BY <1>6 DEF IdentityInduction, WorksAgree, Apart
<1>10. WorksAgree'
  BY <1>8, <1>9 DEF WorksAgree, Apart, InsertedWork, HoldingWork
<1> QED
  BY <1>3, <1>4, <1>5, <1>10 DEF IdentityInduction

LEMMA InitHolds ==
  ASSUME IdentityConstants, Init
  PROVE  IdentityInduction
<1>1. Accounts = {}
  BY DEF Init, Accounts
<1>2. req \in [Requests -> Works] /\ \A q \in Requests : req[q] = Idle
  BY KindsOfWork DEF Init
<1>3. seats \in [Matches -> [Sides -> Users \cup Guests \cup {Nobody}]]
  BY DEF Init, EmptySeats
<1>4. Typed
  BY <1>2, <1>3 DEF Init, Typed
<1>5. /\ RowsAreUnique /\ SessionsHaveOwners /\ ClaimsAreOne /\ HistoriesAreKept
      /\ RecordsAreTrue
  <2>1. RowsAreUnique /\ SessionsHaveOwners
    BY <1>1 DEF Init, RowsAreUnique, SessionsHaveOwners
  <2>2. ClaimsAreOne
    <3>1. \A g \in Guests : guests[g] = Nobody /\ sessions[g] = Nobody
      BY DEF Init, Tokens
    <3> QED
      BY <3>1 DEF ClaimsAreOne
  <2>3. HistoriesAreKept
    BY DEF Init, HistoriesAreKept
  <2>4. RecordsAreTrue
    BY DEF Init, RecordsAreTrue, AuditTellsTheRow
  <2> QED
    BY <2>1, <2>2, <2>3, <2>4
<1>6. LinksAreUsedOnce
  BY <1>1 DEF Init, LinksAreUsedOnce
<1>7. WorksAgree
  BY <1>2, IdleIsOK DEF WorksAgree, Apart
<1> QED
  BY <1>4, <1>5, <1>6, <1>7 DEF IdentityInduction

-----------------------------------------------------------------------------
(* Steps of a request that change no table *)

LEMMA GivesUp ==
  ASSUME IdentityInduction, NEW r \in Requests, Finish(r),
         UNCHANGED <<tables, sockets, history, answers>>
  PROVE  IdentityInduction'
<1>1. \A q \in Requests : Apart(Idle, req[q])
  BY IdleIsOK DEF Apart
<1> QED
  BY <1>1, IdleIsOK, KindsOfWork, OnlyWorkMoves DEF Finish

LEMMA BeginRegisterKeeps ==
  ASSUME IdentityInduction, NEW r \in Requests, NEW form \in Applications, BeginRegister(r, form)
  PROVE  IdentityInduction'
<1> DEFINE w == [op |-> "register", at |-> "insert", email |-> form[1], name |-> form[2], user |-> Nobody]
<1>1. w \in Works
  <2>1. w \in Registering
    BY DEF Registering, Forms, NamesAsked
  <2> QED
    BY <2>1 DEF Works
<1>2. WorkOK(w) /\ ~ InsertedWork(w) /\ ~ HoldingWork(w)
  <2>1. <<form[1], form[2]>> \in Applications
    BY DEF IdentityInduction, IdentityConstants
  <2> QED
    BY <2>1 DEF WorkOK, InsertedWork, HoldingWork
<1>3. req' = [req EXCEPT ![r] = w] /\ UNCHANGED <<tables, sockets, history, answers>>
  BY DEF BeginRegister, Begin
<1>4. \A q \in Requests : Apart(w, req[q])
  BY <1>2 DEF Apart
<1> QED
  BY <1>1, <1>2, <1>3, <1>4, OnlyWorkMoves

LEMMA BeginClaimKeeps ==
  ASSUME IdentityInduction, NEW r \in Requests, NEW g \in Guests, NEW form \in Applications,
         BeginClaim(r, g, form)
  PROVE  IdentityInduction'
<1> DEFINE w == [op |-> "claim", at |-> "insert", email |-> form[1], name |-> form[2], user |-> Nobody,
                 guest |-> g, had |-> history[g], rows |-> {}, kept |-> {}]
<1>1. w \in Works
  <2>1. history[g] \in SUBSET Seats
    BY DEF IdentityInduction, Typed
  <2>2. w \in Claiming
    BY <2>1 DEF Claiming, Forms, NamesAsked
  <2> QED
    BY <2>2 DEF Works
<1>2. WorkOK(w) /\ ~ InsertedWork(w) /\ ~ HoldingWork(w)
  <2>1. <<form[1], form[2]>> \in Applications
    BY DEF IdentityInduction, IdentityConstants
  <2>2. guests[g] # Nobody
    BY Resolved DEF IdentityInduction, BeginClaim
  <2> QED
    BY <2>1, <2>2 DEF WorkOK, InsertedWork, HoldingWork
<1>3. req' = [req EXCEPT ![r] = w] /\ UNCHANGED <<tables, sockets, history, answers>>
  BY DEF BeginClaim, Begin
<1>4. \A q \in Requests : Apart(w, req[q])
  BY <1>2 DEF Apart
<1> QED
  BY <1>1, <1>2, <1>3, <1>4, OnlyWorkMoves

\* A request that is about to work on an account that is there.
LEMMA BeginOtherKeeps ==
  ASSUME IdentityInduction, NEW r \in Requests, NEW u \in Users, 
         \/ BeginSignIn(r, u) \/ BeginVerify(r, u)
         \/ \E role \in Roles : BeginGrant(r, u, role)
         \/ \E t \in Tokens, status \in {"active", "suspended"} : BeginModerate(r, t, u, status)
  PROVE  IdentityInduction'
<1>1. u \in Accounts
  <2>1. mail[u] = "unused" => u \in Accounts
    BY DEF IdentityInduction, LinksAreUsedOnce
  <2> QED
    BY <2>1 DEF BeginSignIn, BeginVerify, BeginGrant, BeginModerate
<1>2. ASSUME NEW w \in Others, w.user = u, Begin(r, w), UNCHANGED <<tables, sockets, history, answers>>
      PROVE  IdentityInduction'
  <2>1. w.op \in {"sign-in", "verify", "moderate", "grant"}
    BY <1>2 DEF Others
  <2>2. WorkOK(w) /\ ~ InsertedWork(w) /\ ~ HoldingWork(w)
    BY <1>1, <1>2, <2>1 DEF WorkOK, InsertedWork, HoldingWork
  <2>3. w \in Works
    BY DEF Works
  <2>4. \A q \in Requests : Apart(w, req[q])
    BY <2>2 DEF Apart
  <2> QED
    BY <1>2, <2>2, <2>3, <2>4, OnlyWorkMoves DEF Begin
<1>3. CASE BeginSignIn(r, u)
  <2>1. [op |-> "sign-in", at |-> "open", user |-> u] \in Others
    BY DEF Others
  <2> QED
    BY <1>2, <1>3, <2>1 DEF BeginSignIn
<1>4. CASE BeginVerify(r, u)
  <2>1. [op |-> "verify", at |-> "consume", user |-> u] \in Others
    BY DEF Others
  <2> QED
    BY <1>2, <1>4, <2>1 DEF BeginVerify
<1>5. ASSUME NEW role \in Roles, BeginGrant(r, u, role)
      PROVE  IdentityInduction'
  <2>1. [op |-> "grant", at |-> "commit", user |-> u, to |-> role] \in Others
    BY DEF Others
  <2> QED
    BY <1>2, <1>5, <2>1 DEF BeginGrant
<1>6. ASSUME NEW t \in Tokens, NEW status \in {"active", "suspended"}, BeginModerate(r, t, u, status)
      PROVE  IdentityInduction'
  <2>1. [op |-> "moderate", at |-> "commit", user |-> u, to |-> status] \in Others
    BY DEF Others
  <2> QED
    BY <1>2, <1>6, <2>1 DEF BeginModerate
<1> QED
  BY <1>3, <1>4, <1>5, <1>6

\* The key is free: no account has it, and no open transaction.
LEMMA InsertUserKeeps ==
  ASSUME IdentityInduction, NEW r \in Requests, NEW u \in Users, InsertUser(r, u)
  PROVE  IdentityInduction'
<1> DEFINE old == req[r]
           next == IF old.op = "claim" THEN "guest" ELSE "commit"
           w == [old EXCEPT !.user = u, !.at = next]
<1>1. old \in Works /\ old.op \in {"register", "claim"} /\ old.at = "insert" /\ WorkOK(old)
  BY DEF InsertUser, Inserting, IdentityInduction, Typed, WorksAgree
<1>2. /\ w \in Works /\ w.op = old.op /\ w.at \in {"guest", "commit"} /\ w.user = u
      /\ w.email = old.email /\ w.name = old.name
      /\ w.op = "claim" => w.at = "guest" /\ w.guest = old.guest /\ w.had = old.had
  <2>1. CASE old.op = "claim"
    <3>1. old \in Claiming
      BY <1>1, <2>1, KindsOfWork
    <3> QED
      BY <2>1, <3>1 DEF Claiming, Works
  <2>2. CASE old.op = "register"
    <3>1. old \in Registering
      BY <1>1, <2>2, KindsOfWork
    <3> QED
      BY <2>2, <3>1 DEF Registering, Works
  <2> QED
    BY <1>1, <2>1, <2>2
<1>3. WorkOK(w)
  <2>1. u \notin Accounts /\ \A v \in Accounts : users[v].email # old.email /\ users[v].name # old.name
    BY DEF InsertUser, Taken, Shares
  <2> QED
    BY <1>1, <1>2, <2>1 DEF WorkOK, InsertedWork, HoldingWork
<1>4. ASSUME NEW q \in Requests \ {r}
      PROVE  Apart(w, req[q])
  <2>1. InsertedWork(req[q]) => Inserted(q)
    BY DEF InsertedWork, Inserted
  <2>2. Inserted(q) => ~ Shares(req[q], r) /\ req[q].user # u
    BY DEF InsertUser, WaitsForKey, Pending
  <2> QED
    BY <1>2, <2>1, <2>2 DEF Apart, Shares, HoldingWork
<1>5. req' = [req EXCEPT ![r] = w] /\ UNCHANGED <<tables, sockets, history, answers>>
  BY DEF InsertUser, IdentityInduction, Typed
<1> HIDE DEF w
<1> QED
  BY <1>2, <1>3, <1>4, <1>5, OnlyWorkMoves

\* A claim that goes one step further holds what it held.
LEMMA ClaimMoves ==
  ASSUME IdentityInduction, NEW r \in Requests, req[r].op = "claim", NEW w \in Claiming,
         w.email = req[r].email, w.name = req[r].name, w.user = req[r].user,
         w.guest = req[r].guest, w.had = req[r].had, req[r].at # "insert",
         WorkOK(w), HoldingWork(req[r]) \/ \A q \in Requests \ {r} : ~ HoldsGuest(q, w.guest),
         req' = [req EXCEPT ![r] = w], UNCHANGED <<tables, sockets, history, answers>>
  PROVE  IdentityInduction'
<1>1. w \in Works
  BY DEF Works
<1>2. ASSUME NEW q \in Requests \ {r}
      PROVE  Apart(w, req[q])
  <2>1. Apart(req[r], req[q]) /\ InsertedWork(req[r])
    BY DEF IdentityInduction, WorksAgree, InsertedWork
  <2>2. HoldingWork(req[q]) => HoldsGuest(q, req[q].guest)
    BY DEF HoldingWork, HoldsGuest
  <2> QED
    BY <2>1, <2>2 DEF Apart
<1> QED
  BY <1>1, <1>2, OnlyWorkMoves

LEMMA ClaimGuestRowKeeps ==
  ASSUME IdentityInduction, NEW r \in Requests, ClaimGuestRow(r)
  PROVE  IdentityInduction'
<1> DEFINE old == req[r]
           w == [old EXCEPT !.at = "light"]
<1>1. old \in Claiming /\ WorkOK(old) /\ old.op = "claim" /\ old.at = "guest"
  BY KindsOfWork DEF ClaimGuestRow, At, IdentityInduction, Typed, WorksAgree
<1>2. CASE Unclaimed(old.guest)
  <2>1. req' = [req EXCEPT ![r] = w] /\ UNCHANGED <<tables, sockets, history, answers>>
        /\ \A q \in Requests \ {r} : ~ HoldsGuest(q, old.guest)
    BY <1>2 DEF ClaimGuestRow, IdentityInduction, Typed
  <2>2. /\ w \in Claiming /\ w.op = "claim" /\ w.at = "light" /\ w.email = old.email /\ w.name = old.name
        /\ w.user = old.user /\ w.guest = old.guest /\ w.had = old.had
    BY <1>1 DEF Claiming
  <2>3. WorkOK(w)
    BY <1>1, <1>2, <2>2 DEF WorkOK, InsertedWork, HoldingWork, Unclaimed
  <2> HIDE DEF w
  <2> QED
    BY <1>1, <2>1, <2>2, <2>3, ClaimMoves
<1>3. CASE ~ Unclaimed(old.guest)
  BY <1>3, GivesUp DEF ClaimGuestRow
<1> QED
  BY <1>2, <1>3

\* While a claim holds a guest, what the guest has played is the guest's.
LEMMA HeldSeatsAreTheGuests ==
  ASSUME IdentityInduction, NEW r \in Requests, HoldingWork(req[r])
  PROVE  \A seat \in req[r].had : /\ seats[seat[1]][seat[2]] = req[r].guest
                                  /\ seat[1] \in Matches /\ seat[2] \in {"light", "dark"}
                                  /\ seat = <<seat[1], seat[2]>>
<1>1. req[r] \in Claiming /\ WorkOK(req[r])
  BY KindsOfWork DEF HoldingWork, IdentityInduction, Typed, WorksAgree
<1>2. req[r].guest \in Guests /\ req[r].had \in SUBSET Seats /\ req[r].op = "claim"
  BY <1>1 DEF Claiming
<1>3. req[r].had \subseteq history[req[r].guest] /\ guests[req[r].guest].claimedBy = Nobody
  BY <1>1, <1>2 DEF WorkOK
<1>4. \A seat \in req[r].had : seats[seat[1]][seat[2]] = req[r].guest
  BY <1>2, <1>3 DEF IdentityInduction, HistoriesAreKept
<1> QED
  BY <1>2, <1>4 DEF Seats, Sides

LEMMA ReassignLightKeeps ==
  ASSUME IdentityInduction, NEW r \in Requests, ReassignLight(r)
  PROVE  IdentityInduction'
<1> DEFINE old == req[r]
           taken == SeatedAs("light", old.guest)
           kept == taken \X {"light"}
           w == [old EXCEPT !.rows = taken, !.kept = kept, !.at = "dark"]
<1>1. old \in Claiming /\ WorkOK(old) /\ old.op = "claim" /\ old.at = "light" /\ HoldingWork(old)
  BY KindsOfWork DEF ReassignLight, At, IdentityInduction, Typed, WorksAgree, HoldingWork
<1>2. req' = [req EXCEPT ![r] = w] /\ UNCHANGED <<tables, sockets, history, answers>>
  BY DEF ReassignLight, IdentityInduction, Typed
<1>3. taken \in SUBSET Matches /\ kept \in SUBSET Seats
  BY DEF SeatedAs, Seats, Sides
<1>4. /\ w \in Claiming /\ w.op = "claim" /\ w.at = "dark" /\ w.email = old.email /\ w.name = old.name
      /\ w.user = old.user /\ w.guest = old.guest /\ w.had = old.had /\ w.kept = kept
  BY <1>1, <1>3 DEF Claiming
<1>5. \A seat \in kept : seats[seat[1]][seat[2]] = old.guest
  BY DEF SeatedAs
<1>6. \A seat \in old.had : seat[2] = "light" => seat \in kept
  BY <1>1, HeldSeatsAreTheGuests DEF SeatedAs
<1> HIDE DEF w, kept, taken
<1>7. WorkOK(w)
  BY <1>1, <1>4, <1>5, <1>6 DEF WorkOK, InsertedWork, HoldingWork
<1> QED
  BY <1>1, <1>2, <1>4, <1>7, ClaimMoves

LEMMA ReassignDarkKeeps ==
  ASSUME IdentityInduction, NEW r \in Requests, ReassignDark(r)
  PROVE  IdentityInduction'
<1> DEFINE old == req[r]
           taken == old.rows \cup DarkRows(r)
           kept == old.kept \cup (DarkRows(r) \X {"dark"})
           w == [old EXCEPT !.rows = taken, !.kept = kept, !.at = "commit"]
<1>1. old \in Claiming /\ WorkOK(old) /\ old.op = "claim" /\ old.at = "dark" /\ HoldingWork(old)
  BY KindsOfWork DEF ReassignDark, At, IdentityInduction, Typed, WorksAgree, HoldingWork
<1>2. req' = [req EXCEPT ![r] = w] /\ UNCHANGED <<tables, sockets, history, answers>>
  BY DEF ReassignDark, IdentityInduction, Typed
<1>3. taken \in SUBSET Matches /\ kept \in SUBSET Seats
  BY <1>1 DEF Claiming, DarkRows, SeatedAs, Seats, Sides
<1>4. /\ w \in Claiming /\ w.op = "claim" /\ w.at = "commit" /\ w.email = old.email /\ w.name = old.name
      /\ w.user = old.user /\ w.guest = old.guest /\ w.had = old.had /\ w.kept = kept
  BY <1>1, <1>3 DEF Claiming
<1>5. \A seat \in kept : seats[seat[1]][seat[2]] = old.guest
  BY <1>1 DEF DarkRows, SeatedAs, WorkOK
<1>6. old.had \subseteq kept
  BY <1>1, HeldSeatsAreTheGuests DEF DarkRows, SeatedAs, WorkOK
<1> HIDE DEF w, kept, taken
<1>7. WorkOK(w)
  BY <1>1, <1>4, <1>5, <1>6 DEF WorkOK, InsertedWork, HoldingWork
<1> QED
  BY <1>1, <1>2, <1>4, <1>7, ClaimMoves

-----------------------------------------------------------------------------
(* What the steps that change tables have in common *)

\* Requests go on or end while accounts appear, guests stay and seats that are held do too.
LEMMA WorksGoOn ==
  ASSUME IdentityInduction, req' \in [Requests -> Works],
         \A q \in Requests : req'[q] = req[q] \/ req'[q] = Idle,
         Accounts \subseteq Accounts',
         \A g \in Guests : /\ guests[g] # Nobody => guests'[g] # Nobody
                           /\ history[g] \subseteq history'[g],
         \A q \in Requests : req'[q] = req[q] =>
           /\ InsertedWork(req[q]) =>
                req[q].user \notin Accounts' /\
                \A u \in Accounts' : users'[u].email # req[q].email /\ users'[u].name # req[q].name
           /\ HoldingWork(req[q]) =>
                guests'[req[q].guest].claimedBy = Nobody /\
                \A seat \in req[q].kept : seats[seat[1]][seat[2]] = req[q].guest =>
                                          seats'[seat[1]][seat[2]] = req[q].guest
  PROVE  WorksAgree'
<1>1. \A q \in Requests : req[q] \in Works /\ WorkOK(req[q])
  BY DEF IdentityInduction, Typed, WorksAgree
<1>2. \A q \in Requests : req[q].op = "claim" => req[q].guest \in Guests
  BY <1>1, KindsOfWork DEF Claiming
<1>3. ASSUME NEW q \in Requests
      PROVE  WorkOK(req[q])'
  <2>1. CASE req'[q] = Idle
    <3>1. req'[q].op = "none"
      BY <2>1, KindsOfWork
    <3> QED
      BY <3>1 DEF WorkOK, InsertedWork, HoldingWork
  <2>2. CASE req'[q] = req[q]
    <3> DEFINE w == req[q]
    <3>1. WorkOK(w)
      BY <1>1
    <3>2. w.op = "claim" => guests'[w.guest] # Nobody /\ w.had \subseteq history'[w.guest]
      BY <1>2, <3>1 DEF WorkOK
    <3>3. w.op = "claim" /\ w.at \in {"dark", "commit"} =>
            \A seat \in w.kept : seats'[seat[1]][seat[2]] = w.guest
      <4> SUFFICES ASSUME w.op = "claim", w.at \in {"dark", "commit"}
                   PROVE  \A seat \in w.kept : seats'[seat[1]][seat[2]] = w.guest
        OBVIOUS
      <4>1. HoldingWork(w)
        BY DEF HoldingWork
      <4>2. \A seat \in w.kept : seats[seat[1]][seat[2]] = w.guest
        BY <3>1 DEF WorkOK
      <4> QED
        BY <2>2, <4>1, <4>2
    <3>4. HoldingWork(w) => guests'[w.guest].claimedBy = Nobody
      BY <2>2
    <3>5. InsertedWork(w) => w.user \in Users /\ w.user \notin Accounts' /\
                \A u \in Accounts' : users'[u].email # w.email /\ users'[u].name # w.name
      BY <2>2, <3>1 DEF WorkOK
    <3>6. w.op \in {"sign-in", "verify", "moderate", "grant"} => w.user \in Accounts'
      BY <3>1 DEF WorkOK
    <3> QED
      BY <2>2, <3>1, <3>2, <3>3, <3>4, <3>5, <3>6 DEF WorkOK, InsertedWork, HoldingWork
  <2> QED
    BY <2>1, <2>2
<1>4. ASSUME NEW q \in Requests, NEW p \in Requests \ {q}
      PROVE  Apart(req[q], req[p])'
  <2>1. Apart(req[q], req[p])
    BY DEF IdentityInduction, WorksAgree
  <2>2. Idle.op = "none"
    BY KindsOfWork
  <2> QED
    BY <2>1, <2>2 DEF Apart, InsertedWork, HoldingWork
<1> QED
  BY <1>3, <1>4 DEF WorksAgree

\* Every request but one that ends goes on.
LEMMA FinishEndsOne ==
  ASSUME Typed, NEW r \in Requests, Finish(r)
  PROVE  /\ req' \in [Requests -> Works]
         /\ \A q \in Requests : req'[q] = IF q = r THEN Idle ELSE req[q]
BY KindsOfWork DEF Typed, Finish

\* Rows that keep their address and name, and are as many as before.
LEMMA KeysStay ==
  ASSUME IdentityInduction, Accounts' = Accounts,
         \A u \in Accounts : users'[u].email = users[u].email /\ users'[u].name = users[u].name
  PROVE  /\ RowsAreUnique'
         /\ \A w \in Works : WorkOK(w) /\ InsertedWork(w) =>
              w.user \notin Accounts' /\
              \A u \in Accounts' : users'[u].email # w.email /\ users'[u].name # w.name
BY DEF IdentityInduction, RowsAreUnique, WorkOK

\* Sessions come and end, of accounts that are there, and none on the token of a guest.
LEMMA SessionsMove ==
  ASSUME IdentityInduction, Accounts' = Accounts,
         \A t \in Tokens : /\ sessions[t] # Nobody => sessions'[t] # Nobody
                                                      /\ sessions'[t].user = sessions[t].user
                           /\ sessions'[t] # Nobody => sessions'[t].user \in Accounts,
         \A g \in Guests : /\ sessions'[g] # Nobody => sessions[g] # Nobody
                           /\ guests'[g] = Nobody <=> guests[g] = Nobody
                           /\ guests'[g].claimedBy = guests[g].claimedBy
  PROVE  SessionsHaveOwners' /\ ClaimsAreOne'
<1>1. Guests \subseteq Tokens
  BY DEF Tokens
<1>2. SessionsHaveOwners'
  BY DEF IdentityInduction, SessionsHaveOwners
<1>3. ClaimsAreOne'
  BY <1>1 DEF IdentityInduction, ClaimsAreOne
<1> QED
  BY <1>2, <1>3

-----------------------------------------------------------------------------
(* Guests, connections and matches *)

LEMMA CreateGuestKeeps ==
  ASSUME IdentityInduction, NEW g \in Guests, CreateGuest(g)
  PROVE  IdentityInduction'
<1> DEFINE row == [claimedBy |-> Nobody, is |-> "live"]
<1>1. /\ UNCHANGED <<users, mail, sessions, seats, audit, req, sockets, history, answers>>
      /\ guests' = [guests EXCEPT ![g] = row] /\ guests[g] = Nobody
  BY DEF CreateGuest
<1>2. row \in GuestRows /\ row # Nobody /\ row.claimedBy = Nobody
  BY DEF GuestRows, IdentityInduction, IdentityConstants
<1> HIDE DEF row
<1>3. guests' \in [Guests -> GuestRows \cup {Nobody}]
      /\ \A h \in Guests : guests'[h] = IF h = g THEN row ELSE guests[h]
  BY <1>1, <1>2 DEF IdentityInduction, Typed
<1>4. Typed' /\ IdentityConstants' /\ Accounts' = Accounts
  BY <1>1, <1>3 DEF IdentityInduction, Typed, IdentityConstants, Accounts
<1>5. RowsAreUnique' /\ SessionsHaveOwners' /\ LinksAreUsedOnce' /\ RecordsAreTrue'
  BY <1>1, <1>4 DEF IdentityInduction, RowsAreUnique, SessionsHaveOwners, LinksAreUsedOnce,
                    RecordsAreTrue, AuditTellsTheRow
<1>6. ClaimsAreOne'
  BY <1>1, <1>2, <1>3, <1>4 DEF IdentityInduction, ClaimsAreOne
<1>7. HistoriesAreKept'
  BY <1>1, <1>2, <1>3 DEF IdentityInduction, Typed, HistoriesAreKept
<1>8. \A q \in Requests : HoldingWork(req[q]) => guests[req[q].guest] # Nobody
                                                /\ guests[req[q].guest].claimedBy = Nobody
                                                /\ req[q].guest \in Guests
  BY KindsOfWork DEF IdentityInduction, Typed, WorksAgree, WorkOK, HoldingWork, Claiming
<1>9. \A w \in Works : WorkOK(w) /\ InsertedWork(w) =>
        w.user \notin Accounts' /\
        \A u \in Accounts' : users'[u].email # w.email /\ users'[u].name # w.name
  BY <1>1, <1>4, KeysStay
<1>10. \A q \in Requests : req[q] \in Works /\ WorkOK(req[q])
  BY DEF IdentityInduction, Typed, WorksAgree
<1>11. req' \in [Requests -> Works]
  BY <1>4 DEF Typed
<1>12. WorksAgree'
  BY <1>1, <1>2, <1>3, <1>4, <1>8, <1>9, <1>10, <1>11, WorksGoOn
<1> QED
  BY <1>4, <1>5, <1>6, <1>7, <1>12 DEF IdentityInduction

\* Connections and restarts touch no table; a connection is of a guest that exists.
LEMMA ConnectionsKeep ==
  ASSUME IdentityInduction, UNCHANGED <<tables, history, answers>>,
         \/ \E g \in Guests : Connect(g) \/ Disconnect(g)
         \/ Restart
  PROVE  IdentityInduction'
<1>1. UNCHANGED <<users, mail, sessions, guests, seats, audit, history, answers>>
  BY DEF tables
<1>2. sockets' \subseteq Guests /\ \A g \in sockets' : guests[g] # Nobody
  BY Resolved DEF Connect, Disconnect, Restart, IdentityInduction, Typed, HistoriesAreKept
<1>3. req' \in [Requests -> Works] /\ \A q \in Requests : req'[q] = req[q] \/ req'[q] = Idle
  BY KindsOfWork DEF Connect, Disconnect, Restart, IdentityInduction, Typed
<1>4. Typed' /\ IdentityConstants' /\ Accounts' = Accounts
  BY <1>1, <1>2, <1>3 DEF IdentityInduction, Typed, IdentityConstants, Accounts
<1>5. RowsAreUnique' /\ SessionsHaveOwners' /\ LinksAreUsedOnce' /\ RecordsAreTrue'
  BY <1>1, <1>4 DEF IdentityInduction, RowsAreUnique, SessionsHaveOwners, LinksAreUsedOnce,
                    RecordsAreTrue, AuditTellsTheRow
<1>6. ClaimsAreOne' /\ HistoriesAreKept'
  BY <1>1, <1>2, <1>4 DEF IdentityInduction, ClaimsAreOne, HistoriesAreKept
<1>7. \A q \in Requests : HoldingWork(req[q]) => guests[req[q].guest].claimedBy = Nobody
  BY DEF IdentityInduction, WorksAgree, WorkOK
<1>8. \A w \in Works : WorkOK(w) /\ InsertedWork(w) =>
        w.user \notin Accounts' /\
        \A u \in Accounts' : users'[u].email # w.email /\ users'[u].name # w.name
  BY <1>1, <1>4, KeysStay
<1>9. \A q \in Requests : req[q] \in Works /\ WorkOK(req[q])
  BY DEF IdentityInduction, Typed, WorksAgree
<1>10. WorksAgree'
  BY <1>1, <1>3, <1>4, <1>7, <1>8, <1>9, WorksGoOn
<1> QED
  BY <1>4, <1>5, <1>6, <1>10 DEF IdentityInduction

\* A new match is of guests that are connected, and nobody sat there before.
LEMMA SeatKeeps ==
  ASSUME IdentityInduction, NEW m \in Matches, NEW light, NEW dark, Seat(m, light, dark)
  PROVE  IdentityInduction'
<1> DEFINE match == [light |-> light, dark |-> dark]
<1>1. /\ UNCHANGED <<users, mail, sessions, guests, audit, req, sockets, answers>>
      /\ seats' = [seats EXCEPT ![m] = match] /\ seats[m] = EmptySeats
      /\ history' = [g \in Guests |-> history[g] \cup ({m} \X {s \in Sides : seats'[m][s] = g})]
  BY DEF Seat
<1>2. match \in [Sides -> Guests \cup {Nobody}]
      /\ \A s \in Sides : match[s] \in sockets \cup {Nobody}
  BY DEF Seat, IdentityInduction, Typed, Sides
<1> HIDE DEF match
<1>3. seats' \in [Matches -> [Sides -> Users \cup Guests \cup {Nobody}]]
      /\ \A n \in Matches : seats'[n] = IF n = m THEN match ELSE seats[n]
  BY <1>1, <1>2 DEF IdentityInduction, Typed
<1>4. history' \in [Guests -> SUBSET Seats]
  BY <1>1 DEF IdentityInduction, Typed, Seats
<1>5. \A g \in Guests : \A seat \in history'[g] :
        \/ seat \in history[g]
        \/ seat[1] = m /\ seat[2] \in Sides /\ match[seat[2]] = g
  BY <1>1, <1>3
<1>6. \A s \in Sides : seats[m][s] = Nobody
  BY <1>1 DEF EmptySeats
<1>7. Nobody \notin Guests
  BY DEF IdentityInduction, IdentityConstants
<1>8. Typed' /\ IdentityConstants' /\ Accounts' = Accounts
  BY <1>1, <1>3, <1>4 DEF IdentityInduction, Typed, IdentityConstants, Accounts
<1>9. RowsAreUnique' /\ SessionsHaveOwners' /\ LinksAreUsedOnce' /\ RecordsAreTrue' /\ ClaimsAreOne'
  BY <1>1, <1>8 DEF IdentityInduction, RowsAreUnique, SessionsHaveOwners, LinksAreUsedOnce,
                    RecordsAreTrue, AuditTellsTheRow, ClaimsAreOne
<1>10. \A g \in Guests : \A seat \in history[g] : seat[1] \in Matches /\ seat[2] \in Sides
  BY DEF IdentityInduction, Typed, Seats
<1>11. HistoriesAreKept'
  <2>1. \A g \in sockets' : guests'[g] # Nobody
    BY <1>1 DEF IdentityInduction, HistoriesAreKept
  <2>2. ASSUME NEW g \in Guests, NEW seat \in history'[g]
        PROVE  /\ guests[g] # Nobody
               /\ \/ seats'[seat[1]][seat[2]] = g
                  \/ guests[g].claimedBy # Nobody /\ seats'[seat[1]][seat[2]] = guests[g].claimedBy
    <3>1. CASE seat \in history[g]
      <4>1. seats[seat[1]][seat[2]] # Nobody
        BY <1>7, <3>1 DEF IdentityInduction, HistoriesAreKept
      <4>2. seat[1] # m /\ seat[1] \in Matches
        BY <1>6, <1>10, <3>1, <4>1
      <4> QED
        BY <1>3, <3>1, <4>2 DEF IdentityInduction, HistoriesAreKept
    <3>2. CASE seat[1] = m /\ seat[2] \in Sides /\ match[seat[2]] = g
      <4>1. g \in sockets
        BY <1>2, <1>7, <3>2
      <4> QED
        BY <1>3, <2>1, <1>1, <3>2, <4>1
    <3> QED
      BY <1>5, <3>1, <3>2
  <2> QED
    BY <1>1, <2>1, <2>2 DEF HistoriesAreKept
<1>12. \A q \in Requests : HoldingWork(req[q]) =>
         /\ guests[req[q].guest].claimedBy = Nobody /\ req[q].guest \in Guests /\ req[q].kept \subseteq Seats
  BY KindsOfWork DEF IdentityInduction, Typed, WorksAgree, WorkOK, HoldingWork, Claiming
<1>13. \A q \in Requests : HoldingWork(req[q]) =>
         \A seat \in req[q].kept : seats[seat[1]][seat[2]] = req[q].guest =>
                                          seats'[seat[1]][seat[2]] = req[q].guest
  <2> SUFFICES ASSUME NEW q \in Requests, HoldingWork(req[q]), NEW seat \in req[q].kept,
                      seats[seat[1]][seat[2]] = req[q].guest
               PROVE  seats'[seat[1]][seat[2]] = req[q].guest
    OBVIOUS
  <2>1. seat[1] \in Matches /\ seat[2] \in Sides
    BY <1>12 DEF Seats
  <2>2. seat[1] # m
    BY <1>6, <1>7, <1>12, <2>1
  <2> QED
    BY <1>3, <2>1, <2>2
<1>14. \A w \in Works : WorkOK(w) /\ InsertedWork(w) =>
        w.user \notin Accounts' /\
        \A u \in Accounts' : users'[u].email # w.email /\ users'[u].name # w.name
  BY <1>1, <1>8, KeysStay
<1>15. \A q \in Requests : req[q] \in Works /\ WorkOK(req[q])
  BY DEF IdentityInduction, Typed, WorksAgree
<1>16. req' \in [Requests -> Works] /\ \A g \in Guests : history[g] \subseteq history'[g]
  BY <1>1, <1>8 DEF Typed
<1>17. WorksAgree'
  BY <1>1, <1>8, <1>12, <1>13, <1>14, <1>15, <1>16, WorksGoOn
<1> QED
  BY <1>8, <1>9, <1>11, <1>17 DEF IdentityInduction

-----------------------------------------------------------------------------
(* Sessions, links, moderation *)

\* Steps that leave the accounts and the matches as they are, sessions and guests apart.
LEMMA SessionsOnly ==
  ASSUME IdentityInduction, UNCHANGED <<users, mail, seats, audit, sockets, history, answers>>,
         sessions' \in [Tokens -> SessionRows \cup {Nobody}],
         guests' \in [Guests -> GuestRows \cup {Nobody}],
         req' \in [Requests -> Works],
         \A q \in Requests : req'[q] = req[q] \/ req'[q] = Idle,
         \A t \in Tokens : /\ sessions[t] # Nobody => sessions'[t] # Nobody
                                                      /\ sessions'[t].user = sessions[t].user
                           /\ sessions'[t] # Nobody => sessions'[t].user \in Accounts,
         \A g \in Guests : /\ sessions'[g] # Nobody => sessions[g] # Nobody
                           /\ guests'[g] = Nobody <=> guests[g] = Nobody
                           /\ guests'[g].claimedBy = guests[g].claimedBy
  PROVE  IdentityInduction'
<1>1. Typed' /\ IdentityConstants' /\ Accounts' = Accounts
  BY DEF IdentityInduction, Typed, IdentityConstants, Accounts
<1>2. RowsAreUnique' /\ LinksAreUsedOnce' /\ RecordsAreTrue'
  BY <1>1 DEF IdentityInduction, RowsAreUnique, LinksAreUsedOnce, RecordsAreTrue, AuditTellsTheRow
<1>3. SessionsHaveOwners' /\ ClaimsAreOne'
  BY <1>1, SessionsMove
<1>4. HistoriesAreKept'
  BY DEF IdentityInduction, Typed, HistoriesAreKept
<1>5. \A q \in Requests : HoldingWork(req[q]) =>
         guests[req[q].guest].claimedBy = Nobody /\ req[q].guest \in Guests
  BY KindsOfWork DEF IdentityInduction, Typed, WorksAgree, WorkOK, HoldingWork, Claiming
<1>6. \A w \in Works : WorkOK(w) /\ InsertedWork(w) =>
        w.user \notin Accounts' /\
        \A u \in Accounts' : users'[u].email # w.email /\ users'[u].name # w.name
  BY <1>1, KeysStay
<1>7. \A q \in Requests : req[q] \in Works /\ WorkOK(req[q])
  BY DEF IdentityInduction, Typed, WorksAgree
<1>8. WorksAgree'
  BY <1>1, <1>5, <1>6, <1>7, WorksGoOn
<1> QED
  BY <1>1, <1>2, <1>3, <1>4, <1>8 DEF IdentityInduction

\* A row that only stops being live, or begins so.
LEMMA MarkedRows ==
  /\ \A row \in SessionRows, is \in {"live", "revoked", "expired"} :
       [row EXCEPT !.is = is] \in SessionRows /\ [row EXCEPT !.is = is].user = row.user
  /\ \A row \in GuestRows, is \in {"live", "expired"} :
       [row EXCEPT !.is = is] \in GuestRows /\ [row EXCEPT !.is = is].claimedBy = row.claimedBy
  /\ \A u \in Users : Opened(u) \in SessionRows /\ Opened(u).user = u
BY DEF SessionRows, GuestRows, Opened

LEMMA OpenSessionKeeps ==
  ASSUME IdentityInduction, NEW r \in Requests, NEW t \in Issued, OpenSession(r, t)
  PROVE  IdentityInduction'
<1> DEFINE row == Opened(req[r].user)
<1>1. req[r] \in Works /\ WorkOK(req[r]) /\ req[r].op = "sign-in"
  BY DEF OpenSession, At, IdentityInduction, Typed, WorksAgree
<1>2. req[r].user \in Accounts /\ req[r].user \in Users
  BY <1>1, KindsOfWork DEF WorkOK
<1>3. row \in SessionRows /\ row.user = req[r].user /\ row # Nobody
  BY <1>2, MarkedRows DEF IdentityInduction, IdentityConstants
<1>4. sessions' = [sessions EXCEPT ![t] = row] /\ sessions[t] = Nobody /\ t \in Tokens /\ t \notin Guests
  BY DEF OpenSession, Tokens, IdentityInduction, IdentityConstants
<1> HIDE DEF row
<1>5. sessions' \in [Tokens -> SessionRows \cup {Nobody}]
      /\ \A s \in Tokens : sessions'[s] = IF s = t THEN row ELSE sessions[s]
  BY <1>3, <1>4 DEF IdentityInduction, Typed
<1>6. \A s \in Tokens : /\ sessions[s] # Nobody => sessions'[s] # Nobody
                                                   /\ sessions'[s].user = sessions[s].user
                        /\ sessions'[s] # Nobody => sessions'[s].user \in Accounts
  BY <1>2, <1>3, <1>4, <1>5 DEF IdentityInduction, SessionsHaveOwners
<1>7. \A g \in Guests : sessions'[g] # Nobody => sessions[g] # Nobody
  BY <1>4, <1>5 DEF Tokens
<1>8. UNCHANGED <<users, mail, guests, seats, audit, sockets, history, answers>> /\ Finish(r)
  BY DEF OpenSession
<1>9. guests' \in [Guests -> GuestRows \cup {Nobody}]
  BY <1>8 DEF IdentityInduction, Typed
<1>10. /\ req' \in [Requests -> Works]
       /\ \A q \in Requests : req'[q] = req[q] \/ req'[q] = Idle
  BY <1>8, FinishEndsOne DEF IdentityInduction
<1> QED
  BY <1>5, <1>6, <1>7, <1>8, <1>9, <1>10, SessionsOnly

\* A session that ends is one that was there.
LEMMA SessionEnds ==
  ASSUME IdentityInduction, NEW t \in Tokens, NEW is \in {"revoked", "expired"}, LiveSession(t),
         sessions' = [sessions EXCEPT ![t].is = is],
         UNCHANGED <<users, mail, guests, seats, audit, req, sockets, history, answers>>
  PROVE  IdentityInduction'
<1> DEFINE row == [sessions[t] EXCEPT !.is = is]
<1>1. sessions[t] \in SessionRows /\ sessions[t] # Nobody
  BY RowsAreRows DEF LiveSession, IdentityInduction
<1>2. row \in SessionRows /\ row.user = sessions[t].user /\ row # Nobody
  <2>1. is \in {"live", "revoked", "expired"}
    OBVIOUS
  <2>2. row \in SessionRows /\ row.user = sessions[t].user
    BY <1>1, <2>1, MarkedRows
  <2> QED
    BY <2>2 DEF IdentityInduction, IdentityConstants
<1>3. sessions' = [sessions EXCEPT ![t] = row]
  OBVIOUS
<1> HIDE DEF row
<1>4. sessions' \in [Tokens -> SessionRows \cup {Nobody}]
      /\ \A s \in Tokens : sessions'[s] = IF s = t THEN row ELSE sessions[s]
  BY <1>2, <1>3 DEF IdentityInduction, Typed
<1>5. \A s \in Tokens : /\ sessions[s] # Nobody => sessions'[s] # Nobody
                                                   /\ sessions'[s].user = sessions[s].user
                        /\ sessions'[s] # Nobody => sessions'[s].user \in Accounts
  BY <1>1, <1>2, <1>4 DEF IdentityInduction, SessionsHaveOwners
<1>6. \A g \in Guests : sessions'[g] # Nobody => sessions[g] # Nobody
  BY <1>1, <1>4 DEF Tokens
<1>7. guests' \in [Guests -> GuestRows \cup {Nobody}] /\ req' \in [Requests -> Works]
  BY DEF IdentityInduction, Typed
<1> QED
  BY <1>4, <1>5, <1>6, <1>7, SessionsOnly

LEMMA SignOutKeeps ==
  ASSUME IdentityInduction, NEW t \in Tokens, SignOut(t)
  PROVE  IdentityInduction'
BY Resolved, SessionEnds DEF SignOut, IdentityInduction

LEMMA ExpireKeeps ==
  ASSUME IdentityInduction, Expire
  PROVE  IdentityInduction'
<1>1. UNCHANGED <<users, mail, seats, audit, req, sockets, history, answers>>
  BY DEF Expire
<1>2. ASSUME NEW t \in Tokens, LiveSession(t), sessions' = [sessions EXCEPT ![t].is = "expired"],
             UNCHANGED guests
      PROVE  IdentityInduction'
  BY <1>1, <1>2, SessionEnds
<1>3. ASSUME NEW g \in Guests, LiveGuest(g), guests' = [guests EXCEPT ![g].is = "expired"],
             UNCHANGED sessions
      PROVE  IdentityInduction'
  <2> DEFINE row == [guests[g] EXCEPT !.is = "expired"]
  <2>1. guests[g] \in GuestRows /\ guests[g] # Nobody
    BY <1>3, RowsAreRows DEF LiveGuest, IdentityInduction
  <2>2. row \in GuestRows /\ row.claimedBy = guests[g].claimedBy /\ row # Nobody
    BY <2>1, MarkedRows DEF IdentityInduction, IdentityConstants
  <2>3. guests' = [guests EXCEPT ![g] = row]
    BY <1>3
  <2> HIDE DEF row
  <2>4. guests' \in [Guests -> GuestRows \cup {Nobody}]
        /\ \A h \in Guests : guests'[h] = IF h = g THEN row ELSE guests[h]
    BY <2>2, <2>3 DEF IdentityInduction, Typed
  <2>5. \A h \in Guests : /\ guests'[h] = Nobody <=> guests[h] = Nobody
                          /\ guests'[h].claimedBy = guests[h].claimedBy
    BY <2>1, <2>2, <2>4
  <2>6. sessions' \in [Tokens -> SessionRows \cup {Nobody}] /\ req' \in [Requests -> Works]
    BY <1>1, <1>3 DEF IdentityInduction, Typed
  <2>7. \A t \in Tokens : sessions'[t] # Nobody => sessions'[t].user \in Accounts
    BY <1>3 DEF IdentityInduction, SessionsHaveOwners
  <2> QED
    BY <1>1, <1>3, <2>4, <2>5, <2>6, <2>7, SessionsOnly
<1> QED
  BY <1>2, <1>3 DEF Expire

\* A field of an account's row is rewritten.
WithField(row, field, to) == [f \in DOMAIN row |-> IF f = field THEN to ELSE row[f]]

LEMMA RewrittenRow ==
  ASSUME NEW row \in UserRows,
         NEW field, NEW to,
         \/ field = "status" /\ to \in {"active", "suspended"}
         \/ field = "role" /\ to \in Roles,
         NEW new, new = WithField(row, field, to)
  PROVE  /\ new \in UserRows /\ new.email = row.email /\ new.name = row.name
         /\ new.verified = row.verified /\ new[field] = to
         /\ \A f \in Fields \ {field} : new[f] = row[f]
BY DEF UserRows, Fields, WithField

\* One account's row changes, and the others' do not.
LEMMA RowChanges ==
  ASSUME IdentityInduction, NEW u \in Accounts, NEW row \in UserRows, users' = [users EXCEPT ![u] = row]
  PROVE  /\ users' \in [Users -> UserRows \cup {Nobody}] /\ Accounts' = Accounts
         /\ \A v \in Users : users'[v] = IF v = u THEN row ELSE users[v]
<1>1. u \in Users /\ users[u] # Nobody
  BY DEF Accounts
<1>2. row # Nobody
  BY DEF IdentityInduction, IdentityConstants
<1>3. /\ users' \in [Users -> UserRows \cup {Nobody}]
      /\ \A v \in Users : users'[v] = IF v = u THEN row ELSE users[v]
  BY <1>1 DEF IdentityInduction, Typed
<1> QED
  BY <1>1, <1>2, <1>3 DEF Accounts

LEMMA RecordedFields ==
  ASSUME Typed
  PROVE  \A i \in DOMAIN audit : audit[i].target \in Users /\ audit[i].field \in Fields
<1> DEFINE Records == [target : Users, field : Fields, after : {"active", "suspended"} \cup Roles]
<1>1. \A x \in Records : x.target \in Users /\ x.field \in Fields
  OBVIOUS
<1>2. audit \in Seq(Records)
  BY DEF Typed
<1> HIDE DEF Records
<1>3. \A i \in DOMAIN audit : audit[i] \in Records
  BY <1>2
<1> QED
  BY <1>1, <1>3

LEMMA VerifyKeeps ==
  ASSUME IdentityInduction, NEW r \in Requests, Verify(r)
  PROVE  IdentityInduction'
<1> DEFINE u == req[r].user
           row == [users[u] EXCEPT !.verified = TRUE]
<1>1. /\ Finish(r) /\ UNCHANGED <<sessions, guests, seats, audit, sockets, history>>
  BY DEF Verify
<1>2. u \in Accounts
  <2>1. req[r] \in Works /\ WorkOK(req[r]) /\ req[r].op = "verify"
    BY DEF Verify, At, IdentityInduction, Typed, WorksAgree
  <2> QED
    BY <2>1 DEF WorkOK
<1>3. CASE ~ StillUnused(u)
  BY <1>1, <1>3, GivesUp DEF Verify, tables
<1>4. CASE StillUnused(u)
  <2>1. /\ mail' = [mail EXCEPT ![u] = "consumed"] /\ users' = [users EXCEPT ![u] = row]
        /\ answers' = [answers EXCEPT ![u] = answers[u] + 1]
    BY <1>4 DEF Verify, IdentityInduction, Typed
  <2>2. users[u] \in UserRows /\ u \in Users
    BY <1>2, RowsAreRows DEF IdentityInduction
  <2>3. /\ row \in UserRows /\ row.email = users[u].email /\ row.name = users[u].name /\ row.verified = TRUE
        /\ \A f \in Fields : row[f] = users[u][f]
    BY <2>2 DEF UserRows, Fields
  <2> HIDE DEF row
  <2>4. /\ users' \in [Users -> UserRows \cup {Nobody}] /\ Accounts' = Accounts
        /\ \A v \in Users : users'[v] = IF v = u THEN row ELSE users[v]
    BY <1>2, <2>1, <2>3, RowChanges
  <2>5. /\ mail' \in [Users -> {"none", "unused", "consumed"}] /\ answers' \in [Users -> Nat]
        /\ \A v \in Users : /\ mail'[v] = IF v = u THEN "consumed" ELSE mail[v]
                            /\ answers'[v] = IF v = u THEN answers[u] + 1 ELSE answers[v]
    BY <2>1, <2>2 DEF IdentityInduction, Typed
  <2>6. /\ req' \in [Requests -> Works]
        /\ \A q \in Requests : req'[q] = IF q = r THEN Idle ELSE req[q]
    BY <1>1, FinishEndsOne DEF IdentityInduction
  <2> HIDE DEF u
  <2>7. Typed' /\ IdentityConstants'
    BY <1>1, <2>4, <2>5, <2>6 DEF IdentityInduction, Typed, IdentityConstants
  <2>8. \A v \in Accounts : users'[v].email = users[v].email /\ users'[v].name = users[v].name
    BY <2>3, <2>4 DEF Accounts
  <2>9. RowsAreUnique' /\ \A w \in Works : WorkOK(w) /\ InsertedWork(w) =>
              w.user \notin Accounts' /\
              \A v \in Accounts' : users'[v].email # w.email /\ users'[v].name # w.name
    BY <2>4, <2>8, KeysStay
  <2>10. SessionsHaveOwners' /\ ClaimsAreOne'
    BY <1>1, <2>4, SessionsMove DEF IdentityInduction, SessionsHaveOwners
  <2>11. LinksAreUsedOnce'
    <3>1. /\ mail[u] = "unused" /\ answers[u] = 0
      BY <1>4, <2>2 DEF IdentityInduction, LinksAreUsedOnce, StillUnused
    <3>2. ASSUME NEW v \in Users
          PROVE  /\ mail'[v] # "none" <=> v \in Accounts'
                 /\ answers'[v] = IF mail'[v] = "consumed" THEN 1 ELSE 0
                 /\ v \in Accounts' => (users'[v].verified <=> mail'[v] = "consumed")
      <4>1. CASE v = u
        BY <1>2, <2>3, <2>4, <2>5, <3>1, <4>1
      <4>2. CASE v # u
        BY <2>4, <2>5, <4>2 DEF IdentityInduction, LinksAreUsedOnce
      <4> QED
        BY <4>1, <4>2
    <3> QED
      BY <3>2 DEF LinksAreUsedOnce
  <2>12. RecordsAreTrue'
    <3>1. \A i \in DOMAIN audit : audit[i].target \in Accounts /\ audit[i].target \in Users
                                  /\ audit[i].field \in Fields
      BY RecordedFields DEF IdentityInduction, RecordsAreTrue
    <3>2. \A i \in DOMAIN audit : users'[audit[i].target][audit[i].field] = users[audit[i].target][audit[i].field]
      BY <2>3, <2>4, <3>1
    <3> QED
      BY <1>1, <2>4, <3>1, <3>2 DEF IdentityInduction, RecordsAreTrue, AuditTellsTheRow
  <2>13. HistoriesAreKept'
    BY <1>1 DEF IdentityInduction, HistoriesAreKept
  <2>14. \A q \in Requests : HoldingWork(req[q]) => guests[req[q].guest].claimedBy = Nobody
    BY DEF IdentityInduction, WorksAgree, WorkOK
  <2>15. \A q \in Requests : req[q] \in Works /\ WorkOK(req[q])
    BY DEF IdentityInduction, Typed, WorksAgree
  <2>16. WorksAgree'
    BY <1>1, <2>4, <2>6, <2>9, <2>14, <2>15, WorksGoOn
  <2> QED
    BY <2>7, <2>9, <2>10, <2>11, <2>12, <2>13, <2>16 DEF IdentityInduction
<1> QED
  BY <1>3, <1>4

\* The row and its record, written together.
LEMMA RecordedChange ==
  ASSUME IdentityInduction, NEW u \in Accounts, NEW field, NEW to,
         \/ field = "status" /\ to \in {"active", "suspended"}
         \/ field = "role" /\ to \in Roles,
         users' = Rewritten(u, field, to), audit' = Record(u, field, to)
  PROVE  /\ users' \in [Users -> UserRows \cup {Nobody}] /\ Accounts' = Accounts
         /\ \A v \in Accounts : /\ users'[v].email = users[v].email /\ users'[v].name = users[v].name
                                /\ users'[v].verified = users[v].verified
         /\ audit' \in Seq([target : Users, field : Fields, after : {"active", "suspended"} \cup Roles])
         /\ RecordsAreTrue'
<1> DEFINE row == [f \in DOMAIN users[u] |-> IF f = field THEN to ELSE users[u][f]]
           Records == [target : Users, field : Fields, after : {"active", "suspended"} \cup Roles]
           record == [target |-> u, field |-> field, after |-> to]
<1>1. users[u] \in UserRows /\ u \in Users
  BY RowsAreRows DEF IdentityInduction
<1>2. /\ row \in UserRows /\ row.email = users[u].email /\ row.name = users[u].name
      /\ row.verified = users[u].verified /\ row[field] = to
      /\ \A f \in Fields \ {field} : row[f] = users[u][f]
  <2>1. row = WithField(users[u], field, to)
    BY DEF WithField
  <2> HIDE DEF row
  <2>2. CASE field = "status" /\ to \in {"active", "suspended"}
    BY <1>1, <2>1, <2>2, RewrittenRow
  <2>3. CASE field = "role" /\ to \in Roles
    BY <1>1, <2>1, <2>3, RewrittenRow
  <2> QED
    BY <2>2, <2>3
<1>3. users' = [users EXCEPT ![u] = row]
  BY <1>1 DEF Rewritten, IdentityInduction, Typed
<1> HIDE DEF row
<1>4. /\ users' \in [Users -> UserRows \cup {Nobody}] /\ Accounts' = Accounts
      /\ \A v \in Users : users'[v] = IF v = u THEN row ELSE users[v]
  BY <1>2, <1>3, RowChanges
<1>5. record \in Records /\ audit \in Seq(Records) /\ audit' = Append(audit, record)
  BY <1>1 DEF Fields, Record, IdentityInduction, Typed
<1>6. record.target = u /\ record.field = field /\ record.after = to
  OBVIOUS
<1> HIDE DEF record, Records
<1>7. /\ audit' \in Seq(Records) /\ DOMAIN audit' = 1..(Len(audit) + 1) /\ DOMAIN audit = 1..Len(audit)
      /\ Len(audit) \in Nat /\ audit'[Len(audit) + 1] = record
      /\ \A i \in 1..Len(audit) : audit'[i] = audit[i]
  BY <1>5
<1>8. RecordsAreTrue'
  <2>1. \A i \in 1..Len(audit) : audit[i].target \in Accounts /\ audit[i].target \in Users
                                 /\ audit[i].field \in Fields
    BY <1>7, RecordedFields DEF IdentityInduction, RecordsAreTrue
  <2>2. \A i \in DOMAIN audit' : audit'[i].target \in Accounts'
    BY <1>4, <1>6, <1>7, <2>1
  <2>3. AuditTellsTheRow'
    <3> SUFFICES ASSUME NEW i \in DOMAIN audit',
                        \A j \in DOMAIN audit' : j > i =>
                          <<audit'[j].target, audit'[j].field>> # <<audit'[i].target, audit'[i].field>>
                 PROVE  users'[audit'[i].target][audit'[i].field] = audit'[i].after
      BY DEF AuditTellsTheRow
    <3>1. CASE i = Len(audit) + 1
      BY <1>1, <1>2, <1>4, <1>6, <1>7, <3>1
    <3>2. CASE i \in 1..Len(audit)
      <4>1. <<audit[i].target, audit[i].field>> # <<u, field>>
        BY <1>6, <1>7, <3>2
      <4>2. \A j \in DOMAIN audit : j > i =>
              <<audit[j].target, audit[j].field>> # <<audit[i].target, audit[i].field>>
        BY <1>7, <3>2
      <4>3. users[audit[i].target][audit[i].field] = audit[i].after
        BY <1>7, <3>2, <4>2 DEF IdentityInduction, RecordsAreTrue, AuditTellsTheRow
      <4>4. users'[audit[i].target][audit[i].field] = users[audit[i].target][audit[i].field]
        BY <1>2, <1>4, <2>1, <3>2, <4>1
      <4> QED
        BY <1>7, <3>2, <4>3, <4>4
    <3> QED
      BY <1>7, <3>1, <3>2
  <2> QED
    BY <2>2, <2>3 DEF RecordsAreTrue
<1> QED
  BY <1>2, <1>4, <1>7, <1>8 DEF Accounts, Records

\* Revoking keeps who the sessions are of.
LEMMA RevokedSessions ==
  ASSUME Typed, IdentityConstants, NEW u
  PROVE  /\ RevokeAll(u) \in [Tokens -> SessionRows \cup {Nobody}]
         /\ \A t \in Tokens : /\ RevokeAll(u)[t] = Nobody <=> sessions[t] = Nobody
                              /\ RevokeAll(u)[t].user = sessions[t].user
                              /\ sessions[t] # Nobody /\ sessions[t].user = u => RevokeAll(u)[t].is = "revoked"
<1>1. ASSUME NEW t \in Tokens
      PROVE  /\ RevokeAll(u)[t] \in SessionRows \cup {Nobody}
             /\ RevokeAll(u)[t] = Nobody <=> sessions[t] = Nobody
             /\ RevokeAll(u)[t].user = sessions[t].user
             /\ sessions[t] # Nobody /\ sessions[t].user = u => RevokeAll(u)[t].is = "revoked"
  <2>1. CASE sessions[t] # Nobody /\ sessions[t].user = u
    <3>1. RevokeAll(u)[t] = [sessions[t] EXCEPT !.is = "revoked"]
      BY <2>1 DEF RevokeAll
    <3>2. sessions[t] \in SessionRows
      BY <2>1 DEF Typed
    <3>3. /\ [sessions[t] EXCEPT !.is = "revoked"] \in SessionRows
          /\ [sessions[t] EXCEPT !.is = "revoked"].user = sessions[t].user
          /\ [sessions[t] EXCEPT !.is = "revoked"].is = "revoked"
      BY <3>2 DEF SessionRows
    <3> QED
      BY <2>1, <3>1, <3>3 DEF IdentityConstants
  <2>2. CASE ~ (sessions[t] # Nobody /\ sessions[t].user = u)
    BY <2>2 DEF RevokeAll, Typed
  <2> QED
    BY <2>1, <2>2
<1> QED
  BY <1>1 DEF RevokeAll

LEMMA AuditedKeeps ==
  ASSUME IdentityInduction, NEW r \in Requests, Moderate(r) \/ Grant(r)
  PROVE  IdentityInduction'
<1> DEFINE u == req[r].user
<1>1. u \in Accounts /\ \/ Moderate(r) /\ req[r].to \in {"active", "suspended"}
                        \/ Grant(r) /\ req[r].to \in Roles
  <2>1. req[r] \in Works /\ WorkOK(req[r]) /\ req[r].op \in {"moderate", "grant"}
    BY DEF Moderate, Grant, At, IdentityInduction, Typed, WorksAgree
  <2>2. Moderate(r) => req[r].op = "moderate"
    BY DEF Moderate, At
  <2>3. Grant(r) => req[r].op = "grant"
    BY DEF Grant, At
  <2> QED
    BY <2>1, <2>2, <2>3, KindsOfWork DEF WorkOK
<1>2. /\ Finish(r) /\ UNCHANGED <<mail, guests, seats, sockets, history, answers>>
  BY DEF Moderate, Grant
<1>3. /\ users' \in [Users -> UserRows \cup {Nobody}] /\ Accounts' = Accounts
      /\ \A v \in Accounts : /\ users'[v].email = users[v].email /\ users'[v].name = users[v].name
                             /\ users'[v].verified = users[v].verified
      /\ audit' \in Seq([target : Users, field : Fields, after : {"active", "suspended"} \cup Roles])
      /\ RecordsAreTrue'
  <2>1. CASE Moderate(r) /\ req[r].to \in {"active", "suspended"}
    BY <1>1, <2>1, RecordedChange DEF Moderate
  <2>2. CASE Grant(r) /\ req[r].to \in Roles
    BY <1>1, <2>2, RecordedChange DEF Grant
  <2> QED
    BY <1>1, <2>1, <2>2
<1>4. sessions' = sessions \/ sessions' = RevokeAll(u)
  BY DEF Moderate, Grant
<1>5. /\ sessions' \in [Tokens -> SessionRows \cup {Nobody}]
      /\ \A t \in Tokens : (sessions'[t] = Nobody <=> sessions[t] = Nobody)
                           /\ sessions'[t].user = sessions[t].user
  BY <1>4, RevokedSessions DEF IdentityInduction, Typed
<1>6. /\ req' \in [Requests -> Works]
      /\ \A q \in Requests : req'[q] = IF q = r THEN Idle ELSE req[q]
  BY <1>2, FinishEndsOne DEF IdentityInduction
<1>7. Typed' /\ IdentityConstants'
  BY <1>2, <1>3, <1>5, <1>6 DEF IdentityInduction, Typed, IdentityConstants
<1>8. RowsAreUnique' /\ \A w \in Works : WorkOK(w) /\ InsertedWork(w) =>
            w.user \notin Accounts' /\
            \A v \in Accounts' : users'[v].email # w.email /\ users'[v].name # w.name
  BY <1>3, KeysStay
<1>9. SessionsHaveOwners' /\ ClaimsAreOne'
  <2>1. \A g \in Guests : g \in Tokens
    BY DEF Tokens
  <2> QED
    BY <1>2, <1>3, <1>5, <2>1, SessionsMove DEF IdentityInduction, SessionsHaveOwners
<1>10. LinksAreUsedOnce' /\ HistoriesAreKept'
  BY <1>2, <1>3 DEF IdentityInduction, LinksAreUsedOnce, HistoriesAreKept
<1>11. \A q \in Requests : HoldingWork(req[q]) => guests[req[q].guest].claimedBy = Nobody
  BY DEF IdentityInduction, WorksAgree, WorkOK
<1>12. \A q \in Requests : req[q] \in Works /\ WorkOK(req[q])
  BY DEF IdentityInduction, Typed, WorksAgree
<1>13. WorksAgree'
  BY <1>2, <1>3, <1>6, <1>8, <1>11, <1>12, WorksGoOn
<1> QED
  BY <1>3, <1>7, <1>8, <1>9, <1>10, <1>13 DEF IdentityInduction

-----------------------------------------------------------------------------
(* Accounts that come to be *)

LEMMA AccountAppears ==
  ASSUME IdentityInduction, NEW r \in Requests, InsertedWork(req[r]), Finish(r),
         users' = [users EXCEPT ![req[r].user] = NewUser(r)],
         mail' = [mail EXCEPT ![req[r].user] = "unused"], UNCHANGED <<audit, sockets, history, answers>>
  PROVE  /\ req[r].user \in Users /\ req[r].user \notin Accounts
         /\ users' \in [Users -> UserRows \cup {Nobody}] /\ Accounts' = Accounts \cup {req[r].user}
         /\ mail' \in [Users -> {"none", "unused", "consumed"}]
         /\ RowsAreUnique' /\ LinksAreUsedOnce' /\ RecordsAreTrue'
         /\ \A q \in Requests \ {r} : InsertedWork(req[q]) =>
              req[q].user \notin Accounts' /\
              \A v \in Accounts' : users'[v].email # req[q].email /\ users'[v].name # req[q].name
<1> DEFINE u == req[r].user
           row == NewUser(r)
<1>1. req[r] \in Works /\ WorkOK(req[r]) /\ req[r].op \in {"register", "claim"}
  BY DEF IdentityInduction, Typed, WorksAgree, InsertedWork
<1>2. /\ u \in Users /\ u \notin Accounts /\ <<req[r].email, req[r].name>> \in Applications
      /\ \A v \in Accounts : users[v].email # req[r].email /\ users[v].name # req[r].name
  BY <1>1 DEF WorkOK
<1>3. req[r].email \in Forms /\ req[r].name \in NamesAsked
  BY <1>1, KindsOfWork DEF Registering, Claiming
<1>4. /\ row \in UserRows /\ row.email = req[r].email /\ row.name = req[r].name /\ row.verified = FALSE
  BY <1>3 DEF NewUser, UserRows, Forms, NamesAsked, Roles
<1>5. row # Nobody
  BY <1>4 DEF IdentityInduction, IdentityConstants
<1> HIDE DEF row
<1>6. /\ users' \in [Users -> UserRows \cup {Nobody}]
      /\ \A v \in Users : users'[v] = IF v = u THEN row ELSE users[v]
  BY <1>2, <1>4 DEF IdentityInduction, Typed, row
<1>7. Accounts' = Accounts \cup {u}
  BY <1>2, <1>5, <1>6 DEF Accounts
<1>8. /\ mail' \in [Users -> {"none", "unused", "consumed"}]
      /\ \A v \in Users : mail'[v] = IF v = u THEN "unused" ELSE mail[v]
  BY <1>2 DEF IdentityInduction, Typed
<1> HIDE DEF u
<1>9. \A v \in Accounts : v \in Users /\ v # u
  BY <1>2 DEF Accounts
<1>10. RowsAreUnique'
  <2>1. \A v \in Accounts : users'[v] = users[v]
    BY <1>6, <1>9
  <2>2. users'[u] = row
    BY <1>2, <1>6
  <2>3. \A v \in Accounts : <<users[v].email, users[v].name>> \in Applications
         /\ \A x \in Accounts \ {v} : users[v].email # users[x].email /\ users[v].name # users[x].name
    BY DEF IdentityInduction, RowsAreUnique
  <2> QED
    BY <1>2, <1>4, <1>7, <2>1, <2>2, <2>3 DEF RowsAreUnique
<1>11. LinksAreUsedOnce'
  <2>1. ASSUME NEW v \in Users
        PROVE  /\ mail'[v] # "none" <=> v \in Accounts'
               /\ answers'[v] = IF mail'[v] = "consumed" THEN 1 ELSE 0
               /\ v \in Accounts' => (users'[v].verified <=> mail'[v] = "consumed")
    <3>1. CASE v = u
      <4>1. answers[u] = 0
        BY <1>2 DEF IdentityInduction, LinksAreUsedOnce
      <4> QED
        BY <1>2, <1>4, <1>6, <1>7, <1>8, <3>1, <4>1
    <3>2. CASE v # u
      BY <1>6, <1>7, <1>8, <3>2 DEF IdentityInduction, LinksAreUsedOnce
    <3> QED
      BY <3>1, <3>2
  <2> QED
    BY <2>1 DEF LinksAreUsedOnce
<1>12. RecordsAreTrue'
  BY <1>6, <1>7, <1>9 DEF IdentityInduction, RecordsAreTrue, AuditTellsTheRow
<1>13. \A q \in Requests \ {r} : InsertedWork(req[q]) =>
              req[q].user \notin Accounts' /\
              \A v \in Accounts' : users'[v].email # req[q].email /\ users'[v].name # req[q].name
  <2> SUFFICES ASSUME NEW q \in Requests \ {r}, InsertedWork(req[q])
               PROVE  /\ req[q].user \notin Accounts'
                      /\ \A v \in Accounts' : users'[v].email # req[q].email /\ users'[v].name # req[q].name
    OBVIOUS
  <2>1. WorkOK(req[q]) /\ Apart(req[q], req[r])
    BY DEF IdentityInduction, WorksAgree
  <2>2. /\ req[q].user # u /\ req[q].email # req[r].email /\ req[q].name # req[r].name
    BY <2>1 DEF Apart, u
  <2>3. /\ req[q].user \notin Accounts
        /\ \A v \in Accounts : users[v].email # req[q].email /\ users[v].name # req[q].name
    BY <2>1 DEF WorkOK
  <2> QED
    BY <1>2, <1>4, <1>6, <1>7, <1>9, <2>2, <2>3
<1> QED
  BY <1>2, <1>6, <1>7, <1>8, <1>10, <1>11, <1>12, <1>13 DEF u

LEMMA CommitRegisterKeeps ==
  ASSUME IdentityInduction, NEW r \in Requests, NEW t \in Issued, CommitRegister(r, t)
  PROVE  IdentityInduction'
<1> DEFINE u == req[r].user
           row == Opened(u)
<1>1. InsertedWork(req[r])
  BY DEF CommitRegister, At, InsertedWork
<1>2. /\ Finish(r) /\ UNCHANGED <<guests, seats, audit, sockets, history, answers>>
      /\ users' = [users EXCEPT ![u] = NewUser(r)] /\ mail' = [mail EXCEPT ![u] = "unused"]
      /\ sessions' = [sessions EXCEPT ![t] = row] /\ sessions[t] = Nobody
  BY DEF CommitRegister
<1>3. /\ u \in Users /\ u \notin Accounts
      /\ users' \in [Users -> UserRows \cup {Nobody}] /\ Accounts' = Accounts \cup {u}
      /\ mail' \in [Users -> {"none", "unused", "consumed"}]
      /\ RowsAreUnique' /\ LinksAreUsedOnce' /\ RecordsAreTrue'
      /\ \A q \in Requests \ {r} : InsertedWork(req[q]) =>
           req[q].user \notin Accounts' /\
           \A v \in Accounts' : users'[v].email # req[q].email /\ users'[v].name # req[q].name
  BY <1>1, <1>2, AccountAppears
<1>4. row \in SessionRows /\ row.user = u /\ row # Nobody
  BY <1>3, MarkedRows DEF IdentityInduction, IdentityConstants
<1> HIDE DEF row, u
<1>5. t \in Tokens /\ t \notin Guests
  BY DEF Tokens, IdentityInduction, IdentityConstants
<1>6. /\ sessions' \in [Tokens -> SessionRows \cup {Nobody}]
      /\ \A s \in Tokens : sessions'[s] = IF s = t THEN row ELSE sessions[s]
  BY <1>2, <1>4, <1>5 DEF IdentityInduction, Typed
<1>7. /\ req' \in [Requests -> Works]
      /\ \A q \in Requests : req'[q] = IF q = r THEN Idle ELSE req[q]
  BY <1>2, FinishEndsOne DEF IdentityInduction
<1>8. Typed' /\ IdentityConstants'
  BY <1>2, <1>3, <1>6, <1>7 DEF IdentityInduction, Typed, IdentityConstants
<1>9. SessionsHaveOwners'
  BY <1>2, <1>3, <1>4, <1>5, <1>6 DEF IdentityInduction, SessionsHaveOwners
<1>10. ClaimsAreOne'
  <2>1. \A g \in Guests : sessions'[g] = sessions[g]
    BY <1>5, <1>6 DEF Tokens
  <2> QED
    BY <1>2, <1>3, <2>1 DEF IdentityInduction, ClaimsAreOne
<1>11. HistoriesAreKept'
  BY <1>2 DEF IdentityInduction, HistoriesAreKept
<1>12. \A q \in Requests : HoldingWork(req[q]) => guests[req[q].guest].claimedBy = Nobody
  BY DEF IdentityInduction, WorksAgree, WorkOK
<1>13. ~ InsertedWork(Idle) /\ ~ HoldingWork(Idle)
  BY IdleIsOK
<1>14. WorksAgree'
  BY <1>1, <1>2, <1>3, <1>7, <1>12, <1>13, WorksGoOn
<1> QED
  BY <1>3, <1>8, <1>9, <1>10, <1>11, <1>14 DEF IdentityInduction

\* The guest becomes the account: its seats, its token and what it is.
LEMMA CommitClaimKeeps ==
  ASSUME IdentityInduction, NEW r \in Requests, NEW t \in Issued, CommitClaim(r, t)
  PROVE  IdentityInduction'
<1> DEFINE u == req[r].user
           g == req[r].guest
           row == Opened(u)
           kept == req[r].kept
           claimed == [guests[g] EXCEPT !.claimedBy = u]
<1>1. InsertedWork(req[r]) /\ HoldingWork(req[r]) /\ req[r].op = "claim" /\ req[r].at = "commit"
      /\ req[r] \in Claiming /\ WorkOK(req[r])
  BY KindsOfWork DEF CommitClaim, At, InsertedWork, HoldingWork, IdentityInduction, Typed, WorksAgree
<1>2. /\ Finish(r) /\ UNCHANGED <<audit, sockets, history, answers>>
      /\ users' = [users EXCEPT ![u] = NewUser(r)] /\ mail' = [mail EXCEPT ![u] = "unused"]
      /\ sessions' = [sessions EXCEPT ![t] = row, ![g] = row] /\ sessions[t] = Nobody
      /\ guests' = [guests EXCEPT ![g] = claimed]
      /\ seats' = [m \in Matches |-> [s \in Sides |-> IF <<m, s>> \in kept THEN u ELSE seats[m][s]]]
  BY DEF CommitClaim, ClaimedSessions, IdentityInduction, Typed
<1>3. /\ u \in Users /\ u \notin Accounts
      /\ users' \in [Users -> UserRows \cup {Nobody}] /\ Accounts' = Accounts \cup {u}
      /\ mail' \in [Users -> {"none", "unused", "consumed"}]
      /\ RowsAreUnique' /\ LinksAreUsedOnce' /\ RecordsAreTrue'
      /\ \A q \in Requests \ {r} : InsertedWork(req[q]) =>
           req[q].user \notin Accounts' /\
           \A v \in Accounts' : users'[v].email # req[q].email /\ users'[v].name # req[q].name
  BY <1>1, <1>2, AccountAppears
<1>4. row \in SessionRows /\ row.user = u /\ row # Nobody
  BY <1>3, MarkedRows DEF IdentityInduction, IdentityConstants
<1>5. /\ g \in Guests /\ guests[g] # Nobody /\ guests[g].claimedBy = Nobody /\ kept \subseteq Seats
      /\ \A seat \in kept : seats[seat[1]][seat[2]] = g
  BY <1>1 DEF WorkOK, Claiming
<1>6. claimed \in GuestRows /\ claimed # Nobody /\ claimed.claimedBy = u
  <2>1. guests[g] \in GuestRows
    BY <1>5, RowsAreRows DEF IdentityInduction
  <2>2. claimed \in GuestRows /\ claimed.claimedBy = u
    BY <1>3, <2>1 DEF GuestRows
  <2> QED
    BY <2>2 DEF IdentityInduction, IdentityConstants
<1> HIDE DEF row, u, g, kept, claimed
<1>7. /\ t \in Tokens /\ t \notin Guests /\ g \in Tokens /\ sessions[g] = Nobody
      /\ Nobody \notin Users /\ Nobody \notin Guests /\ \A h \in Guests : h \notin Users
  BY <1>5 DEF Tokens, IdentityInduction, IdentityConstants, ClaimsAreOne
<1>8. /\ sessions' \in [Tokens -> SessionRows \cup {Nobody}]
      /\ \A s \in Tokens : sessions'[s] = IF s = t \/ s = g THEN row ELSE sessions[s]
  BY <1>2, <1>4, <1>7 DEF IdentityInduction, Typed
<1>9. /\ guests' \in [Guests -> GuestRows \cup {Nobody}]
      /\ \A h \in Guests : guests'[h] = IF h = g THEN claimed ELSE guests[h]
  BY <1>2, <1>5, <1>6 DEF IdentityInduction, Typed
<1>10. /\ seats' \in [Matches -> [Sides -> Users \cup Guests \cup {Nobody}]]
       /\ \A m \in Matches, s \in Sides : seats'[m][s] = IF <<m, s>> \in kept THEN u ELSE seats[m][s]
  BY <1>2, <1>3 DEF IdentityInduction, Typed
<1>11. /\ req' \in [Requests -> Works]
       /\ \A q \in Requests : req'[q] = IF q = r THEN Idle ELSE req[q]
  BY <1>2, FinishEndsOne DEF IdentityInduction
<1>12. Typed' /\ IdentityConstants'
  BY <1>2, <1>3, <1>8, <1>9, <1>10, <1>11 DEF IdentityInduction, Typed, IdentityConstants
<1>13. SessionsHaveOwners'
  BY <1>2, <1>3, <1>4, <1>7, <1>8 DEF IdentityInduction, SessionsHaveOwners
<1>14. ClaimsAreOne'
  <2>1. \A h \in Guests : sessions'[h] = IF h = g THEN row ELSE sessions[h]
    BY <1>7, <1>8 DEF Tokens
  <2>2. \A h \in Guests : guests[h] # Nobody /\ guests[h].claimedBy # Nobody => guests[h].claimedBy \in Accounts
    BY DEF IdentityInduction, ClaimsAreOne
  <2>3. \A h \in Guests : guests[h] # Nobody => guests[h].claimedBy # u
    BY <1>3, <1>7, <2>2
  <2>4. ASSUME NEW h \in Guests, guests'[h] # Nobody, guests'[h].claimedBy # Nobody
        PROVE  /\ guests'[h].claimedBy \in Accounts'
               /\ sessions'[h] # Nobody /\ sessions'[h].user = guests'[h].claimedBy
               /\ \A f \in Guests \ {h} : guests'[f] # Nobody => guests'[f].claimedBy # guests'[h].claimedBy
    <3>1. CASE h = g
      BY <1>3, <1>4, <1>6, <1>9, <2>1, <2>3, <3>1
    <3>2. CASE h # g
      BY <1>3, <1>6, <1>9, <2>1, <2>3, <2>4, <3>2 DEF IdentityInduction, ClaimsAreOne
    <3> QED
      BY <3>1, <3>2
  <2>5. \A h \in Guests : sessions'[h] # Nobody => guests'[h] # Nobody /\ guests'[h].claimedBy # Nobody
    BY <1>3, <1>6, <1>7, <1>9, <2>1 DEF IdentityInduction, ClaimsAreOne
  <2> QED
    BY <2>4, <2>5 DEF ClaimsAreOne
<1>15. HistoriesAreKept'
  <2>1. \A h \in sockets' : guests'[h] # Nobody
    BY <1>2, <1>6, <1>9 DEF IdentityInduction, HistoriesAreKept, Typed
  <2>2. ASSUME NEW h \in Guests, NEW seat \in history[h]
        PROVE  /\ guests'[h] # Nobody
               /\ \/ seats'[seat[1]][seat[2]] = h
                  \/ guests'[h].claimedBy # Nobody /\ seats'[seat[1]][seat[2]] = guests'[h].claimedBy
    <3>1. seat[1] \in Matches /\ seat[2] \in Sides /\ seat = <<seat[1], seat[2]>>
      BY DEF IdentityInduction, Typed, Seats
    <3>2. /\ guests[h] # Nobody
          /\ \/ seats[seat[1]][seat[2]] = h
             \/ guests[h].claimedBy # Nobody /\ seats[seat[1]][seat[2]] = guests[h].claimedBy
      BY DEF IdentityInduction, HistoriesAreKept
    <3>3. guests[h].claimedBy # Nobody => guests[h].claimedBy \in Accounts /\ guests[h].claimedBy \in Users
      BY <3>2 DEF IdentityInduction, ClaimsAreOne, Accounts
    <3>4. CASE h = g
      BY <1>3, <1>5, <1>6, <1>7, <1>9, <1>10, <3>1, <3>2, <3>4
    <3>5. CASE h # g
      <4>1. seat \notin kept
        BY <1>5, <1>7, <3>2, <3>3, <3>5
      <4> QED
        BY <1>9, <1>10, <3>1, <3>2, <3>5, <4>1
    <3> QED
      BY <3>4, <3>5
  <2> QED
    BY <1>2, <2>1, <2>2 DEF HistoriesAreKept
<1>16. ASSUME NEW q \in Requests \ {r}, HoldingWork(req[q])
       PROVE  /\ guests'[req[q].guest].claimedBy = Nobody
              /\ \A seat \in req[q].kept : seats[seat[1]][seat[2]] = req[q].guest =>
                                           seats'[seat[1]][seat[2]] = req[q].guest
  <2>1. WorkOK(req[q]) /\ Apart(req[q], req[r])
    BY DEF IdentityInduction, WorksAgree
  <2>2. req[q] \in Claiming
    BY <1>16, KindsOfWork DEF IdentityInduction, Typed, HoldingWork
  <2>3. req[q].guest # g /\ req[q].guest \in Guests /\ req[q].kept \subseteq Seats
    BY <1>1, <1>16, <2>1, <2>2 DEF Apart, Claiming, g
  <2>4. guests'[req[q].guest].claimedBy = Nobody
    BY <1>9, <1>16, <2>1, <2>3 DEF WorkOK
  <2>5. ASSUME NEW seat \in req[q].kept, seats[seat[1]][seat[2]] = req[q].guest
        PROVE  seats'[seat[1]][seat[2]] = req[q].guest
    <3>1. seat[1] \in Matches /\ seat[2] \in Sides /\ seat = <<seat[1], seat[2]>>
      BY <2>3 DEF Seats
    <3>2. seat \notin kept
      BY <1>5, <2>3, <2>5
    <3> QED
      BY <1>10, <2>5, <3>1, <3>2
  <2> QED
    BY <2>4, <2>5
<1>17. ~ InsertedWork(Idle) /\ ~ HoldingWork(Idle)
  BY IdleIsOK
<1>18. \A h \in Guests : guests[h] # Nobody => guests'[h] # Nobody
  BY <1>6, <1>9
<1>19. WorksAgree'
  <2>1. \A q \in Requests : req'[q] = req[q] \/ req'[q] = Idle
    BY <1>11
  <2>2. /\ Accounts \subseteq Accounts'
        /\ \A h \in Guests : history[h] \subseteq history'[h]
    BY <1>2, <1>3
  <2>3. ASSUME NEW q \in Requests, req'[q] = req[q]
        PROVE  /\ InsertedWork(req[q]) =>
                    req[q].user \notin Accounts' /\
                    \A v \in Accounts' : users'[v].email # req[q].email /\ users'[v].name # req[q].name
               /\ HoldingWork(req[q]) =>
                    guests'[req[q].guest].claimedBy = Nobody /\
                    \A seat \in req[q].kept : seats[seat[1]][seat[2]] = req[q].guest =>
                                              seats'[seat[1]][seat[2]] = req[q].guest
    BY <1>1, <1>3, <1>11, <1>16, <1>17, <2>3
  <2> QED
    BY <1>11, <1>18, <2>1, <2>2, <2>3, WorksGoOn
<1> QED
  BY <1>3, <1>12, <1>13, <1>14, <1>15, <1>19 DEF IdentityInduction

-----------------------------------------------------------------------------
(* Theorems *)

LEMMA IdentityStep ==
  ASSUME IdentityInduction, [Next]_vars
  PROVE  IdentityInduction'
<1>1. CASE \E g \in Guests : CreateGuest(g) \/ Connect(g) \/ Disconnect(g)
  <2>1. ASSUME NEW g \in Guests, Connect(g) \/ Disconnect(g)
        PROVE  IdentityInduction'
    BY <2>1, ConnectionsKeep DEF Connect, Disconnect
  <2> QED
    BY <1>1, <2>1, CreateGuestKeeps
<1>2. CASE \E m \in Matches, pair \in Pairings : Seat(m, pair[1], pair[2])
  BY <1>2, SeatKeeps
<1>3. CASE \E r \in Requests, form \in Applications :
             BeginRegister(r, form) \/ \E g \in Guests : BeginClaim(r, g, form)
  BY <1>3, BeginRegisterKeeps, BeginClaimKeeps
<1>4. CASE \E r \in Requests, u \in Users :
             \/ InsertUser(r, u) \/ BeginSignIn(r, u) \/ BeginVerify(r, u)
             \/ \E role \in Roles : BeginGrant(r, u, role)
             \/ \E t \in Tokens, status \in {"active", "suspended"} : BeginModerate(r, t, u, status)
  BY <1>4, InsertUserKeeps, BeginOtherKeeps
<1>5. ASSUME NEW r \in Requests, RefuseTaken(r) \/ BreakDeadlock(r)
      PROVE  IdentityInduction'
  BY <1>5, GivesUp DEF RefuseTaken, BreakDeadlock
<1>6. CASE \E r \in Requests :
             \/ RefuseTaken(r) \/ ClaimGuestRow(r) \/ ReassignLight(r) \/ ReassignDark(r)
             \/ BreakDeadlock(r) \/ Verify(r) \/ Moderate(r) \/ Grant(r)
             \/ \E t \in Issued : CommitRegister(r, t) \/ CommitClaim(r, t) \/ OpenSession(r, t)
  BY <1>5, <1>6, ClaimGuestRowKeeps, ReassignLightKeeps, ReassignDarkKeeps, VerifyKeeps, AuditedKeeps,
     CommitRegisterKeeps, CommitClaimKeeps, OpenSessionKeeps
<1>7. CASE \E t \in Tokens : SignOut(t)
  BY <1>7, SignOutKeeps
<1>8. CASE Expire
  BY <1>8, ExpireKeeps
<1>9. CASE Restart
  BY <1>9, ConnectionsKeep DEF Restart
<1>10. CASE UNCHANGED vars
  <2>1. UNCHANGED <<users, mail, sessions, guests, seats, audit, req, sockets, history, answers>>
    BY <1>10 DEF vars, tables
  <2>2. Accounts' = Accounts
    BY <2>1 DEF Accounts
  <2>3. Typed' /\ IdentityConstants' /\ RowsAreUnique' /\ SessionsHaveOwners' /\ ClaimsAreOne'
    BY <2>1, <2>2 DEF IdentityInduction, Typed, IdentityConstants, RowsAreUnique,
       SessionsHaveOwners, ClaimsAreOne
  <2>4. LinksAreUsedOnce' /\ RecordsAreTrue' /\ HistoriesAreKept'
    BY <2>1, <2>2 DEF IdentityInduction, LinksAreUsedOnce, RecordsAreTrue, AuditTellsTheRow,
       HistoriesAreKept
  <2>5. WorksAgree'
    BY <2>1, <2>2 DEF IdentityInduction, WorksAgree, WorkOK, Apart, InsertedWork, HoldingWork
  <2> QED
    BY <2>3, <2>4, <2>5 DEF IdentityInduction
<1> QED
  BY <1>1, <1>2, <1>3, <1>4, <1>6, <1>7, <1>8, <1>9, <1>10 DEF Next

LEMMA IdentityAlwaysHolds == IdentityConstants /\ Spec => []IdentityInduction
<1>1. IdentityConstants /\ Init => IdentityInduction
  BY InitHolds
<1>2. IdentityInduction /\ [Next]_vars => IdentityInduction'
  BY IdentityStep
<1> QED
  BY <1>1, <1>2, PTL DEF Spec

LEMMA GuestsOfAnAccount ==
  ASSUME IdentityInduction, NEW u \in Accounts
  PROVE  Cardinality({g \in Guests : guests[g] # Nobody /\ guests[g].claimedBy = u}) <= 1
<1> DEFINE claimed == {g \in Guests : guests[g] # Nobody /\ guests[g].claimedBy = u}
<1>1. u # Nobody
  BY DEF Accounts, IdentityInduction, IdentityConstants
<1>2. \A g, h \in claimed : g = h
  BY <1>1 DEF IdentityInduction, ClaimsAreOne
<1>3. CASE claimed = {}
  <2>1. Cardinality({}) = 0
    BY FS_EmptySet
  <2> QED
    BY <1>3, <2>1
<1>4. CASE claimed # {}
  <2>1. PICK g \in claimed : TRUE
    BY <1>4
  <2>2. claimed = {g}
    BY <1>2, <2>1
  <2>3. Cardinality({g}) = 1
    BY FS_Singleton
  <2> QED
    BY <2>2, <2>3
<1> QED
  BY <1>3, <1>4

LEMMA TheRowsAgree ==
  ASSUME IdentityInduction
  PROVE  RowsAgree
<1>1. TypeOK
  <2>1. \A u \in Accounts : /\ <<users[u].email, users[u].name>> \in Applications
                            /\ users[u].status \in {"active", "suspended"}
                            /\ users[u].role \in Roles /\ users[u].verified \in BOOLEAN
    BY RowsAreRows DEF IdentityInduction, RowsAreUnique, UserRows
  <2>2. \A t \in Tokens : sessions[t] # Nobody =>
          sessions[t].user \in Accounts /\ sessions[t].is \in {"live", "revoked", "expired"}
    BY RowsAreRows DEF IdentityInduction, SessionsHaveOwners, SessionRows
  <2>3. \A g \in Guests : guests[g] # Nobody =>
          guests[g].claimedBy \in Accounts \cup {Nobody} /\ guests[g].is \in {"live", "expired"}
    BY RowsAreRows DEF IdentityInduction, ClaimsAreOne, GuestRows
  <2>4. \A r \in Requests :
          req[r].op \in {"none", "register", "claim", "sign-in", "verify", "moderate", "grant"}
    BY KindsOfWork DEF IdentityInduction, Typed
  <2> QED
    BY <2>1, <2>2, <2>3, <2>4 DEF IdentityInduction, Typed, RecordsAreTrue, TypeOK
<1>2. AccountsAreWhole
  <2>1. \A u \in Accounts : mail[u] # "none"
    BY DEF IdentityInduction, LinksAreUsedOnce, Accounts
  <2> QED
    BY <2>1, GuestsOfAnAccount DEF IdentityInduction, SessionsHaveOwners, RowsAreUnique, AccountsAreWhole
<1>3. VerifiedOnce
  BY DEF IdentityInduction, LinksAreUsedOnce, Typed, VerifiedOnce, Accounts
<1>4. AuditTellsTheRow
  BY DEF IdentityInduction, RecordsAreTrue
<1> QED
  BY <1>1, <1>2, <1>3, <1>4 DEF RowsAgree

\* The rows of an account agree, whichever registrations, claims, sign-ins, verifications and
\* administrators run at once and wherever a crash falls: its address and name are its own, its
\* session and link came with it, its link verified it once, the last record about it is true
\* (register, claimGuest, verifyEmail, moderate, grantRoleByUsername).
THEOREM RowsAlwaysAgree == IdentityConstants /\ Spec => []RowsAgree
<1>1. IdentityInduction => RowsAgree
  BY TheRowsAgree
<1> QED
  BY <1>1, IdentityAlwaysHolds, PTL

LEMMA TheClaimsAreWhole ==
  ASSUME IdentityInduction
  PROVE  ClaimsAreWhole
<1>1. HistoryIsNotDivided
  BY DEF IdentityInduction, HistoriesAreKept, HistoryIsNotDivided
<1>2. NothingLeftBehind
  BY DEF IdentityInduction, WorksAgree, WorkOK, At, NothingLeftBehind
<1>3. ClaimedTokenPlaysOn
  BY DEF IdentityInduction, ClaimsAreOne, ClaimedTokenPlaysOn, Resolve, LiveSession
<1> QED
  BY <1>1, <1>2, <1>3 DEF ClaimsAreWhole

\* A guest that is claimed becomes one account with all it had played when it asked and the
\* token it played with, though others ask for it at once, matches are seated meanwhile and
\* claims deadlock (claimGuest, claimGuestSession, reassignMatchParticipation).
THEOREM ClaimsAreAlwaysWhole == IdentityConstants /\ Spec => []ClaimsAreWhole
<1>1. IdentityInduction => ClaimsAreWhole
  BY TheClaimsAreWhole
<1> QED
  BY <1>1, IdentityAlwaysHolds, PTL

\* An account goes from active to suspended in a moderator's transaction alone.
LEMMA OnlyModerationSuspends ==
  ASSUME IdentityInduction, [Next]_vars, NEW u \in Accounts,
         users[u].status = "active", users'[u].status = "suspended"
  PROVE  \E r \in Requests : Moderate(r) /\ req[r].user = u /\ req[r].to = "suspended"
<1>1. users' # users
  OBVIOUS
<1>2. Next
  BY <1>1 DEF vars, tables
<1>3. ~ \E g \in Guests : CreateGuest(g) \/ Connect(g) \/ Disconnect(g)
  BY <1>1 DEF CreateGuest, Connect, Disconnect, tables
<1>4. ~ \E m \in Matches, pair \in Pairings : Seat(m, pair[1], pair[2])
  BY <1>1 DEF Seat
<1>5. ~ \E r \in Requests, form \in Applications :
             BeginRegister(r, form) \/ \E g \in Guests : BeginClaim(r, g, form)
  BY <1>1 DEF BeginRegister, BeginClaim, tables
<1>6. ~ \E r \in Requests, v \in Users :
             \/ InsertUser(r, v) \/ BeginSignIn(r, v) \/ BeginVerify(r, v)
             \/ \E role \in Roles : BeginGrant(r, v, role)
             \/ \E t \in Tokens, status \in {"active", "suspended"} : BeginModerate(r, t, v, status)
  BY <1>1 DEF InsertUser, BeginSignIn, BeginVerify, BeginGrant, BeginModerate, tables
<1>7. ~ \E t \in Tokens : SignOut(t)
  BY <1>1 DEF SignOut
<1>8. ~ Expire /\ ~ Restart
  BY <1>1 DEF Expire, Restart, tables
<1>9. ASSUME NEW r \in Requests
      PROVE  ~ (\/ RefuseTaken(r) \/ ClaimGuestRow(r) \/ ReassignLight(r) \/ ReassignDark(r)
                \/ BreakDeadlock(r) \/ \E t \in Issued : OpenSession(r, t))
  BY <1>1 DEF RefuseTaken, ClaimGuestRow, ReassignLight, ReassignDark, BreakDeadlock, OpenSession, tables
<1>10. users[u] \in UserRows /\ u \in Users
  BY RowsAreRows DEF IdentityInduction
<1>11. ASSUME NEW r \in Requests, NEW t \in Issued
       PROVE  ~ CommitRegister(r, t) /\ ~ CommitClaim(r, t)
  <2> SUFFICES ASSUME CommitRegister(r, t) \/ CommitClaim(r, t)
               PROVE  FALSE
    OBVIOUS
  <2>1. users' = [users EXCEPT ![req[r].user] = NewUser(r)] /\ InsertedWork(req[r])
    BY DEF CommitRegister, CommitClaim, At, InsertedWork
  <2>2. req[r].user # u
    BY <2>1 DEF IdentityInduction, WorksAgree, WorkOK
  <2> QED
    BY <1>10, <2>1, <2>2 DEF IdentityInduction, Typed
<1>12. ASSUME NEW r \in Requests
       PROVE  ~ Verify(r) /\ ~ Grant(r)
  <2>1. CASE Verify(r)
    <3>1. users' = [users EXCEPT ![req[r].user].verified = TRUE]
      BY <1>1, <2>1 DEF Verify
    <3>2. users'[u].status = users[u].status
      BY <1>10, <3>1 DEF IdentityInduction, Typed, UserRows
    <3> QED
      BY <3>2
  <2>2. CASE Grant(r)
    <3>1. users' = Rewritten(req[r].user, "role", req[r].to)
      BY <2>2 DEF Grant
    <3>2. users'[u].status = users[u].status
      BY <1>10, <3>1 DEF IdentityInduction, Typed, UserRows, Rewritten
    <3> QED
      BY <3>2
  <2> QED
    BY <2>1, <2>2
<1>13. PICK r \in Requests : Moderate(r)
  BY <1>2, <1>3, <1>4, <1>5, <1>6, <1>7, <1>8, <1>9, <1>11, <1>12 DEF Next
<1>14. users' = Rewritten(req[r].user, "status", req[r].to)
  BY <1>13 DEF Moderate
<1>15. req[r].user = u /\ req[r].to = "suspended"
  BY <1>10, <1>14 DEF IdentityInduction, Typed, UserRows, Rewritten
<1> QED
  BY <1>13, <1>15

\* The step that suspends an account leaves no session of it usable, on whichever token it was
\* issued, that of the guest it was included (suspend, revokeUserSessions).
THEOREM SuspensionAlwaysEndsSessions == IdentityConstants /\ Spec => SuspensionEndsSessions
<1>1. ASSUME IdentityInduction, [Next]_vars, NEW u \in Accounts,
             users[u].status = "active", users'[u].status = "suspended",
             NEW t \in Tokens, LiveSession(t)'
      PROVE  sessions'[t].user # u
  <2>1. PICK r \in Requests : Moderate(r) /\ req[r].user = u /\ req[r].to = "suspended"
    BY <1>1, OnlyModerationSuspends
  <2>2. sessions' = RevokeAll(u)
    BY <2>1 DEF Moderate
  <2> QED
    BY <1>1, <2>2, RevokedSessions DEF IdentityInduction, LiveSession
<1>2. IdentityInduction /\ [Next]_vars =>
        [\A u \in Accounts :
           users[u].status = "active" /\ users'[u].status = "suspended" =>
             \A t \in Tokens : LiveSession(t)' => sessions'[t].user # u]_vars
  BY <1>1
<1> QED
  BY <1>2, IdentityAlwaysHolds, PTL DEF Spec, SuspensionEndsSessions

-----------------------------------------------------------------------------
(* The catalogue                                                           *)

Named == [name : Names, enabled : BOOLEAN]
ScreenForms == [list : [Codes -> Named \cup {NoRow}], editing : Codes \cup {Closed},
           form : Named \cup {NoRow}, touched : SUBSET {"name", "enabled"}, opened : Named \cup {NoRow}]
AdminWorks == [op : {"none", "create", "update"}, code : Codes \cup {"none"},
           values : Named \cup {NoRow}, before : Named \cup {NoRow}, read : BOOLEAN]
AuditRecords == [code : Codes, op : {"created", "updated"}, before : Named \cup {NoRow}, after : Named]

CatalogueTyped ==
  /\ rows \in [Codes -> Named \cup {NoRow}]
  /\ auditLog \in Seq(AuditRecords)
  /\ screen \in [Admins -> ScreenForms]
  /\ \A a \in Admins : screen[a].editing # Closed => screen[a].form \in Named
  /\ request \in [Admins -> AdminWorks]
  /\ \A a \in Admins : request[a].op # "none" => request[a].code \in Codes /\ request[a].values \in Named

\* What was created has a row ever after.
CreatedStands ==
  \A i \in 1..Len(auditLog) : auditLog[i].op = "created" => rows[auditLog[i].code] # NoRow

CatalogueInduction == CatalogueTyped /\ CreatedStands /\ AuditEndsAtRow /\ OfferedOnce

LEMMA RowFacts ==
  /\ NoRow \notin Named /\ Standing \in Names
  /\ \A n \in Names, b \in BOOLEAN : Row(n, b) \in Named
  /\ NoRequest \in AdminWorks /\ NoRequest.op = "none"
<1>1. NoRow \notin Named /\ Standing \in Names /\ \A n \in Names, b \in BOOLEAN : Row(n, b) \in Named
  BY CatalogueAssumption DEF NoRow, Row, Named, Standing
<1>2. NoRequest \in AdminWorks /\ NoRequest.op = "none"
  BY DEF NoRequest, AdminWorks
<1> QED
  BY <1>1, <1>2

LEMMA CatalogueStarts == CatalogueInit => CatalogueInduction
<1> SUFFICES ASSUME CatalogueInit PROVE CatalogueInduction
  OBVIOUS
<1>1. rows \in [Codes -> Named \cup {NoRow}]
  BY RowFacts DEF CatalogueInit
<1>2. auditLog = <<>> /\ auditLog \in Seq(AuditRecords) /\ Len(auditLog) = 0
  BY EmptySeq DEF CatalogueInit
<1>3. screen \in [Admins -> ScreenForms] /\ \A a \in Admins : screen[a].editing = Closed
  BY <1>1 DEF CatalogueInit, ScreenForms
<1>4. request \in [Admins -> AdminWorks] /\ \A a \in Admins : request[a].op = "none"
  BY RowFacts DEF CatalogueInit
<1>5. CatalogueTyped
  BY <1>1, <1>2, <1>3, <1>4 DEF CatalogueTyped
<1> QED
  BY <1>2, <1>5 DEF CatalogueInduction, CreatedStands, AuditEndsAtRow, OfferedOnce

\* Steps that leave the table and its audit alone.
LEMMA LookingKeeps ==
  ASSUME CatalogueInduction, rows' = rows, auditLog' = auditLog,
         screen' \in [Admins -> ScreenForms],
         \A a \in Admins : screen'[a].editing # Closed => screen'[a].form \in Named,
         request' \in [Admins -> AdminWorks],
         \A a \in Admins : request'[a].op # "none" => request'[a].code \in Codes /\ request'[a].values \in Named
  PROVE  CatalogueInduction'
BY DEF CatalogueInduction, CatalogueTyped, CreatedStands, AuditEndsAtRow, OfferedOnce

\* A record at the end of the log that is the row it tells of.
LEMMA RecordingKeeps ==
  ASSUME CatalogueInduction, NEW c \in Codes, NEW r \in AuditRecords, r.code = c,
         r.op = "created" => rows[c] = NoRow,
         rows' = [rows EXCEPT ![c] = r.after], auditLog' = Append(auditLog, r),
         screen' \in [Admins -> ScreenForms],
         \A a \in Admins : screen'[a].editing # Closed => screen'[a].form \in Named,
         request' \in [Admins -> AdminWorks],
         \A a \in Admins : request'[a].op # "none" => request'[a].code \in Codes /\ request'[a].values \in Named
  PROVE  CatalogueInduction'
<1>1. auditLog \in Seq(AuditRecords) /\ Len(auditLog) \in Nat /\ rows \in [Codes -> Named \cup {NoRow}]
  BY LenProperties DEF CatalogueInduction, CatalogueTyped
<1> DEFINE n == Len(auditLog)
           more == Append(auditLog, r)
<1>2. /\ more \in Seq(AuditRecords) /\ Len(more) = n + 1 /\ more[n + 1] = r
      /\ \A i \in 1..n : more[i] = auditLog[i]
  BY <1>1, AppendProperties
<1>3. auditLog' = more
  OBVIOUS
<1> HIDE DEF more
<1>4. r.after \in Named /\ r.after # NoRow
  BY RowFacts DEF AuditRecords
<1>5. /\ rows' \in [Codes -> Named \cup {NoRow}] /\ rows'[c] = r.after
      /\ \A d \in Codes : d # c => rows'[d] = rows[d]
  BY <1>1, <1>4
<1>6. \A i \in 1..n : auditLog[i].code \in Codes
  <2>1. \A i \in 1..n : auditLog[i] \in AuditRecords
    BY <1>1, ElementOfSeq
  <2> QED
    BY <2>1 DEF AuditRecords
<1>7. \A i \in 1..(n + 1) : i \in 1..n \/ i = n + 1
  BY <1>1
<1>8. n + 1 \in 1..(n + 1) /\ \A i \in 1..n : i \in 1..(n + 1) /\ n + 1 > i
  BY <1>1
<1>9. CatalogueTyped'
  BY <1>2, <1>3, <1>5 DEF CatalogueTyped
<1>10. CreatedStands'
  <2> SUFFICES ASSUME NEW i \in 1..(n + 1), more[i].op = "created" PROVE rows'[more[i].code] # NoRow
    BY <1>2, <1>3 DEF CreatedStands
  <2>1. CASE i = n + 1
    BY <1>2, <1>4, <1>5, <2>1
  <2>2. CASE i \in 1..n
    <3>1. rows[auditLog[i].code] # NoRow /\ more[i] = auditLog[i] /\ auditLog[i].code \in Codes
      BY <1>2, <1>6, <2>2 DEF CatalogueInduction, CreatedStands
    <3> QED
      BY <1>4, <1>5, <3>1
  <2> QED
    BY <1>7, <2>1, <2>2
<1>11. AuditEndsAtRow'
  <2> SUFFICES ASSUME NEW i \in 1..(n + 1),
                      \A j \in 1..(n + 1) : j > i => more[j].code # more[i].code
               PROVE  more[i].after = rows'[more[i].code]
    BY <1>2, <1>3 DEF AuditEndsAtRow
  <2>1. CASE i = n + 1
    BY <1>2, <1>5, <2>1
  <2>2. CASE i \in 1..n
    <3>1. more[i] = auditLog[i] /\ auditLog[i].code \in Codes /\ auditLog[i].code # c
      BY <1>2, <1>6, <1>8, <2>2
    <3>2. \A j \in 1..n : j > i => auditLog[j].code # auditLog[i].code
      BY <1>2, <1>8, <3>1
    <3>3. auditLog[i].after = rows[auditLog[i].code]
      BY <2>2, <3>2 DEF CatalogueInduction, AuditEndsAtRow
    <3> QED
      BY <1>5, <3>1, <3>3
  <2> QED
    BY <1>7, <2>1, <2>2
<1>12. OfferedOnce'
  <2> SUFFICES ASSUME NEW i \in 1..(n + 1), NEW j \in 1..(n + 1), more[i].op = "created",
                      more[j].op = "created", more[i].code = more[j].code
               PROVE  i = j
    BY <1>2, <1>3 DEF OfferedOnce
  <2>1. CASE i \in 1..n /\ j \in 1..n
    BY <1>2, <2>1 DEF CatalogueInduction, OfferedOnce
  <2>2. CASE i = n + 1 /\ j \in 1..n
    BY <1>2, <2>2 DEF CatalogueInduction, CreatedStands
  <2>3. CASE i \in 1..n /\ j = n + 1
    BY <1>2, <2>3 DEF CatalogueInduction, CreatedStands
  <2> QED
    BY <1>7, <2>1, <2>2, <2>3
<1> QED
  BY <1>9, <1>10, <1>11, <1>12 DEF CatalogueInduction

LEMMA CatalogueSteps == CatalogueInduction /\ [CatalogueNext]_catalogueVars => CatalogueInduction'
<1> SUFFICES ASSUME CatalogueInduction, [CatalogueNext]_catalogueVars PROVE CatalogueInduction'
  OBVIOUS
<1>0. /\ rows \in [Codes -> Named \cup {NoRow}] /\ screen \in [Admins -> ScreenForms]
      /\ \A a \in Admins : screen[a].editing # Closed => screen[a].form \in Named
      /\ request \in [Admins -> AdminWorks]
      /\ \A a \in Admins : request[a].op # "none" => request[a].code \in Codes /\ request[a].values \in Named
  BY DEF CatalogueInduction, CatalogueTyped
<1>1. ASSUME NEW a \in Admins, Fetch(a) PROVE CatalogueInduction'
  <2>1. screen' \in [Admins -> ScreenForms] /\ \A b \in Admins :
          screen'[b].editing = screen[b].editing /\ screen'[b].form = screen[b].form
    BY <1>0, <1>1 DEF Fetch, ScreenForms
  <2> QED
    BY <1>0, <1>1, <2>1, LookingKeeps DEF Fetch
<1>2. ASSUME NEW a \in Admins, NEW c \in Codes, OpenForm(a, c) PROVE CatalogueInduction'
  <2>1. screen[a] \in ScreenForms /\ screen[a].list[c] \in Named
    BY <1>0, <1>2 DEF OpenForm, ScreenForms
  <2>2. /\ screen' = [screen EXCEPT ![a] = [screen[a] EXCEPT !.editing = c, !.form = screen[a].list[c],
                                            !.touched = {}, !.opened = screen[a].list[c]]]
    BY <1>2 DEF OpenForm, FieldsFor
  <2>3. PICK s : s = [screen[a] EXCEPT !.editing = c, !.form = screen[a].list[c],
                                       !.touched = {}, !.opened = screen[a].list[c]]
    OBVIOUS
  <2>4. s \in ScreenForms /\ s.form \in Named
    BY <2>1, <2>3 DEF ScreenForms
  <2>5. /\ screen' \in [Admins -> ScreenForms]
        /\ \A b \in Admins : screen'[b].editing # Closed => screen'[b].form \in Named
    BY <1>0, <2>2, <2>3, <2>4
  <2> QED
    BY <1>0, <1>2, <2>5, LookingKeeps DEF OpenForm
<1>3. ASSUME NEW a \in Admins, Touch(a) PROVE CatalogueInduction'
  <2>1. screen[a] \in ScreenForms /\ screen[a].form \in Named
    BY <1>0, <1>3 DEF Touch
  <2>2. \/ \E n \in Names : screen' = [screen EXCEPT ![a] = [screen[a] EXCEPT
             !.form = [screen[a].form EXCEPT !.name = n], !.touched = screen[a].touched \cup {"name"}]]
        \/ screen' = [screen EXCEPT ![a] = [screen[a] EXCEPT
             !.form = [screen[a].form EXCEPT !.enabled = ~screen[a].form.enabled],
             !.touched = screen[a].touched \cup {"enabled"}]]
    BY <1>3 DEF Touch
  <2>3. \E f \in Named, t \in SUBSET {"name", "enabled"} :
          screen' = [screen EXCEPT ![a] = [screen[a] EXCEPT !.form = f, !.touched = t]]
    <3>1. screen[a].touched \cup {"name"} \in SUBSET {"name", "enabled"}
          /\ screen[a].touched \cup {"enabled"} \in SUBSET {"name", "enabled"}
      BY <2>1 DEF ScreenForms
    <3>2. \A n \in Names : [screen[a].form EXCEPT !.name = n] \in Named
      BY <2>1 DEF Named
    <3>3. [screen[a].form EXCEPT !.enabled = ~screen[a].form.enabled] \in Named
      BY <2>1 DEF Named
    <3> QED
      BY <2>2, <3>1, <3>2, <3>3
  <2>4. PICK f \in Named, t \in SUBSET {"name", "enabled"} :
          screen' = [screen EXCEPT ![a] = [screen[a] EXCEPT !.form = f, !.touched = t]]
    BY <2>3
  <2>5. PICK s : s = [screen[a] EXCEPT !.form = f, !.touched = t]
    OBVIOUS
  <2>6. s \in ScreenForms /\ s.form = f
    BY <2>1, <2>5 DEF ScreenForms
  <2> QED
    BY <1>0, <1>3, <2>4, <2>5, <2>6, LookingKeeps DEF Touch
<1>4. ASSUME NEW a \in Admins, Save(a) PROVE CatalogueInduction'
  <2>1. PICK q : q = [NoRequest EXCEPT !.op = "update", !.code = screen[a].editing, !.values = screen[a].form]
    OBVIOUS
  <2>2. screen[a] \in ScreenForms /\ screen[a].form \in Named /\ screen[a].editing \in Codes
    BY <1>0, <1>4 DEF Save, ScreenForms
  <2>3. q \in AdminWorks /\ q.code \in Codes /\ q.values \in Named
    BY <2>1, <2>2, RowFacts DEF AdminWorks, NoRequest
  <2> QED
    BY <1>0, <1>4, <2>1, <2>3, LookingKeeps DEF Save
<1>5. ASSUME NEW a \in Admins, NEW c \in Codes, Offer(a, c) PROVE CatalogueInduction'
  <2>1. PICK q : q = [NoRequest EXCEPT !.op = "create", !.code = c, !.values = Row(Standing, TRUE)]
    OBVIOUS
  <2>2. Row(Standing, TRUE) \in Named
    BY RowFacts
  <2>3. q \in AdminWorks /\ q.code \in Codes /\ q.values \in Named
    BY <2>1, <2>2, RowFacts DEF AdminWorks, NoRequest
  <2> QED
    BY <1>0, <1>5, <2>1, <2>3, LookingKeeps DEF Offer
<1>6. ASSUME NEW a \in Admins, Read(a) PROVE CatalogueInduction'
  <2>1. request[a] \in AdminWorks /\ request[a].code \in Codes /\ request[a].values \in Named
        /\ rows[request[a].code] \in Named \cup {NoRow}
    BY <1>0, <1>6 DEF Read
  <2>2. PICK q : q = [request[a] EXCEPT !.before = rows[request[a].code], !.read = TRUE]
    OBVIOUS
  <2>3. q \in AdminWorks /\ q.code \in Codes /\ q.values \in Named
    BY <2>1, <2>2 DEF AdminWorks
  <2>4. request' = [request EXCEPT ![a] = NoRequest] \/ request' = [request EXCEPT ![a] = q]
    BY <1>6, <2>2 DEF Read
  <2>5. /\ request' \in [Admins -> AdminWorks]
        /\ \A b \in Admins : request'[b].op # "none" => request'[b].code \in Codes /\ request'[b].values \in Named
    BY <1>0, <2>3, <2>4, RowFacts
  <2> QED
    BY <1>0, <1>6, <2>5, LookingKeeps DEF Read
<1>7. ASSUME NEW a \in Admins, CreateAchievement(a) PROVE CatalogueInduction'
  <2>1. request[a] \in AdminWorks /\ request[a].code \in Codes /\ request[a].values \in Named
    BY <1>0, <1>7 DEF CreateAchievement
  <2>2. PICK r : r = AuditRecord(a, "created")
    OBVIOUS
  <2>3. r \in AuditRecords /\ r.code = request[a].code /\ r.after = request[a].values /\ r.op = "created"
    BY <2>1, <2>2 DEF AuditRecord, AuditRecords, AdminWorks
  <2>4. /\ request' \in [Admins -> AdminWorks]
        /\ \A b \in Admins : request'[b].op # "none" => request'[b].code \in Codes /\ request'[b].values \in Named
    BY <1>0, <1>7, RowFacts DEF CreateAchievement
  <2>5. screen' = screen
    BY <1>7 DEF CreateAchievement
  <2>6. CASE MayInsert(request[a].code)
    <3>1. rows' = [rows EXCEPT ![request[a].code] = request[a].values] /\ auditLog' = Append(auditLog, r)
      BY <1>7, <2>2, <2>6 DEF CreateAchievement, Audited
    <3> QED
      BY <1>0, <2>1, <2>3, <2>4, <2>5, <2>6, <3>1, RecordingKeeps DEF MayInsert
  <2>7. CASE ~MayInsert(request[a].code)
    BY <1>0, <1>7, <2>4, <2>5, <2>7, LookingKeeps DEF CreateAchievement
  <2> QED
    BY <2>6, <2>7
<1>8. ASSUME NEW a \in Admins, UpdateAchievement(a) PROVE CatalogueInduction'
  <2>1. request[a] \in AdminWorks /\ request[a].code \in Codes /\ request[a].values \in Named
    BY <1>0, <1>8 DEF UpdateAchievement
  <2>2. PICK r : r = AuditRecord(a, "updated")
    OBVIOUS
  <2>3. r \in AuditRecords /\ r.code = request[a].code /\ r.after = request[a].values /\ r.op = "updated"
    BY <2>1, <2>2 DEF AuditRecord, AuditRecords, AdminWorks
  <2>4. /\ request' \in [Admins -> AdminWorks]
        /\ \A b \in Admins : request'[b].op # "none" => request'[b].code \in Codes /\ request'[b].values \in Named
    BY <1>0, <1>8, RowFacts DEF UpdateAchievement
  <2>5. rows' = [rows EXCEPT ![request[a].code] = request[a].values] /\ auditLog' = Append(auditLog, r)
    BY <1>8, <2>2 DEF UpdateAchievement, Audited
  <2>6. PICK s : s = [screen[a] EXCEPT !.editing = Closed, !.form = NoRow, !.touched = {}, !.opened = NoRow]
    OBVIOUS
  <2>7. s \in ScreenForms /\ s.editing = Closed
    BY <1>0, <2>6 DEF ScreenForms
  <2>8. screen' = [screen EXCEPT ![a] = s]
    BY <1>8, <2>6 DEF UpdateAchievement
  <2>9. /\ screen' \in [Admins -> ScreenForms]
        /\ \A b \in Admins : screen'[b].editing # Closed => screen'[b].form \in Named
    BY <1>0, <2>7, <2>8
  <2> QED
    BY <2>1, <2>3, <2>4, <2>5, <2>9, RecordingKeeps
<1>9. CASE UNCHANGED catalogueVars
  BY <1>0, <1>9, LookingKeeps DEF catalogueVars
<1> QED
  BY <1>1, <1>2, <1>3, <1>4, <1>5, <1>6, <1>7, <1>8, <1>9 DEF CatalogueNext

-----------------------------------------------------------------------------
(* The listings                                                            *)

Readings == [pages : Seq(SUBSET Key), cursor : Key \cup {NoCursor}, more : BOOLEAN, settled : SUBSET Ids]

ListingTyped ==
  /\ rowsAt \in [Ids -> Moments \cup {0}] /\ writing \in [Ids -> Moments \cup {0}] /\ moment \in Moments
  /\ shown \in Readings
  /\ fetch \in [on : BOOLEAN, wanted : Nat, reading : Readings]
  /\ fetch.on => fetch.reading.more

\* A cursor is the last key read: nothing on the pages is below it.
CursorIsLast(r) ==
  /\ r.pages = <<>> => r.settled = {} /\ r.cursor = NoCursor /\ r.more
  /\ r.pages # <<>> /\ r.more => r.cursor \in Key
  /\ r.cursor \in Key =>
       \A p \in DOMAIN r.pages : \A k \in r.pages[p] : k = r.cursor \/ Below(r.cursor, k)

Descends(r) ==
  \A p, q \in DOMAIN r.pages : p < q => \A k \in r.pages[p], l \in r.pages[q] : Below(l, k)

\* A settled row is on the pages as it stands, and only so.
SettledStand(r) ==
  \A i \in r.settled :
    /\ rowsAt[i] # 0
    /\ \A p \in DOMAIN r.pages : \A k \in r.pages[p] : k.id = i => k = KeyOf(i)

\* It is still to come, or on a page.
SettledAreFound(r) ==
  \A i \in r.settled :
    IF r.more /\ Behind(KeyOf(i), r.cursor)
    THEN \A p \in DOMAIN r.pages : KeyOf(i) \notin r.pages[p]
    ELSE \E p \in DOMAIN r.pages : KeyOf(i) \in r.pages[p]

ReadingIsWhole(r) == CursorIsLast(r) /\ Descends(r) /\ SettledStand(r) /\ SettledAreFound(r)

ListingInduction == ListingTyped /\ ReadingIsWhole(shown) /\ ReadingIsWhole(fetch.reading)

LEMMA KeysAreOrdered ==
  /\ NoCursor \notin Key
  /\ \A k \in Key : ~Below(k, k)
  /\ \A j, k \in Key : Below(j, k) => ~Below(k, j)
  /\ \A j, k \in Key : j = k \/ Below(j, k) \/ Below(k, j)
  /\ \A j, k, l \in Key : Below(j, k) /\ Below(k, l) => Below(j, l)
<1>1. Ids \subseteq Nat /\ MaxMoment \in Nat
  BY PagesAssumption
<1>2. \A k \in Key : k.at \in Nat /\ k.id \in Nat
  <2>1. Moments \subseteq Nat
    BY <1>1 DEF Moments
  <2> QED
    BY <1>1, <2>1 DEF Key
<1>3. \A j, k \in Key : j = k <=> j.at = k.at /\ j.id = k.id
  BY DEF Key
<1>4. NoCursor \notin Key
  BY DEF NoCursor, Key, Moments
<1> QED
  BY <1>2, <1>3, <1>4 DEF Below

LEMMA RestFacts ==
  ASSUME ListingTyped, NEW cursor
  PROVE  /\ Rest(cursor) \subseteq Key /\ IsFiniteSet(Rest(cursor))
         /\ \A i \in Ids : rowsAt[i] # 0 => KeyOf(i) \in Key
         /\ \A i \in Ids : rowsAt[i] # 0 /\ Behind(KeyOf(i), cursor) => KeyOf(i) \in Rest(cursor)
         /\ \A k \in Rest(cursor) : Behind(k, cursor) /\ k.id \in Ids /\ rowsAt[k.id] # 0 /\ k = KeyOf(k.id)
<1>1. \A i \in Ids : rowsAt[i] # 0 => KeyOf(i) \in Key
  BY DEF ListingTyped, KeyOf, Key
<1>2. \A i \in Ids : KeyOf(i).id = i
  BY DEF KeyOf
<1>3. \A k \in Rest(cursor) : Behind(k, cursor) /\ k.id \in Ids /\ rowsAt[k.id] # 0 /\ k = KeyOf(k.id)
  BY <1>2 DEF Rest
<1>4. \A i \in Ids : rowsAt[i] # 0 /\ Behind(KeyOf(i), cursor) => KeyOf(i) \in Rest(cursor)
  BY DEF Rest
<1>5. IsFiniteSet({KeyOf(i) : i \in {j \in Ids : rowsAt[j] # 0}})
  <2>1. IsFiniteSet({j \in Ids : rowsAt[j] # 0})
    BY PagesAssumption, FS_Subset
  <2> DEFINE there == {j \in Ids : rowsAt[j] # 0}
             keys  == {KeyOf(i) : i \in there}
             f     == [i \in there |-> KeyOf(i)]
  <2>2. f \in Surjection(there, keys)
    BY DEF Surjection
  <2> HIDE DEF f
  <2> QED
    BY <2>1, <2>2, FS_Surjection
<1>6. IsFiniteSet(Rest(cursor))
  BY <1>5, FS_Subset DEF Rest
<1> QED
  BY <1>1, <1>3, <1>4, <1>6

\* A page more, read from the table as it is now.
LEMMA ExtendedIsWhole ==
  ASSUME ListingTyped, NEW r \in Readings, ReadingIsWhole(r), r.more,
         NEW rest, rest = Rest(r.cursor), NEW page \in SUBSET rest, NEW last \in page \cup {NoCursor},
         IsPage(page, rest), page # {} => last \in page /\ \A k \in page : k = last \/ Below(last, k),
         NEW e, e = Extended(r, page, rest, last)
  PROVE  e \in Readings /\ ReadingIsWhole(e)
<1> DEFINE n == Len(r.pages)
<1>1. /\ r.pages \in Seq(SUBSET Key) /\ r.cursor \in Key \cup {NoCursor} /\ r.settled \subseteq Ids
      /\ n \in Nat /\ DOMAIN r.pages = 1..n
  BY LenProperties DEF Readings
<1>2. /\ rest \subseteq Key /\ page \subseteq Key
      /\ \A i \in Ids : rowsAt[i] # 0 => KeyOf(i) \in Key
      /\ \A i \in Ids : rowsAt[i] # 0 /\ Behind(KeyOf(i), r.cursor) => KeyOf(i) \in rest
      /\ \A k \in rest : Behind(k, r.cursor) /\ k.id \in Ids /\ rowsAt[k.id] # 0 /\ k = KeyOf(k.id)
  BY RestFacts
<1>3. /\ e.pages = Append(r.pages, page)
      /\ e.more = (Cardinality(rest) > PageSize)
      /\ e.cursor = IF Cardinality(rest) > PageSize THEN last ELSE NoCursor
      /\ e.settled = IF r.pages = <<>> THEN {i \in Ids : rowsAt[i] # 0} ELSE r.settled
      /\ e = [pages |-> e.pages, cursor |-> e.cursor, more |-> e.more, settled |-> e.settled]
  BY DEF Extended
<1>4. /\ e.pages \in Seq(SUBSET Key) /\ Len(e.pages) = n + 1 /\ e.pages[n + 1] = page
      /\ (\A p \in 1..n : e.pages[p] = r.pages[p]) /\ DOMAIN e.pages = 1..(n + 1) /\ e.pages # <<>>
  <2>1. page \in SUBSET Key
    BY <1>2
  <2>2. /\ e.pages \in Seq(SUBSET Key) /\ Len(e.pages) = n + 1 /\ e.pages[n + 1] = page
        /\ \A p \in 1..n : e.pages[p] = r.pages[p]
    BY <1>1, <1>3, <2>1, AppendProperties
  <2> QED
    BY <1>1, <2>2, LenProperties, EmptySeq
<1>5. Cardinality(rest) \in Nat /\ PageSize \in Nat \ {0}
  BY RestFacts, FS_CardinalityType, PagesAssumption
<1>6. e.more \in BOOLEAN
  BY <1>3
<1>7. ASSUME e.more PROVE e.cursor = last /\ page # {} /\ last \in page /\ last \in Key /\ last # NoCursor
  <2>1. Cardinality(rest) > PageSize
    BY <1>3, <1>7
  <2>2. Cardinality(page) = PageSize
    BY <1>5, <2>1 DEF IsPage
  <2>3. page # {}
    <3>1. Cardinality({}) = 0
      BY FS_EmptySet
    <3> QED
      BY <1>5, <2>2, <3>1
  <2>4. last \in page
    BY <2>3
  <2>5. last \in Key /\ last # NoCursor
    BY <1>2, <2>4, KeysAreOrdered
  <2> QED
    BY <1>3, <2>1, <2>3, <2>4, <2>5
<1>8. ASSUME ~e.more PROVE e.cursor = NoCursor /\ page = rest
  <2>1. ~(Cardinality(rest) > PageSize)
    BY <1>3, <1>8
  <2>2. Cardinality(rest) <= PageSize
    BY <1>5, <2>1
  <2> QED
    BY <1>3, <2>1, <2>2 DEF IsPage
<1>9. \A p \in 1..n : \A k \in r.pages[p], l \in page : Below(l, k)
  <2> SUFFICES ASSUME NEW p \in 1..n, NEW k \in r.pages[p], NEW l \in page PROVE Below(l, k)
    OBVIOUS
  <2>1. r.pages # <<>> /\ r.pages[p] \subseteq Key /\ k \in Key /\ l \in Key
    <3>1. r.pages[p] \in SUBSET Key
      BY <1>1, ElementOfSeq
    <3>2. r.pages # <<>>
      BY <1>1, EmptySeq
    <3> QED
      BY <1>2, <3>1, <3>2
  <2>2. r.cursor \in Key /\ r.cursor # NoCursor /\ (k = r.cursor \/ Below(r.cursor, k))
    BY <1>1, <2>1, KeysAreOrdered DEF ReadingIsWhole, CursorIsLast
  <2>3. Below(l, r.cursor)
    BY <1>2, <2>2 DEF Behind
  <2> QED
    BY <2>1, <2>2, <2>3, KeysAreOrdered
<1>10. \A p \in 1..(n + 1) : p \in 1..n \/ p = n + 1
  BY <1>1
<1>11. e \in Readings
  <2>1. e.cursor \in Key \cup {NoCursor} /\ e.settled \subseteq Ids
    BY <1>1, <1>3, <1>7, <1>8
  <2> QED
    BY <1>3, <1>4, <1>6, <2>1 DEF Readings
<1>12. Descends(e)
  <2> SUFFICES ASSUME NEW p \in 1..(n + 1), NEW q \in 1..(n + 1), p < q,
                      NEW k \in e.pages[p], NEW l \in e.pages[q]
               PROVE  Below(l, k)
    BY <1>4 DEF Descends
  <2>1. p \in 1..n
    BY <1>1
  <2>2. CASE q \in 1..n
    BY <1>1, <1>4, <2>1, <2>2 DEF ReadingIsWhole, Descends
  <2>3. CASE q = n + 1
    BY <1>4, <1>9, <2>1, <2>3
  <2> QED
    BY <1>10, <2>2, <2>3
<1>13. CursorIsLast(e)
  <2>1. ASSUME e.cursor \in Key, NEW p \in 1..(n + 1), NEW k \in e.pages[p]
        PROVE  k = e.cursor \/ Below(e.cursor, k)
    <3>1. e.more
      BY <1>8, <2>1, KeysAreOrdered
    <3>2. CASE p \in 1..n
      BY <1>4, <1>7, <1>9, <2>1, <3>1, <3>2
    <3>3. CASE p = n + 1
      BY <1>4, <1>7, <2>1, <3>1, <3>3
    <3> QED
      BY <1>10, <3>2, <3>3
  <2> QED
    BY <1>4, <1>7, <2>1 DEF CursorIsLast
<1>14. SettledStand(e)
  <2> SUFFICES ASSUME NEW i \in e.settled
               PROVE  /\ rowsAt[i] # 0
                      /\ \A p \in 1..(n + 1) : \A k \in e.pages[p] : k.id = i => k = KeyOf(i)
    BY <1>4 DEF SettledStand
  <2>1. \A k \in page : k.id = i => k = KeyOf(i)
    BY <1>2
  <2>2. CASE r.pages = <<>>
    <3>1. n = 0
      BY <2>2, EmptySeq
    <3> QED
      BY <1>3, <1>4, <1>10, <2>1, <2>2, <3>1
  <2>3. CASE r.pages # <<>>
    <3>1. i \in r.settled
      BY <1>3, <2>3
    <3>2. rowsAt[i] # 0 /\ \A p \in 1..n : \A k \in r.pages[p] : k.id = i => k = KeyOf(i)
      BY <1>1, <3>1 DEF ReadingIsWhole, SettledStand
    <3> QED
      BY <1>4, <1>10, <2>1, <3>2
  <2> QED
    BY <2>2, <2>3
<1>15. SettledAreFound(e)
  <2> SUFFICES ASSUME NEW i \in e.settled
               PROVE  IF e.more /\ Behind(KeyOf(i), e.cursor)
                      THEN \A p \in 1..(n + 1) : KeyOf(i) \notin e.pages[p]
                      ELSE \E p \in 1..(n + 1) : KeyOf(i) \in e.pages[p]
    BY <1>4 DEF SettledAreFound
  <2> DEFINE K == KeyOf(i)
  <2>1. K \in Key /\ i \in Ids /\ rowsAt[i] # 0
    BY <1>2, <1>11, <1>14 DEF SettledStand, Readings
  <2>2. \/ K \in rest /\ \A p \in 1..n : K \notin r.pages[p]
        \/ \E p \in 1..n : K \in r.pages[p]
    <3>1. CASE r.pages = <<>>
      <4>1. n = 0 /\ r.cursor = NoCursor
        BY <3>1, EmptySeq DEF ReadingIsWhole, CursorIsLast
      <4> QED
        BY <1>2, <2>1, <4>1 DEF Behind
    <3>2. CASE r.pages # <<>>
      <4>1. i \in r.settled
        BY <1>3, <3>2
      <4>2. IF Behind(K, r.cursor) THEN \A p \in 1..n : K \notin r.pages[p]
            ELSE \E p \in 1..n : K \in r.pages[p]
        BY <1>1, <4>1 DEF ReadingIsWhole, SettledAreFound
      <4> QED
        BY <1>2, <2>1, <4>2
    <3> QED
      BY <3>1, <3>2
  <2> HIDE DEF K
  <2>3. ASSUME NEW p \in 1..n, K \in r.pages[p] PROVE ~(e.more /\ Behind(K, e.cursor)) /\ K \in e.pages[p]
    <3>1. ASSUME e.more PROVE ~Behind(K, e.cursor)
      <4>1. Below(last, K)
        BY <1>7, <1>9, <2>3, <3>1
      <4> QED
        BY <1>7, <2>1, <3>1, <4>1, KeysAreOrdered DEF Behind
    <3> QED
      BY <1>4, <2>3, <3>1
  <2>4. ASSUME K \in page PROVE ~(e.more /\ Behind(K, e.cursor)) /\ K \in e.pages[n + 1]
    <3>1. ASSUME e.more PROVE ~Behind(K, e.cursor)
      <4>1. K = last \/ Below(last, K)
        BY <2>4
      <4> QED
        BY <1>7, <2>1, <3>1, <4>1, KeysAreOrdered DEF Behind
    <3> QED
      BY <1>4, <2>4, <3>1
  <2>5. ASSUME K \in rest \ page, \A p \in 1..n : K \notin r.pages[p]
        PROVE  e.more /\ Behind(K, e.cursor) /\ \A p \in 1..(n + 1) : K \notin e.pages[p]
    <3>1. e.more
      BY <1>6, <1>8, <2>5
    <3>2. Below(K, last)
      BY <1>7, <2>5, <3>1 DEF IsPage
    <3> QED
      BY <1>4, <1>7, <1>10, <2>5, <3>1, <3>2 DEF Behind
  <2>6. n + 1 \in 1..(n + 1) /\ \A p \in 1..n : p \in 1..(n + 1)
    BY <1>1
  <2>7. IF e.more /\ Behind(K, e.cursor)
        THEN \A p \in 1..(n + 1) : K \notin e.pages[p]
        ELSE \E p \in 1..(n + 1) : K \in e.pages[p]
    BY <2>2, <2>3, <2>4, <2>5, <2>6
  <2> QED
    BY <2>7 DEF K
<1> QED
  BY <1>11, <1>12, <1>13, <1>14, <1>15 DEF ReadingIsWhole

LEMMA ListingStarts == PagesInit => ListingInduction
<1> SUFFICES ASSUME PagesInit PROVE ListingInduction
  OBVIOUS
<1>1. /\ rowsAt \in [Ids -> {0, 1}] /\ writing = [i \in Ids |-> 0] /\ moment = 1
      /\ shown = NoReading /\ fetch = NoFetch
  BY DEF PagesInit
<1>2. 1 \in Moments
  BY PagesAssumption DEF Moments
<1>3. <<>> \in Seq(SUBSET Key) /\ DOMAIN <<>> = {}
  BY EmptySeq
<1>4. NoReading \in Readings /\ NoReading.pages = <<>> /\ NoReading.settled = {} /\ NoReading.more
      /\ NoReading.cursor = NoCursor
  BY <1>3 DEF NoReading, Readings
<1>5. NoFetch \in [on : BOOLEAN, wanted : Nat, reading : Readings] /\ ~NoFetch.on /\ NoFetch.reading = NoReading
  BY <1>4 DEF NoFetch
<1>6. ListingTyped
  BY <1>1, <1>2, <1>4, <1>5 DEF ListingTyped
<1>7. ReadingIsWhole(NoReading)
  BY <1>3, <1>4, KeysAreOrdered DEF ReadingIsWhole, CursorIsLast, Descends, SettledStand, SettledAreFound
<1> QED
  BY <1>1, <1>5, <1>6, <1>7 DEF ListingInduction

\* A row is rewritten: the readings no longer vouch for it.
LEMMA RewritingKeeps ==
  ASSUME ListingTyped, NEW i \in Ids, NEW r \in Readings, ReadingIsWhole(r),
         NEW at \in Moments, rowsAt' = [rowsAt EXCEPT ![i] = at]
  PROVE  Without(r, i) \in Readings /\ Without(r, i).more = r.more
         /\ \A w \in Readings : w = Without(r, i) => ReadingIsWhole(w)'
<1>1. /\ Without(r, i) \in Readings /\ Without(r, i).pages = r.pages /\ Without(r, i).cursor = r.cursor
      /\ Without(r, i).more = r.more /\ Without(r, i).settled = r.settled \ {i}
  BY DEF Readings, Without
<1>2. \A j \in r.settled \ {i} : j \in Ids /\ rowsAt'[j] = rowsAt[j]
  BY DEF ListingTyped, Readings
<1>3. \A j \in r.settled \ {i} : KeyOf(j)' = KeyOf(j)
  BY <1>2 DEF KeyOf
<1>4. ASSUME NEW w \in Readings, w = Without(r, i) PROVE ReadingIsWhole(w)'
  <2>1. w.pages = r.pages /\ w.cursor = r.cursor /\ w.more = r.more /\ w.settled = r.settled \ {i}
    BY <1>1, <1>4
  <2>2. CursorIsLast(w)' /\ Descends(w)'
    BY <2>1 DEF ReadingIsWhole, CursorIsLast, Descends
  <2>3. SettledStand(w)'
    BY <1>2, <1>3, <2>1 DEF ReadingIsWhole, SettledStand
  <2>4. SettledAreFound(w)'
    BY <1>3, <2>1 DEF ReadingIsWhole, SettledAreFound
  <2> QED
    BY <2>2, <2>3, <2>4 DEF ReadingIsWhole
<1> QED
  BY <1>1, <1>4

\* What does not touch the table keeps every reading whole.
LEMMA ReadingsStand ==
  ASSUME rowsAt' = rowsAt
  PROVE  \A r \in Readings : ReadingIsWhole(r) => ReadingIsWhole(r)'
BY DEF ReadingIsWhole, CursorIsLast, Descends, SettledStand, SettledAreFound, KeyOf

LEMMA ListingSteps == ListingInduction /\ [PagesNext]_pagesVars => ListingInduction'
<1> SUFFICES ASSUME ListingInduction, [PagesNext]_pagesVars PROVE ListingInduction'
  OBVIOUS
<1>0. /\ rowsAt \in [Ids -> Moments \cup {0}] /\ writing \in [Ids -> Moments \cup {0}] /\ moment \in Moments
      /\ shown \in Readings /\ fetch \in [on : BOOLEAN, wanted : Nat, reading : Readings]
      /\ (fetch.on => fetch.reading.more) /\ fetch.reading \in Readings
      /\ ReadingIsWhole(shown) /\ ReadingIsWhole(fetch.reading) /\ ListingTyped
  BY DEF ListingInduction, ListingTyped
<1>1. NoReading \in Readings /\ NoReading.more /\ ReadingIsWhole(NoReading)
  <2>1. NoReading \in Readings /\ NoReading.pages = <<>> /\ NoReading.settled = {} /\ NoReading.more
        /\ NoReading.cursor = NoCursor
    BY EmptySeq DEF NoReading, Readings
  <2> QED
    BY <2>1, EmptySeq, KeysAreOrdered DEF ReadingIsWhole, CursorIsLast, Descends, SettledStand, SettledAreFound
<1>2. \A s \in Readings, f \in [on : BOOLEAN, wanted : Nat, reading : Readings] :
        /\ shown' = s /\ fetch' = f /\ rowsAt' = rowsAt /\ writing' \in [Ids -> Moments \cup {0}]
        /\ moment' \in Moments /\ (f.on => f.reading.more) /\ ReadingIsWhole(s) /\ ReadingIsWhole(f.reading)
        => ListingInduction'
  <2> SUFFICES ASSUME NEW s \in Readings, NEW f \in [on : BOOLEAN, wanted : Nat, reading : Readings],
                      shown' = s, fetch' = f, rowsAt' = rowsAt, writing' \in [Ids -> Moments \cup {0}],
                      moment' \in Moments, f.on => f.reading.more,
                      ReadingIsWhole(s), ReadingIsWhole(f.reading)
               PROVE  ListingInduction'
    OBVIOUS
  <2>1. f.reading \in Readings
    OBVIOUS
  <2>2. ReadingIsWhole(s)' /\ \A r \in Readings : r = f.reading => ReadingIsWhole(r)'
    BY <2>1, ReadingsStand
  <2>3. ListingTyped'
    BY <1>0 DEF ListingTyped
  <2>4. \A r \in Readings : ReadingIsWhole(r)' /\ r = shown' => ReadingIsWhole(shown)'
    BY DEF ReadingIsWhole, CursorIsLast, Descends, SettledStand, SettledAreFound, KeyOf
  <2>5. \A r \in Readings : ReadingIsWhole(r)' /\ r = fetch'.reading => ReadingIsWhole(fetch.reading)'
    BY DEF ReadingIsWhole, CursorIsLast, Descends, SettledStand, SettledAreFound, KeyOf
  <2> QED
    BY <2>1, <2>2, <2>3, <2>4, <2>5 DEF ListingInduction
<1>3. ASSUME NEW i \in Ids, BeginWrite(i) PROVE ListingInduction'
  BY <1>0, <1>2, <1>3 DEF BeginWrite
<1>4. ASSUME NEW i \in Ids, AbortWrite(i) PROVE ListingInduction'
  BY <1>0, <1>2, <1>4 DEF AbortWrite
<1>5. CASE PassMoment
  <2>1. moment' \in Moments
    BY <1>0, <1>5, PagesAssumption DEF PassMoment, Moments
  <2> QED
    BY <1>0, <1>2, <1>5, <2>1 DEF PassMoment
<1>6. ASSUME NEW i \in Ids, CommitWrite(i) PROVE ListingInduction'
  <2>1. /\ writing[i] \in Moments /\ rowsAt' = [rowsAt EXCEPT ![i] = writing[i]]
        /\ writing' \in [Ids -> Moments \cup {0}] /\ rowsAt' \in [Ids -> Moments \cup {0}]
        /\ moment' = moment
    BY <1>0, <1>6 DEF CommitWrite
  <2>2. PICK s \in Readings : s = Without(shown, i) /\ shown' = s /\ ReadingIsWhole(s)'
    BY <1>0, <1>6, <2>1, RewritingKeeps DEF CommitWrite
  <2>3. PICK r \in Readings : r = Without(fetch.reading, i) /\ ReadingIsWhole(r)' /\ r.more = fetch.reading.more
    BY <1>0, <2>1, RewritingKeeps, ZenonT(40)
  <2>4. fetch' \in [on : BOOLEAN, wanted : Nat, reading : Readings] /\ fetch'.on = fetch.on /\ fetch'.reading = r
    BY <1>0, <1>6, <2>3 DEF CommitWrite
  <2>5. ListingTyped'
    BY <1>0, <2>1, <2>2, <2>3, <2>4 DEF ListingTyped
  <2>6. \A w \in Readings : ReadingIsWhole(w)' /\ w = shown' => ReadingIsWhole(shown)'
    BY DEF ReadingIsWhole, CursorIsLast, Descends, SettledStand, SettledAreFound, KeyOf
  <2>7. \A w \in Readings : ReadingIsWhole(w)' /\ w = fetch'.reading => ReadingIsWhole(fetch.reading)'
    BY DEF ReadingIsWhole, CursorIsLast, Descends, SettledStand, SettledAreFound, KeyOf
  <2> QED
    BY <2>2, <2>3, <2>4, <2>5, <2>6, <2>7 DEF ListingInduction
<1>7. ASSUME NEW wanted \in Nat, NEW r \in Readings, r.more, ReadingIsWhole(r), Fetching(wanted, r)
      PROVE  ListingInduction'
  <2>1. PICK f : f = [on |-> TRUE, wanted |-> wanted, reading |-> r]
    OBVIOUS
  <2>2. f \in [on : BOOLEAN, wanted : Nat, reading : Readings] /\ f.reading = r /\ fetch' = f
    BY <1>7, <2>1 DEF Fetching
  <2> QED
    BY <1>0, <1>2, <1>7, <2>2 DEF Fetching
<1>8. CASE Reload
  <2>1. (IF shown.pages = <<>> THEN 1 ELSE Len(shown.pages)) \in Nat
    BY <1>0, LenProperties DEF Readings
  <2> QED
    BY <1>1, <1>7, <1>8, <2>1 DEF Reload
<1>9. CASE ShowMore
  <2>1. Len(shown.pages) + 1 \in Nat
    BY <1>0, LenProperties DEF Readings
  <2> QED
    BY <1>0, <1>7, <1>9, <2>1 DEF ShowMore
<1>10. NoFetch \in [on : BOOLEAN, wanted : Nat, reading : Readings] /\ ~NoFetch.on /\ NoFetch.reading = NoReading
  BY <1>1 DEF NoFetch
<1>11. CASE FetchFails
  BY <1>0, <1>1, <1>2, <1>10, <1>11 DEF FetchFails
<1>12. CASE ReadPage
  <2>1. /\ fetch.on /\ rowsAt' = rowsAt /\ writing' = writing /\ moment' = moment
    BY <1>12 DEF ReadPage
  <2>2. PICK rest \in {Rest(fetch.reading.cursor)} : \E page \in SUBSET rest : \E last \in page \cup {NoCursor} :
        /\ IsPage(page, rest)
        /\ page # {} => last \in page /\ \A k \in page : k = last \/ Below(last, k)
        /\ LET reading == Extended(fetch.reading, page, rest, last) IN
             IF reading.more /\ Len(reading.pages) < fetch.wanted
             THEN fetch' = [fetch EXCEPT !.reading = reading] /\ UNCHANGED shown
             ELSE shown' = reading /\ fetch' = NoFetch
    BY <1>12 DEF ReadPage
  <2>3. PICK page \in SUBSET rest : \E last \in page \cup {NoCursor} :
        /\ IsPage(page, rest)
        /\ page # {} => last \in page /\ \A k \in page : k = last \/ Below(last, k)
        /\ LET reading == Extended(fetch.reading, page, rest, last) IN
             IF reading.more /\ Len(reading.pages) < fetch.wanted
             THEN fetch' = [fetch EXCEPT !.reading = reading] /\ UNCHANGED shown
             ELSE shown' = reading /\ fetch' = NoFetch
    BY <2>2
  <2>4. PICK last \in page \cup {NoCursor} :
        /\ IsPage(page, rest)
        /\ page # {} => last \in page /\ \A k \in page : k = last \/ Below(last, k)
        /\ LET reading == Extended(fetch.reading, page, rest, last) IN
             IF reading.more /\ Len(reading.pages) < fetch.wanted
             THEN fetch' = [fetch EXCEPT !.reading = reading] /\ UNCHANGED shown
             ELSE shown' = reading /\ fetch' = NoFetch
    BY <2>3
  <2>5. PICK e : e = Extended(fetch.reading, page, rest, last)
    OBVIOUS
  <2>6. IF e.more /\ Len(e.pages) < fetch.wanted
         THEN fetch' = [fetch EXCEPT !.reading = e] /\ shown' = shown
         ELSE shown' = e /\ fetch' = NoFetch
    BY <2>4, <2>5
  <2>7. e \in Readings /\ ReadingIsWhole(e)
    BY <1>0, <2>1, <2>2, <2>3, <2>4, <2>5, ExtendedIsWhole
  <2>8. CASE e.more /\ Len(e.pages) < fetch.wanted
    <3>1. PICK f : f = [fetch EXCEPT !.reading = e]
      OBVIOUS
    <3>2. f \in [on : BOOLEAN, wanted : Nat, reading : Readings] /\ f.reading = e /\ fetch' = f /\ shown' = shown
      BY <1>0, <2>6, <2>7, <2>8, <3>1
    <3> QED
      BY <1>0, <1>2, <2>1, <2>7, <2>8, <3>2
  <2>9. CASE ~(e.more /\ Len(e.pages) < fetch.wanted)
    BY <1>0, <1>1, <1>2, <1>10, <2>1, <2>6, <2>7, <2>9
  <2> QED
    BY <2>8, <2>9
<1>13. CASE UNCHANGED pagesVars
  BY <1>0, <1>2, <1>13 DEF pagesVars
<1> QED
  BY <1>3, <1>4, <1>5, <1>6, <1>8, <1>9, <1>11, <1>12, <1>13 DEF PagesNext

LEMMA WholeReadingsAreWhole == ListingInduction => ListingsAreWhole
<1> SUFFICES ASSUME ListingInduction PROVE ListingsAreWhole
  OBVIOUS
<1>1. shown \in Readings /\ ReadingIsWhole(shown) /\ ListingTyped
  BY DEF ListingInduction, ListingTyped
<1>2. PagesDescend
  BY <1>1 DEF ReadingIsWhole, Descends, PagesDescend
<1>3. ASSUME NEW i \in shown.settled
      PROVE  LET on == {p \in DOMAIN shown.pages : \E k \in shown.pages[p] : k.id = i} IN
             IF shown.more /\ Behind(KeyOf(i), shown.cursor) THEN on = {}
             ELSE \E p \in on : on = {p} /\ KeyOf(i) \in shown.pages[p]
  <2> DEFINE on == {p \in DOMAIN shown.pages : \E k \in shown.pages[p] : k.id = i}
  <2>1. KeyOf(i).id = i
    BY DEF KeyOf
  <2>2. \A p \in DOMAIN shown.pages : p \in on <=> KeyOf(i) \in shown.pages[p]
    BY <1>1, <2>1 DEF ReadingIsWhole, SettledStand
  <2>3. KeyOf(i) \in Key
    BY <1>1 DEF ReadingIsWhole, SettledStand, ListingTyped, Readings, KeyOf, Key
  <2>4. ASSUME NEW p \in on, NEW q \in on PROVE p = q
    <3>1. p \in Nat /\ q \in Nat /\ p \in DOMAIN shown.pages /\ q \in DOMAIN shown.pages
          /\ KeyOf(i) \in shown.pages[p] /\ KeyOf(i) \in shown.pages[q]
      BY <1>1, <2>2, LenProperties DEF Readings
    <3>2. ~(p < q) /\ ~(q < p)
      BY <1>1, <2>3, <3>1, KeysAreOrdered DEF ReadingIsWhole, Descends
    <3> QED
      BY <3>1, <3>2
  <2>5. IF shown.more /\ Behind(KeyOf(i), shown.cursor)
        THEN \A p \in DOMAIN shown.pages : KeyOf(i) \notin shown.pages[p]
        ELSE \E p \in DOMAIN shown.pages : KeyOf(i) \in shown.pages[p]
    BY <1>1 DEF ReadingIsWhole, SettledAreFound
  <2>6. on \subseteq DOMAIN shown.pages
    OBVIOUS
  <2> HIDE DEF on
  <2>7. IF shown.more /\ Behind(KeyOf(i), shown.cursor) THEN on = {}
        ELSE \E p \in on : on = {p} /\ KeyOf(i) \in shown.pages[p]
    <3>1. CASE shown.more /\ Behind(KeyOf(i), shown.cursor)
      BY <2>2, <2>5, <2>6, <3>1
    <3>2. CASE ~(shown.more /\ Behind(KeyOf(i), shown.cursor))
      <4>1. PICK p \in DOMAIN shown.pages : KeyOf(i) \in shown.pages[p]
        BY <2>5, <3>2
      <4>2. p \in on /\ on = {p}
        BY <2>2, <2>4, <4>1
      <4> QED
        BY <3>2, <4>1, <4>2
    <3> QED
      BY <3>1, <3>2
  <2> QED
    BY <2>7 DEF on
<1> QED
  BY <1>2, <1>3 DEF ListingsAreWhole, SettledAreShownOnce

\* The audit of the catalogue ends at its rows, each achievement is offered once, and the listings
\* lose and repeat nothing, for any administrators, achievements, records, moments and page size
\* (admin/service.ts, admin/cursor.ts).
THEOREM AdministrationIsTrue == AdministrationSpec => []AuditIsTrue
<1>1. AdministrationInit => CatalogueInduction /\ ListingInduction
  BY CatalogueStarts, ListingStarts DEF AdministrationInit
<1>2. CatalogueInduction /\ ListingInduction /\ [AdministrationNext]_administrationVars
        => CatalogueInduction' /\ ListingInduction'
  <2>1. [AdministrationNext]_administrationVars => [CatalogueNext]_catalogueVars /\ [PagesNext]_pagesVars
    BY DEF AdministrationNext, administrationVars
  <2> QED
    BY <2>1, CatalogueSteps, ListingSteps
<1>3. CatalogueInduction /\ ListingInduction => AuditIsTrue
  BY WholeReadingsAreWhole DEF CatalogueInduction, CatalogueIsAudited, AuditIsTrue
<1> QED
  BY <1>1, <1>2, <1>3, PTL DEF AdministrationSpec
=============================================================================
