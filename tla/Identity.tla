------------------------------ MODULE Identity ------------------------------
(***************************************************************************)
(* Accounts, guests, their sessions and the claim that turns one into the  *)
(* other: identity/service.ts, identity/resolve.ts, guests/service.ts,     *)
(* admin/service.ts (moderation), admin/guard.ts, admin/grant.ts and the   *)
(* repositories under them.                                                *)
(*                                                                         *)
(* A request runs beside the others; each statement that another           *)
(* transaction can make wait, or overtake, is a step.  The database        *)
(* decides what is unique: an insert of a key that an open transaction has *)
(* inserted waits for that transaction.  Rows are locked from the first    *)
(* update to the end of the transaction; a cycle of waiting costs one of   *)
(* the transactions its life.  Time passes by sessions running out.        *)
(***************************************************************************)
EXTENDS Integers, Sequences, FiniteSets

CONSTANTS
  Users,      \* account ids not yet given away
  Guests,     \* guest ids; a guest also names the token it was issued
  Issued,     \* the other tokens that can be issued
  Applications,  \* what a sign-up form may hold: <<address, username>>
  Matches,
  Pairings,   \* who the queue may seat together: <<light, dark>>, Nobody for an account
  Requests,   \* slots for requests in flight
  Nobody,
  MaxEndings,  \* bound: sign-outs, sessions that run out, connections that close, crashes
  MaxRequests \* bound: requests that register, claim, sign in, verify, moderate or grant

Sides == {"light", "dark"}
Tokens == Guests \cup Issued
Roles == {"player", "admin"}

\* The rows of the tables.
UserRows == [email : {form[1] : form \in Applications}, name : {form[2] : form \in Applications},
             status : {"active", "suspended"}, role : Roles, verified : BOOLEAN]
SessionRows == [user : Users, is : {"live", "revoked", "expired"}]
GuestRows == [claimedBy : Users \cup {Nobody}, is : {"live", "expired"}]

\* Ids and tokens are told apart, and the absence of a row is none.
IdentityConstants ==
  /\ Users \cap Guests = {} /\ Guests \cap Issued = {}
  /\ Nobody \notin Users \cup Guests \cup UserRows \cup SessionRows \cup GuestRows
  /\ \A form \in Applications : form = <<form[1], form[2]>>

VARIABLES
  users,      \* table users: account -> row or Nobody
  mail,       \* table email_verification_tokens, one per account
  sessions,   \* table user_sessions: token -> row or Nobody
  guests,     \* table guest_sessions: guest -> row or Nobody
  seats,      \* match -> side -> who sits there
  audit,      \* table audit_records, in the order they were committed
  req,        \* request -> what it is doing
  sockets,    \* guests with a connection that authenticated as the guest
  history,    \* guest -> the seats it has taken (bookkeeping)
  answers,    \* account -> how often its address was answered as verified (bookkeeping)
  asked,      \* requests so far (bookkeeping)
  endings     \* sign-outs and endings so far (bookkeeping)

tables == <<users, mail, sessions, guests, seats, audit>>
vars == <<tables, req, sockets, history, answers, asked, endings>>

EmptySeats == [s \in Sides |-> Nobody]
Idle == [op |-> "none", at |-> "idle"]

Accounts == {u \in Users : users[u] # Nobody}

TypeOK ==
  /\ \A u \in Accounts : /\ <<users[u].email, users[u].name>> \in Applications
                         /\ users[u].status \in {"active", "suspended"}
                         /\ users[u].role \in Roles /\ users[u].verified \in BOOLEAN
  /\ mail \in [Users -> {"none", "unused", "consumed"}]
  /\ \A t \in Tokens : sessions[t] # Nobody =>
       sessions[t].user \in Accounts /\ sessions[t].is \in {"live", "revoked", "expired"}
  /\ \A g \in Guests : guests[g] # Nobody =>
       guests[g].claimedBy \in Accounts \cup {Nobody} /\ guests[g].is \in {"live", "expired"}
  /\ seats \in [Matches -> [Sides -> Users \cup Guests \cup {Nobody}]]
  /\ \A i \in DOMAIN audit : audit[i].target \in Accounts
  /\ \A r \in Requests : req[r].op \in {"none", "register", "claim", "sign-in", "verify", "moderate", "grant"}
  /\ sockets \subseteq Guests

Init ==
  /\ users = [u \in Users |-> Nobody]
  /\ mail = [u \in Users |-> "none"]
  /\ sessions = [t \in Tokens |-> Nobody]
  /\ guests = [g \in Guests |-> Nobody]
  /\ seats = [m \in Matches |-> EmptySeats]
  /\ audit = <<>>
  /\ req = [r \in Requests |-> Idle]
  /\ sockets = {}
  /\ history = [g \in Guests |-> {}]
  /\ answers = [u \in Users |-> 0]
  /\ asked = 0 /\ endings = 0

Begin(r, work) ==
  /\ req[r] = Idle /\ asked < MaxRequests
  /\ req' = [req EXCEPT ![r] = work] /\ asked' = asked + 1
Finish(r) == req' = [req EXCEPT ![r] = Idle]
End == endings < MaxEndings /\ endings' = endings + 1
At(r, op, at) == req[r].op = op /\ req[r].at = at

-----------------------------------------------------------------------------
(* Who a token is.                                                         *)

LiveSession(t) == sessions[t] # Nobody /\ sessions[t].is = "live"
LiveGuest(t) == t \in Guests /\ guests[t] # Nobody /\ guests[t].is = "live"

\* resolveIdentity: an account session first, a guest session second.
Resolve(t) ==
  IF LiveSession(t) THEN sessions[t].user ELSE IF LiveGuest(t) THEN t ELSE Nobody

CreateGuest(g) ==
  /\ guests[g] = Nobody
  /\ guests' = [guests EXCEPT ![g] = [claimedBy |-> Nobody, is |-> "live"]]
  /\ UNCHANGED <<users, mail, sessions, seats, audit, req, sockets, history, answers, asked, endings>>

\* A connection keeps the actor its handshake resolved.
Connect(g) ==
  /\ Resolve(g) = g
  /\ sockets' = sockets \cup {g}
  /\ UNCHANGED <<tables, req, history, answers, asked, endings>>

Disconnect(g) ==
  /\ g \in sockets /\ End
  /\ sockets' = sockets \ {g}
  /\ UNCHANGED <<tables, req, history, answers, asked>>

\* The queue seats connected guests in a new match (Matchmaking).
Seat(m, light, dark) ==
  /\ {light, dark} \subseteq sockets \cup {Nobody}
  /\ seats[m] = EmptySeats
  /\ seats' = [seats EXCEPT ![m] = [light |-> light, dark |-> dark]]
  /\ history' = [g \in Guests |-> history[g] \cup ({m} \X {s \in Sides : seats'[m][s] = g})]
  /\ UNCHANGED <<users, mail, sessions, guests, audit, req, sockets, answers, asked, endings>>

-----------------------------------------------------------------------------
(* Registering, and claiming a guest.                                      *)

BeginRegister(r, form) ==
  /\ Begin(r, [op |-> "register", at |-> "insert", email |-> form[1], name |-> form[2], user |-> Nobody])
  /\ UNCHANGED <<tables, sockets, history, answers, endings>>

\* The guest session that makes the request is the one being claimed.
BeginClaim(r, g, form) ==
  /\ Resolve(g) = g
  /\ Begin(r, [op |-> "claim", at |-> "insert", email |-> form[1], name |-> form[2], user |-> Nobody,
               guest |-> g, had |-> history[g], rows |-> {}, kept |-> {}])
  /\ UNCHANGED <<tables, sockets, history, answers, endings>>

Inserting(r) == req[r].op \in {"register", "claim"} /\ req[r].at = "insert"
Inserted(q) == req[q].op \in {"register", "claim"} /\ req[q].at # "insert"
Shares(row, r) == row.email = req[r].email \/ row.name = req[r].name
Pending == {req[q].user : q \in {p \in Requests : Inserted(p)}}

\* Mutant: the application looks for the key and inserts it after.
NeverWaits(r) == FALSE

\* Another transaction has inserted the address or the name and not ended yet.
WaitsForKey(r) == \E q \in Requests \ {r} : Inserted(q) /\ Shares(req[q], r)
Taken(r) == \E u \in Accounts : Shares(users[u], r)

InsertUser(r, u) ==
  /\ Inserting(r) /\ ~WaitsForKey(r) /\ ~Taken(r)
  /\ u \notin Accounts \cup Pending
  /\ req' = [req EXCEPT ![r].user = u,
                        ![r].at = IF req[r].op = "claim" THEN "guest" ELSE "commit"]
  /\ UNCHANGED <<tables, sockets, history, answers, asked, endings>>

\* uniqueUserConflict: the answer is email-taken or username-taken.
RefuseTaken(r) ==
  /\ Inserting(r) /\ ~WaitsForKey(r) /\ Taken(r)
  /\ Finish(r)
  /\ UNCHANGED <<tables, sockets, history, answers, asked, endings>>

HoldsGuest(q, g) == req[q].op = "claim" /\ req[q].guest = g /\ req[q].at \in {"light", "dark", "commit"}

\* Mutant: the update does not ask whether somebody claimed the guest before.
AlwaysUnclaimed(g) == TRUE

Unclaimed(g) == guests[g].claimedBy = Nobody

\* claimGuestSession: waits for the row, then takes it only if nobody has it;
\* the loser's transaction is rolled back whole (GuestAlreadyClaimedError).
ClaimGuestRow(r) ==
  /\ At(r, "claim", "guest")
  /\ \A q \in Requests \ {r} : ~HoldsGuest(q, req[r].guest)
  /\ IF Unclaimed(req[r].guest)
     THEN req' = [req EXCEPT ![r].at = "light"]
     ELSE Finish(r)
  /\ UNCHANGED <<tables, sockets, history, answers, asked, endings>>

SeatedAs(side, g) == {m \in Matches : seats[m][side] = g}
Holds(q) == IF req[q].op = "claim" THEN req[q].rows ELSE {}
MayLock(r, rows) == \A q \in Requests \ {r} : Holds(q) \cap rows = {}

DarkRows(r) == SeatedAs("dark", req[r].guest)

\* reassignMatchParticipation, one update for each side.
ReassignLight(r) ==
  /\ At(r, "claim", "light")
  /\ MayLock(r, SeatedAs("light", req[r].guest))
  /\ LET rows == SeatedAs("light", req[r].guest)
     IN  req' = [req EXCEPT ![r].rows = rows, ![r].kept = rows \X {"light"}, ![r].at = "dark"]
  /\ UNCHANGED <<tables, sockets, history, answers, asked, endings>>

ReassignDark(r) ==
  /\ At(r, "claim", "dark")
  /\ MayLock(r, SeatedAs("dark", req[r].guest))
  /\ req' = [req EXCEPT ![r].rows = @ \cup DarkRows(r), ![r].kept = @ \cup (DarkRows(r) \X {"dark"}),
                        ![r].at = "commit"]
  /\ UNCHANGED <<tables, sockets, history, answers, asked, endings>>

\* Two claims that each wait for a match the other has rewritten: the database
\* aborts one, and its error is none the route knows.
WaitsFor(r, q) ==
  At(r, "claim", "dark") /\ Holds(q) \cap SeatedAs("dark", req[r].guest) # {}

BreakDeadlock(r) ==
  /\ \E q \in Requests \ {r} : WaitsFor(r, q) /\ WaitsFor(q, r)
  /\ Finish(r)
  /\ UNCHANGED <<tables, sockets, history, answers, asked, endings>>

NewUser(r) ==
  [email |-> req[r].email, name |-> req[r].name, status |-> "active", role |-> "player",
   verified |-> FALSE]
Opened(u) == [user |-> u, is |-> "live"]

\* The guest's token becomes an account session beside the new one.
ClaimedSessions(r, t) ==
  [sessions EXCEPT ![t] = Opened(req[r].user), ![req[r].guest] = Opened(req[r].user)]

CommitRegister(r, t) ==
  /\ At(r, "register", "commit") /\ t \in Issued /\ sessions[t] = Nobody
  /\ users' = [users EXCEPT ![req[r].user] = NewUser(r)]
  /\ sessions' = [sessions EXCEPT ![t] = Opened(req[r].user)]
  /\ mail' = [mail EXCEPT ![req[r].user] = "unused"]
  /\ Finish(r)
  /\ UNCHANGED <<guests, seats, audit, sockets, history, answers, asked, endings>>

CommitClaim(r, t) ==
  /\ At(r, "claim", "commit") /\ t \in Issued /\ sessions[t] = Nobody
  /\ users' = [users EXCEPT ![req[r].user] = NewUser(r)]
  /\ guests' = [guests EXCEPT ![req[r].guest].claimedBy = req[r].user]
  /\ seats' = [m \in Matches |-> [s \in Sides |->
                 IF <<m, s>> \in req[r].kept THEN req[r].user ELSE seats[m][s]]]
  /\ sessions' = ClaimedSessions(r, t)
  /\ mail' = [mail EXCEPT ![req[r].user] = "unused"]
  /\ Finish(r)
  /\ UNCHANGED <<audit, sockets, history, answers, asked, endings>>

-----------------------------------------------------------------------------
(* Signing in and out, and the verification link.                          *)

\* The row is read; a suspended account is refused once its password was right.
BeginSignIn(r, u) ==
  /\ u \in Accounts /\ users[u].status = "active"
  /\ Begin(r, [op |-> "sign-in", at |-> "open", user |-> u])
  /\ UNCHANGED <<tables, sockets, history, answers, endings>>

\* touchUser takes whatever status the row has by now.
OpenSession(r, t) ==
  /\ At(r, "sign-in", "open") /\ t \in Issued /\ sessions[t] = Nobody
  /\ sessions' = [sessions EXCEPT ![t] = Opened(req[r].user)]
  /\ Finish(r)
  /\ UNCHANGED <<users, mail, guests, seats, audit, sockets, history, answers, asked, endings>>

\* The token that asks is the session that ends.
SignOut(t) ==
  /\ Resolve(t) \in Users
  /\ End
  /\ sessions' = [sessions EXCEPT ![t].is = "revoked"]
  /\ UNCHANGED <<users, mail, guests, seats, audit, req, sockets, history, answers, asked>>

BeginVerify(r, u) ==
  /\ mail[u] = "unused"
  /\ Begin(r, [op |-> "verify", at |-> "consume", user |-> u])
  /\ UNCHANGED <<tables, sockets, history, answers, endings>>

\* consumeEmailVerificationToken is conditional on the token being unused.
StillUnused(u) == mail[u] = "unused"

Verify(r) ==
  /\ At(r, "verify", "consume")
  /\ LET u == req[r].user
     IN  IF StillUnused(u)
         THEN /\ mail' = [mail EXCEPT ![u] = "consumed"]
              /\ users' = [users EXCEPT ![u].verified = TRUE]
              /\ answers' = [answers EXCEPT ![u] = @ + 1]
         ELSE UNCHANGED <<mail, users, answers>>
  /\ Finish(r)
  /\ UNCHANGED <<sessions, guests, seats, audit, sockets, history, asked, endings>>

-----------------------------------------------------------------------------
(* Moderation and roles.                                                   *)

IsAdmin(a) == a \in Accounts /\ users[a].role = "admin" /\ users[a].status = "active"

\* requireAdmin, then the account as the service reads it before its transaction.
BeginModerate(r, t, u, status) ==
  /\ IsAdmin(Resolve(t)) /\ u \in Accounts
  /\ Begin(r, [op |-> "moderate", at |-> "commit", user |-> u, to |-> status])
  /\ UNCHANGED <<tables, sockets, history, answers, endings>>

\* From the console; who already holds the role is left alone.
BeginGrant(r, u, role) ==
  /\ u \in Accounts /\ users[u].role # role
  /\ Begin(r, [op |-> "grant", at |-> "commit", user |-> u, to |-> role])
  /\ UNCHANGED <<tables, sockets, history, answers, endings>>

\* Mutant: only the sessions issued by the account's own sign-ins are revoked.
RevokeIssued(u) ==
  [t \in Tokens |-> IF t \in Issued /\ LiveSession(t) /\ sessions[t].user = u
                    THEN [sessions[t] EXCEPT !.is = "revoked"] ELSE sessions[t]]

\* revokeUserSessions: every session not revoked yet, the expired ones too.
RevokeAll(u) ==
  [t \in Tokens |-> IF sessions[t] # Nobody /\ sessions[t].user = u
                    THEN [sessions[t] EXCEPT !.is = "revoked"] ELSE sessions[t]]

Rewritten(u, field, to) == [users EXCEPT ![u] = [f \in DOMAIN @ |-> IF f = field THEN to ELSE @[f]]]

Record(u, field, to) == Append(audit, [target |-> u, field |-> field, after |-> to])

\* The change, the revocation and the audit record commit together; the row is
\* locked from the change on, so the records of one account are in its order.
Moderate(r) ==
  /\ At(r, "moderate", "commit")
  /\ LET u == req[r].user
     IN  /\ users' = Rewritten(u, "status", req[r].to)
         /\ sessions' = IF req[r].to = "suspended" THEN RevokeAll(u) ELSE sessions
         /\ audit' = Record(u, "status", req[r].to)
  /\ Finish(r)
  /\ UNCHANGED <<mail, guests, seats, sockets, history, answers, asked, endings>>

Grant(r) ==
  /\ At(r, "grant", "commit")
  /\ users' = Rewritten(req[r].user, "role", req[r].to)
  /\ audit' = Record(req[r].user, "role", req[r].to)
  /\ Finish(r)
  /\ UNCHANGED <<mail, sessions, guests, seats, sockets, history, answers, asked, endings>>

-----------------------------------------------------------------------------
(* What only time and failure do.                                          *)

\* A link that has run out is refused, which changes nothing.
Expire ==
  /\ End
  /\ \/ \E t \in Tokens : /\ LiveSession(t)
                          /\ sessions' = [sessions EXCEPT ![t].is = "expired"]
                          /\ UNCHANGED guests
     \/ \E g \in Guests : /\ LiveGuest(g)
                          /\ guests' = [guests EXCEPT ![g].is = "expired"]
                          /\ UNCHANGED sessions
  /\ UNCHANGED <<users, mail, seats, audit, req, sockets, history, answers, asked>>

\* A crash ends every connection and every transaction that has not committed.
Restart ==
  /\ End
  /\ req' = [r \in Requests |-> Idle] /\ sockets' = {}
  /\ UNCHANGED <<tables, history, answers, asked>>

Next ==
  \/ \E g \in Guests : CreateGuest(g) \/ Connect(g) \/ Disconnect(g)
  \/ \E m \in Matches, pair \in Pairings : Seat(m, pair[1], pair[2])
  \/ \E r \in Requests, form \in Applications :
       BeginRegister(r, form) \/ \E g \in Guests : BeginClaim(r, g, form)
  \/ \E r \in Requests, u \in Users :
       \/ InsertUser(r, u) \/ BeginSignIn(r, u) \/ BeginVerify(r, u)
       \/ \E role \in Roles : BeginGrant(r, u, role)
       \/ \E t \in Tokens, status \in {"active", "suspended"} : BeginModerate(r, t, u, status)
  \/ \E r \in Requests :
       \/ RefuseTaken(r) \/ ClaimGuestRow(r) \/ ReassignLight(r) \/ ReassignDark(r)
       \/ BreakDeadlock(r) \/ Verify(r) \/ Moderate(r) \/ Grant(r)
       \/ \E t \in Issued : CommitRegister(r, t) \/ CommitClaim(r, t) \/ OpenSession(r, t)
  \/ \E t \in Tokens : SignOut(t)
  \/ Expire \/ Restart

Spec == Init /\ [][Next]_vars

-----------------------------------------------------------------------------

\* Whatever races, each account is complete, alone has its address and its name,
\* and was made of one guest at most (register and claimGuest).
AccountsAreWhole ==
  \A u \in Accounts :
    /\ mail[u] # "none"
    /\ \E t \in Tokens : sessions[t] # Nobody /\ sessions[t].user = u
    /\ \A v \in Accounts \ {u} : users[u].email # users[v].email /\ users[u].name # users[v].name
    /\ Cardinality({g \in Guests : guests[g] # Nobody /\ guests[g].claimedBy = u}) <= 1

\* What a guest has played is its own or the claimant's, never another account's:
\* two claims of one guest cannot divide its history (claimGuestSession's condition).
HistoryIsNotDivided ==
  \A g \in Guests : \A seat \in history[g] :
    seats[seat[1]][seat[2]] \in {g, guests[g].claimedBy}

\* A claim about to commit has rewritten every seat the guest had when it asked,
\* whichever the side and whatever was seated meanwhile (reassignMatchParticipation).
NothingLeftBehind ==
  \A r \in Requests : At(r, "claim", "commit") => req[r].had \subseteq req[r].kept

\* The token of a claimed guest is a session of the account that has its history,
\* and is that account until the session ends (claimGuest with resolveIdentity).
ClaimedTokenPlaysOn ==
  \A g \in Guests : (guests[g] # Nobody /\ guests[g].claimedBy # Nobody) =>
    /\ sessions[g] # Nobody /\ sessions[g].user = guests[g].claimedBy
    /\ sessions[g].is = "live" => Resolve(g) = guests[g].claimedBy

\* One opening of a verification link is answered with success, however many run
\* at once, and an address is verified exactly when one was (verifyEmail).
VerifiedOnce ==
  \A u \in Accounts :
    /\ answers[u] <= 1
    /\ users[u].verified <=> answers[u] = 1
    /\ users[u].verified <=> mail[u] = "consumed"

\* The last audit record about an account says what its row says, whichever
\* administrators worked at the same time (moderate, grantRoleByUsername).
AuditTellsTheRow ==
  \A i \in DOMAIN audit :
    (\A j \in DOMAIN audit : j > i => <<audit[j].target, audit[j].field>> # <<audit[i].target, audit[i].field>>)
      => users[audit[i].target][audit[i].field] = audit[i].after

\* The step that suspends an account leaves none of its sessions usable, the one
\* on the token of the guest it was included (suspend).
SuspensionEndsSessions ==
  [][\A u \in Accounts :
       users[u].status = "active" /\ users'[u].status = "suspended" =>
         \A t \in Tokens : LiveSession(t)' => sessions'[t].user # u]_vars

\* The rows of an account agree with each other: its name, its session and its link are
\* there with it, one opening of the link verified it, and its last audit record is true
\* (register, claimGuest, verifyEmail, moderate, grantRoleByUsername).
RowsAgree == TypeOK /\ AccountsAreWhole /\ VerifiedOnce /\ AuditTellsTheRow

\* A guest that is claimed becomes one account with all it has played and the token it
\* played with, whoever else asked for it and whatever was seated meanwhile (claimGuest).
ClaimsAreWhole == HistoryIsNotDivided /\ NothingLeftBehind /\ ClaimedTokenPlaysOn
=============================================================================
