---------------------------- MODULE AccountPages ----------------------------
(***************************************************************************)
(* What the web client shows of an account: the cached answers of its      *)
(* queries (api/queries.ts, api/provider.tsx), when they are dropped, and  *)
(* the profile form that writes back (screens/ProfileScreen.tsx,           *)
(* routes/me.ts, identity/service.ts, repositories/users.ts).              *)
(*                                                                         *)
(* The cache is that of the query library, as the client's code uses it: a *)
(* query that some screen shows is fetched when it has no valid copy, an   *)
(* invalidation marks the copy and fetches again, and clear() forgets      *)
(* copies and fetches alike.  A request is served, lost on its way there   *)
(* or lost on its way back.                                                *)
(***************************************************************************)
EXTENDS Integers, FiniteSets

CONSTANTS
  Users, Tabs, SignedOut,
  Keys,       \* of "me", "history", "leaderboards", "adminUser": the queries that are followed
  Fields,     \* the settings of a profile the form edits
  Values,     \* what may be typed or switched in a field
  Acceptable, \* the values the server's schema lets through
  Blank,      \* what a new account's profile holds
  MaxActs     \* bound: what people do, on any tab or elsewhere

\* ["me", "matches"] begins with ["me"], and ["admin", "user", id] with ["admin"].
Under(prefix) ==
  IF prefix = "me" THEN {"me", "history"} ELSE IF prefix = "admin" THEN {"adminUser"} ELSE {prefix}

\* What each page asks for; the shell around every page asks for "me" (useAdminAccess).
Pages == {"home", "profile"} \cup (Keys \ {"me"})
Shown(page) == {"me"} \cup (Keys \cap {page})

VARIABLES
  profile,   \* table profiles: account -> field -> value
  version,   \* account -> how often a match, a verification or a moderator changed it
  session,   \* tab -> the account it is signed in as, or SignedOut
  page,      \* tab -> the page it is on
  cache,     \* tab -> key -> a copy, or Nothing
  fetch,     \* tab -> key -> a request in flight, or Nothing
  draft,     \* tab -> the fields the form holds apart from the stored ones
  save,      \* tab -> the PATCH in flight, or Nothing
  said,      \* tab -> what the form says of its last save
  leaving,   \* tab -> the sign-outs on their way
  news,      \* tab -> the changes it has heard of and not handled: <<kind, account>>
  touched,   \* tab -> the fields its player changed in this form (bookkeeping)
  known,     \* tab -> key -> the versions its copy may not lag behind (bookkeeping)
  acts       \* how much people did (bookkeeping)

accounts == <<profile, version>>
queries == <<cache, fetch>>
form == <<draft, save, said, touched>>
pageVars == <<accounts, session, page, queries, form, leaving, news, known, acts>>

Nothing == [kind |-> "nothing"]
Kinds == {"ended", "verified", "moderated"}
NoneKnown == [k \in Keys |-> [a \in Users |-> 0]]
NoCopies == [k \in Keys |-> Nothing]
EmptyDraft == [f \in {} |-> Blank]

\* Draft fields win over stored ones: setDraft((current) => ({ ...current, [field]: value })).
With(d, f, v) == [g \in DOMAIN d \cup {f} |-> IF g = f THEN v ELSE d[g]]

\* The shapes of two answers: MeResponse, which is an object of objects, and ProfileSettings.
MeShape == {"account", "profile", "casual", "ranked", "rank"}

\* The settings of a profile are not what the answer about an account is made of.
PagesConstants == Blank \in Values /\ MaxActs \in Nat /\ Fields # MeShape

\* A tab has just been loaded.
PagesInit ==
  /\ profile = [a \in Users |-> [f \in Fields |-> Blank]]
  /\ version = [a \in Users |-> 0]
  /\ session \in [Tabs -> Users \cup {SignedOut}]  \* what the browser stored
  /\ page \in [Tabs -> Pages]                      \* the address it was opened with
  /\ cache = [t \in Tabs |-> NoCopies] /\ fetch = [t \in Tabs |-> NoCopies]
  /\ draft = [t \in Tabs |-> EmptyDraft] /\ save = [t \in Tabs |-> Nothing]
  /\ said = [t \in Tabs |-> "nothing"]
  /\ leaving = [t \in Tabs |-> 0] /\ news = [t \in Tabs |-> {}]
  /\ touched = [t \in Tabs |-> {}] /\ known = [t \in Tabs |-> NoneKnown]
  /\ acts = 0

Copies == [kind : {"copy"}, of : Users, version : [Users -> 0..MaxActs],
           profile : [Fields -> Values], invalid : BOOLEAN]
Fetches == [kind : {"sent"}, of : Users, failures : 0..2]
           \cup [kind : {"served"}, of : Users, failures : 0..2, answer : Copies]

PagesTypeOK ==
  /\ profile \in [Users -> [Fields -> Values]]
  /\ version \in [Users -> 0..MaxActs]
  /\ session \in [Tabs -> Users \cup {SignedOut}]
  /\ page \in [Tabs -> Pages]
  /\ \A t \in Tabs, k \in Keys : /\ cache[t][k] = Nothing \/ cache[t][k] \in Copies
                                 /\ fetch[t][k] = Nothing \/ fetch[t][k] \in Fetches
                                 /\ fetch[t][k] # Nothing => k \in Shown(page[t])
  /\ \A t \in Tabs : /\ DOMAIN draft[t] \subseteq Fields
                     /\ draft[t] # EmptyDraft => page[t] = "profile"
                     /\ news[t] \subseteq Kinds \X Users
  /\ said \in [Tabs -> {"nothing", "saved", "failed"}]
  /\ leaving \in [Tabs -> 0..MaxActs] /\ acts \in 0..MaxActs

Act == acts < MaxActs /\ acts' = acts + 1

-----------------------------------------------------------------------------
(* Queries. *)

\* What a request for the key answers now.  One read of one account, or of everybody.
Read(k, a) ==
  [kind |-> "copy", of |-> a, invalid |-> FALSE, version |-> version, profile |-> profile[a]]

Valid(t, k) == cache[t][k] # Nothing /\ ~cache[t][k].invalid

\* A query that is shown and has no valid copy, or one older than its stale time, is fetched
\* when it is shown, when it is invalidated and when the page is opened again.
StartFetch(t, k) ==
  /\ session[t] # SignedOut /\ k \in Shown(page[t]) /\ fetch[t][k] = Nothing
  /\ ~Valid(t, k)
  /\ fetch' = [fetch EXCEPT ![t][k] = [kind |-> "sent", of |-> session[t], failures |-> 0]]
  /\ UNCHANGED <<accounts, session, page, cache, form, leaving, news, known, acts>>

ServeFetch(t, k) ==
  LET r == fetch[t][k]
  IN  /\ r.kind = "sent"
      /\ fetch' = [fetch EXCEPT ![t][k] =
           [kind |-> "served", of |-> r.of, failures |-> r.failures, answer |-> Read(k, r.of)]]
      /\ UNCHANGED <<accounts, session, page, cache, form, leaving, news, known, acts>>

FetchLands(t, k) ==
  /\ fetch[t][k].kind = "served"
  /\ cache' = [cache EXCEPT ![t][k] = fetch[t][k].answer]
  /\ fetch' = [fetch EXCEPT ![t][k] = Nothing]
  /\ UNCHANGED <<accounts, session, page, form, leaving, news, known, acts>>

\* A request that fails is sent again twice, and then given up: an error is shown, and
\* the copy that was there stays.
FetchFails(t, k) ==
  LET r == fetch[t][k]
  IN  /\ r # Nothing
      /\ Act
      /\ fetch' = [fetch EXCEPT ![t][k] =
           IF r.failures = 2 THEN Nothing
           ELSE [kind |-> "sent", of |-> r.of, failures |-> r.failures + 1]]
      /\ UNCHANGED <<accounts, session, page, cache, form, leaving, news, known>>

\* invalidateQueries: copies are marked; a fetch that would replace one is cancelled and begun
\* again, while the first load of a query goes on.
Invalidated(t, keys) ==
  /\ cache' = [cache EXCEPT ![t] = [k \in Keys |->
       IF k \in keys /\ @[k] # Nothing THEN [@[k] EXCEPT !.invalid = TRUE] ELSE @[k]]]
  /\ fetch' = [fetch EXCEPT ![t] = [k \in Keys |->
       IF k \in keys /\ cache[t][k] # Nothing THEN Nothing ELSE @[k]]]

-----------------------------------------------------------------------------
(* What changes an account, and what a tab hears of it. *)

\* A match of the account ends, or its address is verified, or a moderator acts on it.
Changes(a, kind) ==
  /\ Act
  /\ version' = [version EXCEPT ![a] = @ + 1]
  /\ \E hearers \in SUBSET {t \in Tabs : IF kind = "moderated" THEN page[t] = "adminUser"
                                          ELSE session[t] = a} :
       news' = [t \in Tabs |-> IF t \in hearers THEN news[t] \cup {<<kind, a>>} ELSE news[t]]
  /\ UNCHANGED <<profile, session, page, queries, form, leaving, known>>

CompletedMatchQueryKeys == {"me", "history", "leaderboards"}

Dropped(kind) ==
  CASE kind = "ended"     -> UNION {Under(k) : k \in CompletedMatchQueryKeys}
    [] kind = "verified"  -> Under("me")
    [] kind = "moderated" -> Under("admin")

\* The keys whose answers such a change alters for the reader who heard of it.
Altered(kind) ==
  CASE kind = "ended"     -> {"me", "history", "leaderboards"}
    [] kind = "verified"  -> {"me"}
    [] kind = "moderated" -> {"adminUser"}

\* match:ended reaches the match page, or the answer of its own request reaches the page
\* that verified the address or that moderates.
Hears(t, change) ==
  /\ change \in news[t]
  /\ news' = [news EXCEPT ![t] = @ \ {change}]
  /\ Invalidated(t, Dropped(change[1]))
  /\ known' = [known EXCEPT ![t] = [k \in Keys |->
       IF k \in Altered(change[1]) /\ cache[t][k] # Nothing
       THEN [@[k] EXCEPT ![change[2]] = version[change[2]]] ELSE @[k]]]
  /\ UNCHANGED <<accounts, session, page, form, leaving, acts>>

-----------------------------------------------------------------------------
(* Pages and sessions. *)

\* The form goes with its page; a save it has sent goes on without it.
Leave(t, p) ==
  /\ page' = [page EXCEPT ![t] = p]
  /\ draft' = [draft EXCEPT ![t] = EmptyDraft] /\ touched' = [touched EXCEPT ![t] = {}]
  /\ said' = [said EXCEPT ![t] = "nothing"]
  /\ save' = [save EXCEPT ![t] = IF @ = Nothing THEN @ ELSE [@ EXCEPT !.watched = FALSE]]

\* A query nobody shows any more has its request aborted.
Opens(t, p) ==
  /\ Act /\ session[t] # SignedOut /\ p # page[t]
  /\ Leave(t, p)
  /\ fetch' = [fetch EXCEPT ![t] = [k \in Keys |-> IF k \in Shown(p) THEN @[k] ELSE Nothing]]
  \* A copy older than the stale time is fetched again although nothing invalidated it.
  /\ \E aged \in SUBSET Shown(p) :
       cache' = [cache EXCEPT ![t] = [k \in Keys |->
         IF k \in aged /\ @[k] # Nothing THEN [@[k] EXCEPT !.invalid = TRUE] ELSE @[k]]]
  /\ UNCHANGED <<accounts, session, leaving, news, known>>

\* Mutant: what is in flight is left to land.
ClearCopies(t) ==
  /\ cache' = [cache EXCEPT ![t] = NoCopies] /\ UNCHANGED fetch
  /\ known' = [known EXCEPT ![t] = NoneKnown]

\* queryClient.clear().
Clear(t) ==
  /\ cache' = [cache EXCEPT ![t] = NoCopies] /\ fetch' = [fetch EXCEPT ![t] = NoCopies]
  /\ known' = [known EXCEPT ![t] = NoneKnown]

\* The answer of a sign-in, a registration or a claim: the session is stored and every query
\* forgotten.  Whoever was signed in before is not signed out.
SignedIn(t, a) ==
  /\ Act
  /\ session' = [session EXCEPT ![t] = a]
  /\ news' = [news EXCEPT ![t] = {}]
  /\ Clear(t) /\ Leave(t, "home")
  /\ UNCHANGED <<accounts, leaving>>

SignOutPressed(t) ==
  /\ Act /\ session[t] # SignedOut
  /\ leaving' = [leaving EXCEPT ![t] = @ + 1]
  /\ UNCHANGED <<accounts, session, page, queries, form, news, known>>

\* Whatever the server answered; and whoever is signed in by now.
SignOutSettles(t) ==
  /\ leaving[t] > 0
  /\ leaving' = [leaving EXCEPT ![t] = @ - 1]
  /\ session' = [session EXCEPT ![t] = SignedOut]
  /\ news' = [news EXCEPT ![t] = {}]
  /\ Clear(t) /\ Leave(t, "home")
  /\ UNCHANGED <<accounts, acts>>

-----------------------------------------------------------------------------
(* The profile form. *)

\* The form is drawn once "me" has a copy; a field is changed in the draft alone.
Edit(t, f, v) ==
  /\ Act /\ session[t] # SignedOut /\ page[t] = "profile" /\ cache[t]["me"] # Nothing
  /\ draft' = [draft EXCEPT ![t] = With(@, f, v)]
  /\ touched' = [touched EXCEPT ![t] = @ \cup {f}]
  /\ UNCHANGED <<accounts, session, page, queries, save, said, leaving, news, known>>

\* What the form sends.
Patch(t) == draft[t]

SavePressed(t) ==
  /\ session[t] # SignedOut /\ draft[t] # EmptyDraft /\ save[t] = Nothing
  /\ save' = [save EXCEPT ![t] =
       [kind |-> "sent", of |-> session[t], watched |-> TRUE, patch |-> Patch(t),
        touched |-> touched[t]]]
  /\ said' = [said EXCEPT ![t] = "nothing"]
  /\ UNCHANGED <<accounts, session, page, queries, draft, leaving, news, touched, known, acts>>

\* Mutant: a field that is absent is reset.
WrittenWhole(row, patch) == [f \in Fields |-> IF f \in DOMAIN patch THEN patch[f] ELSE Blank]

\* updateProfile writes the fields that are present, and answers the profile's settings.
Written(row, patch) == [f \in Fields |-> IF f \in DOMAIN patch THEN patch[f] ELSE row[f]]

SaveStored(t) ==
  LET s == save[t]
      row == Written(profile[s.of], s.patch)
  IN  /\ s.kind = "sent" /\ \A f \in DOMAIN s.patch : s.patch[f] \in Acceptable
      /\ profile' = [profile EXCEPT ![s.of] = row]
      /\ save' = [save EXCEPT ![t] = [kind |-> "stored", of |-> s.of, watched |-> s.watched, answer |-> row]]
      /\ UNCHANGED <<version, session, page, queries, draft, said, leaving, news, touched, known, acts>>

SaveRefused(t) ==
  /\ save[t].kind = "sent" /\ \E f \in DOMAIN save[t].patch : save[t].patch[f] \notin Acceptable
  /\ save' = [save EXCEPT ![t] = [kind |-> "refused", of |-> save[t].of, watched |-> save[t].watched]]
  /\ UNCHANGED <<accounts, session, page, queries, draft, said, leaving, news, touched, known, acts>>

\* The strict schema the client reads an answer with.
Parses(answer) == DOMAIN answer = MeShape

\* onSuccess puts the answer into the cache and empties the draft; on an error the draft stays.
SaveSettles(t) ==
  LET s == save[t]
      good == s.kind = "stored" /\ Parses(s.answer)
  IN  /\ s.kind \in {"stored", "refused"}
      /\ save' = [save EXCEPT ![t] = Nothing]
      /\ said' = [said EXCEPT ![t] = IF ~s.watched THEN @ ELSE IF good THEN "saved" ELSE "failed"]
      /\ draft' = [draft EXCEPT ![t] = IF s.watched /\ good THEN EmptyDraft ELSE @]
      /\ touched' = [touched EXCEPT ![t] = IF s.watched /\ good THEN {} ELSE @]
      /\ cache' = [cache EXCEPT ![t]["me"] =
           IF good THEN [Read("me", s.of) EXCEPT !.profile = s.answer.profile] ELSE @]
      /\ UNCHANGED <<accounts, session, page, fetch, leaving, news, known, acts>>

\* Lost on the way there, or the answer on the way back: mutations are not tried again.
SaveLost(t) ==
  /\ save[t] # Nothing /\ Act
  /\ save' = [save EXCEPT ![t] = Nothing]
  /\ said' = [said EXCEPT ![t] = IF save[t].watched THEN "failed" ELSE @]
  /\ UNCHANGED <<accounts, session, page, queries, draft, leaving, news, touched, known>>

QuerySteps(t) ==
  \E k \in Keys : StartFetch(t, k) \/ ServeFetch(t, k) \/ FetchLands(t, k) \/ FetchFails(t, k)

FormSteps(t) ==
  \/ \E f \in Fields, v \in Values : Edit(t, f, v)
  \/ SavePressed(t) \/ SaveStored(t) \/ SaveRefused(t) \/ SaveSettles(t) \/ SaveLost(t)

PageSteps(t) ==
  \/ \E change \in news[t] : Hears(t, change)
  \/ \E p \in Pages : Opens(t, p)
  \/ \E a \in Users : SignedIn(t, a)
  \/ SignOutPressed(t) \/ SignOutSettles(t)

PagesNext ==
  \/ \E a \in Users, kind \in Kinds : Changes(a, kind)
  \/ \E t \in Tabs : QuerySteps(t) \/ FormSteps(t) \/ PageSteps(t)

PagesSpec == PagesInit /\ [][PagesNext]_pageVars

-----------------------------------------------------------------------------
(* Properties. *)

\* A tab shows, and is waiting for, only what was read as the account it is signed in as,
\* whatever was in flight when the session changed (SignInScreen.tsx and AppShell.tsx).
CacheIsOwn ==
  \A t \in Tabs, k \in Keys : /\ cache[t][k] # Nothing => cache[t][k].of = session[t]
                              /\ fetch[t][k] # Nothing => fetch[t][k].of = session[t]

\* A copy the client takes for valid is not older than a change the tab has handled the news of
\* (queries.ts: "the cached copies are dropped rather than patched").  Only a copy that was there
\* is held to it: a first load in flight lands as it was read.
CopiesKeepUp ==
  \A t \in Tabs, k \in Keys :
    Valid(t, k) =>
      \A a \in Users : cache[t][k].version[a] >= known[t][k][a]

\* A stored field changes only to the value of a save whose player had changed that field: what
\* another device set in the others stands, however old the form is (ProfileScreen.tsx).
OnlyTouchedFieldsChange ==
  [][\A a \in Users, f \in Fields :
       profile'[a][f] # profile[a][f] =>
         \E t \in Tabs : /\ save[t].kind = "sent" /\ save[t].of = a
                         /\ f \in save[t].touched]_pageVars

\* A save the server has stored, and whose answer arrived, is shown as saved.
SavedIsSaid ==
  [][\A t \in Tabs :
       save[t].kind = "stored" /\ save[t].watched /\ SaveSettles(t) => said'[t] = "saved"]_pageVars

\* What a tab shows of an account is the account it is signed in as, and no older than the
\* news it has heard of it (api/queries.ts, api/provider.tsx).
CacheIsTrue == PagesTypeOK /\ CacheIsOwn /\ CopiesKeepUp
=============================================================================
