---------------------------- MODULE ScreenProofs ----------------------------
(***************************************************************************)
(* Proofs about what the web client shows.  AccountPages, for any accounts, *)
(* tabs, queries and fields: a cell is what one tab holds of one query, its *)
(* copy, its request in flight and how new the copy has to be.              *)
(* MatchSession, for any moves and number of versions: what the screen      *)
(* holds, is told and waits for is a prefix of the match.                   *)
(***************************************************************************)
EXTENDS AccountPages, MatchSession, SequenceTheorems, TLAPS

Drafts == UNION {[fields -> Values] : fields \in SUBSET Fields}
Saves == [kind : {"sent"}, of : Users, watched : BOOLEAN, patch : Drafts, touched : SUBSET Fields]
         \cup [kind : {"stored"}, of : Users, watched : BOOLEAN, answer : [Fields -> Values]]
         \cup [kind : {"refused"}, of : Users, watched : BOOLEAN]

Typed ==
  /\ profile \in [Users -> [Fields -> Values]]
  /\ version \in [Users -> 0..acts]
  /\ session \in [Tabs -> Users \cup {SignedOut}] /\ page \in [Tabs -> Pages]
  /\ cache \in [Tabs -> [Keys -> Copies \cup {Nothing}]]
  /\ fetch \in [Tabs -> [Keys -> Fetches \cup {Nothing}]]
  /\ draft \in [Tabs -> Drafts] /\ save \in [Tabs -> Saves \cup {Nothing}]
  /\ said \in [Tabs -> {"nothing", "saved", "failed"}] /\ touched \in [Tabs -> SUBSET Fields]
  /\ leaving \in [Tabs -> 0..acts] /\ news \in [Tabs -> SUBSET (Kinds \X Users)]
  /\ known \in [Tabs -> [Keys -> [Users -> Nat]]]
  /\ acts \in 0..MaxActs

\* A copy of the account that is signed in, valid only if it has what is known.
CopyOK(copy, account, least) ==
  copy # Nothing =>
    /\ copy.of = account
    /\ copy.invalid \/ \A a \in Users : copy.version[a] >= least[a]

FetchOK(request, account, least) ==
  request # Nothing =>
    /\ request.of = account
    /\ request.kind = "served" =>
         /\ request.answer.of = account
         /\ \A a \in Users : request.answer.version[a] >= least[a]

CellsAreTrue ==
  \A t \in Tabs, k \in Keys :
    /\ CopyOK(cache[t][k], session[t], known[t][k])
    /\ FetchOK(fetch[t][k], session[t], known[t][k])
    /\ fetch[t][k] # Nothing => k \in Shown(page[t])
    /\ \A a \in Users : known[t][k][a] <= version[a]

\* What is sent is what was touched.
FormsAreTrue ==
  \A t \in Tabs :
    /\ DOMAIN draft[t] = touched[t]
    /\ draft[t] # EmptyDraft => page[t] = "profile"
    /\ save[t].kind = "sent" => DOMAIN save[t].patch = save[t].touched

PagesInduction == PagesConstants /\ Typed /\ CellsAreTrue /\ FormsAreTrue

-----------------------------------------------------------------------------
(* Kinds of records *)

LEMMA KindsDiffer ==
  /\ \A c \in Copies : c # Nothing /\ c.of \in Users
  /\ \A r \in Fetches : r # Nothing /\ r.kind \in {"sent", "served"} /\ r.of \in Users
                        /\ r.failures \in 0..2
                        /\ (r.kind = "served" => r.answer \in Copies)
  /\ \A s \in Saves : s # Nothing /\ s.of \in Users /\ s.watched \in BOOLEAN
                      /\ s.kind \in {"sent", "stored", "refused"}
  /\ Nothing.kind = "nothing"
<1>1. Nothing.kind = "nothing"
  BY DEF Nothing
<1>2. \A c \in Copies : c.kind = "copy" /\ c.of \in Users
  BY DEF Copies
<1>3. \A r \in Fetches : r.kind \in {"sent", "served"} /\ r.of \in Users /\ r.failures \in 0..2
                         /\ (r.kind = "served" => r.answer \in Copies)
  BY DEF Fetches
<1>4. \A s \in Saves : s.kind \in {"sent", "stored", "refused"} /\ s.of \in Users
                       /\ s.watched \in BOOLEAN
  BY DEF Saves
<1> QED
  BY <1>1, <1>2, <1>3, <1>4

\* What a draft and a row are.
LEMMA DraftsAreDrafts ==
  /\ EmptyDraft \in Drafts /\ DOMAIN EmptyDraft = {}
  /\ \A d \in Drafts : DOMAIN d \subseteq Fields /\ \A f \in DOMAIN d : d[f] \in Values
  /\ \A d \in Drafts, f \in Fields, v \in Values : With(d, f, v) \in Drafts
                                                  /\ DOMAIN With(d, f, v) = DOMAIN d \cup {f}
<1>1. EmptyDraft \in [{} -> Values] /\ DOMAIN EmptyDraft = {}
  BY DEF EmptyDraft
<1>2. EmptyDraft \in Drafts
  BY <1>1 DEF Drafts
<1>3. ASSUME NEW d \in Drafts
      PROVE  DOMAIN d \subseteq Fields /\ \A f \in DOMAIN d : d[f] \in Values
  <2>1. PICK fields \in SUBSET Fields : d \in [fields -> Values]
    BY DEF Drafts
  <2> QED
    BY <2>1
<1>4. ASSUME NEW d \in Drafts, NEW f \in Fields, NEW v \in Values
      PROVE  With(d, f, v) \in Drafts /\ DOMAIN With(d, f, v) = DOMAIN d \cup {f}
  <2>1. With(d, f, v) \in [DOMAIN d \cup {f} -> Values]
    BY <1>3 DEF With
  <2>2. DOMAIN d \cup {f} \in SUBSET Fields
    BY <1>3
  <2> QED
    BY <2>1, <2>2 DEF Drafts
<1> QED
  BY <1>1, <1>2, <1>3, <1>4

\* What a request reads is the account it was sent for, as it is now.
LEMMA ReadIsNow ==
  ASSUME PagesConstants, Typed, NEW k, NEW a \in Users
  PROVE  /\ Read(k, a) \in Copies /\ Read(k, a).of = a /\ Read(k, a).version = version
         /\ Read(k, a).invalid = FALSE
<1>1. version \in [Users -> 0..MaxActs]
  <2>1. 0..acts \subseteq 0..MaxActs
    BY DEF Typed, PagesConstants
  <2> QED
    BY <2>1 DEF Typed
<1> QED
  BY <1>1 DEF Typed, Read, Copies

\* The settings a save answers are not the shape the client asks of an answer.
LEMMA RowsDoNotParse ==
  ASSUME PagesConstants, NEW row \in [Fields -> Values]
  PROVE  ~ Parses(row)
BY DEF PagesConstants, Parses

-----------------------------------------------------------------------------
(* Steps that move one group of variables *)

LEMMA OnlyQueriesMove ==
  ASSUME PagesInduction,
         cache' \in [Tabs -> [Keys -> Copies \cup {Nothing}]],
         fetch' \in [Tabs -> [Keys -> Fetches \cup {Nothing}]],
         \A t \in Tabs, k \in Keys :
           /\ CopyOK(cache'[t][k], session[t], known[t][k])
           /\ FetchOK(fetch'[t][k], session[t], known[t][k])
           /\ fetch'[t][k] # Nothing => k \in Shown(page[t]),
         UNCHANGED <<accounts, session, page, form, leaving, news, known>>,
         acts' = acts \/ Act
  PROVE  PagesInduction'
<1>1. UNCHANGED <<profile, version, draft, save, said, touched>>
  BY DEF accounts, form
<1>2. acts' \in 0..MaxActs /\ acts <= acts' /\ acts \in Nat
  BY DEF PagesInduction, Typed, Act, PagesConstants
<1>3. Typed'
  BY <1>1, <1>2 DEF PagesInduction, Typed
<1>4. CellsAreTrue'
  BY <1>1 DEF PagesInduction, CellsAreTrue, CopyOK, FetchOK
<1>5. FormsAreTrue' /\ PagesConstants'
  BY <1>1 DEF PagesInduction, FormsAreTrue, PagesConstants
<1> QED
  BY <1>3, <1>4, <1>5 DEF PagesInduction

LEMMA OnlyTheFormMoves ==
  ASSUME PagesInduction,
         profile' \in [Users -> [Fields -> Values]],
         draft' \in [Tabs -> Drafts], save' \in [Tabs -> Saves \cup {Nothing}],
         said' \in [Tabs -> {"nothing", "saved", "failed"}], touched' \in [Tabs -> SUBSET Fields],
         FormsAreTrue',
         UNCHANGED <<version, session, page, queries, leaving, news, known>>,
         acts' = acts \/ Act
  PROVE  PagesInduction'
<1>1. UNCHANGED <<cache, fetch>>
  BY DEF queries
<1>2. acts' \in 0..MaxActs /\ acts <= acts' /\ acts \in Nat
  BY DEF PagesInduction, Typed, Act, PagesConstants
<1>3. Typed'
  BY <1>1, <1>2 DEF PagesInduction, Typed
<1>4. CellsAreTrue' /\ PagesConstants'
  BY <1>1 DEF PagesInduction, CellsAreTrue, CopyOK, FetchOK, PagesConstants
<1> QED
  BY <1>3, <1>4 DEF PagesInduction

-----------------------------------------------------------------------------
(* The first state and the steps of the queries *)

LEMMA InitHolds ==
  ASSUME PagesConstants, PagesInit
  PROVE  PagesInduction
<1>1. acts = 0 /\ acts \in 0..MaxActs
  BY DEF PagesInit, PagesConstants
<1>2. cache \in [Tabs -> [Keys -> Copies \cup {Nothing}]] /\ fetch \in [Tabs -> [Keys -> Fetches \cup {Nothing}]]
  BY DEF PagesInit, NoCopies
<1>3. draft \in [Tabs -> Drafts] /\ touched \in [Tabs -> SUBSET Fields]
  BY DraftsAreDrafts DEF PagesInit
<1>4. known \in [Tabs -> [Keys -> [Users -> Nat]]]
  BY DEF PagesInit, NoneKnown
<1>5. version \in [Users -> 0..acts] /\ leaving \in [Tabs -> 0..acts]
  BY <1>1 DEF PagesInit
<1>6. profile \in [Users -> [Fields -> Values]]
  BY DEF PagesInit, PagesConstants
<1>7. /\ session \in [Tabs -> Users \cup {SignedOut}] /\ page \in [Tabs -> Pages]
      /\ save \in [Tabs -> Saves \cup {Nothing}]
      /\ said \in [Tabs -> {"nothing", "saved", "failed"}]
      /\ news \in [Tabs -> SUBSET (Kinds \X Users)]
  BY DEF PagesInit
<1>8. Typed
  BY <1>1, <1>2, <1>3, <1>4, <1>5, <1>6, <1>7 DEF Typed
<1>9. \A t \in Tabs, k \in Keys : cache[t][k] = Nothing /\ fetch[t][k] = Nothing
                                  /\ \A a \in Users : known[t][k][a] = 0 /\ version[a] = 0
  BY DEF PagesInit, NoCopies, NoneKnown
<1>10. CellsAreTrue
  BY <1>9 DEF CellsAreTrue, CopyOK, FetchOK
<1>11. FormsAreTrue
  BY DraftsAreDrafts, KindsDiffer DEF PagesInit, FormsAreTrue
<1> QED
  BY <1>8, <1>10, <1>11 DEF PagesInduction

LEMMA StartFetchKeeps ==
  ASSUME PagesInduction, NEW t \in Tabs, NEW k \in Keys, StartFetch(t, k)
  PROVE  PagesInduction'
<1> DEFINE r == [kind |-> "sent", of |-> session[t], failures |-> 0]
<1>1. session[t] \in Users
  BY DEF PagesInduction, Typed, StartFetch
<1>2. r \in Fetches
  BY <1>1 DEF Fetches
<1>3. fetch' = [fetch EXCEPT ![t][k] = r]
  BY DEF StartFetch
<1>4. fetch' \in [Tabs -> [Keys -> Fetches \cup {Nothing}]]
  BY <1>2, <1>3 DEF PagesInduction, Typed
<1>5. cache' = cache /\ UNCHANGED <<accounts, session, page, form, leaving, news, known, acts>>
  BY DEF StartFetch
<1>6. FetchOK(r, session[t], known[t][k])
  BY DEF FetchOK
<1>7. \A u \in Tabs, l \in Keys : fetch'[u][l] = IF u = t /\ l = k THEN r ELSE fetch[u][l]
  BY <1>3 DEF PagesInduction, Typed
<1>8. k \in Shown(page[t])
  BY DEF StartFetch
<1> HIDE DEF r
<1>9. ASSUME NEW u \in Tabs, NEW l \in Keys
      PROVE  /\ CopyOK(cache'[u][l], session[u], known[u][l])
             /\ FetchOK(fetch'[u][l], session[u], known[u][l])
             /\ fetch'[u][l] # Nothing => l \in Shown(page[u])
  BY <1>5, <1>6, <1>7, <1>8 DEF PagesInduction, CellsAreTrue
<1>10. cache' \in [Tabs -> [Keys -> Copies \cup {Nothing}]]
  BY <1>5 DEF PagesInduction, Typed
<1> QED
  BY <1>4, <1>5, <1>9, <1>10, OnlyQueriesMove

LEMMA ServeFetchKeeps ==
  ASSUME PagesInduction, NEW t \in Tabs, NEW k \in Keys, ServeFetch(t, k)
  PROVE  PagesInduction'
<1> DEFINE old == fetch[t][k]
           r == [kind |-> "served", of |-> old.of, failures |-> old.failures, answer |-> Read(k, old.of)]
<1>1. old \in Fetches
  BY KindsDiffer DEF PagesInduction, Typed, ServeFetch
<1>2. old.of \in Users /\ old.failures \in 0..2 /\ old # Nothing
  BY <1>1, KindsDiffer
<1>3. /\ Read(k, old.of) \in Copies /\ Read(k, old.of).of = old.of
      /\ Read(k, old.of).version = version
  BY <1>2, ReadIsNow DEF PagesInduction
<1>4. r \in Fetches
  BY <1>2, <1>3 DEF Fetches
<1>5. fetch' = [fetch EXCEPT ![t][k] = r]
  BY DEF ServeFetch
<1>6. fetch' \in [Tabs -> [Keys -> Fetches \cup {Nothing}]]
  BY <1>4, <1>5 DEF PagesInduction, Typed
<1>7. cache' = cache /\ UNCHANGED <<accounts, session, page, form, leaving, news, known, acts>>
  BY DEF ServeFetch
<1>8. old.of = session[t] /\ k \in Shown(page[t])
  BY <1>2 DEF PagesInduction, CellsAreTrue, FetchOK
<1>9. FetchOK(r, session[t], known[t][k])
  <2>1. \A a \in Users : version[a] >= known[t][k][a]
    <3>1. \A a \in Users : known[t][k][a] <= version[a]
      BY DEF PagesInduction, CellsAreTrue
    <3>2. \A a \in Users : known[t][k][a] \in Nat /\ version[a] \in 0..acts
      BY DEF PagesInduction, Typed
    <3>3. acts \in Nat
      BY DEF PagesInduction, Typed, PagesConstants
    <3> QED
      BY <3>1, <3>2, <3>3
  <2> QED
    BY <1>3, <1>8, <2>1 DEF FetchOK
<1>10. \A u \in Tabs, l \in Keys : fetch'[u][l] = IF u = t /\ l = k THEN r ELSE fetch[u][l]
  BY <1>5 DEF PagesInduction, Typed
<1> HIDE DEF r, old
<1>11. ASSUME NEW u \in Tabs, NEW l \in Keys
      PROVE  /\ CopyOK(cache'[u][l], session[u], known[u][l])
             /\ FetchOK(fetch'[u][l], session[u], known[u][l])
             /\ fetch'[u][l] # Nothing => l \in Shown(page[u])
  BY <1>7, <1>8, <1>9, <1>10 DEF PagesInduction, CellsAreTrue
<1>12. cache' \in [Tabs -> [Keys -> Copies \cup {Nothing}]]
  BY <1>7 DEF PagesInduction, Typed
<1> QED
  BY <1>6, <1>7, <1>11, <1>12, OnlyQueriesMove

\* The answer that lands has what was known when it was read, and nothing was learnt since
\* that did not take the request with it.
LEMMA FetchLandsKeeps ==
  ASSUME PagesInduction, NEW t \in Tabs, NEW k \in Keys, FetchLands(t, k)
  PROVE  PagesInduction'
<1> DEFINE old == fetch[t][k]
<1>1. old \in Fetches /\ old.kind = "served"
  BY KindsDiffer DEF PagesInduction, Typed, FetchLands
<1>2. old.answer \in Copies /\ old # Nothing
  BY <1>1, KindsDiffer
<1>3. /\ fetch' = [fetch EXCEPT ![t][k] = Nothing]
      /\ cache' = [cache EXCEPT ![t][k] = old.answer]
      /\ UNCHANGED <<accounts, session, page, form, leaving, news, known, acts>>
  BY DEF FetchLands
<1>4. /\ fetch' \in [Tabs -> [Keys -> Fetches \cup {Nothing}]]
      /\ cache' \in [Tabs -> [Keys -> Copies \cup {Nothing}]]
  BY <1>2, <1>3 DEF PagesInduction, Typed
<1>5. CopyOK(old.answer, session[t], known[t][k])
  BY <1>1, <1>2 DEF PagesInduction, CellsAreTrue, FetchOK, CopyOK
<1>6. \A u \in Tabs, l \in Keys :
        /\ fetch'[u][l] = IF u = t /\ l = k THEN Nothing ELSE fetch[u][l]
        /\ cache'[u][l] = IF u = t /\ l = k THEN old.answer ELSE cache[u][l]
  BY <1>3 DEF PagesInduction, Typed
<1> HIDE DEF old
<1>7. \A u \in Tabs, l \in Keys :
        /\ CopyOK(cache'[u][l], session[u], known[u][l])
        /\ FetchOK(fetch'[u][l], session[u], known[u][l])
        /\ fetch'[u][l] # Nothing => l \in Shown(page[u])
  <2>1. \A least, account : FetchOK(Nothing, account, least)
    BY DEF FetchOK
  <2> QED
    BY <1>5, <1>6, <2>1 DEF PagesInduction, CellsAreTrue
<1> QED
  BY <1>3, <1>4, <1>7, OnlyQueriesMove

LEMMA FetchFailsKeeps ==
  ASSUME PagesInduction, NEW t \in Tabs, NEW k \in Keys, FetchFails(t, k)
  PROVE  PagesInduction'
<1> DEFINE old == fetch[t][k]
           again == [kind |-> "sent", of |-> old.of, failures |-> old.failures + 1]
           r == IF old.failures = 2 THEN Nothing ELSE again
<1>1. old \in Fetches
  BY DEF PagesInduction, Typed, FetchFails
<1>2. old.of \in Users /\ old.failures \in 0..2 /\ old # Nothing
  BY <1>1, KindsDiffer
<1>3. r \in Fetches \cup {Nothing}
  <2>1. CASE old.failures = 2
    BY <2>1
  <2>2. CASE old.failures # 2
    <3>1. old.failures + 1 \in 0..2
      BY <1>2, <2>2
    <3>2. again \in Fetches
      BY <1>2, <3>1 DEF Fetches
    <3> QED
      BY <2>2, <3>2
  <2> QED
    BY <2>1, <2>2
<1>4. fetch' = [fetch EXCEPT ![t][k] = r]
  BY DEF FetchFails
<1>5. fetch' \in [Tabs -> [Keys -> Fetches \cup {Nothing}]]
  BY <1>3, <1>4 DEF PagesInduction, Typed
<1>6. cache' = cache /\ UNCHANGED <<accounts, session, page, form, leaving, news, known>> /\ Act
  BY DEF FetchFails
<1>7. old.of = session[t] /\ k \in Shown(page[t])
  BY <1>2 DEF PagesInduction, CellsAreTrue, FetchOK
<1>8. FetchOK(r, session[t], known[t][k])
  BY <1>7 DEF FetchOK
<1>9. \A u \in Tabs, l \in Keys : fetch'[u][l] = IF u = t /\ l = k THEN r ELSE fetch[u][l]
  BY <1>4 DEF PagesInduction, Typed
<1> HIDE DEF r, old, again
<1>10. ASSUME NEW u \in Tabs, NEW l \in Keys
      PROVE  /\ CopyOK(cache'[u][l], session[u], known[u][l])
             /\ FetchOK(fetch'[u][l], session[u], known[u][l])
             /\ fetch'[u][l] # Nothing => l \in Shown(page[u])
  BY <1>6, <1>7, <1>8, <1>9 DEF PagesInduction, CellsAreTrue
<1>11. cache' \in [Tabs -> [Keys -> Copies \cup {Nothing}]]
  BY <1>6 DEF PagesInduction, Typed
<1> QED
  BY <1>5, <1>6, <1>10, <1>11, OnlyQueriesMove

-----------------------------------------------------------------------------
(* The steps of the form *)

LEMMA EditKeeps ==
  ASSUME PagesInduction, NEW t \in Tabs, NEW f \in Fields, NEW v \in Values, Edit(t, f, v)
  PROVE  PagesInduction'
<1> DEFINE d == With(draft[t], f, v)
<1>1. draft[t] \in Drafts /\ touched[t] \in SUBSET Fields
  BY DEF PagesInduction, Typed
<1>2. d \in Drafts /\ DOMAIN d = DOMAIN draft[t] \cup {f}
  BY <1>1, DraftsAreDrafts
<1>3. /\ draft' = [draft EXCEPT ![t] = d]
      /\ touched' = [touched EXCEPT ![t] = touched[t] \cup {f}]
      /\ page[t] = "profile" /\ Act
      /\ UNCHANGED <<accounts, session, page, queries, save, said, leaving, news, known>>
  BY DEF Edit, PagesInduction, Typed
<1>4. draft' \in [Tabs -> Drafts] /\ touched' \in [Tabs -> SUBSET Fields]
  BY <1>1, <1>2, <1>3 DEF PagesInduction, Typed
<1>5. \A u \in Tabs : /\ draft'[u] = IF u = t THEN d ELSE draft[u]
                      /\ touched'[u] = IF u = t THEN touched[t] \cup {f} ELSE touched[u]
  BY <1>3 DEF PagesInduction, Typed
<1> HIDE DEF d
<1>6. FormsAreTrue'
  BY <1>2, <1>3, <1>5 DEF PagesInduction, FormsAreTrue
<1>7. /\ profile' \in [Users -> [Fields -> Values]] /\ save' \in [Tabs -> Saves \cup {Nothing}]
      /\ said' \in [Tabs -> {"nothing", "saved", "failed"}]
      /\ UNCHANGED <<version, session, page, queries, leaving, news, known>>
  BY <1>3 DEF PagesInduction, Typed, accounts
<1> QED
  BY <1>3, <1>4, <1>6, <1>7, OnlyTheFormMoves

LEMMA SavePressedKeeps ==
  ASSUME PagesInduction, NEW t \in Tabs, SavePressed(t)
  PROVE  PagesInduction'
<1> DEFINE s == [kind |-> "sent", of |-> session[t], watched |-> TRUE, patch |-> draft[t],
                 touched |-> touched[t]]
<1>1. /\ session[t] \in Users /\ draft[t] \in Drafts /\ touched[t] \in SUBSET Fields
      /\ DOMAIN draft[t] = touched[t]
  BY DEF PagesInduction, Typed, FormsAreTrue, SavePressed
<1>2. s \in Saves
  BY <1>1 DEF Saves
<1>3. /\ save' = [save EXCEPT ![t] = s] /\ said' = [said EXCEPT ![t] = "nothing"]
      /\ UNCHANGED <<accounts, session, page, queries, draft, leaving, news, touched, known, acts>>
  BY DEF SavePressed, Patch
<1>4. /\ save' \in [Tabs -> Saves \cup {Nothing}]
      /\ said' \in [Tabs -> {"nothing", "saved", "failed"}]
  BY <1>2, <1>3 DEF PagesInduction, Typed
<1>5. \A u \in Tabs : save'[u] = IF u = t THEN s ELSE save[u]
  BY <1>3 DEF PagesInduction, Typed
<1>6. s.kind = "sent" => DOMAIN s.patch = s.touched
  BY <1>1
<1> HIDE DEF s
<1>7. FormsAreTrue'
  BY <1>3, <1>5, <1>6 DEF PagesInduction, FormsAreTrue
<1>8. /\ profile' \in [Users -> [Fields -> Values]]
      /\ draft' \in [Tabs -> Drafts] /\ touched' \in [Tabs -> SUBSET Fields]
      /\ UNCHANGED <<version, session, page, queries, leaving, news, known>>
  BY <1>3 DEF PagesInduction, Typed, accounts
<1> QED
  BY <1>3, <1>4, <1>7, <1>8, OnlyTheFormMoves

\* What a save that has been sent holds, and the row it makes.
LEMMA SentSaves ==
  ASSUME PagesInduction, NEW t \in Tabs, save[t].kind = "sent"
  PROVE  /\ save[t] \in Saves /\ save[t].of \in Users /\ save[t].watched \in BOOLEAN
         /\ save[t].patch \in Drafts
         /\ Written(profile[save[t].of], save[t].patch) \in [Fields -> Values]
<1>1. save[t] \in Saves
  BY KindsDiffer DEF PagesInduction, Typed
<1>2. save[t].of \in Users /\ save[t].watched \in BOOLEAN
  BY <1>1, KindsDiffer
<1>3. save[t].patch \in Drafts
  BY <1>1 DEF Saves
<1>4. profile[save[t].of] \in [Fields -> Values]
  BY <1>2 DEF PagesInduction, Typed
<1>5. Written(profile[save[t].of], save[t].patch) \in [Fields -> Values]
  BY <1>3, <1>4, DraftsAreDrafts DEF Written
<1> QED
  BY <1>1, <1>2, <1>3, <1>5

LEMMA SaveStoredKeeps ==
  ASSUME PagesInduction, NEW t \in Tabs, SaveStored(t)
  PROVE  PagesInduction'
<1> DEFINE row == Written(profile[save[t].of], save[t].patch)
           s == [kind |-> "stored", of |-> save[t].of, watched |-> save[t].watched, answer |-> row]
<1>1. save[t].kind = "sent"
  BY DEF SaveStored
<1>2. /\ save[t].of \in Users /\ save[t].watched \in BOOLEAN /\ row \in [Fields -> Values]
  BY <1>1, SentSaves
<1>3. /\ profile' = [profile EXCEPT ![save[t].of] = row] /\ save' = [save EXCEPT ![t] = s]
      /\ UNCHANGED <<version, session, page, queries, draft, said, leaving, news, touched, known, acts>>
  BY DEF SaveStored
<1> HIDE DEF row
<1>4. s \in Saves
  BY <1>2 DEF Saves
<1>5. profile' \in [Users -> [Fields -> Values]]
  BY <1>2, <1>3 DEF PagesInduction, Typed
<1>6. save' \in [Tabs -> Saves \cup {Nothing}]
  BY <1>3, <1>4 DEF PagesInduction, Typed
<1>7. \A u \in Tabs : save'[u] = IF u = t THEN s ELSE save[u]
  BY <1>3 DEF PagesInduction, Typed
<1>8. FormsAreTrue'
  BY <1>3, <1>7 DEF PagesInduction, FormsAreTrue
<1>9. /\ said' \in [Tabs -> {"nothing", "saved", "failed"}]
      /\ draft' \in [Tabs -> Drafts] /\ touched' \in [Tabs -> SUBSET Fields]
      /\ UNCHANGED <<version, session, page, queries, leaving, news, known>>
  BY <1>3 DEF PagesInduction, Typed
<1> QED
  BY <1>3, <1>5, <1>6, <1>8, <1>9, OnlyTheFormMoves

LEMMA SaveRefusedKeeps ==
  ASSUME PagesInduction, NEW t \in Tabs, SaveRefused(t)
  PROVE  PagesInduction'
<1> DEFINE s == [kind |-> "refused", of |-> save[t].of, watched |-> save[t].watched]
<1>1. save[t].kind = "sent"
  BY DEF SaveRefused
<1>2. save[t].of \in Users /\ save[t].watched \in BOOLEAN
  BY <1>1, SentSaves
<1>3. /\ save' = [save EXCEPT ![t] = s]
      /\ UNCHANGED <<accounts, session, page, queries, draft, said, leaving, news, touched, known, acts>>
  BY DEF SaveRefused
<1>4. s \in Saves
  BY <1>2 DEF Saves
<1>5. save' \in [Tabs -> Saves \cup {Nothing}]
  BY <1>3, <1>4 DEF PagesInduction, Typed
<1>6. \A u \in Tabs : save'[u] = IF u = t THEN s ELSE save[u]
  BY <1>3 DEF PagesInduction, Typed
<1>7. FormsAreTrue'
  BY <1>3, <1>6 DEF PagesInduction, FormsAreTrue
<1>8. /\ profile' \in [Users -> [Fields -> Values]]
      /\ said' \in [Tabs -> {"nothing", "saved", "failed"}]
      /\ draft' \in [Tabs -> Drafts] /\ touched' \in [Tabs -> SUBSET Fields]
      /\ UNCHANGED <<version, session, page, queries, leaving, news, known>>
  BY <1>3 DEF PagesInduction, Typed, accounts
<1> QED
  BY <1>3, <1>5, <1>7, <1>8, OnlyTheFormMoves

\* The answer is never of the shape that is asked for, so it never reaches the cache, the
\* draft stays, and the form says that the save failed.
LEMMA SaveSettlesKeeps ==
  ASSUME PagesInduction, NEW t \in Tabs, SaveSettles(t)
  PROVE  PagesInduction'
<1> DEFINE s == save[t]
           good == s.kind = "stored" /\ Parses(s.answer)
<1>1. s \in Saves
  BY KindsDiffer DEF PagesInduction, Typed, SaveSettles
<1>2. s.kind = "stored" => s.answer \in [Fields -> Values]
  BY <1>1 DEF Saves
<1>3. ~ good
  BY <1>2, RowsDoNotParse DEF PagesInduction
<1>4. /\ save' = [save EXCEPT ![t] = Nothing]
      /\ said' = [said EXCEPT ![t] = IF ~s.watched THEN said[t] ELSE "failed"]
      /\ draft' = draft /\ touched' = touched
      /\ UNCHANGED <<accounts, session, page, fetch, leaving, news, known, acts>>
  BY <1>3 DEF SaveSettles, PagesInduction, Typed
<1>5. cache' = cache
  <2>1. cache' = [cache EXCEPT ![t]["me"] =
           IF good THEN [Read("me", s.of) EXCEPT !.profile = s.answer.profile] ELSE cache[t]["me"]]
    BY DEF SaveSettles
  <2>2. cache' = [cache EXCEPT ![t]["me"] = cache[t]["me"]]
    BY <1>3, <2>1
  <2> QED
    BY <2>2 DEF PagesInduction, Typed
<1> HIDE DEF good
<1>6. /\ save' \in [Tabs -> Saves \cup {Nothing}]
      /\ said' \in [Tabs -> {"nothing", "saved", "failed"}]
  BY <1>4 DEF PagesInduction, Typed
<1>7. \A u \in Tabs : save'[u] = IF u = t THEN Nothing ELSE save[u]
  BY <1>4 DEF PagesInduction, Typed
<1>8. FormsAreTrue'
  BY <1>4, <1>7, KindsDiffer DEF PagesInduction, FormsAreTrue
<1>9. /\ profile' \in [Users -> [Fields -> Values]]
      /\ draft' \in [Tabs -> Drafts] /\ touched' \in [Tabs -> SUBSET Fields]
      /\ UNCHANGED <<version, session, page, queries, leaving, news, known>>
  BY <1>4, <1>5 DEF PagesInduction, Typed, accounts, queries
<1> QED
  BY <1>4, <1>6, <1>8, <1>9, OnlyTheFormMoves

LEMMA SaveLostKeeps ==
  ASSUME PagesInduction, NEW t \in Tabs, SaveLost(t)
  PROVE  PagesInduction'
<1>1. /\ save' = [save EXCEPT ![t] = Nothing] /\ Act
      /\ said' = [said EXCEPT ![t] = IF save[t].watched THEN "failed" ELSE said[t]]
      /\ UNCHANGED <<accounts, session, page, queries, draft, leaving, news, touched, known>>
  BY DEF SaveLost
<1>2. /\ save' \in [Tabs -> Saves \cup {Nothing}]
      /\ said' \in [Tabs -> {"nothing", "saved", "failed"}]
  BY <1>1 DEF PagesInduction, Typed
<1>3. \A u \in Tabs : save'[u] = IF u = t THEN Nothing ELSE save[u]
  BY <1>1 DEF PagesInduction, Typed
<1>4. FormsAreTrue'
  BY <1>1, <1>3, KindsDiffer DEF PagesInduction, FormsAreTrue
<1>5. /\ profile' \in [Users -> [Fields -> Values]]
      /\ draft' \in [Tabs -> Drafts] /\ touched' \in [Tabs -> SUBSET Fields]
      /\ UNCHANGED <<version, session, page, queries, leaving, news, known>>
  BY <1>1 DEF PagesInduction, Typed, accounts
<1> QED
  BY <1>1, <1>2, <1>4, <1>5, OnlyTheFormMoves

-----------------------------------------------------------------------------
(* News, pages and sessions *)

LEMMA ChangesKeeps ==
  ASSUME PagesInduction, NEW a \in Users, NEW kind \in Kinds, Changes(a, kind)
  PROVE  PagesInduction'
<1>1. /\ acts' = acts + 1 /\ acts \in 0..MaxActs /\ acts' \in 0..MaxActs /\ acts \in Nat
  BY DEF Changes, Act, PagesInduction, Typed, PagesConstants
<1>2. /\ version' = [version EXCEPT ![a] = version[a] + 1]
      /\ UNCHANGED <<profile, session, page, cache, fetch, draft, save, said, touched, leaving, known>>
  BY DEF Changes, queries, form, PagesInduction, Typed
<1>3. version' \in [Users -> 0..acts']
  BY <1>1, <1>2 DEF PagesInduction, Typed
<1>4. leaving' \in [Tabs -> 0..acts']
  BY <1>1, <1>2 DEF PagesInduction, Typed
<1>5. news' \in [Tabs -> SUBSET (Kinds \X Users)]
  <2>1. PICK hearers : news' = [t \in Tabs |-> IF t \in hearers THEN news[t] \cup {<<kind, a>>} ELSE news[t]]
    BY DEF Changes
  <2>2. \A t \in Tabs : news[t] \in SUBSET (Kinds \X Users)
    BY DEF PagesInduction, Typed
  <2> QED
    BY <2>1, <2>2
<1>6. Typed'
  BY <1>1, <1>2, <1>3, <1>4, <1>5 DEF PagesInduction, Typed
<1>7. \A t \in Tabs, k \in Keys, b \in Users : known'[t][k][b] <= version'[b]
  BY <1>1, <1>2 DEF PagesInduction, Typed, CellsAreTrue
<1>8. CellsAreTrue'
  BY <1>2, <1>7 DEF PagesInduction, CellsAreTrue, CopyOK, FetchOK
<1>9. FormsAreTrue' /\ PagesConstants'
  BY <1>2 DEF PagesInduction, FormsAreTrue, PagesConstants
<1> QED
  BY <1>6, <1>8, <1>9 DEF PagesInduction

\* Marking a copy keeps everything but its validity.
LEMMA MarkedCopies ==
  ASSUME NEW c \in Copies
  PROVE  /\ [c EXCEPT !.invalid = TRUE] \in Copies
         /\ [c EXCEPT !.invalid = TRUE].of = c.of /\ [c EXCEPT !.invalid = TRUE].invalid
BY DEF Copies

\* What was altered is dropped: no kind of news alters what it leaves valid.
LEMMA AlteredAreDropped ==
  ASSUME NEW kind \in Kinds
  PROVE  Altered(kind) \subseteq Dropped(kind)
<1>1. CASE kind = "ended"
  <2>1. {"me", "history", "leaderboards"} \subseteq UNION {Under(k) : k \in CompletedMatchQueryKeys}
    BY DEF Under, CompletedMatchQueryKeys
  <2> QED
    BY <1>1, <2>1 DEF Altered, Dropped
<1>2. CASE kind = "verified"
  BY <1>2 DEF Altered, Dropped, Under
<1>3. CASE kind = "moderated"
  BY <1>3 DEF Altered, Dropped, Under
<1> QED
  BY <1>1, <1>2, <1>3 DEF Kinds

\* A change a tab hears of marks every copy it alters and takes the request that might land
\* with an older answer.
LEMMA HearsKeeps ==
  ASSUME PagesInduction, NEW t \in Tabs, NEW change \in news[t], Hears(t, change)
  PROVE  PagesInduction'
<1> DEFINE dropped == Dropped(change[1])
           altered == Altered(change[1])
           Mark(c) == [c EXCEPT !.invalid = TRUE]
<1>1. change[1] \in Kinds /\ change[2] \in Users /\ altered \subseteq dropped
  <2>1. change \in Kinds \X Users
    BY DEF PagesInduction, Typed
  <2> QED
    BY <2>1, AlteredAreDropped
<1>2. /\ UNCHANGED <<profile, version, session, page, draft, save, said, touched, leaving, acts>>
      /\ news' = [news EXCEPT ![t] = news[t] \ {change}]
  BY DEF Hears, accounts, form, PagesInduction, Typed
<1>3. \A u \in Tabs, k \in Keys :
        cache'[u][k] = IF u = t /\ k \in dropped /\ cache[t][k] # Nothing
                       THEN Mark(cache[t][k]) ELSE cache[u][k]
  BY DEF Hears, Invalidated, PagesInduction, Typed
<1>4. \A u \in Tabs, k \in Keys :
        fetch'[u][k] = IF u = t /\ k \in dropped /\ cache[t][k] # Nothing THEN Nothing ELSE fetch[u][k]
  BY DEF Hears, Invalidated, PagesInduction, Typed
<1>5. \A u \in Tabs, k \in Keys :
        known'[u][k] = IF u = t /\ k \in altered /\ cache[t][k] # Nothing
                       THEN [known[t][k] EXCEPT ![change[2]] = version[change[2]]] ELSE known[u][k]
  BY DEF Hears, PagesInduction, Typed
<1>6. /\ DOMAIN cache' = Tabs /\ DOMAIN fetch' = Tabs /\ DOMAIN known' = Tabs
      /\ cache' = [u \in Tabs |-> cache'[u]] /\ fetch' = [u \in Tabs |-> fetch'[u]]
      /\ known' = [u \in Tabs |-> known'[u]]
  BY DEF Hears, Invalidated, PagesInduction, Typed
<1>7. \A u \in Tabs : /\ cache'[u] = [k \in Keys |-> cache'[u][k]]
                      /\ fetch'[u] = [k \in Keys |-> fetch'[u][k]]
                      /\ known'[u] = [k \in Keys |-> known'[u][k]]
  BY DEF Hears, Invalidated, PagesInduction, Typed
<1> HIDE DEF dropped, altered
<1>8. \A u \in Tabs, k \in Keys : cache[u][k] # Nothing =>
        /\ cache[u][k] \in Copies /\ Mark(cache[u][k]) \in Copies
        /\ Mark(cache[u][k]).of = cache[u][k].of /\ Mark(cache[u][k]).invalid
  BY MarkedCopies DEF PagesInduction, Typed
<1> HIDE DEF Mark
<1>9. \A u \in Tabs, k \in Keys : /\ cache'[u][k] \in Copies \cup {Nothing}
                                  /\ fetch'[u][k] \in Fetches \cup {Nothing}
                                  /\ known'[u][k] \in [Users -> Nat]
  <2> TAKE u \in Tabs, k \in Keys
  <2>1. cache'[u][k] \in Copies \cup {Nothing}
    BY <1>3, <1>8, ZenonT(60) DEF PagesInduction, Typed
  <2>2. fetch'[u][k] \in Fetches \cup {Nothing}
    BY <1>4 DEF PagesInduction, Typed
  <2>3. known'[u][k] \in [Users -> Nat]
    <3>1. version[change[2]] \in Nat /\ known[t][k] \in [Users -> Nat]
          /\ known[u][k] \in [Users -> Nat]
      BY <1>1 DEF PagesInduction, Typed
    <3>2. [known[t][k] EXCEPT ![change[2]] = version[change[2]]] \in [Users -> Nat]
      BY <3>1
    <3> QED
      BY <1>5, <3>1, <3>2
  <2> QED
    BY <2>1, <2>2, <2>3
<1>10. /\ cache' \in [Tabs -> [Keys -> Copies \cup {Nothing}]]
       /\ fetch' \in [Tabs -> [Keys -> Fetches \cup {Nothing}]]
       /\ known' \in [Tabs -> [Keys -> [Users -> Nat]]]
  BY <1>6, <1>7, <1>9
<1>11. Typed'
  BY <1>2, <1>10 DEF PagesInduction, Typed
<1>12. CellsAreTrue'
  <2> SUFFICES ASSUME NEW u \in Tabs, NEW k \in Keys
               PROVE  /\ CopyOK(cache'[u][k], session'[u], known'[u][k])
                      /\ FetchOK(fetch'[u][k], session'[u], known'[u][k])
                      /\ fetch'[u][k] # Nothing => k \in Shown(page[u])
                      /\ \A a \in Users : known'[u][k][a] <= version[a]
    BY <1>2 DEF CellsAreTrue, CopyOK, FetchOK
  <2>1. /\ CopyOK(cache[u][k], session[u], known[u][k])
        /\ FetchOK(fetch[u][k], session[u], known[u][k])
        /\ fetch[u][k] # Nothing => k \in Shown(page[u])
        /\ \A a \in Users : known[u][k][a] <= version[a]
    BY DEF PagesInduction, CellsAreTrue
  <2>2. CASE u = t /\ k \in dropped /\ cache[t][k] # Nothing
    <3>1. CopyOK(cache'[u][k], session'[u], known'[u][k])
      BY <1>2, <1>3, <1>8, <2>1, <2>2 DEF CopyOK
    <3>2. fetch'[u][k] = Nothing
      BY <1>4, <2>2
    <3>3. \A a \in Users : known'[u][k][a] <= version[a]
      <4>1. known[t][k] \in [Users -> Nat] /\ version[change[2]] \in Nat
        BY <1>1 DEF PagesInduction, Typed
      <4>2. version[change[2]] \in 0..acts /\ acts \in Nat
        BY <1>1 DEF PagesInduction, Typed, PagesConstants
      <4>3. \A a \in Users : known[t][k][a] <= version[a]
        BY <2>1, <2>2
      <4>4. CASE k \in altered
        <5>1. known'[u][k] = [known[t][k] EXCEPT ![change[2]] = version[change[2]]]
          BY <1>5, <2>2, <4>4
        <5>2. \A a \in Users : known'[u][k][a] = IF a = change[2] THEN version[a] ELSE known[t][k][a]
          BY <4>1, <5>1
        <5>3. \A a \in Users : a = change[2] => version[a] \in 0..acts
          BY <4>2
        <5> QED
          BY <4>2, <4>3, <5>2, <5>3
      <4>5. CASE k \notin altered
        BY <1>5, <2>1, <4>5
      <4> QED
        BY <4>4, <4>5
    <3> QED
      BY <3>1, <3>2, <3>3 DEF FetchOK
  <2>3. CASE ~ (u = t /\ k \in dropped /\ cache[t][k] # Nothing)
    <3>1. cache'[u][k] = cache[u][k] /\ fetch'[u][k] = fetch[u][k] /\ known'[u][k] = known[u][k]
      BY <1>1, <1>3, <1>4, <1>5, <2>3
    <3> QED
      BY <1>2, <2>1, <3>1
  <2> QED
    BY <2>2, <2>3
<1>13. FormsAreTrue' /\ PagesConstants'
  BY <1>2 DEF PagesInduction, FormsAreTrue, PagesConstants
<1> QED
  BY <1>11, <1>12, <1>13 DEF PagesInduction

\* Leaving a page empties its form and leaves a save behind.
LEMMA LeaveKeeps ==
  ASSUME PagesInduction, NEW t \in Tabs, NEW p \in Pages, Leave(t, p)
  PROVE  /\ page' = [page EXCEPT ![t] = p] /\ page' \in [Tabs -> Pages]
         /\ draft' \in [Tabs -> Drafts] /\ save' \in [Tabs -> Saves \cup {Nothing}]
         /\ said' \in [Tabs -> {"nothing", "saved", "failed"}] /\ touched' \in [Tabs -> SUBSET Fields]
         /\ FormsAreTrue'
<1> DEFINE left == [save[t] EXCEPT !.watched = FALSE]
           s == IF save[t] = Nothing THEN save[t] ELSE left
<1>1. /\ page' = [page EXCEPT ![t] = p] /\ draft' = [draft EXCEPT ![t] = EmptyDraft]
      /\ touched' = [touched EXCEPT ![t] = {}] /\ said' = [said EXCEPT ![t] = "nothing"]
      /\ save' = [save EXCEPT ![t] = s]
  BY DEF Leave, PagesInduction, Typed
<1>2. ASSUME save[t] # Nothing
      PROVE  left \in Saves /\ left.kind = save[t].kind
             /\ (left.kind = "sent" => left.patch = save[t].patch /\ left.touched = save[t].touched)
  <2>1. save[t] \in Saves
    BY <1>2 DEF PagesInduction, Typed
  <2> QED
    BY <2>1 DEF Saves
<1>3. s \in Saves \cup {Nothing} /\ (s.kind = "sent" => DOMAIN s.patch = s.touched)
  <2>1. save[t].kind = "sent" => DOMAIN save[t].patch = save[t].touched
    BY DEF PagesInduction, FormsAreTrue
  <2> QED
    BY <1>2, <2>1, KindsDiffer
<1> HIDE DEF s
<1>4. /\ page' \in [Tabs -> Pages] /\ draft' \in [Tabs -> Drafts] /\ touched' \in [Tabs -> SUBSET Fields]
      /\ save' \in [Tabs -> Saves \cup {Nothing}]
      /\ said' \in [Tabs -> {"nothing", "saved", "failed"}]
  BY <1>1, <1>3, DraftsAreDrafts DEF PagesInduction, Typed
<1>5. \A u \in Tabs : /\ draft'[u] = IF u = t THEN EmptyDraft ELSE draft[u]
                      /\ touched'[u] = IF u = t THEN {} ELSE touched[u]
                      /\ save'[u] = IF u = t THEN s ELSE save[u]
                      /\ page'[u] = IF u = t THEN p ELSE page[u]
  BY <1>1 DEF PagesInduction, Typed
<1>6. FormsAreTrue'
  BY <1>3, <1>5, DraftsAreDrafts DEF PagesInduction, FormsAreTrue
<1> QED
  BY <1>1, <1>4, <1>6

LEMMA OpensKeeps ==
  ASSUME PagesInduction, NEW t \in Tabs, NEW p \in Pages, Opens(t, p)
  PROVE  PagesInduction'
<1> DEFINE Mark(c) == [c EXCEPT !.invalid = TRUE]
<1>1. PICK aged \in SUBSET Shown(p) :
        cache' = [cache EXCEPT ![t] = [k \in Keys |->
          IF k \in aged /\ cache[t][k] # Nothing THEN Mark(cache[t][k]) ELSE cache[t][k]]]
  BY DEF Opens, PagesInduction, Typed
<1>2. fetch' = [fetch EXCEPT ![t] = [k \in Keys |-> IF k \in Shown(p) THEN fetch[t][k] ELSE Nothing]]
  BY DEF Opens, PagesInduction, Typed
<1>3. UNCHANGED <<profile, version, session, leaving, news, known>> /\ Act /\ Leave(t, p)
  BY DEF Opens, accounts
<1>4. \A u \in Tabs, k \in Keys : cache[u][k] # Nothing =>
        /\ Mark(cache[u][k]) \in Copies
        /\ Mark(cache[u][k]).of = cache[u][k].of /\ Mark(cache[u][k]).invalid
  BY MarkedCopies DEF PagesInduction, Typed
<1> HIDE DEF Mark
<1>5. /\ cache' \in [Tabs -> [Keys -> Copies \cup {Nothing}]]
      /\ fetch' \in [Tabs -> [Keys -> Fetches \cup {Nothing}]]
  BY <1>1, <1>2, <1>4 DEF PagesInduction, Typed
<1>6. \A u \in Tabs, k \in Keys :
        /\ cache'[u][k] = IF u = t /\ k \in aged /\ cache[t][k] # Nothing
                          THEN Mark(cache[t][k]) ELSE cache[u][k]
        /\ fetch'[u][k] = IF u = t /\ k \notin Shown(p) THEN Nothing ELSE fetch[u][k]
  BY <1>1, <1>2 DEF PagesInduction, Typed
<1>7. /\ page' = [page EXCEPT ![t] = p] /\ page' \in [Tabs -> Pages]
      /\ draft' \in [Tabs -> Drafts] /\ save' \in [Tabs -> Saves \cup {Nothing}]
      /\ said' \in [Tabs -> {"nothing", "saved", "failed"}] /\ touched' \in [Tabs -> SUBSET Fields]
      /\ FormsAreTrue'
  BY <1>3, LeaveKeeps
<1>8. acts' \in 0..MaxActs /\ acts <= acts' /\ acts \in Nat
  BY <1>3 DEF PagesInduction, Typed, Act, PagesConstants
<1>9. Typed'
  BY <1>3, <1>5, <1>7, <1>8 DEF PagesInduction, Typed
<1>10. CellsAreTrue'
  <2> SUFFICES ASSUME NEW u \in Tabs, NEW k \in Keys
               PROVE  /\ CopyOK(cache'[u][k], session[u], known[u][k])
                      /\ FetchOK(fetch'[u][k], session[u], known[u][k])
                      /\ fetch'[u][k] # Nothing => k \in Shown(page'[u])
                      /\ \A a \in Users : known[u][k][a] <= version[a]
    BY <1>3 DEF CellsAreTrue, CopyOK, FetchOK
  <2>1. /\ CopyOK(cache[u][k], session[u], known[u][k])
        /\ FetchOK(fetch[u][k], session[u], known[u][k])
        /\ fetch[u][k] # Nothing => k \in Shown(page[u])
        /\ \A a \in Users : known[u][k][a] <= version[a]
    BY DEF PagesInduction, CellsAreTrue
  <2>2. CopyOK(cache'[u][k], session[u], known[u][k])
    BY <1>4, <1>6, <2>1 DEF CopyOK
  <2>3. FetchOK(fetch'[u][k], session[u], known[u][k])
    BY <1>6, <2>1 DEF FetchOK
  <2>4. fetch'[u][k] # Nothing => k \in Shown(page'[u])
    BY <1>6, <1>7, <2>1 DEF PagesInduction, Typed
  <2> QED
    BY <2>1, <2>2, <2>3, <2>4
<1> QED
  BY <1>7, <1>9, <1>10 DEF PagesInduction, PagesConstants

\* A tab whose session changed, whoever it is now, with every query forgotten.
LEMMA SessionChanges ==
  ASSUME PagesInduction, NEW t \in Tabs, NEW who \in Users \cup {SignedOut},
         session' = [session EXCEPT ![t] = who], news' = [news EXCEPT ![t] = {}],
         Clear(t), Leave(t, "home"), UNCHANGED accounts,
         leaving' \in [Tabs -> 0..acts'], acts' \in 0..MaxActs, acts <= acts'
  PROVE  PagesInduction'
<1>1. "home" \in Pages
  BY DEF Pages
<1>2. /\ page' = [page EXCEPT ![t] = "home"] /\ page' \in [Tabs -> Pages]
      /\ draft' \in [Tabs -> Drafts] /\ save' \in [Tabs -> Saves \cup {Nothing}]
      /\ said' \in [Tabs -> {"nothing", "saved", "failed"}] /\ touched' \in [Tabs -> SUBSET Fields]
      /\ FormsAreTrue'
  BY <1>1, LeaveKeeps
<1>3. /\ cache' = [cache EXCEPT ![t] = NoCopies] /\ fetch' = [fetch EXCEPT ![t] = NoCopies]
      /\ known' = [known EXCEPT ![t] = NoneKnown] /\ UNCHANGED <<profile, version>>
  BY DEF Clear, accounts
<1>4. /\ cache' \in [Tabs -> [Keys -> Copies \cup {Nothing}]]
      /\ fetch' \in [Tabs -> [Keys -> Fetches \cup {Nothing}]]
      /\ known' \in [Tabs -> [Keys -> [Users -> Nat]]]
  BY <1>3 DEF PagesInduction, Typed, NoCopies, NoneKnown
<1>5. version' \in [Users -> 0..acts']
  <2>1. 0..acts \subseteq 0..acts'
    BY DEF PagesInduction, Typed, PagesConstants
  <2> QED
    BY <1>3, <2>1 DEF PagesInduction, Typed
<1>6. session' \in [Tabs -> Users \cup {SignedOut}] /\ news' \in [Tabs -> SUBSET (Kinds \X Users)]
  BY DEF PagesInduction, Typed
<1>7. Typed'
  BY <1>2, <1>3, <1>4, <1>5, <1>6 DEF PagesInduction, Typed
<1>8. \A u \in Tabs, k \in Keys :
        IF u = t THEN cache'[u][k] = Nothing /\ fetch'[u][k] = Nothing
                      /\ \A a \in Users : known'[u][k][a] = 0
        ELSE cache'[u][k] = cache[u][k] /\ fetch'[u][k] = fetch[u][k] /\ known'[u][k] = known[u][k]
             /\ session'[u] = session[u] /\ page'[u] = page[u]
  BY <1>2, <1>3 DEF PagesInduction, Typed, NoCopies, NoneKnown
<1>9. \A a \in Users : 0 <= version[a]
  BY DEF PagesInduction, Typed, PagesConstants
<1>10. CellsAreTrue'
  <2> SUFFICES ASSUME NEW u \in Tabs, NEW k \in Keys
               PROVE  /\ CopyOK(cache'[u][k], session'[u], known'[u][k])
                      /\ FetchOK(fetch'[u][k], session'[u], known'[u][k])
                      /\ fetch'[u][k] # Nothing => k \in Shown(page'[u])
                      /\ \A a \in Users : known'[u][k][a] <= version[a]
    BY <1>3 DEF CellsAreTrue, CopyOK, FetchOK
  <2>1. CASE u = t
    BY <1>8, <1>9, <2>1 DEF CopyOK, FetchOK
  <2>2. CASE u # t
    BY <1>8, <2>2 DEF PagesInduction, CellsAreTrue
  <2> QED
    BY <2>1, <2>2
<1> QED
  BY <1>2, <1>7, <1>10 DEF PagesInduction, PagesConstants

LEMMA SessionStepsKeep ==
  ASSUME PagesInduction, NEW t \in Tabs,
         \/ \E a \in Users : SignedIn(t, a)
         \/ SignOutPressed(t) \/ SignOutSettles(t)
  PROVE  PagesInduction'
<1>1. acts \in Nat /\ leaving \in [Tabs -> 0..acts] /\ MaxActs \in Nat
  BY DEF PagesInduction, Typed, PagesConstants
<1>2. ASSUME NEW a \in Users, SignedIn(t, a)
      PROVE  PagesInduction'
  <2>1. acts' = acts + 1 /\ acts' \in 0..MaxActs /\ leaving' = leaving
    BY <1>1, <1>2 DEF SignedIn, Act
  <2>2. leaving' \in [Tabs -> 0..acts']
    BY <1>1, <2>1
  <2>3. /\ session' = [session EXCEPT ![t] = a] /\ news' = [news EXCEPT ![t] = {}]
        /\ Clear(t) /\ Leave(t, "home") /\ UNCHANGED accounts /\ acts <= acts'
    BY <1>1, <1>2, <2>1 DEF SignedIn
  <2>4. a \in Users \cup {SignedOut}
    OBVIOUS
  <2> QED
    BY <2>1, <2>2, <2>3, <2>4, SessionChanges
<1>3. CASE SignOutPressed(t)
  <2>1. /\ acts' = acts + 1 /\ acts' \in 0..MaxActs /\ leaving' = [leaving EXCEPT ![t] = leaving[t] + 1]
        /\ UNCHANGED <<profile, version, session, page, cache, fetch, draft, save, said, touched, news, known>>
    BY <1>1, <1>3 DEF SignOutPressed, Act, accounts, queries, form
  <2>2. leaving' \in [Tabs -> 0..acts'] /\ version' \in [Users -> 0..acts']
    BY <1>1, <2>1 DEF PagesInduction, Typed
  <2>3. Typed'
    BY <2>1, <2>2 DEF PagesInduction, Typed
  <2>4. CellsAreTrue' /\ FormsAreTrue' /\ PagesConstants'
    BY <2>1 DEF PagesInduction, CellsAreTrue, CopyOK, FetchOK, FormsAreTrue, PagesConstants
  <2> QED
    BY <2>3, <2>4 DEF PagesInduction
<1>4. CASE SignOutSettles(t)
  <2>1. acts' = acts /\ leaving' = [leaving EXCEPT ![t] = leaving[t] - 1] /\ leaving[t] > 0
    BY <1>1, <1>4 DEF SignOutSettles
  <2>2. leaving' \in [Tabs -> 0..acts'] /\ acts' \in 0..MaxActs
    BY <1>1, <2>1 DEF PagesInduction, Typed
  <2>3. /\ session' = [session EXCEPT ![t] = SignedOut] /\ news' = [news EXCEPT ![t] = {}]
        /\ Clear(t) /\ Leave(t, "home") /\ UNCHANGED accounts /\ acts <= acts'
    BY <1>1, <1>4, <2>1 DEF SignOutSettles
  <2>4. SignedOut \in Users \cup {SignedOut}
    OBVIOUS
  <2> QED
    BY <2>2, <2>3, <2>4, SessionChanges
<1> QED
  BY <1>2, <1>3, <1>4

-----------------------------------------------------------------------------
(* Theorems *)

LEMMA PagesStep ==
  ASSUME PagesInduction, [PagesNext]_pageVars
  PROVE  PagesInduction'
<1>1. CASE PagesNext
  <2>1. ASSUME NEW a \in Users, NEW kind \in Kinds, Changes(a, kind)
        PROVE  PagesInduction'
    BY <2>1, ChangesKeeps
  <2>2. ASSUME NEW t \in Tabs, QuerySteps(t)
        PROVE  PagesInduction'
    BY <2>2, StartFetchKeeps, ServeFetchKeeps, FetchLandsKeeps, FetchFailsKeeps DEF QuerySteps
  <2>3. ASSUME NEW t \in Tabs, FormSteps(t)
        PROVE  PagesInduction'
    BY <2>3, EditKeeps, SavePressedKeeps, SaveStoredKeeps, SaveRefusedKeeps, SaveSettlesKeeps,
       SaveLostKeeps DEF FormSteps
  <2>4. ASSUME NEW t \in Tabs, PageSteps(t)
        PROVE  PagesInduction'
    BY <2>4, HearsKeeps, OpensKeeps, SessionStepsKeep DEF PageSteps
  <2> QED
    BY <1>1, <2>1, <2>2, <2>3, <2>4 DEF PagesNext
<1>2. CASE UNCHANGED pageVars
  BY <1>2 DEF pageVars, accounts, queries, form, PagesInduction, PagesConstants, Typed,
              CellsAreTrue, CopyOK, FetchOK, FormsAreTrue
<1> QED
  BY <1>1, <1>2

LEMMA PagesAlwaysTrue == PagesConstants /\ PagesSpec => []PagesInduction
<1>1. PagesConstants /\ PagesInit => PagesInduction
  BY InitHolds
<1>2. PagesInduction /\ [PagesNext]_pageVars => PagesInduction'
  BY PagesStep
<1> QED
  BY <1>1, <1>2, PTL DEF PagesSpec

LEMMA TrueCellsAreTrueCaches ==
  ASSUME PagesInduction
  PROVE  CacheIsTrue
<1>1. CacheIsOwn
  BY DEF PagesInduction, CellsAreTrue, CopyOK, FetchOK, CacheIsOwn
<1>2. CopiesKeepUp
  BY DEF PagesInduction, CellsAreTrue, CopyOK, CopiesKeepUp, Valid
<1>3. /\ version \in [Users -> 0..MaxActs] /\ leaving \in [Tabs -> 0..MaxActs]
  <2>1. 0..acts \subseteq 0..MaxActs
    BY DEF PagesInduction, Typed, PagesConstants
  <2> QED
    BY <2>1 DEF PagesInduction, Typed
<1>4. \A t \in Tabs, k \in Keys : /\ cache[t][k] = Nothing \/ cache[t][k] \in Copies
                                  /\ fetch[t][k] = Nothing \/ fetch[t][k] \in Fetches
                                  /\ fetch[t][k] # Nothing => k \in Shown(page[t])
  BY DEF PagesInduction, Typed, CellsAreTrue
<1>5. \A t \in Tabs : /\ DOMAIN draft[t] \subseteq Fields
                      /\ draft[t] # EmptyDraft => page[t] = "profile"
                      /\ news[t] \subseteq Kinds \X Users
  BY DraftsAreDrafts DEF PagesInduction, Typed, FormsAreTrue
<1>6. PagesTypeOK
  BY <1>3, <1>4, <1>5 DEF PagesInduction, Typed, PagesTypeOK
<1> QED
  BY <1>1, <1>2, <1>6 DEF CacheIsTrue

\* Whatever sessions come and go and whatever is in flight when they do, a tab shows, and waits
\* for, only what was read as the account it is signed in as, and a copy it takes for valid has
\* every change it heard of while it held one (api/queries.ts, api/provider.tsx,
\* SignInScreen.tsx, AppShell.tsx).  Of any accounts, tabs, queries and fields.
THEOREM CacheIsAlwaysTrue == PagesConstants /\ PagesSpec => []CacheIsTrue
<1>1. PagesInduction => CacheIsTrue
  BY TrueCellsAreTrueCaches
<1> QED
  BY <1>1, PagesAlwaysTrue, PTL

LEMMA StoringWritesWhatWasTouched ==
  ASSUME PagesInduction, [PagesNext]_pageVars, NEW a \in Users, NEW f \in Fields,
         profile'[a][f] # profile[a][f]
  PROVE  \E t \in Tabs : save[t].kind = "sent" /\ save[t].of = a /\ f \in save[t].touched
<1>1. \E t \in Tabs : SaveStored(t)
  <2>1. profile' # profile
    OBVIOUS
  <2>2. PagesNext
    BY <2>1 DEF pageVars, accounts
  <2>3. ~ \E b \in Users, kind \in Kinds : Changes(b, kind)
    BY <2>1 DEF Changes
  <2>4. \A t \in Tabs : ~ QuerySteps(t)
    BY <2>1 DEF QuerySteps, StartFetch, ServeFetch, FetchLands, FetchFails, accounts
  <2>5. \A t \in Tabs : ~ PageSteps(t)
    BY <2>1 DEF PageSteps, Hears, Opens, SignedIn, SignOutPressed, SignOutSettles, accounts
  <2>6. \A t \in Tabs : FormSteps(t) => SaveStored(t)
    BY <2>1 DEF FormSteps, Edit, SavePressed, SaveRefused, SaveSettles, SaveLost, accounts
  <2> QED
    BY <2>2, <2>3, <2>4, <2>5, <2>6 DEF PagesNext
<1>2. PICK t \in Tabs : SaveStored(t)
  BY <1>1
<1> DEFINE row == Written(profile[save[t].of], save[t].patch)
<1>3. save[t].kind = "sent" /\ profile' = [profile EXCEPT ![save[t].of] = row]
  BY <1>2 DEF SaveStored
<1>4. save[t].of = a /\ row[f] # profile[a][f]
  BY <1>3, SentSaves DEF PagesInduction, Typed
<1>5. f \in DOMAIN save[t].patch
  BY <1>4 DEF Written
<1>6. f \in save[t].touched
  BY <1>3, <1>5 DEF PagesInduction, FormsAreTrue
<1> QED
  BY <1>3, <1>4, <1>6

\* A stored setting changes only to the save of a player who changed that field, however old the
\* form is and whatever other devices save meanwhile (ProfileScreen.tsx, updateProfile).
THEOREM OnlyTouchedFieldsEverChange == PagesConstants /\ PagesSpec => OnlyTouchedFieldsChange
<1>1. PagesInduction /\ [PagesNext]_pageVars =>
        [\A a \in Users, f \in Fields :
           profile'[a][f] # profile[a][f] =>
             \E t \in Tabs : /\ save[t].kind = "sent" /\ save[t].of = a
                             /\ f \in save[t].touched]_pageVars
  BY StoringWritesWhatWasTouched
<1> QED
  BY <1>1, PagesAlwaysTrue, PTL DEF PagesSpec, OnlyTouchedFieldsChange

-----------------------------------------------------------------------------
(* Prefixes                                                                *)

LEMMA PrefixMeans ==
  ASSUME NEW S, NEW s \in Seq(S), NEW t \in Seq(S)
  PROVE  IsPrefix(s, t) <=> Len(s) <= Len(t) /\ \A i \in 1..Len(s) : s[i] = t[i]
<1> DEFINE a == SubSeq(s, 1, Len(s))
           b == SubSeq(t, 1, Len(s))
<1>1. ASSUME Len(s) <= Len(t)
      PROVE  /\ a \in Seq(S) /\ b \in Seq(S) /\ Len(a) = Len(s) /\ Len(b) = Len(s)
             /\ \A i \in 1..Len(s) : a[i] = s[i] /\ b[i] = t[i]
  <2>1. Len(s) \in Nat /\ Len(t) \in Nat
    BY LenProperties
  <2>2. Len(s) = Len(s) - 1 + 1
    BY <2>1
  <2>3. CASE Len(s) = 0
    <3>1. a = <<>> /\ b = <<>>
      BY <2>3, SubSeqEmpty
    <3> QED
      BY <2>3, <3>1, EmptySeq
  <2>4. CASE Len(s) # 0
    <3>1. 1 \in 1..Len(s) /\ Len(s) \in 1..Len(s) /\ 1 \in 1..Len(t) /\ Len(s) \in 1..Len(t)
      BY <1>1, <2>1, <2>4
    <3>2. /\ a \in Seq(S) /\ Len(a) = Len(s)
          /\ \A i \in 1..Len(s) : a[i] = s[i]
      BY <2>1, <3>1, SubSeqProperties
    <3>3. /\ b \in Seq(S) /\ Len(b) = Len(s)
          /\ \A i \in 1..Len(s) : b[i] = t[i]
      BY <2>1, <3>1, SubSeqProperties
    <3> QED
      BY <3>2, <3>3
  <2> QED
    BY <2>3, <2>4
<1>2. ASSUME IsPrefix(s, t) PROVE Len(s) <= Len(t) /\ a = b
  BY <1>2 DEF IsPrefix
<1>3. ASSUME Len(s) <= Len(t), a = b PROVE IsPrefix(s, t)
  BY <1>3 DEF IsPrefix
<1>4. ASSUME IsPrefix(s, t) PROVE \A i \in 1..Len(s) : s[i] = t[i]
  BY <1>1, <1>2, <1>4
<1>5. ASSUME Len(s) <= Len(t), \A i \in 1..Len(s) : s[i] = t[i] PROVE a = b
  <2>1. \A i \in 1..Len(a) : a[i] = b[i]
    BY <1>1, <1>5
  <2> HIDE DEF a, b
  <2> QED
    BY <1>1, <1>5, <2>1, SeqEqual
<1> QED
  BY <1>2, <1>3, <1>4, <1>5

LEMMA PrefixFacts ==
  ASSUME NEW S
  PROVE  /\ \A s \in Seq(S) : IsPrefix(s, s) /\ IsPrefix(<<>>, s)
         /\ \A s, t, u \in Seq(S) : IsPrefix(s, t) /\ IsPrefix(t, u) => IsPrefix(s, u)
         /\ \A s \in Seq(S), e \in S : IsPrefix(s, Append(s, e))
         /\ \A s, t \in Seq(S) : IsPrefix(s, t) /\ Len(s) < Len(t) =>
              IsPrefix(Append(s, t[Len(s) + 1]), t)
<1>0. <<>> \in Seq(S) /\ Len(<<>>) = 0 /\ \A s \in Seq(S) : Len(s) \in Nat
  BY EmptySeq, LenProperties
<1>1. \A s \in Seq(S) : IsPrefix(s, s) /\ IsPrefix(<<>>, s)
  <2> SUFFICES ASSUME NEW s \in Seq(S) PROVE IsPrefix(s, s) /\ IsPrefix(<<>>, s)
    OBVIOUS
  <2>1. IsPrefix(s, s)
    BY <1>0, PrefixMeans
  <2>2. Len(<<>>) <= Len(s) /\ \A i \in 1..Len(<<>>) : <<>>[i] = s[i]
    BY <1>0
  <2>3. IsPrefix(<<>>, s)
    BY <1>0, <2>2, PrefixMeans
  <2> QED
    BY <2>1, <2>3
<1>2. \A s, t, u \in Seq(S) : IsPrefix(s, t) /\ IsPrefix(t, u) => IsPrefix(s, u)
  <2> SUFFICES ASSUME NEW s \in Seq(S), NEW t \in Seq(S), NEW u \in Seq(S),
                      IsPrefix(s, t), IsPrefix(t, u)
               PROVE  IsPrefix(s, u)
    OBVIOUS
  <2>1. Len(s) <= Len(t) /\ \A i \in 1..Len(s) : s[i] = t[i]
    BY PrefixMeans
  <2>2. Len(t) <= Len(u) /\ \A i \in 1..Len(t) : t[i] = u[i]
    BY PrefixMeans
  <2>3. Len(s) <= Len(u) /\ \A i \in 1..Len(s) : s[i] = u[i]
    BY <1>0, <2>1, <2>2
  <2> QED
    BY <2>3, PrefixMeans
<1>3. \A s \in Seq(S), e \in S : IsPrefix(s, Append(s, e))
  <2> SUFFICES ASSUME NEW s \in Seq(S), NEW e \in S PROVE IsPrefix(s, Append(s, e))
    OBVIOUS
  <2> DEFINE a == Append(s, e)
  <2>1. a \in Seq(S) /\ Len(a) = Len(s) + 1 /\ \A i \in 1..Len(s) : a[i] = s[i]
    BY AppendProperties
  <2> HIDE DEF a
  <2>2. Len(s) <= Len(a) /\ \A i \in 1..Len(s) : s[i] = a[i]
    BY <1>0, <2>1
  <2>3. IsPrefix(s, a)
    BY <2>1, <2>2, PrefixMeans
  <2> QED
    BY <2>3 DEF a
<1>4. \A s, t \in Seq(S) : IsPrefix(s, t) /\ Len(s) < Len(t) =>
         IsPrefix(Append(s, t[Len(s) + 1]), t)
  <2> SUFFICES ASSUME NEW s \in Seq(S), NEW t \in Seq(S), IsPrefix(s, t), Len(s) < Len(t)
               PROVE  IsPrefix(Append(s, t[Len(s) + 1]), t)
    OBVIOUS
  <2> DEFINE e == t[Len(s) + 1]
  <2>1. Len(s) + 1 \in 1..Len(t)
    BY <1>0
  <2>2. e \in S
    BY <2>1, ElementOfSeq
  <2>3. /\ Append(s, e) \in Seq(S) /\ Len(Append(s, e)) = Len(s) + 1
        /\ (\A i \in 1..Len(s) : Append(s, e)[i] = s[i]) /\ Append(s, e)[Len(s) + 1] = e
    BY <2>2, AppendProperties
  <2>4. \A i \in 1..Len(s) : s[i] = t[i]
    BY PrefixMeans
  <2>5. Len(Append(s, e)) <= Len(t)
    BY <1>0, <2>3
  <2>6. \A i \in 1..(Len(s) + 1) : Append(s, e)[i] = t[i]
    <3>1. \A i \in 1..(Len(s) + 1) : i \in 1..Len(s) \/ i = Len(s) + 1
      BY <1>0
    <3> QED
      BY <2>3, <2>4, <3>1, Zenon
  <2> HIDE DEF e
  <2>7. IsPrefix(Append(s, e), t)
    BY <2>3, <2>5, <2>6, PrefixMeans
  <2> QED
    BY <2>7 DEF e
<1> QED
  BY <1>1, <1>2, <1>3, <1>4

-----------------------------------------------------------------------------
(* The invariant                                                           *)

Snaps == [match : Match, log : Seq(Entry)]
Commands == [id : Nat \ {None}, match : Match, expected : Nat, kind : Kind]
Requests ==
  [kind : {"sync"}, pc : {"received", "read", "attached"}, conn : Nat, tag : {"open", "effect"},
   match : Match, snap : Snaps \cup {NoSnap}]
  \cup [kind : {"command"}, pc : {"received"}, conn : Nat, cmd : Commands]
  \cup [kind : {"settle"}, pc : {"received"}, match : Match]
Acks == {"ok", "duplicate-command", "match-ended", "clock-expired", "stale-version", "not-your-turn"}
Messages ==
  [type : {"snapshot"}, snap : Snaps]
  \cup [type : {"synced"}, tag : {"open", "effect"}, snap : Snaps]
  \cup [type : {"move"}, match : Match, version : Nat, entry : Entry]
  \cup [type : {"clock"}, match : Match, version : Int]
  \cup [type : {"ended"}, match : Match, version : Nat]
  \cup [type : {"answered"}, cmd : Nat, ack : Acks, snap : Snaps \cup {NoSnap}]
Channels ==
  [match : Match \cup {None}, log : Seq(Entry), pending : Commands \cup {NoPending},
   phase : {"authenticating", "ready", "reconnecting"}, resync : BOOLEAN, ended : BOOLEAN]

SessionTyped ==
  /\ log \in [Match -> Seq(Entry)] /\ current \in Match
  /\ tracked \in [Match -> Int] /\ conn \in Nat
  /\ tasks \subseteq Requests /\ down \in Seq(Messages) /\ ch \in Channels
  /\ screen \in Match /\ sent \in 0..MaxCommands

\* What was read of a match is what it was: its log has only grown since.
SnapIsReal(s) == IsPrefix(s.log, log[s.match])

\* A command was issued here, for a version its match had.
IsIssued(cmd) == cmd.id <= sent /\ cmd.expected <= Version(cmd.match)

\* Its fate is sealed: it is in the log, or no longer can be.
Decided(cmd) ==
  \/ Logged(cmd)
  \/ Over(cmd.match)
  \/ Version(cmd.match) > cmd.expected
  \/ cmd.kind # "resign" /\ ~MyTurn(cmd.match)

\* The board is of the match, and so is the command behind it.
ChannelIsReal ==
  /\ ch.match = None => ch.log = <<>>
  /\ ch.match # None => IsPrefix(ch.log, log[ch.match])
  /\ ch.pending # NoPending => IsIssued(ch.pending) /\ ch.pending.match = ch.match

RequestIsReal(t) ==
  /\ t.kind = "sync" /\ t.pc # "received" => t.snap \in Snaps /\ SnapIsReal(t.snap)
  /\ t.kind = "command" => IsIssued(t.cmd) /\ (t.cmd.id = ch.pending.id => t.cmd = ch.pending)

Carries(msg) ==
  msg.type \in {"snapshot", "synced"} \/ (msg.type = "answered" /\ msg.snap # NoSnap)

MessageIsReal(msg) ==
  /\ Carries(msg) => SnapIsReal(msg.snap)
  /\ msg.type = "move" =>
       msg.version \in 1..Version(msg.match) /\ msg.entry = log[msg.match][msg.version]
  /\ msg.type = "ended" => Over(msg.match)
  /\ msg.type = "answered" =>
       /\ msg.ack # "ok" => msg.snap # NoSnap
       /\ msg.cmd <= sent
       /\ ch.pending # NoPending /\ msg.cmd = ch.pending.id => Decided(ch.pending)

\* A refusal's board is as new as anything the client holds or reads before it: it is
\* formed under the row lock, and what is emitted is read in its order.
About(msg, m) == (msg.type = "move" /\ msg.match = m) \/ (Carries(msg) /\ msg.snap.match = m)
VersionIn(msg) == IF msg.type = "move" THEN msg.version ELSE Len(msg.snap.log)
RefusalsAreNewest ==
  \A i \in DOMAIN down :
    down[i].type = "answered" /\ down[i].snap # NoSnap =>
      LET snap == down[i].snap IN
        /\ ch.match = snap.match => Len(ch.log) <= Len(snap.log)
        /\ \A j \in DOMAIN down : j < i /\ About(down[j], snap.match) =>
             VersionIn(down[j]) <= Len(snap.log)

SessionInduction ==
  /\ SessionTyped /\ ChannelIsReal
  /\ \A t \in tasks : RequestIsReal(t)
  /\ \A i \in DOMAIN down : MessageIsReal(down[i])
  /\ RefusalsAreNewest

-----------------------------------------------------------------------------
(* Kinds of records                                                        *)

LEMMA RequestKinds ==
  /\ \A t \in Requests :
       /\ t.kind \in {"sync", "command", "settle"}
       /\ t.kind = "sync" => t.match \in Match /\ t.tag \in {"open", "effect"} /\ t.conn \in Nat
       /\ t.kind = "command" => t.cmd \in Commands
       /\ t.kind = "settle" => t.match \in Match
  /\ \A m \in Match : Settlement(m) \in Requests
  /\ conn \in Nat => \A tag \in {"open", "effect"}, m \in Match : Sync(tag, m) \in Requests
  /\ conn \in Nat => \A cmd \in Commands : Command(cmd) \in Requests
<1>1. \A t \in Requests :
       /\ t.kind \in {"sync", "command", "settle"}
       /\ t.kind = "sync" => t.match \in Match /\ t.tag \in {"open", "effect"} /\ t.conn \in Nat
       /\ t.kind = "command" => t.cmd \in Commands
       /\ t.kind = "settle" => t.match \in Match
  BY DEF Requests
<1>2. \A m \in Match : Settlement(m) \in Requests
  BY DEF Requests, Settlement
<1>3. ASSUME conn \in Nat PROVE \A tag \in {"open", "effect"}, m \in Match : Sync(tag, m) \in Requests
  BY <1>3 DEF Requests, Sync
<1>4. ASSUME conn \in Nat PROVE \A cmd \in Commands : Command(cmd) \in Requests
  BY <1>4 DEF Requests, Command
<1> QED
  BY <1>1, <1>2, <1>3, <1>4

LEMMA MessageKinds ==
  \A msg \in Messages :
    /\ msg.type \in {"snapshot", "synced", "move", "clock", "ended", "answered"}
    /\ Carries(msg) => msg.snap \in Snaps
    /\ msg.type \in {"snapshot", "synced"} => Carries(msg)
    /\ msg.type = "synced" => msg.tag \in {"open", "effect"}
    /\ msg.type = "move" => msg.match \in Match /\ msg.version \in Nat /\ msg.entry \in Entry
    /\ msg.type = "clock" => msg.match \in Match /\ msg.version \in Int
    /\ msg.type = "ended" => msg.match \in Match /\ msg.version \in Nat
    /\ msg.type = "answered" => msg.cmd \in Nat /\ msg.ack \in Acks /\ msg.snap \in Snaps \cup {NoSnap}
    /\ msg.type # "answered" => (Carries(msg) <=> msg.type \in {"snapshot", "synced"})
BY DEF Messages, Carries

LEMMA NoneIsNoMatch == None \notin Match /\ NoSnap \notin Snaps /\ NoPending \notin Commands /\ NoPending.id = None
BY DEF None, Match, Snaps, NoSnap, NoPending, Commands

-----------------------------------------------------------------------------
(* A log only grows, and one that is over stands                           *)

LogsGrow ==
  /\ log' \in [Match -> Seq(Entry)]
  /\ \A m \in Match : IsPrefix(log[m], log'[m]) /\ (Over(m) => log'[m] = log[m])

LEMMA GrowthKeeps ==
  ASSUME log \in [Match -> Seq(Entry)], LogsGrow
  PROVE  /\ \A m \in Match : /\ Version(m) \in Nat /\ Version(m)' \in Nat /\ Version(m) <= Version(m)'
                             /\ \A i \in 1..Version(m) : i \in 1..Version(m)' /\ log'[m][i] = log[m][i]
                             /\ Over(m) => Over(m)'
         /\ \A snap \in Snaps : SnapIsReal(snap) => SnapIsReal(snap)'
         /\ \A cmd \in Commands : cmd.expected <= Version(cmd.match) =>
              /\ cmd.expected <= Version(cmd.match)'
              /\ Decided(cmd) => Decided(cmd)'
<1>1. \A m \in Match : /\ Version(m) \in Nat /\ Version(m)' \in Nat /\ Version(m) <= Version(m)'
                       /\ \A i \in 1..Version(m) : i \in 1..Version(m)' /\ log'[m][i] = log[m][i]
                       /\ Over(m) => Over(m)'
  <2> TAKE m \in Match
  <2>1. log[m] \in Seq(Entry) /\ log'[m] \in Seq(Entry) /\ IsPrefix(log[m], log'[m])
    BY DEF LogsGrow
  <2>2. Len(log[m]) <= Len(log'[m]) /\ \A i \in 1..Len(log[m]) : log[m][i] = log'[m][i]
    BY <2>1, PrefixMeans
  <2>3. Len(log[m]) \in Nat /\ Len(log'[m]) \in Nat
    BY <2>1, LenProperties
  <2>4. Over(m) => Over(m)'
    BY DEF LogsGrow, Over
  <2> QED
    BY <2>2, <2>3, <2>4 DEF Version
<1>2. \A snap \in Snaps : SnapIsReal(snap) => SnapIsReal(snap)'
  BY PrefixFacts DEF Snaps, SnapIsReal, LogsGrow
<1>3. \A cmd \in Commands : cmd.expected <= Version(cmd.match) =>
              /\ cmd.expected <= Version(cmd.match)'
              /\ Decided(cmd) => Decided(cmd)'
  <2> SUFFICES ASSUME NEW cmd \in Commands, cmd.expected <= Version(cmd.match)
               PROVE  /\ cmd.expected <= Version(cmd.match)'
                      /\ Decided(cmd) => Decided(cmd)'
    OBVIOUS
  <2> DEFINE m == cmd.match
  <2>1. m \in Match /\ cmd.expected \in Nat
    BY DEF Commands
  <2>2. cmd.expected <= Version(m)'
    BY <1>1, <2>1
  <2>3. ASSUME Logged(cmd) PROVE Logged(cmd)'
    <3>1. PICK i \in 1..Version(m) : log[m][i].cmd = cmd.id
      <4>1. DOMAIN log[m] = 1..Version(m)
        BY <2>1, LenProperties DEF Version
      <4> QED
        BY <2>3, <4>1 DEF Logged
    <3>2. i \in 1..Version(m)' /\ log'[m][i].cmd = cmd.id
      BY <1>1, <2>1, <3>1
    <3>3. DOMAIN log'[m] = 1..Version(m)'
      BY <2>1, LenProperties DEF Version, LogsGrow
    <3> QED
      BY <3>2, <3>3 DEF Logged
  <2>4. ASSUME ~MyTurn(m), ~(Version(m) > cmd.expected), ~(Version(m)' > cmd.expected)
        PROVE  ~MyTurn(m)'
    <3>1. Version(m)' = Version(m)
      BY <1>1, <2>1, <2>2, <2>4
    <3> QED
      BY <2>4, <3>1 DEF MyTurn
  <2>5. Version(m) > cmd.expected => Version(m)' > cmd.expected
    BY <1>1, <2>1
  <2> QED
    BY <1>1, <2>1, <2>2, <2>3, <2>4, <2>5 DEF Decided
<1> QED
  BY <1>1, <1>2, <1>3

LEMMA CommitGrows ==
  ASSUME log \in [Match -> Seq(Entry)], NEW m \in Match, NEW entries \in Seq(Entry),
         log' = [log EXCEPT ![m] = entries],
         IsPrefix(log[m], entries), Over(m) => entries = log[m]
  PROVE  LogsGrow /\ log'[m] = entries
<1>1. log'[m] = entries /\ log' \in [Match -> Seq(Entry)] /\ \A n \in Match \ {m} : log'[n] = log[n]
  OBVIOUS
<1>2. \A n \in Match : IsPrefix(log[n], log[n])
  BY PrefixFacts
<1> QED
  BY <1>1, <1>2 DEF LogsGrow

LEMMA StandingGrows ==
  ASSUME log \in [Match -> Seq(Entry)], log' = log
  PROVE  LogsGrow
BY PrefixFacts DEF LogsGrow

-----------------------------------------------------------------------------
(* What is known of handlers, messages and the board stays known           *)

SameBoard ==
  /\ ch' \in Channels /\ ch'.match = ch.match /\ ch'.log = ch.log /\ ch'.pending = ch.pending

LEMMA KnowledgeStays ==
  ASSUME SessionInduction, LogsGrow, SameBoard, sent' = sent
  PROVE  /\ ChannelIsReal'
         /\ \A t \in Requests : RequestIsReal(t) => RequestIsReal(t)'
         /\ \A msg \in Messages : MessageIsReal(msg) => MessageIsReal(msg)'
<1>1. log \in [Match -> Seq(Entry)] /\ sent \in Nat /\ ch \in Channels /\ tasks \subseteq Requests
      /\ down \in Seq(Messages)
  BY BoundsAssumption DEF SessionInduction, SessionTyped
<1>2. \A cmd \in Commands : IsIssued(cmd) => IsIssued(cmd)'
  <2> SUFFICES ASSUME NEW cmd \in Commands, IsIssued(cmd) PROVE IsIssued(cmd)'
    OBVIOUS
  <2> QED
    BY <1>1, GrowthKeeps DEF IsIssued
<1>3. ASSUME ch.pending # NoPending
      PROVE  /\ ch.pending \in Commands /\ ch.pending.id <= sent
             /\ ch.pending.expected <= Version(ch.pending.match) /\ ch.pending.match = ch.match
  BY <1>1, <1>3 DEF Channels, SessionInduction, ChannelIsReal, IsIssued
<1>4. ASSUME ch.match # None PROVE IsPrefix(ch.log, log'[ch.match])
  <2>1. ch.match \in Match /\ ch.log \in Seq(Entry) /\ IsPrefix(ch.log, log[ch.match])
    BY <1>1, <1>4 DEF Channels, SessionInduction, ChannelIsReal
  <2>2. IsPrefix(log[ch.match], log'[ch.match]) /\ log'[ch.match] \in Seq(Entry) /\ log[ch.match] \in Seq(Entry)
    BY <1>1, <2>1 DEF LogsGrow
  <2> QED
    BY <2>1, <2>2, PrefixFacts
<1>5. ASSUME ch.pending # NoPending PROVE ch.pending.expected <= Len(log'[ch.pending.match])
  BY <1>1, <1>3, <1>5, GrowthKeeps DEF Version
<1>6. ChannelIsReal'
  <2>1. ch.match = None => ch.log = <<>>
    BY DEF SessionInduction, ChannelIsReal
  <2> QED
    BY <2>1, <1>3, <1>4, <1>5 DEF ChannelIsReal, SameBoard, IsIssued, Version
<1>7. \A t \in Requests : RequestIsReal(t) => RequestIsReal(t)'
  <2> SUFFICES ASSUME NEW t \in Requests, RequestIsReal(t) PROVE RequestIsReal(t)'
    OBVIOUS
  <2>2. t.kind = "command" => IsIssued(t.cmd)'
    <3> SUFFICES ASSUME t.kind = "command" PROVE IsIssued(t.cmd)'
      OBVIOUS
    <3>1. t.cmd \in Commands /\ IsIssued(t.cmd)
      BY RequestKinds DEF RequestIsReal
    <3> QED
      BY <1>2, <3>1
  <2>3. t.kind = "sync" /\ t.pc # "received" => t.snap \in Snaps /\ SnapIsReal(t.snap)'
    BY <1>1, GrowthKeeps DEF RequestIsReal
  <2> QED
    BY <2>2, <2>3 DEF RequestIsReal, SameBoard
<1>8. \A msg \in Messages : MessageIsReal(msg) => MessageIsReal(msg)'
  <2> SUFFICES ASSUME NEW msg \in Messages, MessageIsReal(msg) PROVE MessageIsReal(msg)'
    OBVIOUS
  <2>2. Carries(msg) => SnapIsReal(msg.snap)'
    BY <1>1, GrowthKeeps, MessageKinds DEF MessageIsReal
  <2>3. msg.type = "move" =>
          msg.version \in 1..Version(msg.match)' /\ msg.entry = log'[msg.match][msg.version]
    BY <1>1, GrowthKeeps, MessageKinds DEF MessageIsReal
  <2>4. msg.type = "ended" => Over(msg.match)'
    BY <1>1, GrowthKeeps, MessageKinds DEF MessageIsReal
  <2>5. msg.type = "answered" /\ ch.pending # NoPending /\ msg.cmd = ch.pending.id
          => Decided(ch.pending)'
    <3> SUFFICES ASSUME msg.type = "answered", ch.pending # NoPending, msg.cmd = ch.pending.id
                 PROVE  Decided(ch.pending)'
      OBVIOUS
    <3>1. Decided(ch.pending)
      BY DEF MessageIsReal
    <3> DEFINE cmd == ch.pending
    <3>2. \A c \in Commands : c.expected <= Version(c.match) /\ Decided(c) => Decided(c)'
      BY <1>1, GrowthKeeps
    <3>3. \A c \in Commands : c = ch.pending => Decided(c)'
      BY <1>3, <3>1, <3>2
    <3>4. \A c \in Commands : c = ch'.pending /\ Decided(c)' => Decided(ch.pending)'
      BY DEF Decided, Logged, Over, Version, MyTurn
    <3> QED
      BY <1>3, <3>3, <3>4 DEF SameBoard
  <2> QED
    BY <2>2, <2>3, <2>4, <2>5 DEF MessageIsReal, SameBoard, Carries
<1> QED
  BY <1>6, <1>7, <1>8

-----------------------------------------------------------------------------
(* What is emitted                                                         *)

\* A batch that says what is so once the step is taken; its refusals show the whole log.
Emitted(msgs) ==
  /\ msgs \in Seq(Messages)
  /\ \A i \in DOMAIN msgs : \A msg \in Messages : msg = msgs[i] =>
       /\ MessageIsReal(msg)'
       /\ msg.type = "answered" /\ msg.snap # NoSnap => msg.snap.log = log'[msg.snap.match]

LEMMA EmittingNothing == Emitted(<<>>)
BY EmptySeq DEF Emitted

LEMMA EmittingOne ==
  ASSUME NEW one \in Messages, MessageIsReal(one)',
         one.type = "answered" /\ one.snap # NoSnap => one.snap.log = log'[one.snap.match]
  PROVE  Emitted(<<one>>)
BY DEF Emitted

LEMMA EmittingBoth ==
  ASSUME NEW a \in Seq(Messages), NEW b \in Seq(Messages), Emitted(a), Emitted(b)
  PROVE  Emitted(a \o b)
<1> DEFINE both == a \o b
<1>1. /\ both \in Seq(Messages) /\ Len(both) = Len(a) + Len(b)
      /\ \A i \in 1..(Len(a) + Len(b)) : both[i] = IF i <= Len(a) THEN a[i] ELSE b[i - Len(a)]
  BY ConcatProperties
<1>2. Len(a) \in Nat /\ Len(b) \in Nat /\ DOMAIN a = 1..Len(a) /\ DOMAIN b = 1..Len(b)
      /\ DOMAIN both = 1..Len(both)
  BY <1>1, LenProperties
<1> HIDE DEF both
<1>3. ASSUME NEW i \in DOMAIN both
      PROVE  \A msg \in Messages : msg = both[i] =>
               /\ MessageIsReal(msg)'
               /\ msg.type = "answered" /\ msg.snap # NoSnap => msg.snap.log = log'[msg.snap.match]
  <2>1. CASE i <= Len(a)
    <3>1. i \in DOMAIN a /\ both[i] = a[i]
      BY <1>1, <1>2, <2>1
    <3> QED
      BY <3>1 DEF Emitted
  <2>2. CASE ~(i <= Len(a))
    <3>1. (i - Len(a)) \in DOMAIN b /\ both[i] = b[i - Len(a)]
      BY <1>1, <1>2, <2>2
    <3> QED
      BY <3>1 DEF Emitted
  <2> QED
    BY <2>1, <2>2
<1>4. Emitted(both)
  BY <1>1, <1>3 DEF Emitted
<1> QED
  BY <1>4 DEF both

LEMMA Regroup ==
  ASSUME NEW S
  PROVE  \A s, t, u \in Seq(S) : (s \o t) \o u = s \o (t \o u)
BY ConcatAssociative

LEMMA EmittingTwice ==
  ASSUME NEW a \in Seq(Messages), NEW b \in Seq(Messages), Emitted(a), Emitted(b),
         down \in Seq(Messages)
  PROVE  \E c \in Seq(Messages) : Emitted(c) /\ (down \o a) \o b = down \o c
<1>1. Emitted(a \o b) /\ a \o b \in Seq(Messages)
  BY EmittingBoth DEF Emitted
<1>2. (down \o a) \o b = down \o (a \o b)
  BY Regroup
<1> QED
  BY <1>1, <1>2, Zenon

\* A step that emits what is so leaves everything as it should be.
LEMMA EmissionKeeps ==
  ASSUME SessionInduction, LogsGrow, SameBoard, sent' = sent,
         NEW msgs \in Seq(Messages), Emitted(msgs), down' = down \o msgs,
         current' \in Match, tracked' \in [Match -> Int], conn' \in Nat, screen' \in Match,
         \A t \in tasks' : t \in tasks \/ (t \in Requests /\ RequestIsReal(t)')
  PROVE  SessionInduction'
<1>1. log \in [Match -> Seq(Entry)] /\ sent \in 0..MaxCommands /\ ch \in Channels
      /\ tasks \subseteq Requests /\ down \in Seq(Messages) /\ log' \in [Match -> Seq(Entry)]
  BY DEF SessionInduction, SessionTyped, LogsGrow
<1> DEFINE all == down \o msgs
<1>2. /\ all \in Seq(Messages) /\ Len(all) = Len(down) + Len(msgs)
      /\ \A i \in 1..(Len(down) + Len(msgs)) :
           all[i] = IF i <= Len(down) THEN down[i] ELSE msgs[i - Len(down)]
  BY <1>1, ConcatProperties
<1>3. Len(down) \in Nat /\ Len(msgs) \in Nat /\ DOMAIN down = 1..Len(down)
      /\ DOMAIN msgs = 1..Len(msgs) /\ DOMAIN all = 1..Len(all)
  BY <1>1, <1>2, LenProperties
<1>4. down' = all
  OBVIOUS
<1> HIDE DEF all
<1>5. /\ ChannelIsReal'
      /\ \A t \in Requests : RequestIsReal(t) => RequestIsReal(t)'
      /\ \A msg \in Messages : MessageIsReal(msg) => MessageIsReal(msg)'
  BY KnowledgeStays
<1>6. SessionTyped'
  BY <1>1, <1>2, <1>4 DEF SessionTyped, SameBoard
<1>7. \A t \in tasks' : RequestIsReal(t)'
  BY <1>1, <1>5 DEF SessionInduction
<1>8. ASSUME NEW i \in DOMAIN all
      PROVE  \/ i \in DOMAIN down /\ all[i] = down[i]
             \/ i > Len(down) /\ (i - Len(down)) \in DOMAIN msgs /\ all[i] = msgs[i - Len(down)]
  BY <1>2, <1>3
<1>9. \A i \in DOMAIN all : \A msg \in Messages : msg = all[i] => MessageIsReal(msg)'
  <2> SUFFICES ASSUME NEW i \in DOMAIN all, NEW msg \in Messages, msg = all[i]
               PROVE  MessageIsReal(msg)'
    OBVIOUS
  <2>1. CASE i \in DOMAIN down /\ all[i] = down[i]
    <3>1. MessageIsReal(msg)
      BY <2>1 DEF SessionInduction
    <3> QED
      BY <1>5, <3>1
  <2>2. CASE (i - Len(down)) \in DOMAIN msgs /\ all[i] = msgs[i - Len(down)]
    BY <2>2 DEF Emitted
  <2> QED
    BY <1>8, <2>1, <2>2
<1>10. \A i \in DOMAIN all : all[i] \in Messages
  BY <1>2, <1>3, ElementOfSeq
<1>11. (\A i \in DOMAIN down : MessageIsReal(down[i]))'
  <2> SUFFICES ASSUME NEW i \in DOMAIN all, NEW msg \in Messages, msg = all[i]
               PROVE  (\A k \in {i} : MessageIsReal(down[k]))'
    BY <1>4, <1>10
  <2>1. MessageIsReal(msg)'
    BY <1>9
  <2>2. \A x \in Messages : x = down'[i] /\ MessageIsReal(x)' => (\A k \in {i} : MessageIsReal(down[k]))'
    BY DEF MessageIsReal, Carries, SnapIsReal, Over, Version
  <2> QED
    BY <1>4, <2>1, <2>2
<1>12. RefusalsAreNewest'
  <2> SUFFICES ASSUME NEW i \in DOMAIN all, NEW msg \in Messages, msg = all[i],
                      msg.type = "answered", msg.snap # NoSnap
               PROVE  /\ ch.match = msg.snap.match => Len(ch.log) <= Len(msg.snap.log)
                      /\ \A j \in DOMAIN all : j < i /\ About(all[j], msg.snap.match) =>
                           VersionIn(all[j]) <= Len(msg.snap.log)
    BY <1>4, <1>10 DEF RefusalsAreNewest, SameBoard, About, VersionIn, Carries
  <2>1. CASE i \in DOMAIN down /\ all[i] = down[i]
    <3>1. \A j \in DOMAIN all : j < i => j \in DOMAIN down /\ all[j] = down[j]
      BY <1>3, <1>8, <2>1
    <3> QED
      BY <2>1, <3>1 DEF SessionInduction, RefusalsAreNewest
  <2>2. CASE (i - Len(down)) \in DOMAIN msgs /\ all[i] = msgs[i - Len(down)]
    <3>1. msg.snap.log = log'[msg.snap.match] /\ msg.snap.match \in Match
      BY <2>2, MessageKinds DEF Emitted, Carries, Snaps
    <3>2. ASSUME ch.match = msg.snap.match PROVE Len(ch.log) <= Len(msg.snap.log)
      <4>1. IsPrefix(ch.log, log'[ch.match])
        BY <1>5, <3>1, <3>2, NoneIsNoMatch DEF ChannelIsReal, SameBoard
      <4> QED
        BY <1>1, <3>1, <3>2, <4>1, PrefixMeans DEF Channels
    <3>3. ASSUME NEW j \in DOMAIN all, About(all[j], msg.snap.match)
          PROVE  VersionIn(all[j]) <= Len(msg.snap.log)
      <4> DEFINE earlier == all[j]
      <4>1. earlier \in Messages
        BY <1>10
      <4>3. \A x \in Messages : x = earlier => MessageIsReal(x)'
        BY <1>9
      <4>4. \A x \in Messages : MessageIsReal(x)' /\ About(x, msg.snap.match)
              => VersionIn(x) <= Len(log'[msg.snap.match])
        <5> SUFFICES ASSUME NEW x \in Messages, MessageIsReal(x)', About(x, msg.snap.match)
                     PROVE  VersionIn(x) <= Len(log'[msg.snap.match])
          OBVIOUS
        <5>1. CASE x.type = "move"
          BY <3>1, <5>1, MessageKinds, LenProperties, <1>1, SMTT(40) DEF MessageIsReal, VersionIn, Version, About, Carries
        <5>2. CASE x.type # "move"
          <6>1. Carries(x) /\ x.snap.match = msg.snap.match /\ x.snap \in Snaps
            BY <5>2, MessageKinds DEF About
          <6>2. x.snap.log \in Seq(Entry) /\ IsPrefix(x.snap.log, log'[msg.snap.match])
            BY <6>1 DEF MessageIsReal, SnapIsReal, Snaps, Carries
          <6> QED
            BY <1>1, <3>1, <5>2, <6>2, PrefixMeans DEF VersionIn
        <5> QED
          BY <5>1, <5>2
      <4> QED
        BY <3>1, <3>3, <4>1, <4>3, <4>4
    <3> QED
      BY <3>2, <3>3
  <2> QED
    BY <1>8, <2>1, <2>2
<1> QED
  BY <1>5, <1>6, <1>7, <1>11, <1>12 DEF SessionInduction

-----------------------------------------------------------------------------
(* What a commit does to a log, and what the room hears of it              *)

Refusals == {"duplicate-command", "match-ended", "clock-expired", "stale-version", "not-your-turn"}

LEMMA AnEntryFollows ==
  ASSUME NEW entries \in Seq(Entry), NEW e \in Entry
  PROVE  /\ Append(entries, e) \in Seq(Entry) /\ IsPrefix(entries, Append(entries, e))
         /\ Append(entries, e) # <<>> /\ Last(Append(entries, e)) = e
         /\ Len(Append(entries, e)) = Len(entries) + 1 /\ Append(entries, e)[Len(entries) + 1] = e
         /\ OverIn(Append(entries, e)) <=> e.kind # "move"
<1> DEFINE a == Append(entries, e)
<1>1. a \in Seq(Entry) /\ Len(a) = Len(entries) + 1 /\ a[Len(entries) + 1] = e
  BY AppendProperties
<1>2. IsPrefix(entries, a)
  BY PrefixFacts
<1> HIDE DEF a
<1>3. a # <<>> /\ Last(a) = e
  BY <1>1, LenProperties, EmptySeq DEF Last
<1>4. OverIn(a) <=> e.kind # "move"
  BY <1>3 DEF OverIn
<1> QED
  BY <1>1, <1>2, <1>3, <1>4 DEF a

LEMMA ACommitIsReal ==
  ASSUME log \in [Match -> Seq(Entry)], NEW m \in Match, NEW entry \in Entry,
         NEW refusal \in Refusals \cup {"commit"}, NEW publish \in {"move", "snapshot"},
         Over(m) => refusal \in {"duplicate-command", "match-ended"},
         NEW r, r = CommandResult(refusal, m, entry, publish), CommitResult(r)
  PROVE  /\ LogsGrow
         /\ r.snap \in Snaps /\ r.snap.match = m /\ log'[m] = r.snap.log
         /\ r.ack = (IF refusal = "commit" THEN "ok" ELSE refusal)
         /\ r.publish \in {"move", "snapshot", "nothing"}
         /\ r.publish = "move" => r.snap.log # <<>>
         /\ r.ended => Over(m)'
         /\ refusal = "clock-expired" => Over(m)'
         /\ refusal = "commit" => log'[m] = Append(log[m], entry)
         /\ refusal \notin {"clock-expired", "commit"} => log' = log
<1>0. TimeoutEntry \in Entry
  BY BoundsAssumption DEF Entry, TimeoutEntry, Kind, None
<1>1. log[m] \in Seq(Entry) /\ TimeoutEntry \in Entry
  BY <1>0
<1>2. CASE refusal = "clock-expired"
  <2>1. r.snap = SnapAfter(m, TimeoutEntry) /\ r.ack = refusal /\ r.publish = "nothing" /\ r.ended
    BY <1>2 DEF CommandResult, Result
  <2>2. r.snap.match = m /\ r.snap.log = Append(log[m], TimeoutEntry) /\ r.snap \in Snaps
    BY <1>1, <2>1, AnEntryFollows DEF SnapAfter, Snaps
  <2>3. ~Over(m)
    BY <1>2
  <2>4. log' = [log EXCEPT ![m] = r.snap.log]
    BY <2>2 DEF CommitResult
  <2>5. LogsGrow /\ log'[m] = r.snap.log
    BY <1>1, <2>2, <2>3, <2>4, AnEntryFollows, CommitGrows DEF Snaps
  <2>6. Over(m)'
    BY <1>1, <2>2, <2>5, AnEntryFollows DEF Over, TimeoutEntry
  <2> QED
    BY <1>2, <2>1, <2>2, <2>5, <2>6
<1>3. CASE refusal \notin {"clock-expired", "commit"}
  <2>1. r.snap = Snap(m) /\ r.ack = refusal /\ r.publish = "nothing" /\ ~r.ended
    BY <1>3 DEF CommandResult, Result
  <2>2. r.snap.match = m /\ r.snap.log = log[m] /\ r.snap \in Snaps
    BY <1>1, <2>1 DEF Snap, Snaps
  <2>3. log' = log
    BY <2>2 DEF CommitResult
  <2> QED
    BY <1>3, <2>1, <2>2, <2>3, StandingGrows
<1>4. CASE refusal = "commit"
  <2>1. /\ r.snap = SnapAfter(m, entry) /\ r.ack = "ok" /\ r.publish = publish
        /\ r.ended = (entry.kind # "move")
    BY <1>4 DEF CommandResult, Result
  <2>2. r.snap.match = m /\ r.snap.log = Append(log[m], entry) /\ r.snap \in Snaps
    BY <1>1, <2>1, AnEntryFollows DEF SnapAfter, Snaps
  <2>3. ~Over(m)
    BY <1>4
  <2>4. log' = [log EXCEPT ![m] = r.snap.log]
    BY <2>2 DEF CommitResult
  <2>5. LogsGrow /\ log'[m] = r.snap.log
    BY <1>1, <2>2, <2>3, <2>4, AnEntryFollows, CommitGrows DEF Snaps
  <2>6. r.ended => Over(m)'
    <3>1. OverIn(Append(log[m], entry)) <=> entry.kind # "move"
      BY <1>1, AnEntryFollows
    <3> QED
      BY <2>1, <2>2, <2>5, <3>1 DEF Over
  <2> QED
    BY <1>1, <1>4, <2>1, <2>2, <2>5, <2>6, AnEntryFollows
<1> QED
  BY <1>2, <1>3, <1>4

LEMMA PublicationsAreReal ==
  ASSUME log' \in [Match -> Seq(Entry)], NEW r, r.snap \in Snaps,
         log'[r.snap.match] = r.snap.log, r.ended => Over(r.snap.match)',
         r.publish \in {"move", "snapshot", "nothing"},
         r.publish = "move" => r.snap.log # <<>>
  PROVE  Publication(r) \in Seq(Messages) /\ Emitted(Publication(r))
<1>1. /\ r.snap.match \in Match /\ r.snap.log \in Seq(Entry) /\ Len(r.snap.log) \in Nat
      /\ IsPrefix(r.snap.log, r.snap.log)
  BY LenProperties, PrefixFacts DEF Snaps
<1>2. ASSUME r.publish = "snapshot" PROVE Emitted(<<SnapshotEvent(r.snap)>>)
  <2>1. SnapshotEvent(r.snap) \in Messages
    BY DEF SnapshotEvent, Messages
  <2>2. \A x \in Messages : x = SnapshotEvent(r.snap) => Emitted(<<x>>)
    <3> SUFFICES ASSUME NEW x \in Messages, x = SnapshotEvent(r.snap) PROVE Emitted(<<x>>)
      OBVIOUS
    <3>1. x.type = "snapshot" /\ x.snap = r.snap
      BY DEF SnapshotEvent
    <3>2. MessageIsReal(x)'
      BY <1>1, <3>1 DEF MessageIsReal, SnapIsReal, Carries
    <3> QED
      BY <3>1, <3>2, EmittingOne
  <2> QED
    BY <2>1, <2>2
<1>3. ASSUME r.publish = "move" PROVE Emitted(<<MoveEvent(r.snap)>>)
  <2>1. Len(r.snap.log) \in 1..Len(r.snap.log) /\ Last(r.snap.log) = r.snap.log[Len(r.snap.log)]
    BY <1>1, <1>3, EmptySeq DEF Last
  <2>2. Last(r.snap.log) \in Entry
    BY <1>1, <2>1, ElementOfSeq
  <2>3. MoveEvent(r.snap) \in Messages
    BY <1>1, <2>2 DEF MoveEvent, Messages
  <2>4. \A x \in Messages : x = MoveEvent(r.snap) => Emitted(<<x>>)
    <3> SUFFICES ASSUME NEW x \in Messages, x = MoveEvent(r.snap) PROVE Emitted(<<x>>)
      OBVIOUS
    <3>1. /\ x.type = "move" /\ x.match = r.snap.match /\ x.version = Len(r.snap.log)
          /\ x.entry = r.snap.log[Len(r.snap.log)]
      BY <2>1 DEF MoveEvent
    <3>2. MessageIsReal(x)'
      BY <2>1, <3>1 DEF MessageIsReal, SnapIsReal, Carries, Version
    <3> QED
      BY <3>1, <3>2, EmittingOne
  <2> QED
    BY <2>3, <2>4
<1>4. ASSUME r.ended PROVE Emitted(<<EndedEvent(r.snap)>>)
  <2>1. EndedEvent(r.snap) \in Messages
    BY <1>1 DEF EndedEvent, Messages
  <2>2. \A x \in Messages : x = EndedEvent(r.snap) => Emitted(<<x>>)
    <3> SUFFICES ASSUME NEW x \in Messages, x = EndedEvent(r.snap) PROVE Emitted(<<x>>)
      OBVIOUS
    <3>1. x.type = "ended" /\ x.match = r.snap.match
      BY DEF EndedEvent
    <3>2. MessageIsReal(x)'
      BY <1>4, <3>1 DEF MessageIsReal, SnapIsReal, Carries
    <3> QED
      BY <3>1, <3>2, EmittingOne
  <2> QED
    BY <2>1, <2>2
<1> DEFINE heard == CASE r.publish = "move"     -> <<MoveEvent(r.snap)>>
                      [] r.publish = "snapshot" -> <<SnapshotEvent(r.snap)>>
                      [] r.publish = "nothing"  -> <<>>
           end == IF r.ended THEN <<EndedEvent(r.snap)>> ELSE <<>>
<1>5. Emitted(heard) /\ Emitted(end)
  BY <1>2, <1>3, <1>4, EmittingNothing
<1>6. heard \in Seq(Messages) /\ end \in Seq(Messages)
  BY <1>5 DEF Emitted
<1>7. Publication(r) = heard \o end
  BY DEF Publication
<1> HIDE DEF heard, end
<1>8. Emitted(heard \o end)
  BY <1>5, <1>6, EmittingBoth
<1>9. Emitted(Publication(r))
  BY <1>7, <1>8
<1> QED
  BY <1>9 DEF Emitted

LEMMA TheRoomHears ==
  ASSUME NEW m, NEW msgs \in Seq(Messages), Emitted(msgs)
  PROVE  Heard(m, msgs) \in Seq(Messages) /\ Emitted(Heard(m, msgs))
BY EmittingNothing DEF Heard, Emitted

LEMMA TrackingIsTyped ==
  ASSUME tracked \in [Match -> Int], NEW snap \in Snaps
  PROVE  Track(snap) \in [Match -> Int]
<1>1. Len(snap.log) \in Int /\ Untracked \in Int
  BY LenProperties DEF Snaps, Untracked
<1> QED
  BY <1>1 DEF Track

LEMMA SilenceKeeps ==
  ASSUME SessionInduction, LogsGrow, SameBoard, sent' = sent, down' = down,
         current' \in Match, tracked' \in [Match -> Int], conn' \in Nat, screen' \in Match,
         \A t \in tasks' : t \in tasks \/ (t \in Requests /\ RequestIsReal(t)')
  PROVE  SessionInduction'
<1>1. down \in Seq(Messages)
  BY DEF SessionInduction, SessionTyped
<1>2. <<>> \in Seq(Messages) /\ down = down \o <<>>
  BY <1>1, EmptySeq, ConcatEmptySeq
<1> QED
  BY <1>2, EmittingNothing, EmissionKeeps

LEMMA LossKeeps ==
  ASSUME SessionInduction, LogsGrow, SameBoard, sent' = sent, down' = <<>>,
         current' \in Match, tracked' \in [Match -> Int], conn' \in Nat, screen' \in Match,
         tasks' \subseteq tasks
  PROVE  SessionInduction'
<1>1. /\ log' \in [Match -> Seq(Entry)] /\ sent \in 0..MaxCommands /\ tasks \subseteq Requests
  BY DEF SessionInduction, SessionTyped, LogsGrow
<1>2. <<>> \in Seq(Messages) /\ DOMAIN <<>> = {}
  BY EmptySeq
<1>3. /\ ChannelIsReal'
      /\ \A t \in Requests : RequestIsReal(t) => RequestIsReal(t)'
  BY KnowledgeStays
<1>4. SessionTyped'
  BY <1>1, <1>2 DEF SessionTyped, SameBoard
<1>5. \A t \in tasks' : RequestIsReal(t)'
  BY <1>1, <1>3 DEF SessionInduction
<1>6. (\A i \in DOMAIN down : MessageIsReal(down[i]))' /\ RefusalsAreNewest'
  BY <1>2 DEF RefusalsAreNewest
<1> QED
  BY <1>3, <1>4, <1>5, <1>6 DEF SessionInduction

-----------------------------------------------------------------------------
(* The steps of the server                                                 *)

LEMMA TypesOfState ==
  ASSUME SessionInduction
  PROVE  /\ log \in [Match -> Seq(Entry)] /\ current \in Match
         /\ tracked \in [Match -> Int] /\ conn \in Nat
         /\ tasks \subseteq Requests /\ down \in Seq(Messages) /\ ch \in Channels
         /\ screen \in Match /\ sent \in 0..MaxCommands
         /\ (ch' = ch => SameBoard) /\ (log' = log => LogsGrow)
BY StandingGrows DEF SessionInduction, SessionTyped, SameBoard

\* Behind an answer lies a command whose fate is sealed.
LEMMA AnAnswerDecides ==
  ASSUME SessionInduction, NEW cmd \in Commands, IsIssued(cmd),
         NEW entry \in Entry, entry.cmd = cmd.id,
         NEW r, r = CommandResult(Refusal(cmd), cmd.match, entry, "move")
                \/ r = CommandResult(Refusal(cmd), cmd.match, entry, "snapshot"),
         CommitResult(r)
  PROVE  Decided(cmd)'
<1> DEFINE m == cmd.match
<1>1. m \in Match /\ cmd.expected \in Nat /\ cmd.expected <= Version(m) /\ Version(m) \in Nat
      /\ log[m] \in Seq(Entry)
  BY TypesOfState, LenProperties DEF Commands, IsIssued, Version
<1>2. Refusal(cmd) \in Refusals \cup {"commit"}
  BY DEF Refusal, Refusals
<1>3. Over(m) => Refusal(cmd) \in {"duplicate-command", "match-ended"}
  BY DEF Refusal
<1>4. /\ Refusal(cmd) = "clock-expired" => Over(m)'
      /\ Refusal(cmd) = "commit" => log'[m] = Append(log[m], entry)
      /\ Refusal(cmd) \notin {"clock-expired", "commit"} => log' = log
  <2>1. log \in [Match -> Seq(Entry)]
    BY TypesOfState
  <2> QED
    BY <1>1, <1>2, <1>3, <2>1, ACommitIsReal
<1>5. log' = log /\ Decided(cmd) => Decided(cmd)'
  BY DEF Decided, Logged, Over, Version, MyTurn
<1>6. CASE Refusal(cmd) = "clock-expired"
  BY <1>4, <1>6 DEF Decided
<1>7. CASE Refusal(cmd) = "commit"
  <2>1. log'[m] = Append(log[m], entry)
    BY <1>4, <1>7
  <2>2. /\ Append(log[m], entry) \in Seq(Entry) /\ Len(Append(log[m], entry)) = Len(log[m]) + 1
        /\ Append(log[m], entry)[Len(log[m]) + 1] = entry
    BY <1>1, AnEntryFollows
  <2>3. Len(log[m]) + 1 \in DOMAIN Append(log[m], entry)
    BY <1>1, <2>2, LenProperties DEF Version
  <2>4. Logged(cmd)'
    BY <2>1, <2>2, <2>3 DEF Logged
  <2> QED
    BY <2>4 DEF Decided
<1>8. CASE Refusal(cmd) = "duplicate-command"
  <2>1. Logged(cmd)
    BY <1>8 DEF Refusal, Logged
  <2> QED
    BY <1>4, <1>5, <1>8, <2>1 DEF Decided
<1>9. CASE Refusal(cmd) = "match-ended"
  BY <1>4, <1>5, <1>9 DEF Refusal, Decided
<1>10. CASE Refusal(cmd) = "stale-version"
  <2>1. cmd.expected # Version(m)
    BY <1>10 DEF Refusal
  <2>2. Version(m) > cmd.expected
    BY <1>1, <2>1
  <2> QED
    BY <1>4, <1>5, <1>10, <2>2 DEF Decided
<1>11. CASE Refusal(cmd) = "not-your-turn"
  <2>1. cmd.kind # "resign" /\ ~MyTurn(m)
    BY <1>11 DEF Refusal
  <2> QED
    BY <1>4, <1>5, <1>11, <2>1 DEF Decided
<1> QED
  BY <1>2, <1>6, <1>7, <1>8, <1>9, <1>10, <1>11 DEF Refusals

LEMMA HandleCommandKeeps ==
  ASSUME SessionInduction, NEW t \in tasks, HandleCommand(t)
  PROVE  SessionInduction'
<1>1. /\ log \in [Match -> Seq(Entry)] /\ tasks \subseteq Requests /\ down \in Seq(Messages)
      /\ ch \in Channels /\ sent \in 0..MaxCommands /\ tracked \in [Match -> Int]
      /\ current \in Match /\ conn \in Nat /\ screen \in Match
  BY TypesOfState
<1>2. t.kind = "command" /\ t.cmd \in Commands /\ RequestIsReal(t)
  BY <1>1, RequestKinds DEF HandleCommand, SessionInduction
<1> DEFINE cmd == t.cmd
           m   == cmd.match
           e   == [kind |-> cmd.kind, cmd |-> cmd.id]
           p   == IF cmd.kind = "resign" THEN "snapshot" ELSE "move"
<1>3. IsIssued(cmd) /\ m \in Match /\ cmd.id \in Nat \ {None} /\ cmd.kind \in Kind
  BY <1>2 DEF RequestIsReal, Commands
<1>4. cmd.id \in 0..MaxCommands
  <2>1. MaxCommands \in Nat
    BY BoundsAssumption
  <2> QED
    BY <1>1, <1>3, <2>1, SMTT(40) DEF IsIssued
<1>5. e \in Entry /\ e.cmd = cmd.id /\ p \in {"move", "snapshot"}
  BY <1>3, <1>4 DEF Entry
<1>6. PICK r : /\ r = CommandResult(Refusal(cmd), m, e, p) /\ CommitResult(r)
               /\ tracked' = Track(r.snap)
               /\ down' = down \o Heard(m, Publication(r)) \o Answer(t, r)
  BY DEF HandleCommand
<1>7. /\ tasks' = tasks \ {t}
      /\ current' = current /\ conn' = conn /\ ch' = ch /\ screen' = screen /\ sent' = sent
  BY DEF HandleCommand, client
<1> HIDE DEF e, p
<1>8. Refusal(cmd) \in Refusals \cup {"commit"}
  BY DEF Refusal, Refusals
<1>9. Over(m) => Refusal(cmd) \in {"duplicate-command", "match-ended"}
  BY DEF Refusal
<1>10. /\ LogsGrow
       /\ r.snap \in Snaps /\ r.snap.match = m /\ log'[m] = r.snap.log
       /\ r.ack = (IF Refusal(cmd) = "commit" THEN "ok" ELSE Refusal(cmd))
       /\ r.publish \in {"move", "snapshot", "nothing"}
       /\ r.publish = "move" => r.snap.log # <<>>
       /\ r.ended => Over(m)'
  BY <1>1, <1>3, <1>5, <1>6, <1>8, <1>9, ACommitIsReal
<1>11. Decided(cmd)'
  BY <1>2, <1>3, <1>5, <1>6, AnAnswerDecides
<1>12. Publication(r) \in Seq(Messages) /\ Emitted(Publication(r))
  BY <1>10, PublicationsAreReal DEF LogsGrow
<1>13. Heard(m, Publication(r)) \in Seq(Messages) /\ Emitted(Heard(m, Publication(r)))
  BY <1>12, TheRoomHears
<1>14. Answer(t, r) \in Seq(Messages) /\ Emitted(Answer(t, r))
  <2> DEFINE a == [type |-> "answered", cmd |-> t.cmd.id, ack |-> r.ack,
                   snap |-> IF r.ack = "ok" THEN NoSnap ELSE r.snap]
  <2>1. r.ack \in Acks
    BY <1>8, <1>10 DEF Refusals, Acks
  <2>2. a \in Messages
    BY <1>3, <1>10, <2>1 DEF Messages
  <2>3. /\ a.type = "answered" /\ a.cmd = cmd.id /\ a.ack = r.ack
        /\ a.snap = IF r.ack = "ok" THEN NoSnap ELSE r.snap
    OBVIOUS
  <2>4. Answer(t, r) = <<>> \/ Answer(t, r) = <<a>>
    BY DEF Answer
  <2> HIDE DEF a
  <2>5. IsPrefix(r.snap.log, log'[m])
    BY <1>10, PrefixFacts DEF Snaps
  <2>6. ASSUME ch.pending # NoPending, cmd.id = ch.pending.id PROVE Decided(ch.pending)'
    <3>1. cmd = ch.pending
      BY <1>2, <2>6 DEF RequestIsReal
    <3>2. \A c \in Commands : c = ch'.pending /\ Decided(c)' => Decided(ch.pending)'
      BY DEF Decided, Logged, Over, Version, MyTurn
    <3> QED
      BY <1>2, <1>7, <1>11, <3>1, <3>2
  <2>7. \A x \in Messages : x = a => Emitted(<<x>>)
    <3> SUFFICES ASSUME NEW x \in Messages, x = a PROVE Emitted(<<x>>)
      OBVIOUS
    <3>1. SnapIsReal(x.snap)' \/ x.snap = NoSnap
      BY <1>10, <2>3, <2>5 DEF SnapIsReal
    <3>2. x.cmd <= sent'
      BY <1>3, <1>7, <2>3 DEF IsIssued
    <3>3. x.ack # "ok" => x.snap # NoSnap
      BY <1>10, <2>3, NoneIsNoMatch
    <3>4. MessageIsReal(x)'
      BY <1>7, <2>3, <2>6, <3>1, <3>2, <3>3 DEF MessageIsReal, Carries
    <3>5. x.snap # NoSnap => x.snap.log = log'[x.snap.match]
      BY <1>10, <2>3
    <3> QED
      BY <3>4, <3>5, EmittingOne
  <2>8. Emitted(Answer(t, r))
    BY <2>2, <2>4, <2>7, EmittingNothing
  <2> QED
    BY <2>8 DEF Emitted
<1>15. PICK a \in Seq(Messages) : a = Heard(m, Publication(r))
  BY <1>13
<1>16. PICK b \in Seq(Messages) : b = Answer(t, r)
  BY <1>14
<1>17. Emitted(a) /\ Emitted(b)
  BY <1>13, <1>14, <1>15, <1>16
<1>18. PICK c \in Seq(Messages) : Emitted(c) /\ down' = down \o c
  <2>1. down' = (down \o a) \o b
    BY <1>6, <1>15, <1>16
  <2> QED
    BY <1>1, <1>17, <2>1, EmittingTwice, Zenon
<1>19. tracked' \in [Match -> Int]
  BY <1>1, <1>6, <1>10, TrackingIsTyped
<1>20. SameBoard
  BY <1>7, TypesOfState
<1> QED
  BY <1>1, <1>7, <1>10, <1>18, <1>19, <1>20, EmissionKeeps

LEMMA OpponentCommandKeeps ==
  ASSUME SessionInduction, NEW resigns \in BOOLEAN, OpponentCommand(resigns)
  PROVE  SessionInduction'
<1>1. /\ log \in [Match -> Seq(Entry)] /\ down \in Seq(Messages)
      /\ tracked \in [Match -> Int]
      /\ current \in Match /\ conn \in Nat /\ screen \in Match
  BY TypesOfState
<1>2. PICK m \in Match : m = current
  BY <1>1
<1> DEFINE e == [kind |-> IF resigns THEN "resign" ELSE MoveAt(m, Version(m)), cmd |-> None]
           p == IF resigns THEN "snapshot" ELSE "move"
           f == IF TimedOut(m) THEN "clock-expired" ELSE "commit"
<1>3. e \in Entry /\ p \in {"move", "snapshot"} /\ f \in Refusals \cup {"commit"}
  <2>1. MoveAt(m, Version(m)) \in Kind /\ "resign" \in Kind
    BY DEF MoveAt, Kind
  <2>2. None \in 0..MaxCommands
    BY BoundsAssumption DEF None
  <2> QED
    BY <2>1, <2>2 DEF Entry, Refusals
<1>4. PICK r : /\ r = CommandResult(f, m, e, p) /\ CommitResult(r)
               /\ tracked' = Track(r.snap)
               /\ down' = down \o Heard(m, Publication(r))
  BY <1>2 DEF OpponentCommand
<1>5. /\ tasks' = tasks /\ ~Over(m)
      /\ current' = current /\ conn' = conn /\ ch' = ch /\ screen' = screen /\ sent' = sent
  BY <1>2 DEF OpponentCommand, client
<1> HIDE DEF e, p, f
<1>6. /\ LogsGrow
      /\ r.snap \in Snaps /\ r.snap.match = m /\ log'[m] = r.snap.log
      /\ r.publish \in {"move", "snapshot", "nothing"}
      /\ r.publish = "move" => r.snap.log # <<>>
      /\ r.ended => Over(m)'
  BY <1>1, <1>3, <1>4, <1>5, ACommitIsReal
<1>7. Publication(r) \in Seq(Messages) /\ Emitted(Publication(r))
  BY <1>6, PublicationsAreReal DEF LogsGrow
<1>8. Heard(m, Publication(r)) \in Seq(Messages) /\ Emitted(Heard(m, Publication(r)))
  BY <1>7, TheRoomHears
<1>9. PICK a \in Seq(Messages) : a = Heard(m, Publication(r))
  BY <1>8
<1>10. tracked' \in [Match -> Int]
  BY <1>1, <1>4, <1>6, TrackingIsTyped
<1>11. SameBoard
  BY <1>5, TypesOfState
<1> QED
  BY <1>1, <1>4, <1>5, <1>6, <1>8, <1>9, <1>10, <1>11, EmissionKeeps

LEMMA SettleExpiredKeeps ==
  ASSUME SessionInduction, NEW t \in tasks, SettleExpired(t)
  PROVE  SessionInduction'
<1>1. /\ log \in [Match -> Seq(Entry)] /\ down \in Seq(Messages)
      /\ tracked \in [Match -> Int] /\ tasks \subseteq Requests
      /\ current \in Match /\ conn \in Nat /\ screen \in Match
  BY TypesOfState
<1>2. PICK m \in Match : m = t.match
  BY <1>1, RequestKinds DEF SettleExpired
<1> DEFINE runOut == ~Over(m) /\ TimedOut(m)
           snap   == IF runOut THEN SnapAfter(m, TimeoutEntry) ELSE Snap(m)
<1>3. PICK r : /\ r = Result("none", snap, "snapshot", runOut) /\ CommitResult(r)
               /\ tracked' = Track(r.snap)
               /\ down' = down \o Heard(m, Publication(r))
  <2>1. Result("none", snap, "snapshot", runOut).snap = snap
    BY DEF Result
  <2> QED
    BY <1>2, <2>1 DEF SettleExpired
<1>4. /\ tasks' = tasks \ {t}
      /\ current' = current /\ conn' = conn /\ ch' = ch /\ screen' = screen /\ sent' = sent
  BY DEF SettleExpired, client
<1>5. r.snap = snap /\ r.publish = "snapshot" /\ (r.ended => runOut)
  <2>1. r.ended = runOut
    BY <1>3 DEF Result
  <2> QED
    BY <1>3, <2>1 DEF Result
<1>6. log[m] \in Seq(Entry) /\ IsPrefix(log[m], log[m])
  BY <1>1, PrefixFacts
<1>7. TimeoutEntry \in Entry /\ TimeoutEntry.kind # "move"
  BY BoundsAssumption DEF Entry, TimeoutEntry, Kind, None
<1>8. /\ LogsGrow
      /\ r.snap \in Snaps /\ r.snap.match = m /\ log'[m] = r.snap.log
      /\ r.ended => Over(m)'
  <2>1. CASE runOut
    <3>1. r.snap.match = m /\ r.snap.log = Append(log[m], TimeoutEntry)
      BY <1>5, <2>1 DEF SnapAfter
    <3>2. Append(log[m], TimeoutEntry) \in Seq(Entry) /\ IsPrefix(log[m], Append(log[m], TimeoutEntry))
          /\ OverIn(Append(log[m], TimeoutEntry))
      BY <1>6, <1>7, AnEntryFollows
    <3>3. r.snap \in Snaps
      BY <1>5, <2>1, <3>1, <3>2 DEF SnapAfter, Snaps
    <3>4. log' = [log EXCEPT ![m] = Append(log[m], TimeoutEntry)]
      BY <1>3, <3>1 DEF CommitResult
    <3>5. LogsGrow /\ log'[m] = Append(log[m], TimeoutEntry)
      BY <1>1, <2>1, <3>2, <3>4, CommitGrows
    <3> QED
      BY <3>1, <3>2, <3>3, <3>5 DEF Over
  <2>2. CASE ~runOut
    <3>1. r.snap.match = m /\ r.snap.log = log[m] /\ r.snap \in Snaps /\ ~r.ended
      BY <1>5, <1>6, <2>2 DEF Snap, Snaps
    <3>2. log' = log
      BY <1>1, <1>3, <3>1 DEF CommitResult
    <3> QED
      BY <1>1, <3>1, <3>2, StandingGrows
  <2> QED
    BY <2>1, <2>2
<1> HIDE DEF runOut, snap
<1>9. Publication(r) \in Seq(Messages) /\ Emitted(Publication(r))
  BY <1>5, <1>8, PublicationsAreReal DEF LogsGrow
<1>10. Heard(m, Publication(r)) \in Seq(Messages) /\ Emitted(Heard(m, Publication(r)))
  BY <1>9, TheRoomHears
<1>11. PICK a \in Seq(Messages) : a = Heard(m, Publication(r))
  BY <1>10
<1>12. tracked' \in [Match -> Int]
  BY <1>1, <1>3, <1>8, TrackingIsTyped
<1>13. SameBoard
  BY <1>4, TypesOfState
<1> QED
  BY <1>1, <1>3, <1>4, <1>8, <1>10, <1>11, <1>12, <1>13, EmissionKeeps

\* Steps at which nothing is emitted and no log grows.
LEMMA FailSettleKeeps ==
  ASSUME SessionInduction, NEW t \in tasks, FailSettle(t)
  PROVE  SessionInduction'
<1>1. /\ log' = log /\ current' = current /\ tracked' = tracked /\ down' = down /\ conn' = conn
      /\ ch' = ch /\ screen' = screen /\ sent' = sent /\ tasks' = tasks \ {t}
  BY DEF FailSettle, wire, client
<1> QED
  BY <1>1, TypesOfState, SilenceKeeps

LEMMA ElapseKeeps ==
  ASSUME SessionInduction, Elapse
  PROVE  SessionInduction'
<1>1. /\ log' = log /\ current' = current /\ tracked' = tracked /\ down' = down /\ conn' = conn
      /\ ch' = ch /\ screen' = screen /\ sent' = sent /\ tasks' = tasks
  BY DEF Elapse, wire, client
<1> QED
  BY <1>1, TypesOfState, SilenceKeeps

LEMMA TickExpiredKeeps ==
  ASSUME SessionInduction, NEW m \in Match, TickExpired(m)
  PROVE  SessionInduction'
<1>1. /\ log' = log /\ current' = current /\ down' = down /\ conn' = conn
      /\ ch' = ch /\ screen' = screen /\ sent' = sent /\ tasks' = tasks \cup {Settlement(m)}
      /\ tracked' = [tracked EXCEPT ![m] = Untracked]
  BY DEF TickExpired, wire, client
<1>2. tracked' \in [Match -> Int]
  BY <1>1, TypesOfState DEF Untracked
<1>3. Settlement(m) \in Requests
  BY RequestKinds
<1>4. \A t \in Requests : t.kind = "settle" => RequestIsReal(t)'
  BY DEF RequestIsReal
<1>5. Settlement(m).kind = "settle"
  BY DEF Settlement
<1>6. \A t \in tasks' : t \in tasks \/ (t \in Requests /\ RequestIsReal(t)')
  BY <1>1, <1>3, <1>4, <1>5
<1> QED
  BY <1>1, <1>2, <1>6, TypesOfState, SilenceKeeps

LEMMA TickSyncKeeps ==
  ASSUME SessionInduction, NEW m \in Match, TickSync(m)
  PROVE  SessionInduction'
<1>1. /\ log' = log /\ current' = current /\ conn' = conn /\ tracked' = tracked
      /\ ch' = ch /\ screen' = screen /\ sent' = sent /\ tasks' = tasks
  BY DEF TickSync, server, client
<1>2. PICK x : /\ x = [type |-> "clock", match |-> m, version |-> tracked[m]]
               /\ down' = Append(down, x)
  BY DEF TickSync
<1>3. tracked[m] \in Int
  BY TypesOfState
<1>4. x \in Messages /\ x.type = "clock"
  BY <1>2, <1>3 DEF Messages
<1>5. MessageIsReal(x)'
  BY <1>4 DEF MessageIsReal, Carries
<1>6. Emitted(<<x>>)
  BY <1>4, <1>5, EmittingOne
<1>7. <<x>> \in Seq(Messages) /\ down' = down \o <<x>>
  BY <1>2, <1>4, TypesOfState, AppendIsConcat
<1> QED
  BY <1>1, <1>6, <1>7, TypesOfState, EmissionKeeps

LEMMA SeatRematchKeeps ==
  ASSUME SessionInduction, SeatRematch
  PROVE  SessionInduction'
<1>1. /\ log' = log /\ current' = current + 1 /\ conn' = conn /\ tracked' = Track(Snap(current'))
      /\ ch' = ch /\ screen' = screen /\ sent' = sent /\ tasks' = tasks
  BY DEF SeatRematch, client
<1>2. /\ log \in [Match -> Seq(Entry)] /\ down \in Seq(Messages)
      /\ tracked \in [Match -> Int] /\ current \in Match /\ conn \in Nat /\ screen \in Match
      /\ SameBoard /\ LogsGrow
  BY <1>1, TypesOfState
<1>3. current' \in Match
  <2>1. MaxMatches \in Nat
    BY BoundsAssumption
  <2> QED
    BY <1>1, <1>2, <2>1 DEF SeatRematch, Match
<1>4. PICK n \in Match : n = current'
  BY <1>3
<1>5. PICK s \in Snaps : s = Snap(n) /\ s.match = n /\ s.log = log[n]
  <2>1. Snap(n) \in Snaps /\ Snap(n).match = n /\ Snap(n).log = log[n]
    BY <1>2 DEF Snap, Snaps
  <2> QED
    BY <2>1
<1>6. tracked' \in [Match -> Int]
  BY <1>1, <1>2, <1>4, <1>5, TrackingIsTyped
<1>7. CASE down' = down
  BY <1>1, <1>2, <1>3, <1>6, <1>7, SilenceKeeps
<1>8. CASE down' = Append(down, SnapshotEvent(Snap(current')))
  <2>1. PICK x : x = SnapshotEvent(s)
    OBVIOUS
  <2>2. x \in Messages /\ x.type = "snapshot" /\ x.snap = s
    BY <2>1 DEF SnapshotEvent, Messages
  <2>3. SnapIsReal(s)'
    BY <1>1, <1>2, <1>5, PrefixFacts DEF SnapIsReal
  <2>4. MessageIsReal(x)'
    BY <2>2, <2>3 DEF MessageIsReal, Carries
  <2>5. Emitted(<<x>>)
    BY <2>2, <2>4, EmittingOne
  <2>6. <<x>> \in Seq(Messages) /\ down' = down \o <<x>>
    BY <1>2, <1>4, <1>5, <1>8, <2>1, <2>2, AppendIsConcat
  <2> QED
    BY <1>1, <1>2, <1>3, <1>6, <2>5, <2>6, EmissionKeeps
<1> QED
  BY <1>7, <1>8 DEF SeatRematch

SyncRequests ==
  [kind : {"sync"}, pc : {"received", "read", "attached"}, conn : Nat, tag : {"open", "effect"},
   match : Match, snap : Snaps \cup {NoSnap}]

LEMMA SyncsAreSyncs ==
  /\ \A t \in Requests : t.kind = "sync" => t \in SyncRequests
  /\ SyncRequests \subseteq Requests
  /\ \A t \in SyncRequests : t.kind = "sync" /\ t.match \in Match /\ t.tag \in {"open", "effect"}
BY DEF Requests, SyncRequests

LEMMA SyncReadKeeps ==
  ASSUME SessionInduction, NEW t \in tasks, SyncRead(t)
  PROVE  SessionInduction'
<1>1. /\ log' = log /\ current' = current /\ tracked' = tracked /\ down' = down /\ conn' = conn
      /\ ch' = ch /\ screen' = screen /\ sent' = sent
      /\ tasks' = (tasks \ {t}) \cup {[t EXCEPT !.pc = "read", !.snap = Snap(t.match)]}
  BY DEF SyncRead, wire, client
<1>2. t \in SyncRequests /\ t.match \in Match /\ log[t.match] \in Seq(Entry)
  BY TypesOfState, SyncsAreSyncs DEF SyncRead
<1>3. Snap(t.match) \in Snaps /\ Snap(t.match).match = t.match /\ Snap(t.match).log = log[t.match]
  BY <1>2 DEF Snap, Snaps
<1>4. PICK u : u = [t EXCEPT !.pc = "read", !.snap = Snap(t.match)]
  OBVIOUS
<1>5. u \in SyncRequests /\ u.kind = "sync" /\ u.snap = Snap(t.match)
  BY <1>2, <1>3, <1>4 DEF SyncRequests
<1>6. PICK s \in Snaps : s = u.snap
  BY <1>3, <1>5
<1>7. SnapIsReal(s)'
  <2>1. IsPrefix(log[t.match], log[t.match])
    BY <1>2, PrefixFacts
  <2> QED
    BY <1>1, <1>3, <1>5, <1>6, <2>1 DEF SnapIsReal
<1>8. u \in Requests /\ RequestIsReal(u)'
  BY <1>5, <1>6, <1>7, SyncsAreSyncs DEF RequestIsReal
<1> QED
  BY <1>1, <1>4, <1>8, TypesOfState, SilenceKeeps

LEMMA SyncAnswersAreReal ==
  ASSUME SessionInduction, log' = log, NEW t \in tasks, t.kind = "sync", t.pc # "received",
         NEW heard, heard = (IF link /\ t.conn = conn THEN SyncAnswer(t) ELSE <<>>)
  PROVE  heard \in Seq(Messages) /\ Emitted(heard)
<1>1. t \in SyncRequests /\ RequestIsReal(t)
  BY TypesOfState, SyncsAreSyncs DEF SessionInduction
<1>2. t.snap \in Snaps /\ SnapIsReal(t.snap) /\ t.tag \in {"open", "effect"}
  BY <1>1, SyncsAreSyncs DEF RequestIsReal
<1>3. PICK x : x = [type |-> "synced", tag |-> t.tag, snap |-> t.snap]
  OBVIOUS
<1>4. x \in Messages /\ x.type = "synced" /\ x.snap = t.snap
  BY <1>2, <1>3 DEF Messages
<1>5. SnapIsReal(t.snap)'
  BY <1>2 DEF SnapIsReal
<1>6. MessageIsReal(x)'
  BY <1>4, <1>5 DEF MessageIsReal, Carries
<1>7. Emitted(<<x>>)
  BY <1>4, <1>6, EmittingOne
<1>8. Emitted(heard)
  BY <1>3, <1>7, EmittingNothing DEF SyncAnswer
<1> QED
  BY <1>8 DEF Emitted

LEMMA SyncEmitKeeps ==
  ASSUME SessionInduction, NEW t \in tasks, SyncEmit(t)
  PROVE  SessionInduction'
<1>1. /\ log' = log /\ current' = current /\ tracked' = tracked /\ conn' = conn
      /\ ch' = ch /\ screen' = screen /\ sent' = sent /\ tasks' = tasks \ {t}
      /\ t.kind = "sync" /\ t.pc = "attached"
  BY DEF SyncEmit, client
<1>2. PICK heard : /\ heard = (IF link /\ t.conn = conn THEN SyncAnswer(t) ELSE <<>>)
                   /\ down' = down \o heard
  BY DEF SyncEmit
<1>3. heard \in Seq(Messages) /\ Emitted(heard)
  BY <1>1, <1>2, SyncAnswersAreReal
<1> QED
  BY <1>1, <1>2, <1>3, TypesOfState, EmissionKeeps

LEMMA SyncAttachKeeps ==
  ASSUME SessionInduction, NEW t \in tasks, SyncAttach(t)
  PROVE  SessionInduction'
<1>1. /\ log' = log /\ current' = current /\ conn' = conn
      /\ ch' = ch /\ screen' = screen /\ sent' = sent /\ tracked' = Track(t.snap)
      /\ t.kind = "sync" /\ t.pc = "read"
  BY DEF SyncAttach, client
<1>2. t \in SyncRequests /\ RequestIsReal(t)
  BY <1>1, TypesOfState, SyncsAreSyncs DEF SessionInduction
<1>3. t.snap \in Snaps /\ SnapIsReal(t.snap)
  BY <1>1, <1>2 DEF RequestIsReal
<1>4. tracked' \in [Match -> Int]
  BY <1>1, <1>3, TypesOfState, TrackingIsTyped
<1>5. CASE link /\ t.conn = conn /\ t.match \notin attached
  <2>1. PICK u : u = [t EXCEPT !.pc = "attached"]
    OBVIOUS
  <2>2. u \in SyncRequests /\ u.kind = "sync" /\ u.snap = t.snap
    BY <1>2, <2>1 DEF SyncRequests
  <2>3. tasks' = (tasks \ {t}) \cup {u} /\ down' = down
    BY <1>5, <2>1 DEF SyncAttach
  <2>4. SnapIsReal(t.snap)'
    BY <1>1, <1>3 DEF SnapIsReal
  <2>5. u \in Requests /\ RequestIsReal(u)'
    BY <1>3, <2>2, <2>4, SyncsAreSyncs DEF RequestIsReal
  <2> QED
    BY <1>1, <1>4, <2>3, <2>5, TypesOfState, SilenceKeeps
<1>6. CASE ~(link /\ t.conn = conn /\ t.match \notin attached)
  <2>1. tasks' = tasks \ {t}
    BY <1>6 DEF SyncAttach
  <2>2. PICK heard : /\ heard = (IF link /\ t.conn = conn THEN SyncAnswer(t) ELSE <<>>)
                     /\ down' = down \o heard
    BY <1>6 DEF SyncAttach
  <2>3. heard \in Seq(Messages) /\ Emitted(heard)
    BY <1>1, <2>2, SyncAnswersAreReal
  <2> QED
    BY <1>1, <1>4, <2>1, <2>2, <2>3, TypesOfState, EmissionKeeps
<1> QED
  BY <1>5, <1>6

-----------------------------------------------------------------------------
(* The steps of the connection, and those of the client that move no board *)

LEMMA PhaseIsNotBoard ==
  ASSUME ch \in Channels,
         NEW phase \in {"authenticating", "ready", "reconnecting"},
         ch' = [ch EXCEPT !.phase = phase] \/ ch' = [ch EXCEPT !.resync = TRUE]
  PROVE  SameBoard
BY DEF Channels, SameBoard

LEMMA SyncsAreReal ==
  ASSUME conn \in Nat, screen \in Match
  PROVE  /\ \A tag \in {"open", "effect"} :
              Sync(tag, screen) \in Requests
              /\ \A t \in Requests : t = Sync(tag, screen) => RequestIsReal(t)'
         /\ \A c : Resync(c) \subseteq {Sync("effect", screen)}
<1>1. \A tag \in {"open", "effect"} : Sync(tag, screen) \in Requests
  BY RequestKinds
<1>2. \A tag : Sync(tag, screen).kind = "sync" /\ Sync(tag, screen).pc = "received"
  BY DEF Sync
<1>3. \A t \in Requests : t.kind = "sync" /\ t.pc = "received" => RequestIsReal(t)'
  BY DEF RequestIsReal
<1>4. \A c : Resync(c) \subseteq {Sync("effect", screen)}
  BY DEF Resync
<1> QED
  BY <1>1, <1>2, <1>3, <1>4

LEMMA DropKeeps ==
  ASSUME SessionInduction, Drop
  PROVE  SessionInduction'
<1>1. /\ log' = log /\ current' = current /\ tracked' = tracked /\ conn' = conn /\ down' = <<>>
      /\ screen' = screen /\ sent' = sent /\ ch' = [ch EXCEPT !.phase = "reconnecting"]
      /\ tasks' \subseteq tasks
  BY DEF Drop, Disconnected
<1>2. SameBoard
  BY <1>1, TypesOfState, PhaseIsNotBoard
<1> QED
  BY <1>1, <1>2, TypesOfState, LossKeeps

LEMMA RestartKeeps ==
  ASSUME SessionInduction, Restart
  PROVE  SessionInduction'
<1>1. /\ current' = current /\ conn' = conn /\ down' = <<>>
      /\ screen' = screen /\ sent' = sent /\ ch' = [ch EXCEPT !.phase = "reconnecting"]
      /\ tasks' = {} /\ tracked' = [m \in Match |-> Untracked]
      /\ log' = [m \in Match |-> IF m = current /\ ~Over(m) /\ TimedOut(m)
                                    THEN Append(log[m], TimeoutEntry) ELSE log[m]]
  BY DEF Restart, Disconnected
<1>2. SameBoard
  BY <1>1, TypesOfState, PhaseIsNotBoard
<1>3. TimeoutEntry \in Entry
  BY BoundsAssumption DEF Entry, TimeoutEntry, Kind, None
<1>4. \A m \in Match : /\ log'[m] \in Seq(Entry) /\ IsPrefix(log[m], log'[m])
                       /\ Over(m) => log'[m] = log[m]
  <2> TAKE m \in Match
  <2>1. log[m] \in Seq(Entry)
    BY TypesOfState
  <2>2. CASE m = current /\ ~Over(m) /\ TimedOut(m)
    <3>1. log'[m] = Append(log[m], TimeoutEntry)
      BY <1>1, <2>2
    <3> QED
      BY <1>3, <2>1, <2>2, <3>1, AnEntryFollows
  <2>3. CASE ~(m = current /\ ~Over(m) /\ TimedOut(m))
    <3>1. log'[m] = log[m]
      BY <1>1, <2>3
    <3> QED
      BY <2>1, <3>1, PrefixFacts
  <2> QED
    BY <2>2, <2>3
<1>5. LogsGrow
  <2>1. log' \in [Match -> Seq(Entry)]
    BY <1>1, <1>4
  <2> QED
    BY <1>4, <2>1 DEF LogsGrow
<1>6. tracked' \in [Match -> Int]
  BY <1>1 DEF Untracked
<1> QED
  BY <1>1, <1>2, <1>5, <1>6, TypesOfState, LossKeeps

LEMMA ConnectKeeps ==
  ASSUME SessionInduction, Connect
  PROVE  SessionInduction'
<1>1. /\ log' = log /\ current' = current /\ tracked' = tracked /\ conn' = conn + 1 /\ down' = down
      /\ screen' = screen /\ sent' = sent /\ ch' = [ch EXCEPT !.phase = "authenticating"]
      /\ tasks' = tasks
  BY DEF Connect, server
<1>2. SameBoard
  BY <1>1, TypesOfState, PhaseIsNotBoard
<1>3. conn' \in Nat
  BY <1>1, TypesOfState
<1> QED
  BY <1>1, <1>2, <1>3, TypesOfState, SilenceKeeps

LEMMA AuthenticatedKeeps ==
  ASSUME SessionInduction, Authenticated
  PROVE  SessionInduction'
<1>1. /\ log' = log /\ current' = current /\ tracked' = tracked /\ conn' = conn /\ down' = down
      /\ screen' = screen /\ sent' = sent /\ ch' = [ch EXCEPT !.phase = "ready"]
      /\ tasks' = tasks \cup {Sync("open", screen)} \cup Resync(ch')
  BY DEF Authenticated, wire
<1>2. SameBoard
  BY <1>1, TypesOfState, PhaseIsNotBoard
<1>3. \A t \in tasks' : t \in tasks \/ (t \in Requests /\ RequestIsReal(t)')
  <2>1. /\ \A tag \in {"open", "effect"} :
              Sync(tag, screen) \in Requests
              /\ \A t \in Requests : t = Sync(tag, screen) => RequestIsReal(t)'
        /\ Resync(ch') \subseteq {Sync("effect", screen)}
    BY TypesOfState, SyncsAreReal
  <2> QED
    BY <1>1, <2>1
<1> QED
  BY <1>1, <1>2, <1>3, TypesOfState, SilenceKeeps

LEMMA NavigateKeeps ==
  ASSUME SessionInduction, Navigate
  PROVE  SessionInduction'
<1>1. /\ log' = log /\ current' = current /\ tracked' = tracked /\ conn' = conn /\ down' = down
      /\ tasks' = tasks /\ sent' = sent /\ screen' = ch.match /\ ch.match > screen
      /\ ch' = ch \/ ch' = [ch EXCEPT !.phase = "authenticating"]
  BY DEF Navigate, wire, server
<1>2. SameBoard
  BY <1>1, TypesOfState, PhaseIsNotBoard
<1>3. screen' \in Match
  <2>1. ch.match \in Match \cup {None} /\ screen \in Match
    BY TypesOfState DEF Channels
  <2> QED
    BY <1>1, <2>1, BoundsAssumption DEF Match, None
<1> QED
  BY <1>1, <1>2, <1>3, TypesOfState, SilenceKeeps

-----------------------------------------------------------------------------
(* What the reducer makes of a message                                     *)

\* Channel c may follow the held one once `msg` is read.
Follows(c, msg) ==
  /\ c \in Channels /\ c.pending \in {ch.pending, NoPending}
  /\ c.match = None => c.log = <<>>
  /\ c.match # None => IsPrefix(c.log, log[c.match])
  /\ c.pending # NoPending => c.match = ch.match
  /\ c.match = ch.match => Len(ch.log) <= Len(c.log)
  /\ ch.pending # NoPending /\ c.pending # ch.pending /\ c.match = ch.match => Decided(ch.pending)
  /\ \/ c.match = ch.match /\ c.log = ch.log
     \/ c.match \in Match /\ About(msg, c.match) /\ Len(c.log) = VersionIn(msg)

LEMMA TheHeldBoard ==
  ASSUME SessionInduction
  PROVE  /\ ch \in Channels /\ ch.match \in Match \cup {None} /\ ch.log \in Seq(Entry)
         /\ Len(ch.log) \in Nat /\ ch.pending \in Commands \cup {NoPending}
         /\ ch.match = None => ch.log = <<>>
         /\ ch.match # None =>
              log[ch.match] \in Seq(Entry) /\ IsPrefix(ch.log, log[ch.match])
              /\ Len(ch.log) <= Version(ch.match) /\ Version(ch.match) \in Nat
         /\ ch.pending # NoPending =>
              /\ IsIssued(ch.pending) /\ ch.pending.match = ch.match /\ ch.match \in Match
              /\ ch.pending.expected \in Nat
<1>1. /\ ch \in Channels /\ ch.match \in Match \cup {None} /\ ch.log \in Seq(Entry)
      /\ ch.pending \in Commands \cup {NoPending} /\ log \in [Match -> Seq(Entry)]
  BY TypesOfState DEF Channels
<1>2. /\ ch.match = None => ch.log = <<>>
      /\ ch.match # None => IsPrefix(ch.log, log[ch.match])
      /\ ch.pending # NoPending => IsIssued(ch.pending) /\ ch.pending.match = ch.match
  BY DEF SessionInduction, ChannelIsReal
<1>3. ASSUME ch.match # None PROVE Len(ch.log) <= Version(ch.match) /\ Version(ch.match) \in Nat
  <2>1. ch.match \in Match /\ log[ch.match] \in Seq(Entry)
    BY <1>1, <1>3
  <2> QED
    BY <1>1, <1>2, <1>3, <2>1, PrefixMeans, LenProperties DEF Version
<1>4. ASSUME ch.pending # NoPending PROVE ch.match \in Match /\ ch.pending.expected \in Nat
  BY <1>1, <1>2, <1>4 DEF Commands
<1> QED
  BY <1>1, <1>2, <1>3, <1>4, LenProperties

\* A channel that keeps its board and its command, or the board only.
LEMMA StayingFollows ==
  ASSUME SessionInduction, NEW msg, NEW c \in Channels, c.match = ch.match, c.log = ch.log,
         \/ c.pending = ch.pending
         \/ c.pending = NoPending /\ (ch.pending # NoPending => Decided(ch.pending))
  PROVE  Follows(c, msg)
<1>1. Len(ch.log) <= Len(ch.log)
  BY TheHeldBoard
<1>2. c.pending # NoPending => c.match = ch.match
  OBVIOUS
<1> QED
  BY <1>1, <1>2, TheHeldBoard DEF Follows

LEMMA ClearingDecides ==
  ASSUME SessionInduction, NEW v \in Nat, ch.match # None => v <= Version(ch.match)
  PROVE  \/ ClearPendingFor(ch, v) = ch.pending
         \/ ClearPendingFor(ch, v) = NoPending /\ ch.pending # NoPending /\ Decided(ch.pending)
<1>1. CASE ch.pending # NoPending /\ ch.pending.expected < v
  <2>1. /\ ch.pending.match = ch.match /\ ch.match # None /\ Version(ch.match) \in Nat
        /\ ch.pending.expected \in Nat
    BY <1>1, TheHeldBoard, NoneIsNoMatch
  <2>2. Version(ch.pending.match) > ch.pending.expected
    BY <1>1, <2>1
  <2> QED
    BY <1>1, <2>2 DEF ClearPendingFor, Decided
<1>2. CASE ~(ch.pending # NoPending /\ ch.pending.expected < v)
  BY <1>2 DEF ClearPendingFor
<1> QED
  BY <1>1, <1>2

LEMMA OnSnapshotFollows ==
  ASSUME SessionInduction, NEW msg \in Messages, MessageIsReal(msg),
         msg.type \in {"snapshot", "synced"}
  PROVE  Follows(OnSnapshot(ch, msg.snap), msg)
<1> DEFINE s == msg.snap
           c == OnSnapshot(ch, s)
<1>1. s \in Snaps /\ SnapIsReal(s) /\ Carries(msg)
  BY MessageKinds DEF MessageIsReal
<1>2. s.match \in Match /\ s.log \in Seq(Entry) /\ IsPrefix(s.log, log[s.match]) /\ Len(s.log) \in Nat
      /\ log[s.match] \in Seq(Entry) /\ s.match # None
  BY <1>1, TypesOfState, LenProperties, NoneIsNoMatch DEF Snaps, SnapIsReal
<1>3. Len(s.log) <= Version(s.match)
  BY <1>2, PrefixMeans DEF Version
<1>4. About(msg, s.match) /\ VersionIn(msg) = Len(s.log)
  BY <1>1 DEF About, VersionIn
<1>5. CASE ch.match # None /\ ch.match # s.match
  <2>1. c = [InitialChannel(ch.phase) EXCEPT !.match = s.match, !.log = s.log]
    BY <1>5 DEF OnSnapshot
  <2>2. c \in Channels /\ c.match = s.match /\ c.log = s.log /\ c.pending = NoPending
    BY <1>2, <2>1, TheHeldBoard DEF InitialChannel, Channels
  <2> QED
    BY <1>2, <1>4, <1>5, <2>2 DEF Follows
<1>6. CASE ~(ch.match # None /\ ch.match # s.match) /\ ch.match # None /\ Len(s.log) < Len(ch.log)
  <2>1. c = ch
    BY <1>6 DEF OnSnapshot
  <2> QED
    BY <2>1, TheHeldBoard, StayingFollows
<1>7. CASE ~(ch.match # None /\ ch.match # s.match) /\ ~(ch.match # None /\ Len(s.log) < Len(ch.log))
  <2>1. c = [ch EXCEPT !.match = s.match, !.log = s.log, !.resync = FALSE,
                       !.pending = ClearPendingFor(ch, Len(s.log))]
    BY <1>7 DEF OnSnapshot
  <2>2. ch.match # None => ch.match = s.match /\ Len(ch.log) <= Len(s.log)
    BY <1>2, <1>7, TheHeldBoard
  <2>3. \/ ClearPendingFor(ch, Len(s.log)) = ch.pending
        \/ ClearPendingFor(ch, Len(s.log)) = NoPending /\ ch.pending # NoPending /\ Decided(ch.pending)
    BY <1>2, <1>3, <2>2, ClearingDecides
  <2>4. /\ c.match = s.match /\ c.log = s.log /\ c.pending = ClearPendingFor(ch, Len(s.log))
        /\ c \in Channels
    BY <1>2, <2>1, <2>3, TheHeldBoard DEF Channels
  <2>5. c.match = ch.match => Len(ch.log) <= Len(c.log)
    BY <1>2, <2>2, <2>4
  <2>6. c.pending # NoPending => c.match = ch.match
    BY <2>2, <2>3, <2>4, TheHeldBoard, NoneIsNoMatch
  <2> HIDE DEF c
  <2>7. Follows(c, msg)
    BY <1>2, <1>4, <2>3, <2>4, <2>5, <2>6 DEF Follows
  <2> QED
    BY <2>7 DEF c
<1> QED
  BY <1>5, <1>6, <1>7

LEMMA OnMoveCommittedFollows ==
  ASSUME SessionInduction, NEW msg \in Messages, MessageIsReal(msg), msg.type = "move"
  PROVE  Follows(OnMoveCommitted(ch, msg), msg)
<1> DEFINE c == OnMoveCommitted(ch, msg)
<1>1. /\ msg.match \in Match /\ msg.version \in Nat /\ msg.entry \in Entry
      /\ msg.version \in 1..Version(msg.match) /\ msg.entry = log[msg.match][msg.version]
  BY MessageKinds DEF MessageIsReal
<1>2. CASE ch.match = None \/ msg.match # ch.match
  <2>1. c = ch
    BY <1>2 DEF OnMoveCommitted
  <2> QED
    BY <2>1, TheHeldBoard, StayingFollows
<1>3. CASE ch.match # None /\ msg.match = ch.match
  <2>1. /\ \/ ClearPendingFor(ch, msg.version) = ch.pending
           \/ /\ ClearPendingFor(ch, msg.version) = NoPending
              /\ ch.pending # NoPending /\ Decided(ch.pending)
        /\ Version(ch.match) \in Nat
    BY <1>1, <1>3, TheHeldBoard, ClearingDecides
  <2>2. CASE msg.version <= Len(ch.log)
    <3>1. c = [ch EXCEPT !.pending = ClearPendingFor(ch, msg.version)]
      BY <1>3, <2>2 DEF OnMoveCommitted
    <3>2. c \in Channels /\ c.match = ch.match /\ c.log = ch.log
          /\ c.pending = ClearPendingFor(ch, msg.version)
      BY <2>1, <3>1, TheHeldBoard DEF Channels
    <3> HIDE DEF c
    <3> QED
      BY <2>1, <3>2, StayingFollows DEF c
  <2>3. CASE ~(msg.version <= Len(ch.log)) /\ msg.version # Len(ch.log) + 1
    <3>1. c = [ch EXCEPT !.resync = TRUE]
      BY <1>3, <2>3 DEF OnMoveCommitted
    <3>2. c \in Channels /\ c.match = ch.match /\ c.log = ch.log /\ c.pending = ch.pending
      BY <3>1, TheHeldBoard DEF Channels
    <3> HIDE DEF c
    <3> QED
      BY <3>2, StayingFollows DEF c
  <2>4. CASE ~(msg.version <= Len(ch.log)) /\ msg.version = Len(ch.log) + 1
    <3> DEFINE longer == Append(ch.log, msg.entry)
    <3>1. c = [ch EXCEPT !.log = longer, !.pending = ClearPendingFor(ch, msg.version)]
      BY <1>3, <2>4 DEF OnMoveCommitted
    <3>2. longer \in Seq(Entry) /\ Len(longer) = Len(ch.log) + 1
      BY <1>1, TheHeldBoard, AnEntryFollows
    <3>3. IsPrefix(longer, log[ch.match])
      <4>1. /\ ch.log \in Seq(Entry) /\ log[ch.match] \in Seq(Entry) /\ Len(ch.log) \in Nat
            /\ IsPrefix(ch.log, log[ch.match])
        BY <1>3, TheHeldBoard
      <4>2. Len(ch.log) < Len(log[ch.match]) /\ msg.entry = log[ch.match][Len(ch.log) + 1]
        BY <1>1, <1>3, <2>1, <2>4, <4>1 DEF Version
      <4> QED
        BY <4>1, <4>2, PrefixFacts
    <3> HIDE DEF longer
    <3>4. c \in Channels /\ c.match = ch.match /\ c.log = longer
          /\ c.pending = ClearPendingFor(ch, msg.version)
      BY <2>1, <3>1, <3>2, TheHeldBoard DEF Channels
    <3>5. About(msg, ch.match) /\ VersionIn(msg) = msg.version
      BY <1>3 DEF About, VersionIn
    <3>6. Len(ch.log) <= Len(longer) /\ Len(longer) = msg.version /\ ch.match \in Match
      BY <1>1, <1>3, <2>4, <3>2, TheHeldBoard
    <3> HIDE DEF c
    <3>7. Follows(c, msg)
      BY <1>3, <2>1, <3>3, <3>4, <3>5, <3>6 DEF Follows
    <3> QED
      BY <3>7 DEF c
  <2> QED
    BY <2>2, <2>3, <2>4
<1> QED
  BY <1>2, <1>3

LEMMA OnClockSyncFollows ==
  ASSUME SessionInduction, NEW msg
  PROVE  Follows(OnClockSync(ch, msg), msg)
<1> DEFINE c == OnClockSync(ch, msg)
<1>1. c = ch \/ c = [ch EXCEPT !.resync = TRUE]
  BY DEF OnClockSync
<1>2. c \in Channels /\ c.match = ch.match /\ c.log = ch.log /\ c.pending = ch.pending
  BY <1>1, TheHeldBoard DEF Channels
<1> HIDE DEF c
<1>3. Follows(c, msg)
  BY <1>2, StayingFollows
<1> QED
  BY <1>3 DEF c

LEMMA OnEndedFollows ==
  ASSUME SessionInduction, NEW msg \in Messages, MessageIsReal(msg), msg.type = "ended"
  PROVE  Follows(OnEnded(ch, msg), msg)
<1> DEFINE c == OnEnded(ch, msg)
<1>1. Over(msg.match)
  BY DEF MessageIsReal
<1>2. CASE ch.match # None /\ msg.match # ch.match
  <2>1. c = ch
    BY <1>2 DEF OnEnded
  <2> QED
    BY <2>1, TheHeldBoard, StayingFollows
<1>3. CASE ~(ch.match # None /\ msg.match # ch.match)
  <2>1. c = [ch EXCEPT !.ended = TRUE, !.pending = NoPending,
                       !.resync = ch.match = None \/ Len(ch.log) < msg.version]
    BY <1>3 DEF OnEnded
  <2>2. c \in Channels /\ c.match = ch.match /\ c.log = ch.log /\ c.pending = NoPending
    BY <2>1, TheHeldBoard DEF Channels
  <2>3. ch.pending # NoPending => Decided(ch.pending)
    BY <1>1, <1>3, TheHeldBoard, NoneIsNoMatch DEF Decided
  <2> HIDE DEF c
  <2>4. Follows(c, msg)
    BY <2>2, <2>3, StayingFollows
  <2> QED
    BY <2>4 DEF c
<1> QED
  BY <1>2, <1>3

LEMMA OnAnsweredFollows ==
  ASSUME SessionInduction, NEW msg \in Messages, MessageIsReal(msg), msg.type = "answered",
         msg.snap # NoSnap /\ ch.match = msg.snap.match => Len(ch.log) <= Len(msg.snap.log)
  PROVE  Follows(OnAnswered(ch, msg), msg)
<1> DEFINE c == OnAnswered(ch, msg)
<1>1. CASE ch.pending # NoPending /\ msg.cmd # ch.pending.id
  <2>1. c = ch
    BY <1>1 DEF OnAnswered
  <2> QED
    BY <2>1, TheHeldBoard, StayingFollows
<1>2. CASE ~(ch.pending # NoPending /\ msg.cmd # ch.pending.id)
  <2>1. ch.pending # NoPending => Decided(ch.pending)
    BY <1>2 DEF MessageIsReal
  <2>2. CASE msg.ack = "ok"
    <3>1. c = [ch EXCEPT !.pending = NoPending]
      BY <1>2, <2>2 DEF OnAnswered
    <3>2. c \in Channels /\ c.match = ch.match /\ c.log = ch.log /\ c.pending = NoPending
      BY <3>1, TheHeldBoard DEF Channels
    <3> HIDE DEF c
    <3>3. Follows(c, msg)
      BY <2>1, <3>2, StayingFollows
    <3> QED
      BY <3>3 DEF c
  <2>3. CASE msg.ack # "ok" /\ msg.snap # NoSnap
    <3>1. c = [ch EXCEPT !.pending = NoPending, !.resync = FALSE,
                         !.match = msg.snap.match, !.log = msg.snap.log]
      BY <1>2, <2>3 DEF OnAnswered
    <3>2. Carries(msg) /\ msg.snap \in Snaps /\ SnapIsReal(msg.snap)
      BY <2>3, MessageKinds DEF Carries, MessageIsReal
    <3>3. msg.snap.match \in Match /\ msg.snap.log \in Seq(Entry) /\ msg.snap.match # None
          /\ IsPrefix(msg.snap.log, log[msg.snap.match])
      BY <3>2, NoneIsNoMatch DEF Snaps, SnapIsReal
    <3>4. /\ c \in Channels /\ c.match = msg.snap.match /\ c.log = msg.snap.log
          /\ c.pending = NoPending
      BY <3>1, <3>3, TheHeldBoard DEF Channels
    <3>5. About(msg, msg.snap.match) /\ VersionIn(msg) = Len(msg.snap.log)
      BY <3>2 DEF About, VersionIn
    <3> HIDE DEF c
    <3>6. Follows(c, msg)
      BY <2>1, <2>3, <3>3, <3>4, <3>5 DEF Follows
    <3> QED
      BY <3>6 DEF c
  <2> QED
    BY <2>2, <2>3 DEF MessageIsReal
<1> QED
  BY <1>1, <1>2

LEMMA ReduceFollows ==
  ASSUME SessionInduction, NEW msg \in Messages, MessageIsReal(msg),
         msg.type = "answered" /\ msg.snap # NoSnap /\ ch.match = msg.snap.match
           => Len(ch.log) <= Len(msg.snap.log)
  PROVE  Follows(Reduce(ch, msg), msg)
<1>1. CASE msg.type \in {"snapshot", "synced"}
  BY <1>1, OnSnapshotFollows DEF Reduce
<1>2. CASE msg.type = "move"
  BY <1>2, OnMoveCommittedFollows DEF Reduce
<1>3. CASE msg.type = "clock"
  BY <1>3, OnClockSyncFollows DEF Reduce
<1>4. CASE msg.type = "ended"
  BY <1>4, OnEndedFollows DEF Reduce
<1>5. CASE msg.type = "answered"
  BY <1>5, OnAnsweredFollows DEF Reduce
<1> QED
  BY <1>1, <1>2, <1>3, <1>4, <1>5, MessageKinds

-----------------------------------------------------------------------------
(* The steps that read, and the one that issues                            *)

LEMMA NextMessage ==
  ASSUME SessionInduction, down # <<>>
  PROVE  /\ Head(down) \in Messages /\ MessageIsReal(Head(down)) /\ Head(down) = down[1]
         /\ 1 \in DOMAIN down
         /\ Tail(down) \in Seq(Messages)
         /\ \A i \in DOMAIN Tail(down) :
              i + 1 \in DOMAIN down /\ i + 1 > 1 /\ Tail(down)[i] = down[i + 1]
         /\ Head(down).type = "answered" /\ Head(down).snap # NoSnap /\ ch.match = Head(down).snap.match
              => Len(ch.log) <= Len(Head(down).snap.log)
<1>1. down \in Seq(Messages)
  BY TypesOfState
<1>2. /\ Head(down) \in Messages /\ Tail(down) \in Seq(Messages) /\ Len(Tail(down)) = Len(down) - 1
      /\ \A i \in 1..Len(Tail(down)) : Tail(down)[i] = down[i + 1]
  BY <1>1, HeadTailProperties
<1>3. Len(down) \in Nat /\ Len(down) # 0 /\ DOMAIN down = 1..Len(down)
      /\ DOMAIN Tail(down) = 1..Len(Tail(down))
  BY <1>1, <1>2, LenProperties, EmptySeq
<1>4. Head(down) = down[1] /\ 1 \in DOMAIN down
  BY <1>1, <1>3
<1>5. MessageIsReal(down[1])
  BY <1>4 DEF SessionInduction
<1>6. \A i \in DOMAIN Tail(down) :
        i + 1 \in DOMAIN down /\ i + 1 > 1 /\ Tail(down)[i] = down[i + 1]
  BY <1>2, <1>3
<1>7. down[1].type = "answered" /\ down[1].snap # NoSnap /\ ch.match = down[1].snap.match
        => Len(ch.log) <= Len(down[1].snap.log)
  BY <1>4 DEF SessionInduction, RefusalsAreNewest
<1> QED
  BY <1>2, <1>4, <1>5, <1>6, <1>7

\* The client reads a message and its channel follows.
LEMMA ReadingKeeps ==
  ASSUME SessionInduction, down # <<>>, down' = Tail(down), log' = log, sent' = sent,
         Follows(ch', Head(down)),
         current' \in Match, tracked' \in [Match -> Int], conn' \in Nat, screen' \in Match,
         \A t \in tasks' : t \in tasks \/ (t \in Requests /\ RequestIsReal(t)')
  PROVE  SessionInduction'
<1>1. /\ log \in [Match -> Seq(Entry)] /\ sent \in 0..MaxCommands /\ tasks \subseteq Requests
      /\ down \in Seq(Messages)
  BY TypesOfState
<1>2. /\ Head(down) = down[1] /\ 1 \in DOMAIN down /\ Tail(down) \in Seq(Messages)
      /\ \A i \in DOMAIN Tail(down) :
           i + 1 \in DOMAIN down /\ i + 1 > 1 /\ Tail(down)[i] = down[i + 1]
      /\ \A i \in DOMAIN Tail(down) : Tail(down)[i] \in Messages /\ i \in Nat
  <2>1. Tail(down) \in Seq(Messages)
    BY NextMessage
  <2>2. \A i \in DOMAIN Tail(down) : Tail(down)[i] \in Messages /\ i \in Nat
    BY <2>1, ElementOfSeq, LenProperties
  <2> QED
    BY <2>2, NextMessage
<1>3. SessionTyped'
  BY <1>1, <1>2 DEF SessionTyped, Follows
<1>4. ch'.pending # NoPending => ch'.pending = ch.pending /\ ch'.match = ch.match
  BY DEF Follows
<1>5. \A c \in Commands : (IsIssued(c) <=> IsIssued(c)') /\ (Decided(c) => Decided(c)')
  BY DEF IsIssued, Version, Decided, Logged, Over, MyTurn
<1>6. ChannelIsReal'
  <2>1. ASSUME ch'.pending # NoPending PROVE IsIssued(ch.pending)' /\ ch'.pending.match = ch'.match
    <3>1. ch'.pending = ch.pending /\ IsIssued(ch.pending) /\ ch.pending.match = ch.match
      BY <1>4, <2>1, TheHeldBoard
    <3> QED
      BY <1>4, <2>1, <3>1 DEF IsIssued, Version
  <2> QED
    BY <2>1 DEF Follows, ChannelIsReal
<1>7. \A t \in tasks' : RequestIsReal(t)'
  <2> SUFFICES ASSUME NEW t \in Requests, RequestIsReal(t) PROVE RequestIsReal(t)'
    BY <1>1 DEF SessionInduction
  <2>1. t.kind = "sync" /\ t.pc # "received" => t.snap \in Snaps /\ SnapIsReal(t.snap)'
    BY DEF RequestIsReal, SnapIsReal
  <2>2. ASSUME t.kind = "command" PROVE IsIssued(t.cmd)' /\ (t.cmd.id = ch'.pending.id => t.cmd = ch'.pending)
    <3>1. t.cmd \in Commands /\ IsIssued(t.cmd) /\ (t.cmd.id = ch.pending.id => t.cmd = ch.pending)
      BY <2>2, RequestKinds DEF RequestIsReal
    <3>2. t.cmd.id # NoPending.id
      BY <3>1, NoneIsNoMatch DEF Commands
    <3> QED
      BY <1>4, <1>5, <3>1, <3>2
  <2> QED
    BY <2>1, <2>2 DEF RequestIsReal
<1>8. \A msg \in Messages : MessageIsReal(msg) => MessageIsReal(msg)'
  <2> SUFFICES ASSUME NEW msg \in Messages, MessageIsReal(msg) PROVE MessageIsReal(msg)'
    OBVIOUS
  <2>1. ASSUME msg.type = "answered", ch'.pending # NoPending, msg.cmd = ch'.pending.id
        PROVE  Decided(ch.pending)'
    <3>1. ch'.pending = ch.pending /\ ch.pending \in Commands /\ Decided(ch.pending)
      BY <1>4, <2>1, TheHeldBoard DEF MessageIsReal
    <3>2. \A c \in Commands : c = ch'.pending /\ Decided(c)' => Decided(ch.pending)'
      BY DEF Decided, Logged, Over, Version, MyTurn
    <3> QED
      BY <1>5, <3>1, <3>2
  <2> QED
    BY <2>1 DEF MessageIsReal, Carries, SnapIsReal, Over, Version
<1>9. (\A i \in DOMAIN down : MessageIsReal(down[i]))'
  <2> SUFFICES ASSUME NEW i \in DOMAIN Tail(down) PROVE (\A k \in {i} : MessageIsReal(down[k]))'
    OBVIOUS
  <2>1. PICK msg \in Messages : msg = down'[i] /\ msg = down[i + 1] /\ i + 1 \in DOMAIN down
    BY <1>2
  <2>2. MessageIsReal(msg)
    BY <2>1 DEF SessionInduction
  <2>3. \A x \in Messages : x = down'[i] /\ MessageIsReal(x)' => (\A k \in {i} : MessageIsReal(down[k]))'
    BY DEF MessageIsReal, Carries, SnapIsReal, Over, Version
  <2> QED
    BY <1>8, <2>1, <2>2, <2>3
<1>10. RefusalsAreNewest'
  <2> SUFFICES ASSUME NEW i \in DOMAIN Tail(down), NEW msg \in Messages, msg = down[i + 1],
                      msg.type = "answered", msg.snap # NoSnap
               PROVE  /\ ch'.match = msg.snap.match => Len(ch'.log) <= Len(msg.snap.log)
                      /\ \A j \in DOMAIN Tail(down) : j < i /\ About(Tail(down)[j], msg.snap.match) =>
                           VersionIn(Tail(down)[j]) <= Len(msg.snap.log)
    BY <1>2, SMTT(40) DEF RefusalsAreNewest, About, VersionIn, Carries
  <2>1. i + 1 \in DOMAIN down /\ i + 1 > 1 /\ 1 < i + 1
    BY <1>2
  <2>2. /\ ch.match = msg.snap.match => Len(ch.log) <= Len(msg.snap.log)
        /\ \A j \in DOMAIN down : j < i + 1 /\ About(down[j], msg.snap.match) =>
             VersionIn(down[j]) <= Len(msg.snap.log)
    BY <2>1 DEF SessionInduction, RefusalsAreNewest
  <2>3. ASSUME ch'.match = msg.snap.match PROVE Len(ch'.log) <= Len(msg.snap.log)
    <3>1. CASE ch'.match = ch.match /\ ch'.log = ch.log
      BY <2>2, <2>3, <3>1
    <3>2. CASE About(Head(down), ch'.match) /\ Len(ch'.log) = VersionIn(Head(down))
      BY <1>2, <2>1, <2>2, <2>3, <3>2
    <3> QED
      BY <3>1, <3>2 DEF Follows
  <2>4. ASSUME NEW j \in DOMAIN Tail(down), j < i, About(Tail(down)[j], msg.snap.match)
        PROVE  VersionIn(Tail(down)[j]) <= Len(msg.snap.log)
    <3>1. j + 1 \in DOMAIN down /\ j + 1 < i + 1 /\ Tail(down)[j] = down[j + 1]
      BY <1>2, <2>4
    <3> QED
      BY <2>2, <2>4, <3>1
  <2> QED
    BY <2>3, <2>4
<1> QED
  BY <1>3, <1>6, <1>7, <1>9, <1>10 DEF SessionInduction

LEMMA ReceiveKeeps ==
  ASSUME SessionInduction, Receive
  PROVE  SessionInduction' /\ Follows(ch', Head(down))
<1>1. PICK msg : msg = Head(down)
  OBVIOUS
<1>2. /\ down # <<>> /\ down' = Tail(down) /\ ch' = Reduce(ch, msg)
      /\ tasks' \subseteq tasks \cup Resync(ch') \cup RetryPending(msg.snap)
      /\ log' = log /\ current' = current /\ tracked' = tracked /\ conn' = conn
      /\ screen' = screen /\ sent' = sent
  BY <1>1 DEF Receive
<1>3. Follows(ch', Head(down))
  BY <1>1, <1>2, NextMessage, ReduceFollows
<1>4. \A t \in Resync(ch') : t \in Requests /\ RequestIsReal(t)'
  BY TypesOfState, SyncsAreReal
<1>5. \A t \in RetryPending(msg.snap) : t \in Requests /\ RequestIsReal(t)'
  <2> SUFFICES ASSUME NEW t \in RetryPending(msg.snap) PROVE t \in Requests /\ RequestIsReal(t)'
    OBVIOUS
  <2>1. t = Command(ch.pending) /\ ch.pending # NoPending
    BY DEF RetryPending
  <2>2. PICK cmd \in Commands : cmd = ch.pending /\ IsIssued(cmd) /\ cmd.id # NoPending.id
    BY <2>1, TheHeldBoard, NoneIsNoMatch DEF Commands
  <2>3. t \in Requests /\ t.kind = "command" /\ t.cmd = cmd
    BY <2>1, <2>2, TypesOfState, RequestKinds DEF Command
  <2>4. IsIssued(cmd)'
    BY <1>2, <2>2 DEF IsIssued, Version
  <2>5. ch'.pending \in {cmd, NoPending}
    BY <1>3, <2>2 DEF Follows
  <2> QED
    BY <2>2, <2>3, <2>4, <2>5 DEF RequestIsReal
<1>6. \A t \in tasks' : t \in tasks \/ (t \in Requests /\ RequestIsReal(t)')
  BY <1>2, <1>4, <1>5
<1> QED
  BY <1>2, <1>3, <1>6, TypesOfState, ReadingKeeps

LEMMA DiscardKeeps ==
  ASSUME SessionInduction, Discard
  PROVE  SessionInduction'
<1>1. /\ down # <<>> /\ down' = Tail(down) /\ ch' = [ch EXCEPT !.resync = TRUE]
      /\ tasks' = tasks \cup Resync(ch')
      /\ log' = log /\ current' = current /\ tracked' = tracked /\ conn' = conn
      /\ screen' = screen /\ sent' = sent
  BY DEF Discard
<1>2. ch' \in Channels /\ ch'.match = ch.match /\ ch'.log = ch.log /\ ch'.pending = ch.pending
  BY <1>1, TypesOfState DEF Channels
<1>3. \A c \in Channels : \A msg : c.match = ch.match /\ c.log = ch.log /\ c.pending = ch.pending
        => Follows(c, msg)
  BY StayingFollows
<1>4. Follows(ch', Head(down))
  BY <1>2, <1>3
<1>5. \A t \in Resync(ch') : t \in Requests /\ RequestIsReal(t)'
  BY TypesOfState, SyncsAreReal
<1> QED
  BY <1>1, <1>4, <1>5, TypesOfState, ReadingKeeps

LEMMA SubmitKeeps ==
  ASSUME SessionInduction, NEW resigns \in BOOLEAN, Submit(resigns)
  PROVE  SessionInduction'
<1>1. /\ log' = log /\ current' = current /\ tracked' = tracked /\ conn' = conn /\ down' = down
      /\ screen' = screen /\ sent' = sent + 1 /\ sent < MaxCommands
      /\ ch.match # None /\ ch.pending = NoPending
  BY DEF Submit, InputLocked, wire
<1>2. PICK cmd : /\ cmd = [id |-> sent + 1, match |-> ch.match, expected |-> Len(ch.log),
                            kind |-> IF resigns THEN "resign" ELSE MoveAt(ch.match, Len(ch.log))]
                 /\ ch' = [ch EXCEPT !.pending = cmd] /\ tasks' = tasks \cup {Command(ch'.pending)}
  BY <1>1 DEF Submit
<1>3. /\ log \in [Match -> Seq(Entry)] /\ sent \in 0..MaxCommands /\ tasks \subseteq Requests
      /\ down \in Seq(Messages) /\ current \in Match /\ tracked \in [Match -> Int]
      /\ conn \in Nat /\ screen \in Match /\ MaxCommands \in Nat
  BY TypesOfState, BoundsAssumption
<1>4. sent + 1 \in Nat \ {None} /\ sent + 1 \in 0..MaxCommands /\ sent <= sent + 1 /\ ~(sent + 1 <= sent)
  BY <1>1, <1>3 DEF None
<1>5. /\ cmd \in Commands /\ cmd.id = sent + 1 /\ cmd.match = ch.match /\ cmd.expected = Len(ch.log)
      /\ cmd.expected <= Version(cmd.match)
  <2>1. MoveAt(ch.match, Len(ch.log)) \in Kind /\ "resign" \in Kind
    BY DEF MoveAt, Kind
  <2>2. ch.match \in Match /\ Len(ch.log) \in Nat /\ Len(ch.log) <= Version(ch.match)
    BY <1>1, TheHeldBoard
  <2> QED
    BY <1>2, <1>4, <2>1, <2>2 DEF Commands
<1>6. /\ ch' \in Channels /\ ch'.pending = cmd /\ ch'.match = ch.match /\ ch'.log = ch.log
  BY <1>2, <1>5, TypesOfState DEF Channels
<1>7. \A c \in Commands : IsIssued(c) => IsIssued(c)' /\ c.id # cmd.id
  <2> SUFFICES ASSUME NEW c \in Commands, IsIssued(c) PROVE IsIssued(c)' /\ c.id # cmd.id
    OBVIOUS
  <2>1. c.id \in Nat /\ c.id <= sent /\ c.expected <= Version(c.match)
    BY DEF Commands, IsIssued
  <2>2. c.id <= sent + 1 /\ c.id # sent + 1
    BY <1>3, <2>1
  <2> QED
    BY <1>1, <1>5, <2>1, <2>2 DEF IsIssued, Version
<1>8. IsIssued(cmd)'
  BY <1>1, <1>3, <1>5 DEF IsIssued, Version
<1>9. SessionTyped'
  BY <1>1, <1>2, <1>3, <1>4, <1>5, <1>6, RequestKinds DEF SessionTyped
<1>10. ChannelIsReal'
  <2>1. IsIssued(ch.pending)'
    BY <1>6, <1>8 DEF IsIssued, Version
  <2> QED
    BY <1>1, <1>5, <1>6, <2>1, TheHeldBoard DEF ChannelIsReal
<1>11. \A t \in tasks' : RequestIsReal(t)'
  <2>1. ASSUME NEW t \in Requests, RequestIsReal(t) PROVE RequestIsReal(t)'
    <3>1. t.kind = "sync" /\ t.pc # "received" => t.snap \in Snaps /\ SnapIsReal(t.snap)'
      BY <1>1, <2>1 DEF RequestIsReal, SnapIsReal
    <3>2. t.kind = "command" => IsIssued(t.cmd)' /\ t.cmd.id # cmd.id
      BY <1>7, <2>1, RequestKinds DEF RequestIsReal
    <3> QED
      BY <1>6, <3>1, <3>2 DEF RequestIsReal
  <2>2. \A t \in {Command(cmd)} : RequestIsReal(t)'
    <3> SUFFICES ASSUME NEW t, t = Command(cmd) PROVE RequestIsReal(t)'
      OBVIOUS
    <3>1. t.kind = "command" /\ t.cmd = cmd
      BY DEF Command
    <3> QED
      BY <1>6, <1>8, <3>1 DEF RequestIsReal
  <2> QED
    BY <1>2, <1>3, <1>6, <2>1, <2>2 DEF SessionInduction
<1>12. (\A i \in DOMAIN down : MessageIsReal(down[i]))'
  <2> SUFFICES ASSUME NEW i \in DOMAIN down PROVE (\A k \in {i} : MessageIsReal(down[k]))'
    BY <1>1
  <2>1. PICK msg \in Messages : msg = down[i] /\ MessageIsReal(msg)
    BY <1>3, LenProperties, ElementOfSeq DEF SessionInduction
  <2>2. MessageIsReal(msg)'
    <3>1. msg.type = "answered" => msg.cmd \in Nat /\ msg.cmd <= sent
      BY <2>1, MessageKinds DEF MessageIsReal
    <3>2. msg.type = "answered" => msg.cmd <= sent' /\ msg.cmd # cmd.id
      BY <1>1, <1>3, <1>5, <3>1
    <3> QED
      BY <1>1, <1>6, <2>1, <3>2 DEF MessageIsReal, Carries, SnapIsReal, Over, Version
  <2>3. \A x \in Messages : x = down'[i] /\ MessageIsReal(x)' => (\A k \in {i} : MessageIsReal(down[k]))'
    BY DEF MessageIsReal, Carries, SnapIsReal, Over, Version
  <2> QED
    BY <1>1, <2>1, <2>2, <2>3
<1>13. RefusalsAreNewest'
  BY <1>1, <1>6 DEF SessionInduction, RefusalsAreNewest, About, VersionIn, Carries
<1> QED
  BY <1>9, <1>10, <1>11, <1>12, <1>13 DEF SessionInduction

-----------------------------------------------------------------------------
(* The theorem                                                             *)

LEMMA SessionInit == Init => SessionInduction
<1> SUFFICES ASSUME Init PROVE SessionInduction
  OBVIOUS
<1>0. MaxMatches \in Nat \ {0} /\ MaxCommands \in Nat
  BY BoundsAssumption
<1>1. /\ current \in Match /\ sent \in 0..MaxCommands /\ conn = 1 /\ tasks = {} /\ screen = current
      /\ tracked \in [Match -> Int]
  <2>1. current \in Match
    BY <1>0 DEF Init, JustPaired, JustFinished, Match
  <2> QED
    BY <1>0, <2>1 DEF Init, Untracked
<1>2. CASE JustPaired
  <2>1. log = [m \in Match |-> <<>>] /\ log \in [Match -> Seq(Entry)]
    BY <1>2, EmptySeq DEF JustPaired
  <2>2. /\ ch = InitialChannel("authenticating") /\ ch \in Channels /\ ch.match = None /\ ch.log = <<>>
        /\ ch.pending = NoPending
    BY <1>2, EmptySeq DEF JustPaired, InitialChannel, Channels
  <2>3. PICK s \in Snaps : s = Snap(current) /\ s.match = current /\ s.log = log[current]
    <3>1. Snap(current) \in Snaps /\ Snap(current).match = current /\ Snap(current).log = log[current]
      BY <1>1, <2>1 DEF Snap, Snaps
    <3> QED
      BY <3>1
  <2>4. PICK x : x = SnapshotEvent(s)
    OBVIOUS
  <2>5. x \in Messages /\ x.type = "snapshot" /\ x.snap = s
    BY <2>4 DEF SnapshotEvent, Messages
  <2>6. down = <<x>>
    BY <1>2, <2>3, <2>4 DEF JustPaired
  <2>7. down \in Seq(Messages) /\ DOMAIN down = {1} /\ down[1] = x
    BY <2>5, <2>6
  <2>8. SnapIsReal(s)
    BY <1>1, <2>1, <2>3, PrefixFacts DEF SnapIsReal
  <2>9. MessageIsReal(x)
    BY <2>5, <2>8 DEF MessageIsReal, Carries
  <2>10. RefusalsAreNewest
    BY <2>5, <2>7 DEF RefusalsAreNewest
  <2>11. ChannelIsReal
    BY <2>2 DEF ChannelIsReal
  <2>12. SessionTyped
    BY <1>1, <2>1, <2>2, <2>7 DEF SessionTyped
  <2> QED
    BY <1>1, <2>7, <2>9, <2>10, <2>11, <2>12 DEF SessionInduction
<1>3. CASE JustFinished
  <2>1. PICK e : e = [kind |-> "resign", cmd |-> sent]
    OBVIOUS
  <2>2. e \in Entry
    BY <1>1, <2>1 DEF Entry, Kind
  <2>3. <<e>> \in Seq(Entry) /\ <<>> \in Seq(Entry)
    BY <2>2
  <2>4. /\ log = [m \in Match |-> IF m = 1 THEN <<e>> ELSE <<>>] /\ log \in [Match -> Seq(Entry)]
        /\ 1 \in Match /\ log[1] \in Seq(Entry)
    BY <1>0, <1>3, <2>1, <2>3 DEF JustFinished, Match
  <2>5. /\ ch \in Channels /\ ch.match = 1 /\ ch.log = log[1] /\ ch.pending = NoPending
    BY <1>3, <2>4 DEF JustFinished, InitialChannel, Channels
  <2>6. down = <<>> /\ down \in Seq(Messages) /\ DOMAIN down = {}
    BY <1>3, EmptySeq DEF JustFinished
  <2>7. ChannelIsReal
    BY <2>4, <2>5, PrefixFacts, NoneIsNoMatch DEF ChannelIsReal
  <2>8. RefusalsAreNewest
    BY <2>6 DEF RefusalsAreNewest
  <2>9. SessionTyped
    BY <1>1, <2>4, <2>5, <2>6 DEF SessionTyped
  <2> QED
    BY <1>1, <2>6, <2>7, <2>8, <2>9 DEF SessionInduction
<1> QED
  BY <1>2, <1>3 DEF Init

\* What a step does to the channel: the board of a match only grows, and the lock on it is
\* released when the fate of the command behind it is sealed.
BoardStands ==
  /\ ch'.match = ch.match /\ ch'.log = ch.log
  /\ ch'.pending = ch.pending \/ ch.pending = NoPending

LEMMA OthersMoveNoBoard ==
  ASSUME SessionInduction
  PROVE  /\ \A t \in tasks : Handler(t) \/ FailSettle(t) => BoardStands
         /\ \A resigns \in BOOLEAN : OpponentCommand(resigns) \/ Submit(resigns) => BoardStands
         /\ \A m \in Match : TickExpired(m) \/ TickSync(m) => BoardStands
         /\ Elapse \/ SeatRematch \/ Drop \/ Connect \/ Restart => BoardStands
         /\ Authenticated \/ Discard \/ Navigate => BoardStands
<1>1. ch \in Channels
  BY TypesOfState
<1>2. ch' = ch => BoardStands
  BY DEF BoardStands
<1>3. \A phase : ch' = [ch EXCEPT !.phase = phase] => BoardStands
  BY <1>1, SMTT(40) DEF BoardStands, Channels
<1>4. \A t : Handler(t) \/ FailSettle(t) => ch' = ch
  BY DEF Handler, HandleCommand, SettleExpired, SyncRead, SyncAttach, SyncEmit, FailSettle, client
<1>5. \A resigns \in BOOLEAN : OpponentCommand(resigns) => ch' = ch
  BY DEF OpponentCommand, client
<1>6. ASSUME NEW resigns \in BOOLEAN, Submit(resigns) PROVE BoardStands
  <2>1. PICK cmd : ch' = [ch EXCEPT !.pending = cmd]
    BY <1>6 DEF Submit
  <2>2. ch.pending = NoPending
    BY <1>6 DEF Submit, InputLocked
  <2> QED
    BY <1>1, <2>1, <2>2 DEF BoardStands, Channels
<1>7. \A m \in Match : TickExpired(m) \/ TickSync(m) => ch' = ch
  BY DEF TickExpired, TickSync, client
<1>8. Elapse \/ SeatRematch => ch' = ch
  BY DEF Elapse, SeatRematch, client
<1>9. Drop \/ Connect \/ Restart => BoardStands
  BY <1>3 DEF Drop, Connect, Restart, Disconnected
<1>10. Authenticated \/ Navigate => BoardStands
  BY <1>2, <1>3 DEF Authenticated, Navigate
<1>11. Discard => BoardStands
  BY <1>1 DEF Discard, BoardStands, Channels
<1> QED
  BY <1>2, <1>4, <1>5, <1>6, <1>7, <1>8, <1>9, <1>10, <1>11

LEMMA SessionNext == SessionInduction /\ [Next]_vars => SessionInduction'
<1> SUFFICES ASSUME SessionInduction, [Next]_vars PROVE SessionInduction'
  OBVIOUS
<1>1. ASSUME NEW t \in tasks, Handler(t) \/ FailSettle(t) PROVE SessionInduction'
  BY <1>1, HandleCommandKeeps, SettleExpiredKeeps, SyncReadKeeps, SyncAttachKeeps, SyncEmitKeeps,
     FailSettleKeeps DEF Handler
<1>2. ASSUME NEW resigns \in BOOLEAN, OpponentCommand(resigns) \/ Submit(resigns)
      PROVE  SessionInduction'
  BY <1>2, OpponentCommandKeeps, SubmitKeeps
<1>3. ASSUME NEW m \in Match, TickExpired(m) \/ TickSync(m) PROVE SessionInduction'
  BY <1>3, TickExpiredKeeps, TickSyncKeeps
<1>4. CASE Elapse
  BY <1>4, ElapseKeeps
<1>5. CASE SeatRematch
  BY <1>5, SeatRematchKeeps
<1>6. CASE Drop
  BY <1>6, DropKeeps
<1>7. CASE Connect
  BY <1>7, ConnectKeeps
<1>8. CASE Restart
  BY <1>8, RestartKeeps
<1>9. CASE Authenticated
  BY <1>9, AuthenticatedKeeps
<1>10. CASE Receive
  BY <1>10, ReceiveKeeps
<1>11. CASE Discard
  BY <1>11, DiscardKeeps
<1>12. CASE Navigate
  BY <1>12, NavigateKeeps
<1>13. CASE UNCHANGED vars
  <2>1. /\ log' = log /\ current' = current /\ tracked' = tracked /\ conn' = conn /\ down' = down
        /\ ch' = ch /\ screen' = screen /\ sent' = sent /\ tasks' = tasks
    BY <1>13 DEF vars, server, wire, client
  <2> QED
    BY <2>1, TypesOfState, SilenceKeeps
<1> QED
  BY <1>1, <1>2, <1>3, <1>4, <1>5, <1>6, <1>7, <1>8, <1>9, <1>10, <1>11, <1>12, <1>13 DEF Next

BoardStep == ch'.match = ch.match => Len(ch'.log) >= Len(ch.log)
LockStep == ch.pending # NoPending /\ ch'.pending # ch.pending /\ ch'.match = ch.match => Decided(ch.pending)

LEMMA ChannelSteps == SessionInduction /\ [Next]_vars => BoardStep /\ LockStep
<1> SUFFICES ASSUME SessionInduction, [Next]_vars PROVE BoardStep /\ LockStep
  OBVIOUS
<1>1. CASE BoardStands
  BY <1>1, TheHeldBoard DEF BoardStands, BoardStep, LockStep
<1>2. CASE Receive
  <2>1. Follows(ch', Head(down))
    BY <1>2, ReceiveKeeps
  <2>2. Len(ch.log) \in Nat /\ Len(ch'.log) \in Nat
    BY <2>1, TheHeldBoard, LenProperties DEF Follows, Channels
  <2> QED
    BY <2>1, <2>2 DEF Follows, BoardStep, LockStep
<1>3. UNCHANGED vars => BoardStands
  BY DEF vars, client, BoardStands
<1> QED
  BY <1>1, <1>2, <1>3, OthersMoveNoBoard DEF Next

\* The board a player sees of a match is one the match had, it never goes back, and a lock on
\* it is released when the command behind it is decided: for every number of matches, moves,
\* commands and faults (match/channel.ts, gateway.ts).
THEOREM ScreensFollow == Spec => ScreenFollowsTheMatch
<1>1. SessionInduction => BoardWasReal
  BY DEF SessionInduction, ChannelIsReal, BoardWasReal
<1>2. BoardStep => (ch'.match = ch.match => Len(ch'.log) >= Len(ch.log))
  BY DEF BoardStep
<1>3. LockStep =>
        ((ch.pending # NoPending /\ ch'.pending # ch.pending /\ ch'.match = ch.match)
           => \/ Logged(ch.pending)
              \/ Over(ch.pending.match)
              \/ Version(ch.pending.match) > ch.pending.expected
              \/ ch.pending.kind # "resign" /\ ~MyTurn(ch.pending.match))
  BY DEF LockStep, Decided
<1>4. Spec => []SessionInduction
  BY SessionInit, SessionNext, PTL DEF Spec
<1>5. Spec => [][BoardStep /\ LockStep]_vars
  BY <1>4, ChannelSteps, PTL DEF Spec
<1>6. Spec => []BoardWasReal
  BY <1>1, <1>4, PTL
<1>7. Spec => BoardNeverGoesBack
  BY <1>2, <1>5, PTL DEF BoardNeverGoesBack
<1>8. Spec => LockReleasedWhenDecided
  BY <1>3, <1>5, PTL DEF LockReleasedWhenDecided
<1> QED
  BY <1>6, <1>7, <1>8 DEF ScreenFollowsTheMatch
=============================================================================
