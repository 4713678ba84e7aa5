-------------------------- MODULE MatchmakingProofs --------------------------
(***************************************************************************)
(* Proofs about Matchmaking: for any players, queues, ratings, calls in      *)
(* progress and windows.  What a list holds is argued about as a set; that   *)
(* the pair that is chosen exists rests on the least element of a set of     *)
(* numbers.                                                                 *)
(***************************************************************************)
EXTENDS Matchmaking, SequenceTheorems, FiniteSetTheorems, WellFoundedInduction, TLAPS

Asking == [pc : {"reading", "eligible", "entering"}, actor : Actors, key : Keys]
Attempts == [pc : {"checking", "creating", "created"}, actor : Actors \cup {Nobody}, key : Keys,
             todo : Seq(Entry), keys : SUBSET Keys, seated : SUBSET Match,
             match : Match \cup {NoMatch}]

Typed ==
  /\ clock \in Nat /\ tickets \in Nat /\ failures \in Nat /\ accepting \in BOOLEAN
  /\ queues \in [Keys -> Seq(Entry)]
  /\ byActor \in [Actors -> Entry \cup {NoEntry}]
  /\ online \subseteq Actors /\ suspended \subseteq Actors \ Guests
  /\ task \in [Tasks -> {Idle} \cup Asking \cup Attempts]
  /\ made \subseteq Match /\ over \subseteq made /\ announced \subseteq made

\* An entry that waits has a number of its own, given out before.
EntriesAreNumbered ==
  /\ \A a \in Actors : byActor[a] # NoEntry => byActor[a].ticket <= tickets
  /\ \A a, b \in Actors :
       byActor[a] # NoEntry /\ byActor[b] # NoEntry /\ byActor[a].ticket = byActor[b].ticket
         => a = b
  /\ \A p \in Pairs : \A n \in p.tickets : n <= tickets

\* What a call has seated is on record.
SeatedAreMade ==
  \A t \in Tasks :
    /\ task[t].pc \in {"creating", "created"} => task[t].match \in Match
    /\ task[t].pc = "created" => task[t].match \in made
    /\ task[t] \in Attempts => task[t].seated \subseteq made

QueueInduction == Typed /\ QueuesAgree /\ EntrySpentOnce /\ EntriesAreNumbered /\ SeatedAreMade

-----------------------------------------------------------------------------
(* Least elements *)

LEMMA LeastNatural ==
  ASSUME NEW S \in SUBSET Nat, S # {}
  PROVE  \E m \in S : \A n \in S : m <= n
<1> DEFINE less == {p \in Nat \X Nat : p[1] < p[2]}
<1>1. less = OpToRel(<, Nat)
  BY Zenon DEF OpToRel
<1>2. IsWellFoundedOn(less, Nat)
  BY <1>1, NatLessThanWellFounded, Zenon
<1>3. \A m, n \in Nat : n < m => <<n, m>> \in less
  OBVIOUS
<1> HIDE DEF less
<1>4. PICK m \in S : \A n \in S : ~ (<<n, m>> \in less)
  BY <1>2, WFMin
<1>5. \A n \in S : n \in Nat /\ m \in Nat /\ ~ (n < m)
  BY <1>3, <1>4
<1> QED
  BY <1>5

\* The least of some positions by one measure, by another where that ties, and by position.
LEMMA LeastBy ==
  ASSUME NEW S \in SUBSET Nat, S # {}, NEW f \in [S -> Nat], NEW g \in [S -> Nat]
  PROVE  \E i \in S : \A k \in S \ {i} :
           \/ f[i] < f[k]
           \/ f[i] = f[k] /\ (g[i] < g[k] \/ (g[i] = g[k] /\ i < k))
<1>1. PICK i1 \in S : \A k \in S : f[i1] <= f[k]
  <2>1. {f[k] : k \in S} \in SUBSET Nat /\ {f[k] : k \in S} # {}
    OBVIOUS
  <2>2. PICK m \in {f[k] : k \in S} : \A n \in {f[k] : k \in S} : m <= n
    BY <2>1, LeastNatural
  <2> QED
    BY <2>2
<1> DEFINE T == {k \in S : f[k] = f[i1]}
<1>2. PICK i2 \in T : \A k \in T : g[i2] <= g[k]
  <2>1. {g[k] : k \in T} \in SUBSET Nat /\ {g[k] : k \in T} # {}
    OBVIOUS
  <2>2. PICK m \in {g[k] : k \in T} : \A n \in {g[k] : k \in T} : m <= n
    BY <2>1, LeastNatural
  <2> QED
    BY <2>2
<1> DEFINE U == {k \in T : g[k] = g[i2]}
<1>3. PICK i3 \in U : \A k \in U : i3 <= k
  <2>1. U \in SUBSET Nat /\ U # {}
    OBVIOUS
  <2> QED
    BY <2>1, LeastNatural
<1>4. ASSUME NEW k \in S \ {i3}
      PROVE  \/ f[i3] < f[k]
             \/ f[i3] = f[k] /\ (g[i3] < g[k] \/ (g[i3] = g[k] /\ i3 < k))
  <2>0. k \in S /\ i3 \in S /\ k # i3 /\ i3 \in U /\ i3 \in T /\ i1 \in S /\ i2 \in S
    OBVIOUS
  <2>1. f[i3] = f[i1] /\ g[i3] = g[i2] /\ f[i1] <= f[k]
    BY <1>1, <2>0
  <2>2. f[i1] = f[k] => k \in T /\ g[i2] <= g[k]
    BY <1>2, <2>0
  <2>3. f[i1] = f[k] /\ g[i2] = g[k] => i3 <= k
    BY <1>3, <2>0, <2>2
  <2>4. f[i1] \in Nat /\ f[k] \in Nat /\ g[i2] \in Nat /\ g[k] \in Nat /\ i3 \in Nat /\ k \in Nat
    BY <2>0
  <2> QED
    BY <2>0, <2>1, <2>2, <2>3, <2>4
<1> QED
  BY <1>4

-----------------------------------------------------------------------------
(* What the operators do *)

\* A slice of a list holds the entries between its two positions, in their order.
LEMMA Slices ==
  ASSUME NEW list \in Seq(Entry), NEW m \in Int, NEW n \in Int, 1 <= m, n <= Len(list), m <= n + 1
  PROVE  /\ SubSeq(list, m, n) \in Seq(Entry) /\ Len(SubSeq(list, m, n)) = n - m + 1
         /\ \A i \in 1..(n - m + 1) : SubSeq(list, m, n)[i] = list[m + i - 1]
<1>1. \A i \in m..n : list[i] \in Entry
  OBVIOUS
<1> DEFINE slice == SubSeq(list, m, n)
<1>2. /\ slice \in Seq(Entry) /\ Len(slice) = IF m <= n THEN n - m + 1 ELSE 0
      /\ \A i \in 1..(n - m + 1) : slice[i] = list[m + i - 1]
  BY ONLY <1>1, m \in Int, n \in Int, SubSeqProperties
<1> HIDE DEF slice
<1>3. Len(slice) = n - m + 1
  BY <1>2
<1> QED
  BY <1>2, <1>3 DEF slice

\* splice takes out the entry it was given, and only that.
LEMMA SplicedTakesOut ==
  ASSUME NEW list \in Seq(Entry), IsInjective(list), NEW entry
  PROVE  /\ Spliced(list, entry) \in Seq(Entry) /\ IsInjective(Spliced(list, entry))
         /\ ToSet(Spliced(list, entry)) = ToSet(list) \ {entry}
<1> DEFINE found == {i \in DOMAIN list : list[i] = entry}
           index == CHOOSE i \in found : \A j \in found : i <= j
<1>1. DOMAIN list = 1..Len(list) /\ Len(list) \in Nat
  OBVIOUS
<1>2. CASE found = {}
  BY <1>2 DEF Spliced, ToSet
<1>3. CASE found # {}
  <2>1. \E i \in found : \A j \in found : i <= j
    <3>1. found \in SUBSET Nat
      BY <1>1
    <3> HIDE DEF found
    <3> QED
      BY <1>3, <3>1, LeastNatural
  <2>2. index \in DOMAIN list /\ list[index] = entry
    BY <2>1
  <2>3. Spliced(list, entry) = RemoveAt(list, index)
    BY <1>3 DEF Spliced
  <2> HIDE DEF index
  <2> DEFINE rest == RemoveAt(list, index)
  <2>4. /\ rest \in Seq(Entry) /\ Len(rest) = Len(list) - 1
        /\ \A i \in 1..Len(rest) : rest[i] = IF i < index THEN list[i] ELSE list[i + 1]
    <3> DEFINE before == SubSeq(list, 1, index - 1)
               after == SubSeq(list, index + 1, Len(list))
    <3>1. index \in 1..Len(list)
      BY <1>1, <2>2
    <3>2. /\ before \in Seq(Entry) /\ Len(before) = index - 1
          /\ \A i \in 1..(index - 1) : before[i] = list[i]
      <4> HIDE DEF before
      <4>1. /\ before \in Seq(Entry) /\ Len(before) = index - 1 - 1 + 1
            /\ \A i \in 1..(index - 1 - 1 + 1) : before[i] = list[1 + i - 1]
        BY <1>1, <3>1, Slices DEF before
      <4> QED
        BY <1>1, <3>1, <4>1
    <3>3. /\ after \in Seq(Entry) /\ Len(after) = Len(list) - index
          /\ \A i \in 1..(Len(list) - index) : after[i] = list[index + i]
      <4> DEFINE next == index + 1
                 last == Len(list)
      <4> HIDE DEF after
      <4>1. next \in Int /\ last \in Int /\ 1 <= next /\ last <= Len(list) /\ next <= last + 1
        BY <1>1, <3>1
      <4>2. after = SubSeq(list, next, last)
        BY DEF after
      <4> HIDE DEF next, last
      <4>3. /\ after \in Seq(Entry) /\ Len(after) = last - next + 1
            /\ \A i \in 1..(last - next + 1) : after[i] = list[next + i - 1]
        BY <4>1, <4>2, Slices
      <4>4. next = index + 1 /\ last = Len(list)
        BY DEF next, last
      <4> QED
        BY <1>1, <3>1, <4>3, <4>4
    <3>4. rest = before \o after
      BY DEF RemoveAt
    <3> HIDE DEF before, after, rest
    <3>5. rest \in Seq(Entry) /\ Len(rest) = Len(list) - 1
      <4>1. Len(rest) = Len(before) + Len(after) /\ rest \in Seq(Entry)
        BY <3>2, <3>3, <3>4, ConcatProperties
      <4> QED
        BY <1>1, <3>1, <3>2, <3>3, <4>1
    <3>6. ASSUME NEW i \in 1..Len(rest)
          PROVE  rest[i] = IF i < index THEN list[i] ELSE list[i + 1]
      <4>1. CASE i < index
        BY <1>1, <3>1, <3>2, <3>3, <3>4, <3>5, <4>1
      <4>2. CASE i >= index
        <5>1. rest[i] = after[i - (index - 1)] /\ i - (index - 1) \in 1..(Len(list) - index)
          BY <1>1, <3>1, <3>2, <3>3, <3>4, <3>5, <4>2
        <5>2. index + (i - (index - 1)) = i + 1
          BY <1>1, <3>1
        <5> QED
          BY <1>1, <3>1, <3>3, <4>2, <5>1, <5>2
      <4> QED
        BY <1>1, <3>1, <3>5, <4>1, <4>2
    <3> QED
      BY <3>5, <3>6
  <2> HIDE DEF rest
  <2>5. IsInjective(rest)
    BY <1>1, <2>2, <2>4, SMTT(40) DEF IsInjective
  <2>6. ToSet(rest) \subseteq ToSet(list) \ {entry}
    BY <1>1, <2>2, <2>4, SMTT(40) DEF ToSet, IsInjective
  <2>7. ASSUME NEW i \in DOMAIN list, list[i] # entry PROVE list[i] \in ToSet(rest)
    <3>1. CASE i < index
      BY <1>1, <2>2, <2>4, <3>1 DEF ToSet
    <3>2. CASE i > index
      <4>1. i - 1 \in 1..Len(rest) /\ rest[i - 1] = list[i]
        BY <1>1, <2>2, <2>4, <3>2
      <4> QED
        BY <2>4, <4>1 DEF ToSet
    <3> QED
      BY <1>1, <2>2, <2>7, <3>1, <3>2
  <2>8. ToSet(list) \ {entry} \subseteq ToSet(rest)
    BY <2>7 DEF ToSet
  <2>9. rest = Spliced(list, entry)
    BY <2>3 DEF rest
  <2> QED
    BY <2>4, <2>5, <2>6, <2>8, <2>9
<1> QED
  BY <1>2, <1>3

\* The pair that is chosen is of two players, of whom the first has waited longest of those
\* that can be paired and the second is nearest to it.
LEMMA ChosenPair ==
  ASSUME NEW entries \in Seq(Entry), NEW mode, NEW now,
         FindPairing(entries, mode, now) # NoPairing
  PROVE  \E i, j \in DOMAIN entries :
           /\ FindPairing(entries, mode, now) = <<i, j>>
           /\ j \in Candidates(entries, i, mode, now)
           /\ \A k \in DOMAIN entries \ {i} :
                Candidates(entries, k, mode, now) # {} => Before(entries, i, k)
           /\ \A k \in Candidates(entries, i, mode, now) \ {j} : Nearer(entries, i, j, k)
<1> DEFINE seekers == {i \in DOMAIN entries : Candidates(entries, i, mode, now) # {}}
           first == CHOOSE i \in seekers : \A k \in seekers \ {i} : Before(entries, i, k)
           met == Candidates(entries, first, mode, now)
           nearest == CHOOSE j \in met : \A k \in met \ {j} : Nearer(entries, first, j, k)
<1>1. seekers # {} /\ FindPairing(entries, mode, now) = <<first, nearest>>
  BY DEF FindPairing
<1>2. DOMAIN entries \in SUBSET Nat /\ \A i \in DOMAIN entries : entries[i] \in Entry
  OBVIOUS
<1>3. \E i \in seekers : \A k \in seekers \ {i} : Before(entries, i, k)
  <2> DEFINE waited == [i \in seekers |-> entries[i].joinedAt]
  <2>1. seekers \in SUBSET Nat /\ waited \in [seekers -> Nat]
    BY <1>2 DEF Entry
  <2> HIDE DEF seekers
  <2>2. PICK i \in seekers : \A k \in seekers \ {i} :
          \/ waited[i] < waited[k]
          \/ waited[i] = waited[k] /\ (waited[i] < waited[k] \/ (waited[i] = waited[k] /\ i < k))
    BY <1>1, <2>1, LeastBy
  <2>3. \A k \in seekers \ {i} : Before(entries, i, k)
    <3>1. \A k \in seekers : waited[k] = entries[k].joinedAt
      OBVIOUS
    <3> HIDE DEF waited
    <3> QED
      BY <2>2, <3>1 DEF Before
  <2> QED
    BY <2>3
<1> HIDE DEF first
<1>4. first \in seekers /\ \A k \in seekers \ {first} : Before(entries, first, k)
  BY <1>3 DEF first
<1>5. first \in DOMAIN entries /\ met # {} /\ met \subseteq DOMAIN entries
  BY <1>4 DEF Candidates
<1>6. \E j \in met : \A k \in met \ {j} : Nearer(entries, first, j, k)
  <2> DEFINE far == [j \in met |-> Distance(OrderingRating(entries[first]), OrderingRating(entries[j]))]
             waited == [j \in met |-> entries[j].joinedAt]
  <2>1. \A i \in DOMAIN entries : OrderingRating(entries[i]) \in Nat
    BY <1>2, WindowAssumption DEF OrderingRating, Entry, NoRating
  <2>2. \A r, s \in Nat : Distance(r, s) \in Nat
    BY DEF Distance
  <2>3. met \in SUBSET Nat /\ far \in [met -> Nat] /\ waited \in [met -> Nat]
    BY <1>2, <1>5, <2>1, <2>2 DEF Entry
  <2>4. \A k \in met : /\ waited[k] = entries[k].joinedAt
                       /\ far[k] = Distance(OrderingRating(entries[first]), OrderingRating(entries[k]))
    OBVIOUS
  <2> HIDE DEF met, far, waited
  <2>5. PICK j \in met : \A k \in met \ {j} :
          \/ far[j] < far[k]
          \/ far[j] = far[k] /\ (waited[j] < waited[k] \/ (waited[j] = waited[k] /\ j < k))
    BY <1>5, <2>3, LeastBy, ZenonT(60)
  <2>6. \A k \in met \ {j} : Nearer(entries, first, j, k)
    BY <2>4, <2>5 DEF Nearer, Before
  <2> QED
    BY <2>6
<1>7. nearest \in met /\ \A k \in met \ {nearest} : Nearer(entries, first, nearest, k)
  BY <1>6
<1> HIDE DEF nearest
<1> QED
  BY <1>1, <1>4, <1>5, <1>7

LEMMA PairOfTwo ==
  ASSUME NEW entries \in Seq(Entry), NEW mode, NEW now, NEW pair,
         pair = FindPairing(entries, mode, now), pair # NoPairing
  PROVE  /\ pair[1] \in DOMAIN entries /\ pair[2] \in DOMAIN entries
         /\ entries[pair[1]].actor # entries[pair[2]].actor
<1>1. PICK i, j \in DOMAIN entries : pair = <<i, j>> /\ j \in Candidates(entries, i, mode, now)
  BY ChosenPair
<1> QED
  BY <1>1 DEF Candidates, AreCompatible

\* Nobody is overtaken: when two players could meet somebody is seated, and of the two that
\* are, one has waited at least as long as either of them (pairing.ts, findPairing).
THEOREM NobodyIsOvertaken ==
  ASSUME NEW entries \in Seq(Entry), NEW mode, NEW now,
         NEW i \in DOMAIN entries, NEW j \in DOMAIN entries,
         AreCompatible(entries[i], entries[j], mode, now)
  PROVE  LET pair == FindPairing(entries, mode, now)
         IN  /\ pair # NoPairing
             /\ entries[pair[1]].joinedAt <= entries[i].joinedAt
             /\ entries[pair[1]].joinedAt <= entries[j].joinedAt
<1>1. /\ AreCompatible(entries[j], entries[i], mode, now) /\ i # j
      /\ \A k \in DOMAIN entries : k \in Nat /\ entries[k].joinedAt \in Nat
  <2>1. AreCompatible(entries[j], entries[i], mode, now) /\ i # j
    BY DEF AreCompatible
  <2>2. \A k \in DOMAIN entries : k \in Nat /\ entries[k] \in Entry
    OBVIOUS
  <2> QED
    BY <2>1, <2>2 DEF Entry
<1>2. PICK k \in {i, j} : /\ Candidates(entries, k, mode, now) # {}
                          /\ entries[k].joinedAt <= entries[i].joinedAt
                          /\ entries[k].joinedAt <= entries[j].joinedAt
  <2>1. CASE Before(entries, i, j)
    <3>1. j \in Candidates(entries, i, mode, now)
      BY <2>1 DEF Candidates
    <3> QED
      BY <1>1, <2>1, <3>1 DEF Before
  <2>2. CASE Before(entries, j, i)
    <3>1. i \in Candidates(entries, j, mode, now)
      BY <1>1, <2>2 DEF Candidates
    <3> QED
      BY <1>1, <2>2, <3>1 DEF Before
  <2> QED
    BY <1>1, <2>1, <2>2 DEF Before
<1>3. FindPairing(entries, mode, now) # NoPairing
  <2>1. \A a, b : <<a, b>> # NoPairing
    BY DEF NoPairing
  <2> QED
    BY <1>2, <2>1 DEF FindPairing
<1>4. PICK m, n \in DOMAIN entries :
        /\ FindPairing(entries, mode, now) = <<m, n>>
        /\ \A l \in DOMAIN entries \ {m} :
             Candidates(entries, l, mode, now) # {} => Before(entries, m, l)
  BY <1>3, ChosenPair
<1>5. entries[m].joinedAt <= entries[k].joinedAt
  BY <1>1, <1>2, <1>4, SMTT(40) DEF Before
<1>6. entries[m].joinedAt <= entries[i].joinedAt /\ entries[m].joinedAt <= entries[j].joinedAt
  BY <1>1, <1>2, <1>5
<1> QED
  BY <1>3, <1>4, <1>6

\* Two players who have both waited UNBOUNDED_AFTER_MS are never left unpaired, whatever
\* their ratings and whoever else is there (pairing.ts, windowHalfWidth).
THEOREM LongWaitsEnd ==
  ASSUME NEW entries \in Seq(Entry), NEW mode, NEW now \in Nat,
         NEW i \in DOMAIN entries, NEW j \in DOMAIN entries,
         entries[i].actor # entries[j].actor,
         now - entries[i].joinedAt >= UnboundedAfter, now - entries[j].joinedAt >= UnboundedAfter
  PROVE  FindPairing(entries, mode, now) # NoPairing
<1>1. AreCompatible(entries[i], entries[j], mode, now)
  BY DEF AreCompatible, WithinWindow, WindowHalfWidth
<1> QED
  BY <1>1, NobodyIsOvertaken

-----------------------------------------------------------------------------
(* The lists and who is in them *)

\* The lists of all keys, each holding an entry once and only entries of its key.
Lists(qs) ==
  /\ qs \in [Keys -> Seq(Entry)]
  /\ \A k \in Keys : IsInjective(qs[k]) /\ \A e \in ToSet(qs[k]) : e.key = k

LEMMA QueuesWithoutTakesOut ==
  ASSUME NEW qs, Lists(qs), NEW a \in Actors, byActor \in [Actors -> Entry \cup {NoEntry}]
  PROVE  /\ Lists(QueuesWithout(qs, a))
         /\ \A k \in Keys : ToSet(QueuesWithout(qs, a)[k]) = ToSet(qs[k]) \ {byActor[a]}
<1> DEFINE held == byActor[a]
           left == QueuesWithout(qs, a)
<1>1. \A k \in Keys : qs[k] \in Seq(Entry) /\ ToSet(qs[k]) \subseteq Entry
  BY DEF Lists, ToSet
<1>2. \A e \in Entry : e # NoEntry
  <2> SUFFICES ASSUME NEW e \in Entry PROVE e # NoEntry
    OBVIOUS
  <2>1. e.ticket # 0 /\ NoEntry.ticket = 0
    BY DEF Entry, NoEntry
  <2> QED
    BY <2>1
<1>3. CASE held = NoEntry
  <2>1. left = qs
    BY <1>3 DEF QueuesWithout
  <2>2. \A k \in Keys : NoEntry \notin ToSet(qs[k])
    BY <1>1, <1>2
  <2> QED
    BY <1>3, <2>1, <2>2
<1>4. CASE held # NoEntry
  <2>1. held \in Entry /\ held.key \in Keys
    BY <1>4 DEF Entry
  <2>2. left = [qs EXCEPT ![held.key] = Spliced(qs[held.key], held)]
    BY <1>4 DEF QueuesWithout
  <2>3. /\ Spliced(qs[held.key], held) \in Seq(Entry) /\ IsInjective(Spliced(qs[held.key], held))
        /\ ToSet(Spliced(qs[held.key], held)) = ToSet(qs[held.key]) \ {held}
    BY <1>1, <2>1, SplicedTakesOut DEF Lists
  <2>4. \A k \in Keys : left[k] = IF k = held.key THEN Spliced(qs[held.key], held) ELSE qs[k]
    BY <2>1, <2>2 DEF Lists
  <2>5. left \in [Keys -> Seq(Entry)]
    BY <1>1, <2>1, <2>2, <2>3 DEF Lists
  <2>6. \A k \in Keys : k # held.key => held \notin ToSet(qs[k])
    BY DEF Lists
  <2> HIDE DEF left, held
  <2>7. \A k \in Keys : ToSet(left[k]) = ToSet(qs[k]) \ {held} /\ IsInjective(left[k])
    BY <2>3, <2>4, <2>6 DEF Lists
  <2>8. Lists(left)
    BY <2>5, <2>7 DEF Lists
  <2> QED
    BY <2>7, <2>8 DEF left, held
<1> QED
  BY <1>3, <1>4

\* An entry is not the lack of one.
LEMMA EntriesAreEntries == \A e \in Entry : e # NoEntry /\ e.actor \in Actors /\ e.key \in Keys
<1> SUFFICES ASSUME NEW e \in Entry PROVE e # NoEntry /\ e.actor \in Actors /\ e.key \in Keys
  OBVIOUS
<1>1. e.ticket # 0 /\ NoEntry.ticket = 0 /\ e.actor \in Actors /\ e.key \in Keys
  BY DEF Entry, NoEntry
<1> QED
  BY <1>1

LEMMA ListsOf == ASSUME Typed, QueuesAgree PROVE Lists(queues)
BY DEF Typed, QueuesAgree, Lists

LEMMA ListedAreEntries == ASSUME Typed PROVE \A k \in Keys : ToSet(queues[k]) \subseteq Entry
BY DEF Typed, ToSet

\* A player's entry leaves its list and its name in one step.
LEMMA RemoveActorAgrees ==
  ASSUME Typed, QueuesAgree, NEW a \in Actors, RemoveActor(a)
  PROVE  /\ queues' \in [Keys -> Seq(Entry)]
         /\ byActor' \in [Actors -> Entry \cup {NoEntry}]
         /\ \A b \in Actors : byActor'[b] \in {byActor[b], NoEntry}
         /\ QueuesAgree'
<1>1. Lists(queues) /\ byActor \in [Actors -> Entry \cup {NoEntry}]
  BY ListsOf DEF Typed
<1>2. /\ queues' = QueuesWithout(queues, a) /\ byActor' = [byActor EXCEPT ![a] = NoEntry]
  BY DEF RemoveActor
<1>3. /\ Lists(queues')
      /\ \A k \in Keys : ToSet(queues'[k]) = ToSet(queues[k]) \ {byActor[a]}
  BY <1>1, <1>2, QueuesWithoutTakesOut
<1>4. /\ \A b \in Actors : byActor'[b] = IF b = a THEN NoEntry ELSE byActor[b]
      /\ byActor' \in [Actors -> Entry \cup {NoEntry}]
  BY <1>1, <1>2
<1>5. ASSUME NEW b \in Actors, byActor'[b] # NoEntry
      PROVE  byActor'[b].actor = b /\ byActor'[b] \in ToSet(queues'[byActor'[b].key])
  <2>1. b # a /\ byActor'[b] = byActor[b] /\ byActor[b] \in Entry
    BY <1>1, <1>4, <1>5
  <2>2. byActor[b].actor = b /\ byActor[b] \in ToSet(queues[byActor[b].key])
    BY <1>5, <2>1 DEF QueuesAgree
  <2>3. byActor[b] # byActor[a]
    <3>1. byActor[a] # NoEntry => byActor[a].actor = a
      BY DEF QueuesAgree
    <3> QED
      BY <1>5, <2>1, <2>2, <3>1
  <2> QED
    BY <1>3, <2>1, <2>2, <2>3, EntriesAreEntries
<1>6. ASSUME NEW k \in Keys, NEW e \in ToSet(queues'[k]) PROVE e.key = k /\ byActor'[e.actor] = e
  <2>1. e \in ToSet(queues[k]) /\ e # byActor[a]
    BY <1>3
  <2>2. e.key = k /\ byActor[e.actor] = e /\ e.actor \in Actors
    BY <2>1, EntriesAreEntries, ListedAreEntries DEF QueuesAgree
  <2> QED
    BY <1>4, <2>1, <2>2
<1>7. QueuesAgree'
  BY <1>3, <1>5, <1>6 DEF QueuesAgree, Lists
<1> QED
  BY <1>1, <1>3, <1>4, <1>7 DEF Lists

\* Steps after which no more entries wait and no more pairs have been taken out.
LEMMA QuietKeepsRest ==
  ASSUME QueueInduction, Typed', QueuesAgree', SeatedAreMade', tickets' = tickets,
         \A b \in Actors : byActor'[b] \in {byActor[b], NoEntry},
         Pairs' \subseteq Pairs
  PROVE  QueueInduction'
<1>1. Typed /\ EntrySpentOnce /\ EntriesAreNumbered
  BY DEF QueueInduction
<1>2. EntrySpentOnce'
  BY <1>1 DEF EntrySpentOnce
<1>3. EntriesAreNumbered'
  BY <1>1 DEF EntriesAreNumbered
<1> QED
  BY <1>2, <1>3 DEF QueueInduction

Started == {Idle} \cup Asking \cup Attempts

LEMMA KindsOfCalls ==
  /\ Idle.pc = "idle"
  /\ \A c \in Asking : c.pc \in {"reading", "eligible", "entering"}
  /\ \A c \in Attempts : c.pc \in {"checking", "creating", "created"}
<1>1. \A c \in Asking : c.pc \in {"reading", "eligible", "entering"}
  BY DEF Asking
<1>2. \A c \in Attempts : c.pc \in {"checking", "creating", "created"}
  BY DEF Attempts
<1> QED
  BY <1>1, <1>2 DEF Idle

\* One call moves on, and not to a match it is creating: no pair has been taken out.
LEMMA OneCallMoves ==
  ASSUME QueueInduction, NEW t \in Tasks, NEW c \in Started, c.pc # "creating",
         task' = [task EXCEPT ![t] = c],
         made \subseteq made', made' \subseteq Pairs,
         c.pc = "created" => c.match \in Match /\ c.match \in made',
         c \in Attempts => c.seated \subseteq made'
  PROVE  task' \in [Tasks -> Started] /\ SeatedAreMade' /\ Pairs' \subseteq Pairs
<1>1. task \in [Tasks -> Started] /\ SeatedAreMade
  BY DEF QueueInduction, Typed, Started
<1>2. /\ \A u \in Tasks : task'[u] = IF u = t THEN c ELSE task[u]
      /\ task' \in [Tasks -> Started]
  BY <1>1
<1>3. SeatedAreMade'
  BY <1>1, <1>2 DEF SeatedAreMade
<1>4. Pairs' \subseteq Pairs
  BY <1>2 DEF Pairs
<1> QED
  BY <1>2, <1>3, <1>4

\* One call moves on, and nothing of the queue does.
LEMMA OnlyACallMoves ==
  ASSUME QueueInduction, NEW t \in Tasks, NEW c \in Started, c.pc # "creating",
         task' = [task EXCEPT ![t] = c],
         UNCHANGED <<clock, queueVars, online, suspended, over>>,
         made \subseteq made', made' \subseteq Pairs, made' \subseteq Match,
         announced' \subseteq made', failures' \in Nat,
         c.pc = "created" => c.match \in Match /\ c.match \in made',
         c \in Attempts => c.seated \subseteq made'
  PROVE  QueueInduction'
<1>1. Typed /\ QueuesAgree
  BY DEF QueueInduction
<1>2. task' \in [Tasks -> Started] /\ SeatedAreMade' /\ Pairs' \subseteq Pairs
  BY OneCallMoves
<1>3. UNCHANGED <<clock, accepting, queues, byActor, tickets, online, suspended, over>>
  BY DEF queueVars
<1>4. Typed'
  BY <1>1, <1>2, <1>3 DEF Typed, Started
<1>5. QueuesAgree'
  BY <1>1, <1>3 DEF QueuesAgree
<1> QED
  BY <1>2, <1>3, <1>4, <1>5, QuietKeepsRest

-----------------------------------------------------------------------------
(* Steps of the calls *)

LEMMA TypedNow ==
  ASSUME QueueInduction
  PROVE  /\ Typed /\ QueuesAgree /\ SeatedAreMade /\ made \subseteq Pairs /\ made \subseteq Match
         /\ announced \subseteq made /\ failures \in Nat
         /\ \A t \in Tasks : task[t] \in Started
BY DEF QueueInduction, Typed, Pairs, Started

LEMMA BeginJoinKeeps ==
  ASSUME QueueInduction, NEW t \in Joins, NEW a \in Actors, NEW k \in Keys, BeginJoin(t, a, k)
  PROVE  QueueInduction'
<1> DEFINE c == [pc |-> "reading", actor |-> a, key |-> k]
<1>1. c \in Asking /\ c.pc = "reading"
  BY DEF Asking
<1>2. t \in Tasks /\ task' = [task EXCEPT ![t] = c]
      /\ UNCHANGED <<clock, queueVars, online, suspended, matchVars>>
  BY DEF BeginJoin, Tasks
<1> HIDE DEF c
<1>3. c \in Started /\ c \notin Attempts
  BY <1>1, KindsOfCalls DEF Started
<1> QED
  BY <1>1, <1>2, <1>3, TypedNow, OnlyACallMoves DEF matchVars

LEMMA ReadsKeep ==
  ASSUME QueueInduction, NEW t \in Tasks, ReadEligibility(t) \/ ReadUnfinished(t)
  PROVE  QueueInduction'
<1> DEFINE passed(pc) == [task[t] EXCEPT !.pc = pc]
<1>1. task[t] \in Asking
  BY TypedNow, KindsOfCalls DEF ReadEligibility, ReadUnfinished, Started
<1>2. PICK c : /\ c \in {Idle, passed("eligible"), passed("entering")}
               /\ task' = [task EXCEPT ![t] = c]
               /\ UNCHANGED <<clock, queueVars, online, suspended, matchVars>>
  <2>1. CASE ReadEligibility(t)
    BY <2>1 DEF ReadEligibility
  <2>2. CASE ReadUnfinished(t)
    BY <2>2 DEF ReadUnfinished
  <2> QED
    BY <2>1, <2>2
<1>3. c \in {Idle} \cup Asking
  BY <1>1, <1>2 DEF Asking
<1>4. c \in Started /\ c \notin Attempts /\ c.pc \notin {"creating", "created"}
  BY <1>3, KindsOfCalls DEF Started
<1> QED
  BY <1>2, <1>4, TypedNow, OnlyACallMoves DEF matchVars

\* A pairing attempt that begins or begins again.
LEMMA AttemptBegins ==
  ASSUME NEW actor \in Actors \cup {Nobody}, NEW key \in Keys, NEW list \in Seq(Entry),
         NEW keys \in SUBSET Keys, NEW seated \in SUBSET Match
  PROVE  /\ Attempt(actor, key, list, keys, seated) \in Attempts
         /\ Attempt(actor, key, list, keys, seated).pc = "checking"
         /\ Attempt(actor, key, list, keys, seated).seated = seated
BY DEF Attempt, Attempts

LEMMA BeginTickKeeps ==
  ASSUME QueueInduction, NEW t \in Ticks, BeginTick(t)
  PROVE  QueueInduction'
<1> DEFINE active == {k \in Keys : queues[k] # <<>>}
<1>1. PICK key \in active :
        task' = [task EXCEPT ![t] = Attempt(Nobody, key, queues[key], active \ {key}, {})]
  BY DEF BeginTick
<1> DEFINE c == Attempt(Nobody, key, queues[key], active \ {key}, {})
<1>2. queues[key] \in Seq(Entry) /\ key \in Keys /\ active \ {key} \in SUBSET Keys
  BY TypedNow DEF Typed
<1> HIDE DEF active
<1>3. c \in Attempts /\ c.pc = "checking" /\ c.seated = {}
  <2> DEFINE others == active \ {key}
  <2>1. others \in SUBSET Keys /\ Nobody \in Actors \cup {Nobody} /\ {} \in SUBSET Match
    BY <1>2
  <2> HIDE DEF others
  <2>2. /\ Attempt(Nobody, key, queues[key], others, {}) \in Attempts
        /\ Attempt(Nobody, key, queues[key], others, {}).pc = "checking"
        /\ Attempt(Nobody, key, queues[key], others, {}).seated = {}
    BY <1>2, <2>1 DEF Attempt, Attempts
  <2> QED
    BY <2>2 DEF others
<1>4. t \in Tasks /\ task' = [task EXCEPT ![t] = c]
      /\ UNCHANGED <<clock, queueVars, online, suspended, matchVars>>
  BY <1>1, ZenonT(60) DEF BeginTick, Tasks
<1> HIDE DEF c
<1> QED
  BY <1>3, <1>4, TypedNow, OnlyACallMoves DEF matchVars, Started

LEMMA FindNobodyKeeps ==
  ASSUME QueueInduction, NEW t \in Tasks, FindNobody(t)
  PROVE  QueueInduction'
<1>1. task[t] \in Attempts
  BY TypedNow, KindsOfCalls, ZenonT(60) DEF FindNobody, Started
<1>2. task[t].seated \subseteq made /\ task[t].pc = "checking"
  BY <1>1, TypedNow, ZenonT(60) DEF SeatedAreMade, FindNobody
<1>3. UNCHANGED <<clock, queueVars, online, suspended, made, over, failures>>
  BY DEF FindNobody
<1>4. CASE announced' = announced \cup task[t].seated /\ task' = [task EXCEPT ![t] = Idle]
  <2>1. Idle \in Started /\ Idle \notin Attempts /\ Idle.pc \notin {"creating", "created"}
    BY KindsOfCalls DEF Started
  <2> QED
    BY <1>2, <1>3, <1>4, <2>1, TypedNow, OnlyACallMoves
<1>5. CASE /\ \E next \in task[t].keys :
                task' = [task EXCEPT ![t].key = next, ![t].keys = @ \ {next},
                                     ![t].todo = queues[next]]
           /\ UNCHANGED announced
  <2>1. PICK next \in task[t].keys :
          task' = [task EXCEPT ![t].key = next, ![t].keys = @ \ {next}, ![t].todo = queues[next]]
    BY <1>5
  <2> DEFINE c == [task[t] EXCEPT !.key = next, !.keys = @ \ {next}, !.todo = queues[next]]
  <2>2. next \in Keys /\ queues[next] \in Seq(Entry)
    BY <1>1, TypedNow DEF Attempts, Typed
  <2>3. c \in Attempts /\ c.pc = "checking" /\ c.seated = task[t].seated
    BY <1>1, <1>2, <2>2 DEF Attempts
  <2>4. task' = [task EXCEPT ![t] = c]
    BY <2>1
  <2> HIDE DEF c
  <2> QED
    BY <1>2, <1>3, <1>5, <2>3, <2>4, TypedNow, OnlyACallMoves DEF Started
<1> QED
  BY <1>4, <1>5 DEF FindNobody

LEMMA CommitMatchKeeps ==
  ASSUME QueueInduction, NEW t \in Tasks, CommitMatch(t)
  PROVE  QueueInduction'
<1> DEFINE c == [task[t] EXCEPT !.pc = "created"]
<1>1. task[t] \in Attempts /\ task[t].pc = "creating"
  BY TypedNow, KindsOfCalls DEF CommitMatch, Started
<1>2. task[t].match \in Match /\ task[t].match \in Pairs /\ task[t].seated \subseteq made
  BY <1>1, TypedNow DEF SeatedAreMade, Pairs
<1>3. c \in Attempts /\ c.pc = "created" /\ c.match = task[t].match /\ c.seated = task[t].seated
  BY <1>1 DEF Attempts
<1>4. /\ task' = [task EXCEPT ![t] = c] /\ made' = made \cup {task[t].match}
      /\ UNCHANGED <<clock, queueVars, online, suspended, over, announced, failures>>
  BY DEF CommitMatch
<1> HIDE DEF c
<1> QED
  BY <1>2, <1>3, <1>4, TypedNow, OnlyACallMoves DEF Started

LEMMA FailMatchKeeps ==
  ASSUME QueueInduction, NEW t \in Tasks, FailMatch(t)
  PROVE  QueueInduction'
<1>1. Idle \in Started /\ Idle \notin Attempts /\ Idle.pc \notin {"creating", "created"}
  BY KindsOfCalls DEF Started
<1>2. /\ task' = [task EXCEPT ![t] = Idle] /\ failures' = failures + 1
      /\ UNCHANGED <<clock, queueVars, online, suspended, made, over, announced>>
  BY DEF FailMatch
<1>3. failures' \in Nat
  BY <1>2, TypedNow
<1> QED
  BY <1>1, <1>2, <1>3, TypedNow, OnlyACallMoves

LEMMA ReturnToJoinKeeps ==
  ASSUME QueueInduction, NEW t \in Tasks, ReturnToJoin(t)
  PROVE  QueueInduction'
<1>1. Idle \in Started /\ Idle \notin Attempts /\ Idle.pc \notin {"creating", "created"}
  BY KindsOfCalls DEF Started
<1>2. task[t].match \in made
  BY TypedNow DEF SeatedAreMade, ReturnToJoin
<1>3. /\ task' = [task EXCEPT ![t] = Idle] /\ announced' \in {announced, announced \cup {task[t].match}}
      /\ UNCHANGED <<clock, queueVars, online, suspended, made, over, failures>>
  BY DEF ReturnToJoin
<1> QED
  BY <1>1, <1>2, <1>3, TypedNow, OnlyACallMoves

LEMMA ReturnToTickKeeps ==
  ASSUME QueueInduction, NEW t \in Tasks, ReturnToTick(t)
  PROVE  QueueInduction'
<1> DEFINE call == task[t]
           c == Attempt(Nobody, call.key, queues[call.key], call.keys, call.seated \cup {call.match})
<1>1. call \in Attempts /\ call.pc = "created"
  BY TypedNow, KindsOfCalls DEF ReturnToTick, Started
<1>2. call.match \in made /\ call.match \in Match /\ call.seated \subseteq made
  BY <1>1, TypedNow DEF SeatedAreMade
<1>3. /\ call.key \in Keys /\ call.keys \in SUBSET Keys /\ queues[call.key] \in Seq(Entry)
      /\ call.seated \cup {call.match} \in SUBSET Match
  BY <1>1, <1>2, TypedNow DEF Attempts, Typed
<1>4. c \in Attempts /\ c.pc = "checking" /\ c.seated = call.seated \cup {call.match}
  BY <1>3, AttemptBegins
<1>5. task' = [task EXCEPT ![t] = c]
      /\ UNCHANGED <<clock, queueVars, online, suspended, matchVars>>
  BY DEF ReturnToTick
<1> HIDE DEF c
<1> QED
  BY <1>2, <1>4, <1>5, TypedNow, OnlyACallMoves DEF Started, matchVars

\* A player found ineligible loses the entry it holds by now.
LEMMA CheckNextKeeps ==
  ASSUME QueueInduction, NEW t \in Tasks, CheckNext(t)
  PROVE  QueueInduction'
<1> DEFINE c == [task[t] EXCEPT !.todo = Tail(task[t].todo)]
           a == Head(task[t].todo).actor
<1>1. task[t] \in Attempts /\ task[t].pc = "checking" /\ task[t].todo # <<>>
  BY TypedNow, KindsOfCalls DEF CheckNext, Started
<1>2. task[t].todo \in Seq(Entry) /\ Tail(task[t].todo) \in Seq(Entry) /\ a \in Actors
      /\ task[t].seated \subseteq made
  <2>1. task[t].todo \in Seq(Entry) /\ task[t].seated \subseteq made
    BY <1>1, TypedNow DEF Attempts, SeatedAreMade
  <2>2. Head(task[t].todo) \in Entry /\ Tail(task[t].todo) \in Seq(Entry)
    BY <1>1, <2>1
  <2> QED
    BY <2>1, <2>2 DEF Entry
<1>3. c \in Attempts /\ c.pc = "checking" /\ c.seated = task[t].seated
  BY <1>1, <1>2 DEF Attempts
<1>4. /\ task' = [task EXCEPT ![t] = c]
      /\ UNCHANGED <<clock, accepting, tickets, online, suspended, matchVars>>
      /\ UNCHANGED <<queues, byActor>> \/ RemoveActor(a)
  BY DEF CheckNext
<1> HIDE DEF c, a
<1>5. UNCHANGED <<made, over, announced, failures>>
  BY <1>4 DEF matchVars
<1>6. task' \in [Tasks -> Started] /\ SeatedAreMade' /\ Pairs' \subseteq Pairs
  BY <1>2, <1>3, <1>4, <1>5, TypedNow, OneCallMoves DEF Started
<1>7. /\ queues' \in [Keys -> Seq(Entry)]
      /\ byActor' \in [Actors -> Entry \cup {NoEntry}]
      /\ \A b \in Actors : byActor'[b] \in {byActor[b], NoEntry}
      /\ QueuesAgree'
  <2>1. CASE UNCHANGED <<queues, byActor>>
    BY <2>1, TypedNow DEF Typed, QueuesAgree
  <2>2. CASE RemoveActor(a)
    BY <1>2, <2>2, TypedNow, RemoveActorAgrees
  <2> QED
    BY <1>4, <2>1, <2>2
<1>8. Typed'
  BY <1>4, <1>5, <1>6, <1>7, TypedNow DEF Typed, Started
<1> QED
  BY <1>4, <1>6, <1>7, <1>8, QuietKeepsRest

\* A list keeps the entries it had and gains one that was not there.
LEMMA Appended ==
  ASSUME NEW list \in Seq(Entry), IsInjective(list), NEW e \in Entry, e \notin ToSet(list)
  PROVE  /\ Append(list, e) \in Seq(Entry) /\ IsInjective(Append(list, e))
         /\ ToSet(Append(list, e)) = ToSet(list) \cup {e}
<1>1. /\ DOMAIN list = 1..Len(list) /\ Len(list) \in Nat
      /\ DOMAIN Append(list, e) = 1..(Len(list) + 1) /\ Append(list, e) \in Seq(Entry)
      /\ \A i \in 1..Len(list) : Append(list, e)[i] = list[i]
      /\ Append(list, e)[Len(list) + 1] = e
  OBVIOUS
<1>2. \A i \in 1..Len(list) : list[i] # e
  BY <1>1 DEF ToSet
<1>3. IsInjective(Append(list, e))
  BY <1>1, <1>2 DEF IsInjective
<1>4. ToSet(Append(list, e)) \subseteq ToSet(list) \cup {e}
  BY <1>1 DEF ToSet
<1>5. ToSet(list) \subseteq ToSet(Append(list, e)) /\ e \in ToSet(Append(list, e))
  BY <1>1 DEF ToSet
<1> QED
  BY <1>1, <1>3, <1>4, <1>5

\* The number of a new entry is new, and the entry it replaces has left its list.
LEMMA EnterKeeps ==
  ASSUME QueueInduction, NEW t \in Tasks, Enter(t)
  PROVE  QueueInduction'
<1> DEFINE a == task[t].actor
           key == task[t].key
           entry == [ticket |-> tickets + 1, actor |-> a, rating |-> Rating[a],
                     joinedAt |-> clock, key |-> key]
           left == QueuesWithout(queues, a)
           c == Attempt(a, key, queues'[key], {}, {})
<1>1. task[t] \in Asking
  BY TypedNow, KindsOfCalls DEF Enter, Started
<1>2. a \in Actors /\ key \in Keys
  BY <1>1 DEF Asking
<1>3. /\ Typed /\ QueuesAgree /\ EntrySpentOnce /\ EntriesAreNumbered /\ tickets \in Nat
  BY DEF QueueInduction, Typed
<1>4. entry \in Entry /\ entry.ticket = tickets + 1 /\ entry.actor = a /\ entry.key = key
  BY <1>2, <1>3, ActorAssumption DEF Entry, Typed
<1>5. /\ tickets' = tickets + 1 /\ queues' = [left EXCEPT ![key] = Append(left[key], entry)]
      /\ byActor' = [byActor EXCEPT ![a] = entry]
      /\ task' = [task EXCEPT ![t] = c]
      /\ UNCHANGED <<clock, accepting, online, suspended, matchVars>>
  BY DEF Enter
<1> HIDE DEF entry, left, c, a, key
<1>6. /\ Lists(left)
      /\ \A k \in Keys : ToSet(left[k]) = ToSet(queues[k]) \ {byActor[a]}
  BY <1>2, <1>3, ListsOf, QueuesWithoutTakesOut DEF left, Typed
<1>7. /\ \A b \in Actors : byActor'[b] = IF b = a THEN entry ELSE byActor[b]
      /\ byActor' \in [Actors -> Entry \cup {NoEntry}]
  BY <1>2, <1>3, <1>4, <1>5 DEF Typed
<1>8. \A k \in Keys : \A e \in ToSet(queues[k]) :
        /\ e \in Entry /\ e # entry /\ byActor[e.actor] = e /\ e.key = k
        /\ e.actor = a => e = byActor[a]
  <2> SUFFICES ASSUME NEW k \in Keys, NEW e \in ToSet(queues[k])
               PROVE  /\ e \in Entry /\ e # entry /\ byActor[e.actor] = e /\ e.key = k
                      /\ e.actor = a => e = byActor[a]
    OBVIOUS
  <2>1. e \in Entry /\ byActor[e.actor] = e /\ e.key = k
    BY <1>3, ListedAreEntries DEF QueuesAgree
  <2>2. e # NoEntry /\ e.actor \in Actors
    BY <2>1, EntriesAreEntries
  <2>3. e.ticket <= tickets
    BY <1>3, <2>1, <2>2 DEF EntriesAreNumbered
  <2> QED
    BY <1>3, <1>4, <2>1, <2>2, <2>3 DEF Entry
<1>9. /\ left[key] \in Seq(Entry) /\ IsInjective(left[key]) /\ entry \notin ToSet(left[key])
  BY <1>2, <1>6, <1>8 DEF Lists
<1>10. /\ Append(left[key], entry) \in Seq(Entry) /\ IsInjective(Append(left[key], entry))
       /\ ToSet(Append(left[key], entry)) = ToSet(left[key]) \cup {entry}
  BY <1>4, <1>9, Appended
<1>11. /\ \A k \in Keys : queues'[k] = IF k = key THEN Append(left[key], entry) ELSE left[k]
       /\ queues' \in [Keys -> Seq(Entry)]
  BY <1>2, <1>5, <1>6, <1>10 DEF Lists
<1>12. \A k \in Keys : /\ IsInjective(queues'[k])
                       /\ ToSet(queues'[k]) = IF k = key THEN ToSet(left[k]) \cup {entry}
                                              ELSE ToSet(left[k])
  BY <1>2, <1>6, <1>10, <1>11 DEF Lists
<1>13. QueuesAgree'
  <2>1. ASSUME NEW b \in Actors, byActor'[b] # NoEntry
        PROVE  byActor'[b].actor = b /\ byActor'[b] \in ToSet(queues'[byActor'[b].key])
    <3>1. CASE b = a
      BY <1>2, <1>4, <1>7, <1>12, <3>1
    <3>2. CASE b # a
      <4>1. byActor'[b] = byActor[b] /\ byActor[b] \in Entry
        BY <1>3, <1>7, <2>1, <3>2 DEF Typed
      <4>2. byActor[b].actor = b /\ byActor[b] \in ToSet(queues[byActor[b].key])
            /\ byActor[b].key \in Keys
        BY <1>3, <2>1, <4>1, EntriesAreEntries DEF QueuesAgree
      <4>3. byActor[b] # byActor[a]
        <5>1. byActor[a] # NoEntry => byActor[a].actor = a
          BY <1>2, <1>3 DEF QueuesAgree
        <5> QED
          BY <2>1, <3>2, <4>1, <4>2, <5>1
      <4> QED
        BY <1>6, <1>12, <4>1, <4>2, <4>3
    <3> QED
      BY <3>1, <3>2
  <2>2. ASSUME NEW k \in Keys, NEW e \in ToSet(queues'[k])
        PROVE  e.key = k /\ byActor'[e.actor] = e
    <3>1. CASE e = entry
      <4>1. k = key
        <5>1. \A j \in Keys : entry \notin ToSet(left[j])
          BY <1>6, <1>8
        <5> QED
          BY <1>12, <2>2, <3>1, <5>1
      <4> QED
        BY <1>2, <1>4, <1>7, <3>1, <4>1
    <3>2. CASE e # entry
      <4>1. e \in ToSet(queues[k]) /\ e # byActor[a]
        BY <1>6, <1>12, <3>2
      <4>2. e \in Entry /\ byActor[e.actor] = e /\ e.key = k /\ e.actor # a
        BY <1>8, <4>1
      <4> QED
        BY <1>7, <4>2, EntriesAreEntries
    <3> QED
      BY <3>1, <3>2
  <2> QED
    BY <1>12, <2>1, <2>2 DEF QueuesAgree
<1>14. queues'[key] \in Seq(Entry)
  BY <1>2, <1>11
<1>15. c \in Attempts /\ c.pc = "checking" /\ c.seated = {}
  <2>1. a \in Actors \cup {Nobody} /\ {} \in SUBSET Keys /\ {} \in SUBSET Match
    BY <1>2
  <2> QED
    BY <1>2, <1>14, <2>1, AttemptBegins DEF c
<1>16. UNCHANGED <<made, over, announced, failures>>
  BY <1>5 DEF matchVars
<1>17. task' \in [Tasks -> Started] /\ SeatedAreMade' /\ Pairs' \subseteq Pairs
  BY <1>5, <1>15, <1>16, TypedNow, OneCallMoves DEF Started
<1>18. Typed'
  BY <1>3, <1>5, <1>7, <1>11, <1>16, <1>17 DEF Typed, Started
<1>19. \A p \in Pairs : \A n \in p.tickets : n <= tickets
  BY <1>3 DEF EntriesAreNumbered
<1>20. \A b \in Actors : byActor[b] # NoEntry => byActor[b].ticket \in Nat /\ byActor[b].ticket <= tickets
  BY <1>3 DEF EntriesAreNumbered, Typed, Entry
<1>21. \A p \in Pairs : p.tickets \subseteq Nat
  BY <1>3, TypedNow DEF Pairs, Match, SeatedAreMade
<1>22. EntrySpentOnce'
  <2>1. \A p, q \in Pairs' : p.tickets \cap q.tickets # {} => p = q
    BY <1>3, <1>17 DEF EntrySpentOnce
  <2>2. ASSUME NEW p \in Pairs', NEW b \in Actors, byActor'[b] # NoEntry
        PROVE  byActor'[b].ticket \notin p.tickets
    <3>1. CASE b = a
      <4>1. byActor'[b].ticket = tickets + 1
        BY <1>4, <1>7, <3>1
      <4> QED
        BY <1>3, <1>17, <1>19, <1>21, <4>1
    <3>2. CASE b # a
      BY <1>3, <1>7, <1>17, <2>2, <3>2 DEF EntrySpentOnce
    <3> QED
      BY <3>1, <3>2
  <2>3. \A p \in Pairs' : Cardinality(p.tickets) = 2 /\ Cardinality(p.players) = 2
    BY <1>3, <1>17 DEF EntrySpentOnce
  <2> QED
    BY <2>1, <2>2, <2>3 DEF EntrySpentOnce
<1>23. EntriesAreNumbered'
  <2>1. \A b \in Actors : byActor'[b] # NoEntry => byActor'[b].ticket <= tickets'
    BY <1>3, <1>4, <1>5, <1>7, <1>20
  <2>2. ASSUME NEW b \in Actors, NEW d \in Actors, byActor'[b] # NoEntry, byActor'[d] # NoEntry,
               byActor'[b].ticket = byActor'[d].ticket
        PROVE  b = d
    <3>1. CASE b # a /\ d # a
      BY <1>3, <1>7, <2>2, <3>1 DEF EntriesAreNumbered
    <3>2. CASE b = a \/ d = a
      BY <1>3, <1>4, <1>7, <1>20, <2>2, <3>2
    <3> QED
      BY <3>1, <3>2
  <2>3. \A p \in Pairs' : \A n \in p.tickets : n <= tickets'
    BY <1>3, <1>5, <1>17, <1>19, <1>21
  <2> QED
    BY <2>1, <2>2, <2>3 DEF EntriesAreNumbered
<1> QED
  BY <1>13, <1>17, <1>18, <1>22, <1>23 DEF QueueInduction

LEMMA TwoAreTwo == ASSUME NEW x, NEW y, x # y PROVE Cardinality({x, y}) = 2
<1>1. IsFiniteSet({x}) /\ Cardinality({x}) = 1
  BY FS_Singleton
<1>2. Cardinality({x} \cup {y}) = Cardinality({x}) + 1
  BY <1>1, FS_AddElement
<1>3. {x} \cup {y} = {x, y}
  OBVIOUS
<1> QED
  BY <1>1, <1>2, <1>3

\* Both players of a pair leave their lists and their names in one step.
LEMMA RemovePairAgrees ==
  ASSUME Typed, QueuesAgree, NEW a \in Actors, NEW b \in Actors, RemovePair(a, b)
  PROVE  /\ queues' \in [Keys -> Seq(Entry)]
         /\ byActor' \in [Actors -> Entry \cup {NoEntry}]
         /\ \A d \in Actors : byActor'[d] = IF d \in {a, b} THEN NoEntry ELSE byActor[d]
         /\ QueuesAgree'
<1> DEFINE left == QueuesWithout(queues, a)
<1>1. Lists(queues) /\ byActor \in [Actors -> Entry \cup {NoEntry}]
  BY ListsOf DEF Typed
<1>2. queues' = QueuesWithout(left, b) /\ byActor' = [byActor EXCEPT ![a] = NoEntry, ![b] = NoEntry]
  BY DEF RemovePair
<1>3. /\ Lists(left)
      /\ \A k \in Keys : ToSet(left[k]) = ToSet(queues[k]) \ {byActor[a]}
  BY <1>1, QueuesWithoutTakesOut
<1> HIDE DEF left
<1>4. /\ Lists(queues')
      /\ \A k \in Keys : ToSet(queues'[k]) = ToSet(left[k]) \ {byActor[b]}
  BY <1>1, <1>2, <1>3, QueuesWithoutTakesOut, ZenonT(60)
<1>5. /\ \A d \in Actors : byActor'[d] = IF d \in {a, b} THEN NoEntry ELSE byActor[d]
      /\ byActor' \in [Actors -> Entry \cup {NoEntry}]
  BY <1>1, <1>2
<1>6. ASSUME NEW d \in Actors, byActor'[d] # NoEntry
      PROVE  byActor'[d].actor = d /\ byActor'[d] \in ToSet(queues'[byActor'[d].key])
  <2>1. d \notin {a, b} /\ byActor'[d] = byActor[d] /\ byActor[d] \in Entry
    BY <1>1, <1>5, <1>6
  <2>2. byActor[d].actor = d /\ byActor[d] \in ToSet(queues[byActor[d].key])
    BY <1>6, <2>1 DEF QueuesAgree
  <2>3. \A x \in {a, b} : byActor[x] # byActor[d]
    <3>1. \A x \in {a, b} : byActor[x] # NoEntry => byActor[x].actor = x
      BY DEF QueuesAgree
    <3> QED
      BY <1>6, <2>1, <2>2, <3>1
  <2> QED
    BY <1>3, <1>4, <2>1, <2>2, <2>3, EntriesAreEntries
<1>7. ASSUME NEW k \in Keys, NEW e \in ToSet(queues'[k]) PROVE e.key = k /\ byActor'[e.actor] = e
  <2>1. e \in ToSet(queues[k]) /\ e # byActor[a] /\ e # byActor[b]
    BY <1>3, <1>4
  <2>2. e.key = k /\ byActor[e.actor] = e /\ e.actor \in Actors
    BY <2>1, EntriesAreEntries, ListedAreEntries DEF QueuesAgree
  <2> QED
    BY <1>5, <2>1, <2>2
<1>8. QueuesAgree'
  BY <1>4, <1>6, <1>7 DEF QueuesAgree, Lists
<1> QED
  BY <1>4, <1>5, <1>8 DEF Lists

\* A pair is of two entries nobody was paired with, and they wait no longer.
LEMMA SelectPairKeeps ==
  ASSUME QueueInduction, NEW t \in Tasks, SelectPair(t)
  PROVE  QueueInduction'
<1> DEFINE key == task[t].key
           list == queues[key]
           pair == FindPairing(list, Mode[key], clock)
           first == list[pair[1]]
           second == list[pair[2]]
           match == [tickets |-> {first.ticket, second.ticket},
                     players |-> {first.actor, second.actor}, key |-> key]
           c == [task[t] EXCEPT !.pc = "creating", !.match = match]
<1>1. /\ Typed /\ QueuesAgree /\ EntrySpentOnce /\ EntriesAreNumbered /\ SeatedAreMade
  BY SMTT(40) DEF QueueInduction
<1>2. task[t] \in Attempts /\ task[t].pc = "checking" /\ task[t].todo = <<>>
  BY TypedNow, KindsOfCalls DEF SelectPair, Started
<1>3. key \in Keys /\ list \in Seq(Entry)
  BY <1>1, <1>2, SMTT(40) DEF Attempts, Typed
<1>4. pair # NoPairing /\ RemovePair(first.actor, second.actor)
      /\ UNCHANGED <<clock, accepting, tickets, online, suspended, matchVars>>
  BY ZenonT(60) DEF SelectPair
<1>5. task' = [task EXCEPT ![t].pc = "creating", ![t].match = match]
  BY ZenonT(60) DEF SelectPair
<1>6. task' = [task EXCEPT ![t] = c]
  BY <1>5
<1> HIDE DEF key
<1>7. pair[1] \in DOMAIN list /\ pair[2] \in DOMAIN list /\ first.actor # second.actor
  BY <1>3, <1>4, PairOfTwo
<1> HIDE DEF list, pair
<1>8. /\ first \in Entry /\ second \in Entry /\ first \in ToSet(list) /\ second \in ToSet(list)
  BY <1>3, <1>7 DEF ToSet
<1> HIDE DEF first, second
<1>9. /\ first.actor \in Actors /\ second.actor \in Actors
      /\ first.ticket \in Nat /\ second.ticket \in Nat
      /\ first # NoEntry /\ second # NoEntry
  BY <1>8, EntriesAreEntries DEF Entry
<1>10. byActor[first.actor] = first /\ byActor[second.actor] = second
  BY <1>1, <1>3, <1>8 DEF QueuesAgree, list
<1>11. first.ticket # second.ticket /\ first.ticket <= tickets /\ second.ticket <= tickets
  BY <1>1, <1>7, <1>9, <1>10 DEF EntriesAreNumbered
<1>12. /\ match \in Match /\ match.tickets = {first.ticket, second.ticket}
       /\ match.players = {first.actor, second.actor}
  BY <1>3, <1>9 DEF Match
<1>13. Cardinality(match.tickets) = 2 /\ Cardinality(match.players) = 2
  BY <1>7, <1>11, <1>12, TwoAreTwo
<1>14. \A p \in Pairs : first.ticket \notin p.tickets /\ second.ticket \notin p.tickets
  BY <1>1, <1>9, <1>10 DEF EntrySpentOnce
<1> HIDE DEF match
<1>15. /\ c \in Attempts /\ c.pc = "creating" /\ c.match = match /\ c.seated = task[t].seated
  BY <1>2, <1>12 DEF Attempts
<1> HIDE DEF c
<1>16. /\ \A u \in Tasks : task'[u] = IF u = t THEN c ELSE task[u]
       /\ task' \in [Tasks -> Started]
  BY <1>1, <1>6, <1>15 DEF Typed, Started
<1>17. UNCHANGED <<made, over, announced, failures>>
  BY <1>4 DEF matchVars
<1>18. SeatedAreMade'
  <2>1. task[t].seated \subseteq made
    BY <1>1, <1>2 DEF SeatedAreMade
  <2> QED
    BY <1>1, <1>12, <1>15, <1>16, <1>17, <2>1 DEF SeatedAreMade
<1>19. \A p \in Pairs' : p \in Pairs \/ p = match
  BY <1>15, <1>16, <1>17 DEF Pairs
<1>20. /\ queues' \in [Keys -> Seq(Entry)]
       /\ byActor' \in [Actors -> Entry \cup {NoEntry}]
       /\ \A d \in Actors : byActor'[d] = IF d \in {first.actor, second.actor} THEN NoEntry
                                          ELSE byActor[d]
       /\ QueuesAgree'
  BY <1>1, <1>4, <1>9, RemovePairAgrees
<1>21. Typed'
  BY <1>1, <1>4, <1>16, <1>17, <1>20 DEF Typed, Started
<1>22. EntrySpentOnce'
  <2>1. ASSUME NEW p \in Pairs', NEW q \in Pairs', p.tickets \cap q.tickets # {} PROVE p = q
    <3>1. CASE p \in Pairs /\ q \in Pairs
      BY <1>1, <2>1, <3>1 DEF EntrySpentOnce
    <3>2. CASE p = match \/ q = match
      BY <1>12, <1>14, <1>19, <2>1, <3>2
    <3> QED
      BY <1>19, <3>1, <3>2
  <2>2. \A p \in Pairs' : Cardinality(p.tickets) = 2 /\ Cardinality(p.players) = 2
    BY <1>1, <1>13, <1>19 DEF EntrySpentOnce
  <2>3. ASSUME NEW p \in Pairs', NEW d \in Actors, byActor'[d] # NoEntry
        PROVE  byActor'[d].ticket \notin p.tickets
    <3>1. d \notin {first.actor, second.actor} /\ byActor'[d] = byActor[d]
      BY <1>20, <2>3
    <3>2. CASE p \in Pairs
      BY <1>1, <2>3, <3>1, <3>2 DEF EntrySpentOnce
    <3>3. CASE p = match
      <4>1. byActor[d].ticket # first.ticket /\ byActor[d].ticket # second.ticket
        BY <1>1, <1>9, <1>10, <2>3, <3>1 DEF EntriesAreNumbered
      <4> QED
        BY <1>12, <3>1, <3>3, <4>1
    <3> QED
      BY <1>19, <3>2, <3>3
  <2> QED
    BY <2>1, <2>2, <2>3 DEF EntrySpentOnce
<1>23. EntriesAreNumbered'
  <2>1. /\ \A d \in Actors : byActor'[d] # NoEntry => byActor'[d].ticket <= tickets'
        /\ \A d, e \in Actors :
             byActor'[d] # NoEntry /\ byActor'[e] # NoEntry /\ byActor'[d].ticket = byActor'[e].ticket
               => d = e
    BY <1>1, <1>4, <1>20 DEF EntriesAreNumbered
  <2>2. \A p \in Pairs' : \A n \in p.tickets : n <= tickets'
    BY <1>1, <1>4, <1>11, <1>12, <1>19 DEF EntriesAreNumbered
  <2> QED
    BY <2>1, <2>2 DEF EntriesAreNumbered
<1> QED
  BY <1>18, <1>20, <1>21, <1>22, <1>23 DEF QueueInduction

LEMMA TaskStepKeeps ==
  ASSUME QueueInduction, NEW t \in Tasks, TaskStep(t)
  PROVE  QueueInduction'
BY ReadsKeep, EnterKeeps, CheckNextKeeps, SelectPairKeeps, FindNobodyKeeps, CommitMatchKeeps,
   FailMatchKeeps, ReturnToJoinKeeps, ReturnToTickKeeps DEF TaskStep

-----------------------------------------------------------------------------
(* The rest of the server *)

\* Steps that leave the calls and the matches alone.
LEMMA CallsStandStill ==
  ASSUME QueueInduction, Typed', QueuesAgree', UNCHANGED <<task, made, tickets>>,
         \A b \in Actors : byActor'[b] \in {byActor[b], NoEntry}
  PROVE  QueueInduction'
<1>1. SeatedAreMade' /\ Pairs' = Pairs
  BY TypedNow DEF SeatedAreMade, Pairs
<1> QED
  BY <1>1, QuietKeepsRest

LEMMA LeaveKeeps ==
  ASSUME QueueInduction, NEW a \in Actors, Leave(a) \/ Disconnect(a)
  PROVE  QueueInduction'
<1>1. /\ RemoveActor(a) /\ online' \subseteq Actors
      /\ UNCHANGED <<clock, accepting, tickets, suspended, task, made, over, announced, failures>>
  BY TypedNow DEF Leave, Disconnect, matchVars, Typed
<1>2. /\ queues' \in [Keys -> Seq(Entry)]
      /\ byActor' \in [Actors -> Entry \cup {NoEntry}]
      /\ \A b \in Actors : byActor'[b] \in {byActor[b], NoEntry}
      /\ QueuesAgree'
  BY <1>1, TypedNow, RemoveActorAgrees
<1>3. Typed'
  BY <1>1, <1>2, TypedNow DEF Typed
<1> QED
  BY <1>1, <1>2, <1>3, CallsStandStill

LEMMA DrainKeeps == ASSUME QueueInduction, Drain PROVE QueueInduction'
<1>1. /\ queues' = [k \in Keys |-> <<>>] /\ byActor' = [a \in Actors |-> NoEntry] /\ accepting' = FALSE
      /\ UNCHANGED <<clock, tickets, online, suspended, task, made, over, announced, failures>>
  BY DEF Drain, matchVars
<1>2. QueuesAgree'
  <2>1. \A a \in Actors : byActor'[a] = NoEntry
    BY <1>1
  <2>2. \A k \in Keys : queues'[k] = <<>>
    BY <1>1
  <2>3. ToSet(<<>>) = {} /\ IsInjective(<<>>)
    BY DEF ToSet, IsInjective
  <2> QED
    <3>1. \A k \in Keys : IsInjective(queues'[k]) /\ ToSet(queues'[k]) = {}
      BY <2>2, <2>3
    <3> QED
      BY <2>1, <3>1 DEF QueuesAgree
<1>3. Typed'
  <2>1. <<>> \in Seq(Entry)
    OBVIOUS
  <2>2. queues' \in [Keys -> Seq(Entry)] /\ byActor' \in [Actors -> Entry \cup {NoEntry}]
    BY <1>1, <2>1
  <2> QED
    BY <1>1, <2>2, TypedNow DEF Typed
<1> QED
  BY <1>1, <1>2, <1>3, CallsStandStill

LEMMA WorldKeeps ==
  ASSUME QueueInduction,
         \/ \E a \in Actors : Connect(a) \/ Suspend(a)
         \/ \E m \in Active : EndMatch(m)
         \/ PassTime
         \/ UNCHANGED vars
  PROVE  QueueInduction'
<1>1. UNCHANGED <<queues, byActor, tickets, accepting, task, made, announced, failures>>
  BY DEF Connect, Suspend, EndMatch, PassTime, vars, queueVars, matchVars
<1>2. QueuesAgree'
  BY <1>1, TypedNow DEF QueuesAgree
<1>3. /\ clock' \in Nat /\ online' \subseteq Actors /\ suspended' \subseteq Actors \ Guests
      /\ over' \subseteq made
  BY TypedNow DEF Typed, Connect, Suspend, EndMatch, Active, PassTime, vars, queueVars, matchVars
<1>4. Typed'
  BY <1>1, <1>3, TypedNow DEF Typed
<1> QED
  BY <1>1, <1>2, <1>4, CallsStandStill

LEMMA NobodyWaits == Init => QueueInduction
<1> SUFFICES ASSUME Init PROVE QueueInduction
  OBVIOUS
<1>1. Typed
  BY DEF Init, Typed
<1>2. QueuesAgree
  BY DEF Init, QueuesAgree, ToSet, IsInjective
<1>3. Pairs = {}
  BY KindsOfCalls DEF Init, Pairs
<1>4. EntrySpentOnce /\ EntriesAreNumbered
  BY <1>3 DEF Init, EntrySpentOnce, EntriesAreNumbered
<1>5. SeatedAreMade
  BY KindsOfCalls DEF Init, SeatedAreMade
<1> QED
  BY <1>1, <1>2, <1>4, <1>5 DEF QueueInduction

LEMMA QueueMeans == QueueInduction => EntriesAreKept
<1> SUFFICES ASSUME QueueInduction PROVE TypeOK
  BY DEF QueueInduction, EntriesAreKept
<1>1. \A k \in Keys : \A i \in DOMAIN queues[k] : queues[k][i] \in Entry
  BY TypedNow DEF Typed
<1> QED
  BY <1>1, TypedNow DEF Typed, TypeOK

\* Nobody is in two queues, in one twice, or paired twice: what a player holds is what the
\* lists hold, and a pair that was taken out stays out, for any number of joins and ticks
\* in progress at once and however their awaits fall (service.ts remove, attemptPairing).
THEOREM EntriesAreAlwaysKept == Spec => []EntriesAreKept
<1>1. QueueInduction /\ [Next]_vars => QueueInduction'
  BY BeginJoinKeeps, BeginTickKeeps, TaskStepKeeps, LeaveKeeps, DrainKeeps, WorldKeeps DEF Next
<1> QED
  BY <1>1, NobodyWaits, QueueMeans, PTL DEF Spec
=============================================================================
