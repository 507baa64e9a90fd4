-------------------------- MODULE GapStore_proofs --------------------------
(***************************************************************************)
(* The register, for any questions, agents, notes and calls: its counters, *)
(* what its tracker offers, what is searched by meaning, and the one row   *)
(* of a question.                                                          *)
(***************************************************************************)
EXTENDS GapStore, FiniteSetTheorems, SequenceTheorems, TLAPS

Row == [question : Question, count : Nat, followed : Nat, status : {"open", "closed", "dismissed"}, vec : BOOLEAN]
Line == [gap : Nat, agent : Agents, followed : BOOLEAN]
Offer == [search : Nat, names : SUBSET Names]
Awaiting == [agent : Agents, question : Question, hits : SUBSET Names, gap : Nat]

\* The register and the tracker of the process.
RegisterTypes ==
  /\ gaps \in Seq(Row) /\ searches \in Seq(Line)
  /\ centroids \subseteq DOMAIN gaps
  /\ recent \in [Agents -> Seq(Offer)]

ProcessTypes ==
  /\ embedder \in BOOLEAN /\ hiccup \in BOOLEAN
  /\ call \in [Calls -> Awaiting \cup {Idle}]

\* Every gap and search that is named is there.
PointersAreSound ==
  /\ \A s \in DOMAIN searches : searches[s].gap \in DOMAIN gaps
  /\ \A a \in Agents : \A i \in DOMAIN recent[a] : recent[a][i].search \in DOMAIN searches

\* A search is offered once.
OffersAreOnce ==
  \A a \in Agents : \A i, j \in DOMAIN recent[a] :
    recent[a][i].search = recent[a][j].search => i = j

Register ==
  /\ RegisterTypes /\ PointersAreSound /\ OffersAreOnce
  /\ CountersAreSound /\ RecentAreUnread /\ MeaningsAreSearched

\* A call waits for the embedder of its own process, with a gap that is there or none.
CallsWait ==
  \A c \in Calls : call[c] # Idle => embedder /\ call[c].gap \in DOMAIN gaps \cup {0}

\* A gap made since a call looked for one by key is one it will find by meaning.
MadeMeanwhile ==
  ~hiccup =>
    \A c \in Calls, g \in DOMAIN gaps :
      /\ call[c] # Idle /\ call[c].gap = 0
      /\ call[c].question.wording # Blank
      /\ gaps[g].question = call[c].question /\ gaps[g].status = "open"
      => g \in centroids

Grouping == ProcessTypes /\ CallsWait /\ MadeMeanwhile /\ OneRowPerQuestion

Inv == Register /\ Grouping
-----------------------------------------------------------------------------
\* A row counted once more, with or without a vector from here on.
Counted(r, n, v) == [r EXCEPT !.count = n, !.vec = v]

LEMMA CountedRow ==
  \A r \in Row, n \in Nat, v \in BOOLEAN :
         /\ Counted(r, n, v) \in Row
         /\ Counted(r, n, v).question = r.question /\ Counted(r, n, v).status = r.status
         /\ Counted(r, n, v).followed = r.followed
         /\ Counted(r, n, v).count = n /\ Counted(r, n, v).vec = v
BY DEF Row, Counted

\* The gap a search is recorded under: g, or a new one when g is 0.
Target(g) == IF g = 0 THEN Len(gaps) + 1 ELSE g

\* What recording a search does to the table of gaps and to the memory of vectors,
GapCounted(q, g, vec) ==
  /\ gaps' \in Seq(Row)
  /\ Len(gaps') = IF g = 0 THEN Len(gaps) + 1 ELSE Len(gaps)
  /\ \A h \in 1 .. Len(gaps) :
       /\ gaps'[h].question = gaps[h].question
       /\ gaps'[h].status = gaps[h].status
       /\ gaps'[h].followed = gaps[h].followed
       /\ gaps'[h].count = IF h = g THEN gaps[h].count + 1 ELSE gaps[h].count
       /\ gaps'[h].vec => gaps[h].vec \/ (h = g /\ vec)
  /\ g = 0 => gaps'[Len(gaps) + 1] =
                [question |-> q, count |-> 1, followed |-> 0, status |-> "open", vec |-> vec]
  /\ centroids' = IF ~vec THEN centroids ELSE centroids \cup {Target(g)}

\* and to the searches, when the last statement succeeds too.
SearchKept(a, g) ==
  /\ searches' \in Seq(Line) /\ Len(searches') = Len(searches) + 1
  /\ \A s \in 1 .. Len(searches) : searches'[s] = searches[s]
  /\ searches'[Len(searches) + 1] = [gap |-> Target(g), agent |-> a, followed |-> FALSE]
  /\ \A h : SearchesOf(h)' = IF h = Target(g) THEN SearchesOf(h) \cup {Len(searches) + 1} ELSE SearchesOf(h)
  /\ \A h : FollowedOf(h)' = FollowedOf(h)

LEMMA GapsAfterInsert ==
  ASSUME RegisterTypes, NEW a \in Agents, NEW q \in Question, NEW hits \in SUBSET Names,
         NEW g \in DOMAIN gaps \cup {0},
         NEW vec \in BOOLEAN, NEW stored \in BOOLEAN, NEW kept \in BOOLEAN,
         Insert(a, q, hits, g, vec, stored, kept)
  PROVE  GapCounted(q, g, vec)
<1>1. gaps \in Seq(Row) /\ Len(gaps) \in Nat /\ DOMAIN gaps = 1 .. Len(gaps)
  BY DEF RegisterTypes
<1>2. CASE g = 0
  <2>1. gaps' = Append(gaps, [question |-> q, count |-> 1, followed |-> 0, status |-> "open", vec |-> vec])
    BY <1>2 DEF Insert
  <2>2. [question |-> q, count |-> 1, followed |-> 0, status |-> "open", vec |-> vec] \in Row
    BY DEF Row
  <2>. QED BY <1>1, <1>2, <2>1, <2>2 DEF Insert, Folded, Target, GapCounted
<1>3. CASE g # 0
  <2>1. gaps' = [gaps EXCEPT ![g].count = @ + 1, ![g].vec = @ \/ (vec /\ stored)]
    BY <1>3 DEF Insert
  <2>2. g \in 1 .. Len(gaps) /\ gaps[g] \in Row
    BY <1>1, <1>3
  <2>3. PICK n \in Nat, v \in BOOLEAN :
          /\ n = gaps[g].count + 1 /\ (v => gaps[g].vec \/ vec)
          /\ gaps' = [gaps EXCEPT ![g] = Counted(gaps[g], n, v)]
    <3>1. gaps[g].count + 1 \in Nat /\ (gaps[g].vec \/ (vec /\ stored)) \in BOOLEAN
      BY <2>2 DEF Row
    <3>2. gaps' = [gaps EXCEPT ![g] = Counted(gaps[g], gaps[g].count + 1, gaps[g].vec \/ (vec /\ stored))]
      BY <2>1, <2>2, <1>1 DEF Row, Counted
    <3>. QED BY <3>1, <3>2
  <2>4. gaps[g] \in Row
    BY <2>2
  <2> DEFINE row == Counted(gaps[g], n, v)
  <2>51. row \in Row BY <2>4, CountedRow
  <2>52. row.question = gaps[g].question BY <2>4, CountedRow
  <2>53. row.status = gaps[g].status BY <2>4 DEF Counted, Row
  <2>54. row.count = n BY <2>4, CountedRow
  <2>55. row.vec = v BY <2>4, CountedRow
  <2>56. row.followed = gaps[g].followed BY <2>4 DEF Counted, Row
  <2>5. /\ row \in Row /\ row.question = gaps[g].question /\ row.status = gaps[g].status
        /\ row.followed = gaps[g].followed /\ row.count = n /\ row.vec = v
    BY <2>51, <2>52, <2>53, <2>54, <2>55, <2>56
  <2> HIDE DEF row
  <2>6. gaps' \in Seq(Row) /\ Len(gaps') = Len(gaps)
    BY <1>1, <2>2, <2>3, <2>5 DEF row
  <2>7. \A h \in 1 .. Len(gaps) : h # g => gaps'[h] = gaps[h]
    BY <1>1, <2>3
  <2>8. gaps'[g] = row
    BY <1>1, <2>2, <2>3 DEF row
  <2>9. /\ gaps'[g].question = gaps[g].question /\ gaps'[g].status = gaps[g].status
        /\ gaps'[g].followed = gaps[g].followed /\ gaps'[g].count = n
        /\ gaps'[g].vec = v
    BY <2>5, <2>8
  <2>10. gaps'[g].count = gaps[g].count + 1 /\ (gaps'[g].vec => gaps[g].vec \/ vec)
    BY <2>9, <2>3
  <2>. QED BY <1>3, <2>6, <2>7, <2>9, <2>10 DEF Insert, Folded, Target, GapCounted
<1>. QED BY <1>2, <1>3

\* The searches of a gap, and those of them that were followed, can be counted.
LEMMA SearchesCount ==
  ASSUME RegisterTypes, NEW g
  PROVE  /\ IsFiniteSet(SearchesOf(g)) /\ IsFiniteSet(FollowedOf(g))
         /\ Cardinality(SearchesOf(g)) \in Nat /\ Cardinality(FollowedOf(g)) \in Nat
         /\ Len(searches) \in Nat /\ DOMAIN searches = 1 .. Len(searches)
<1>1. Len(searches) \in Nat /\ DOMAIN searches = 1 .. Len(searches)
  BY DEF RegisterTypes
<1>2. IsFiniteSet(1 .. Len(searches))
  BY <1>1, FS_Interval
<1>3. SearchesOf(g) \subseteq 1 .. Len(searches) /\ FollowedOf(g) \subseteq 1 .. Len(searches)
  BY <1>1 DEF SearchesOf, FollowedOf
<1>4. IsFiniteSet(SearchesOf(g)) /\ IsFiniteSet(FollowedOf(g))
  BY <1>2, <1>3, FS_Subset
<1>. QED BY <1>1, <1>4, FS_CardinalityType

LEMMA SearchesAfterInsert ==
  ASSUME Register, NEW a \in Agents, NEW q \in Question, NEW hits \in SUBSET Names,
         NEW g \in DOMAIN gaps \cup {0},
         NEW vec \in BOOLEAN, NEW stored \in BOOLEAN, NEW kept \in BOOLEAN, kept,
         Insert(a, q, hits, g, vec, stored, kept)
  PROVE  SearchKept(a, g)
<1> DEFINE n == Len(searches)
           line == [gap |-> Target(g), agent |-> a, followed |-> FALSE]
<1>1. searches \in Seq(Line) /\ n \in Nat /\ DOMAIN searches = 1 .. n
  BY DEF Register, RegisterTypes
<1>2. line \in Line
  BY DEF Register, RegisterTypes, Line, Target
<1>3. searches' = Append(searches, line)
  BY DEF Insert, Target
<1> HIDE DEF line
<1>4. /\ searches' \in Seq(Line) /\ Len(searches') = n + 1 /\ DOMAIN searches' = 1 .. n + 1
      /\ \A s \in 1 .. n : searches'[s] = searches[s]
      /\ searches'[n + 1] = line
  BY <1>1, <1>2, <1>3
<1>5. line.gap = Target(g) /\ line.followed = FALSE
  BY DEF line
<1>6. ASSUME NEW h
      PROVE  SearchesOf(h)' = IF h = Target(g) THEN SearchesOf(h) \cup {n + 1} ELSE SearchesOf(h)
  BY <1>1, <1>4, <1>5 DEF SearchesOf
<1>7. ASSUME NEW h
      PROVE  FollowedOf(h)' = FollowedOf(h)
  BY <1>1, <1>4, <1>5, <1>6 DEF FollowedOf, SearchesOf
<1>. QED BY <1>4, <1>6, <1>7 DEF line, SearchKept

\* What a complete record keeps.
LEMMA KeptIsOffered ==
  ASSUME Register, NEW a \in Agents, NEW q \in Question, NEW hits \in SUBSET Names,
         NEW g \in DOMAIN gaps \cup {0},
         NEW vec \in BOOLEAN, NEW stored \in BOOLEAN, NEW kept \in BOOLEAN, kept,
         Insert(a, q, hits, g, vec, stored, kept)
  PROVE  /\ recent' \in [Agents -> Seq(Offer)]
         /\ \A b \in Agents : \A i \in DOMAIN recent'[b] : recent'[b][i].search \in DOMAIN searches'
         /\ OffersAreOnce' /\ RecentAreUnread'
<1> DEFINE n == Len(searches)
           m == Len(recent[a])
<1>1. n \in Nat /\ DOMAIN searches = 1 .. n
  BY DEF Register, RegisterTypes
<1>2. /\ searches' \in Seq(Line) /\ Len(searches') = n + 1
      /\ \A s \in 1 .. n : searches'[s] = searches[s]
      /\ searches'[n + 1] = [gap |-> Target(g), agent |-> a, followed |-> FALSE]
  <2>1. SearchKept(a, g)
    BY SearchesAfterInsert
  <2>. QED BY <2>1 DEF SearchKept
<1>3. DOMAIN searches' = 1 .. n + 1 /\ searches'[n + 1].agent = a /\ searches'[n + 1].followed = FALSE
  BY <1>2
<1>4. /\ recent' \in [Agents -> Seq(Offer)]
      /\ \A b \in Agents : b # a => recent'[b] = recent[b]
      /\ DOMAIN recent[a] = 1 .. m /\ m \in Nat
      /\ DOMAIN recent'[a] = 1 .. m + 1
      /\ \A i \in 1 .. m : recent'[a][i] = recent[a][i]
      /\ recent'[a][m + 1].search = n + 1
  <2> DEFINE offer == [search |-> n + 1, names |-> hits]
  <2>1. recent \in [Agents -> Seq(Offer)] /\ recent[a] \in Seq(Offer)
    BY DEF Register, RegisterTypes
  <2>2. recent' = [recent EXCEPT ![a] = Append(@, offer)]
    BY DEF Insert
  <2>3. offer \in Offer /\ offer.search = n + 1
    BY <1>1 DEF Offer
  <2> HIDE DEF offer
  <2>4. /\ DOMAIN recent[a] = 1 .. m /\ m \in Nat
        /\ DOMAIN Append(recent[a], offer) = 1 .. m + 1
        /\ \A i \in 1 .. m : Append(recent[a], offer)[i] = recent[a][i]
        /\ Append(recent[a], offer)[m + 1] = offer
        /\ Append(recent[a], offer) \in Seq(Offer)
    BY <2>1, <2>3
  <2>5. recent'[a] = Append(recent[a], offer) /\ \A b \in Agents : b # a => recent'[b] = recent[b]
    BY <2>1, <2>2
  <2>6. recent' \in [Agents -> Seq(Offer)]
    BY <2>1, <2>2, <2>4
  <2>. QED BY <2>3, <2>4, <2>5, <2>6
<1>5. \A b \in Agents : \A i \in DOMAIN recent[b] :
        recent[b][i].search \in 1 .. n /\ searches[recent[b][i].search].agent = b
        /\ ~searches[recent[b][i].search].followed
  BY <1>1 DEF Register, PointersAreSound, RecentAreUnread
<1> HIDE DEF n, m
<1>6. ASSUME NEW b \in Agents, NEW i \in DOMAIN recent'[b]
      PROVE  \/ i \in DOMAIN recent[b] /\ recent'[b][i] = recent[b][i]
             \/ b = a /\ i = m + 1
  BY <1>4, <1>6
<1>7. ASSUME NEW b \in Agents, NEW i \in DOMAIN recent'[b]
      PROVE  /\ recent'[b][i].search \in DOMAIN searches'
             /\ searches'[recent'[b][i].search].agent = b
             /\ ~searches'[recent'[b][i].search].followed
  <2>1. CASE i \in DOMAIN recent[b] /\ recent'[b][i] = recent[b][i]
    BY <1>1, <1>2, <1>5, <2>1
  <2>2. CASE b = a /\ i = m + 1
    BY <1>1, <1>2, <1>3, <1>4, <2>2
  <2>. QED BY <1>6, <2>1, <2>2
<1>8. OffersAreOnce'
  <2> SUFFICES ASSUME NEW b \in Agents, NEW i \in DOMAIN recent'[b], NEW j \in DOMAIN recent'[b],
                      recent'[b][i].search = recent'[b][j].search
               PROVE  i = j
    BY DEF OffersAreOnce
  <2>1. CASE b # a
    <3>1. recent'[b] = recent[b]
      BY <1>4, <2>1
    <3>. QED BY <3>1 DEF Register, OffersAreOnce
  <2>2. CASE b = a
    <3>1. i \in 1 .. m + 1 /\ j \in 1 .. m + 1
      BY <1>4, <2>2
    <3>2. \A k \in 1 .. m : recent'[a][k].search \in 1 .. n
      BY <1>4, <1>5
    <3>3. CASE i \in 1 .. m /\ j \in 1 .. m
      <4>1. recent[a][i].search = recent[a][j].search
        BY <1>4, <2>2, <3>3
      <4>. QED BY <1>4, <2>2, <3>3, <4>1 DEF Register, OffersAreOnce
    <3>. QED BY <1>1, <1>4, <2>2, <3>1, <3>2, <3>3
  <2>. QED BY <2>1, <2>2
<1>9. RecentAreUnread'
  BY <1>7 DEF RecentAreUnread
<1>. QED BY <1>4, <1>7, <1>8, <1>9

\* However far the statements get, what they leave is sound.
LEMMA InsertKeeps ==
  ASSUME Register, NEW a \in Agents, NEW q \in Question, NEW hits \in SUBSET Names,
         NEW g \in DOMAIN gaps \cup {0},
         NEW vec \in BOOLEAN, NEW stored \in BOOLEAN, NEW kept \in BOOLEAN,
         Insert(a, q, hits, g, vec, stored, kept)
  PROVE  Register'
<1>1. /\ RegisterTypes
      /\ gaps \in Seq(Row) /\ Len(gaps) \in Nat /\ DOMAIN gaps = 1 .. Len(gaps)
      /\ searches \in Seq(Line) /\ Len(searches) \in Nat /\ DOMAIN searches = 1 .. Len(searches)
      /\ recent \in [Agents -> Seq(Offer)]
      /\ centroids \subseteq DOMAIN gaps
  BY DEF Register, RegisterTypes
<1>2. GapCounted(q, g, vec)
  BY <1>1, GapsAfterInsert
<1>3. /\ gaps' \in Seq(Row) /\ Len(gaps') \in Nat /\ DOMAIN gaps' = 1 .. Len(gaps')
      /\ DOMAIN gaps \subseteq DOMAIN gaps' /\ Target(g) \in DOMAIN gaps' /\ centroids' \subseteq DOMAIN gaps'
  BY <1>1, <1>2 DEF Target, GapCounted
<1>4. kept => SearchKept(a, g)
  BY SearchesAfterInsert
<1>5. ~kept => UNCHANGED <<searches, recent>>
  BY DEF Insert
<1>6. RegisterTypes' /\ PointersAreSound' /\ OffersAreOnce' /\ RecentAreUnread'
  <2>1. CASE kept
    <3>1. /\ recent' \in [Agents -> Seq(Offer)]
          /\ \A b \in Agents : \A i \in DOMAIN recent'[b] : recent'[b][i].search \in DOMAIN searches'
          /\ OffersAreOnce' /\ RecentAreUnread'
      BY <2>1, KeptIsOffered
    <3>2. /\ searches' \in Seq(Line)
          /\ \A s \in DOMAIN searches' : searches'[s].gap \in DOMAIN gaps'
      <4>1. /\ searches' \in Seq(Line) /\ Len(searches') = Len(searches) + 1
            /\ \A s \in 1 .. Len(searches) : searches'[s] = searches[s]
            /\ searches'[Len(searches) + 1] = [gap |-> Target(g), agent |-> a, followed |-> FALSE]
        BY <1>4, <2>1 DEF SearchKept
      <4>2. \A s \in 1 .. Len(searches) : searches[s].gap \in DOMAIN gaps'
        BY <1>1, <1>3 DEF Register, PointersAreSound
      <4>3. searches'[Len(searches) + 1].gap = Target(g)
        BY <4>1
      <4>4. DOMAIN searches' = 1 .. Len(searches) + 1
        BY <4>1
      <4>5. ASSUME NEW s \in DOMAIN searches'
            PROVE  searches'[s].gap \in DOMAIN gaps'
        <5>1. CASE s \in 1 .. Len(searches)
          BY <4>1, <4>2, <5>1
        <5>2. CASE s = Len(searches) + 1
          BY <1>3, <4>3, <5>2
        <5>. QED BY <1>1, <4>4, <5>1, <5>2
      <4>. QED BY <4>1, <4>5
    <3>. QED BY <1>3, <3>1, <3>2 DEF RegisterTypes, PointersAreSound
  <2>2. CASE ~kept
    BY <1>1, <1>3, <1>5, <2>2 DEF Register, RegisterTypes, PointersAreSound, OffersAreOnce, RecentAreUnread
  <2>. QED BY <2>1, <2>2
<1>7. MeaningsAreSearched'
  <2>0. g = 0 => gaps'[Len(gaps) + 1].vec = vec
    BY <1>2 DEF GapCounted
  <2> SUFFICES ASSUME NEW h \in DOMAIN gaps', gaps'[h].status = "open", gaps'[h].vec
               PROVE  h \in centroids'
    BY DEF MeaningsAreSearched
  <2>1. CASE h \in DOMAIN gaps
    <3>1. gaps[h].status = "open" /\ (gaps[h].vec \/ (h = g /\ vec))
      BY <1>1, <1>2, <2>1 DEF GapCounted
    <3>2. gaps[h].vec => h \in centroids
      BY <2>1, <3>1 DEF Register, MeaningsAreSearched
    <3>. QED BY <1>1, <1>2, <2>1, <3>1, <3>2 DEF GapCounted, Target
  <2>2. CASE h \notin DOMAIN gaps
    <3>1. g = 0 /\ h = Len(gaps) + 1
      BY <1>1, <1>2, <1>3, <2>2 DEF GapCounted
    <3>. QED BY <1>2, <2>0, <3>1 DEF GapCounted, Target
  <2>. QED BY <2>1, <2>2
<1>8. CountersAreSound'
  <2> SUFFICES ASSUME NEW h \in DOMAIN gaps'
               PROVE  /\ gaps'[h].followed <= Cardinality(FollowedOf(h)')
                      /\ Cardinality(SearchesOf(h)') <= gaps'[h].count
    BY DEF CountersAreSound
  <2>1. /\ FollowedOf(h)' = FollowedOf(h)
        /\ SearchesOf(h)' \in
             {SearchesOf(h)} \cup IF h = Target(g) THEN {SearchesOf(h) \cup {Len(searches) + 1}} ELSE {}
    <3>1. CASE kept
      BY <1>4, <3>1 DEF SearchKept
    <3>2. CASE ~kept
      BY <1>5, <3>2 DEF SearchesOf, FollowedOf
    <3>. QED BY <3>1, <3>2
  <2>2. IsFiniteSet(SearchesOf(h)) /\ Cardinality(SearchesOf(h)) \in Nat /\ Cardinality(FollowedOf(h)) \in Nat
    BY <1>1, SearchesCount
  <2>3. Cardinality(SearchesOf(h)') \in
          {Cardinality(SearchesOf(h))} \cup IF h = Target(g) THEN {Cardinality(SearchesOf(h)) + 1} ELSE {}
    <3>1. Cardinality(SearchesOf(h) \cup {Len(searches) + 1}) \in {Cardinality(SearchesOf(h)), Cardinality(SearchesOf(h)) + 1}
      BY <2>2, FS_AddElement
    <3>. QED BY <2>1, <3>1
  <2>4. CASE h \in DOMAIN gaps
    <3>1. gaps[h].followed <= Cardinality(FollowedOf(h)) /\ Cardinality(SearchesOf(h)) <= gaps[h].count
      BY <2>4 DEF Register, CountersAreSound
    <3>2. gaps[h].count \in Nat
      <4>1. gaps[h] \in Row
        BY <1>1, <2>4
      <4>. QED BY <4>1 DEF Row
    <3>3. gaps'[h].followed = gaps[h].followed
          /\ gaps'[h].count = IF h = g THEN gaps[h].count + 1 ELSE gaps[h].count
      BY <1>1, <1>2, <2>4 DEF GapCounted
    <3>4. h = Target(g) => h = g
      BY <1>1, <2>4 DEF Target
    <3>. QED BY <2>1, <2>2, <2>3, <3>1, <3>2, <3>3, <3>4
  <2>5. CASE h \notin DOMAIN gaps
    <3>1. g = 0 /\ h = Len(gaps) + 1
      BY <1>1, <1>2, <1>3, <2>5 DEF GapCounted
    <3>2. SearchesOf(h) = {}
      BY <1>1, <2>5 DEF Register, PointersAreSound, SearchesOf
    <3>3. Cardinality(SearchesOf(h)) = 0
      BY <3>2, FS_EmptySet
    <3>4. gaps'[h].followed = 0 /\ gaps'[h].count = 1
      BY <1>2, <3>1 DEF GapCounted
    <3>. QED BY <2>1, <2>2, <2>3, <3>3, <3>4
  <2>. QED BY <2>4, <2>5
<1>. QED BY <1>6, <1>7, <1>8 DEF Register

LEMMA RegisterUnchanged ==
  ASSUME Register, UNCHANGED <<tables, centroids, recent>>
  PROVE  Register'
<1>1. gaps' = gaps /\ searches' = searches /\ centroids' = centroids /\ recent' = recent
  BY DEF tables
<1>2. RegisterTypes' /\ PointersAreSound' /\ OffersAreOnce'
  BY <1>1 DEF Register, RegisterTypes, PointersAreSound, OffersAreOnce
<1>3. RecentAreUnread' /\ MeaningsAreSearched'
  BY <1>1 DEF Register, RecentAreUnread, MeaningsAreSearched
<1>4. \A h : SearchesOf(h)' = SearchesOf(h) /\ FollowedOf(h)' = FollowedOf(h)
  BY <1>1 DEF SearchesOf, FollowedOf
<1>5. CountersAreSound'
  BY <1>1, <1>4 DEF Register, CountersAreSound
<1>. QED BY <1>2, <1>3, <1>5 DEF Register

\* Recording a search, from nothing of it to all of it.
LEMMA RecordKeeps ==
  ASSUME Register, NEW a \in Agents, NEW q \in Question, NEW hits \in SUBSET Names,
         NEW g \in DOMAIN gaps \cup {0}, NEW vec \in BOOLEAN,
         Record(a, q, hits, g, vec)
  PROVE  Register'
<1>1. CASE UNCHANGED <<tables, centroids, recent>>
  BY <1>1, RegisterUnchanged
<1>2. ASSUME NEW stored \in BOOLEAN, NEW kept \in BOOLEAN, Insert(a, q, hits, g, vec, stored, kept)
      PROVE  Register'
  BY <1>2, InsertKeeps
<1>. QED BY <1>1, <1>2 DEF Record

-----------------------------------------------------------------------------
(* The tracker. *)

\* What is left of a sequence without its i-th element, whatever was there.
LEMMA RemoveAtProperties ==
  ASSUME NEW S, NEW s \in Seq(S), NEW i \in 1 .. Len(s)
  PROVE  /\ RemoveAt(s, i) \in Seq(S) /\ Len(RemoveAt(s, i)) = Len(s) - 1
         /\ \A j \in 1 .. Len(s) - 1 : RemoveAt(s, i)[j] = IF j < i THEN s[j] ELSE s[j + 1]
<1> DEFINE left == SubSeq(s, 1, i - 1)
           right == SubSeq(s, i + 1, Len(s))
<1>1. left \in Seq(S) /\ Len(left) = i - 1 /\ \A j \in 1 .. i - 1 : left[j] = s[j]
  BY SubSeqProperties
<1>2. right \in Seq(S) /\ Len(right) = Len(s) - i /\ \A j \in 1 .. Len(s) - i : right[j] = s[i + j]
  BY SubSeqProperties
<1>3. RemoveAt(s, i) = left \o right
  BY DEF RemoveAt
<1> HIDE DEF left, right
<1>4. /\ left \o right \in Seq(S) /\ Len(left \o right) = Len(s) - 1
      /\ \A j \in 1 .. Len(s) - 1 : (left \o right)[j] = IF j <= i - 1 THEN left[j] ELSE right[j - (i - 1)]
  <2>1. /\ left \o right \in Seq(S) /\ Len(left \o right) = Len(left) + Len(right)
        /\ \A j \in 1 .. Len(left) + Len(right) :
             (left \o right)[j] = IF j <= Len(left) THEN left[j] ELSE right[j - Len(left)]
    BY <1>1, <1>2, ConcatProperties
  <2>2. Len(left) + Len(right) = Len(s) - 1
    BY <1>1, <1>2
  <2>. QED BY <1>1, <2>1, <2>2
<1>5. ASSUME NEW j \in 1 .. Len(s) - 1
      PROVE  (left \o right)[j] = IF j < i THEN s[j] ELSE s[j + 1]
  <2>1. CASE j < i
    BY <1>1, <1>4, <2>1
  <2>2. CASE ~(j < i)
    <3>1. j - (i - 1) \in 1 .. Len(s) - i /\ i + (j - (i - 1)) = j + 1
      BY <2>2
    <3>. QED BY <1>2, <1>4, <2>2, <3>1
  <2>. QED BY <2>1, <2>2
<1>. QED BY <1>3, <1>4, <1>5

\* What is offered after some of it is dropped was offered before, once.
OffersDropped(a) ==
  /\ recent' \in [Agents -> Seq(Offer)]
  /\ \A b \in Agents : b # a => recent'[b] = recent[b]
  /\ \A i, j \in DOMAIN recent'[a] :
       \E k, l \in DOMAIN recent[a] :
         recent'[a][i] = recent[a][k] /\ recent'[a][j] = recent[a][l] /\ (k = l => i = j)

LEMMA DroppedKeeps ==
  ASSUME Register, NEW a \in Agents, OffersDropped(a), UNCHANGED <<gaps, searches, centroids>>
  PROVE  Register'
<1>1. RegisterTypes' /\ MeaningsAreSearched'
  BY DEF Register, RegisterTypes, OffersDropped, MeaningsAreSearched
<1>2. \A h : SearchesOf(h)' = SearchesOf(h) /\ FollowedOf(h)' = FollowedOf(h)
  BY DEF SearchesOf, FollowedOf
<1>3. CountersAreSound'
  BY <1>2 DEF Register, CountersAreSound
<1>4. ASSUME NEW b \in Agents, NEW i \in DOMAIN recent'[b], NEW j \in DOMAIN recent'[b]
      PROVE  \E k, l \in DOMAIN recent[b] :
               recent'[b][i] = recent[b][k] /\ recent'[b][j] = recent[b][l] /\ (k = l => i = j)
  BY <1>4 DEF OffersDropped
<1>5. PointersAreSound' /\ RecentAreUnread'
  BY <1>4 DEF Register, PointersAreSound, RecentAreUnread
<1>6. OffersAreOnce'
  BY <1>4 DEF Register, OffersAreOnce
<1>. QED BY <1>1, <1>3, <1>5, <1>6 DEF Register

LEMMA ForgetKeeps ==
  ASSUME Register, NEW a \in Agents, Forget(a)
  PROVE  Register'
<1>1. /\ recent \in [Agents -> Seq(Offer)] /\ recent[a] \in Seq(Offer)
      /\ Len(recent[a]) \in Nat /\ DOMAIN recent[a] = 1 .. Len(recent[a])
  BY DEF Register, RegisterTypes
<1>2. recent[a] # <<>> /\ recent' = [recent EXCEPT ![a] = Tail(@)]
  BY DEF Forget
<1>3. /\ Tail(recent[a]) \in Seq(Offer) /\ DOMAIN Tail(recent[a]) = 1 .. Len(recent[a]) - 1
      /\ \A i \in DOMAIN Tail(recent[a]) : Tail(recent[a])[i] = recent[a][i + 1] /\ i + 1 \in DOMAIN recent[a]
  BY <1>1, <1>2, HeadTailProperties
<1>4. OffersDropped(a)
  BY <1>1, <1>2, <1>3 DEF OffersDropped
<1>. QED BY <1>4, DroppedKeeps DEF Forget, tables

\* A read consumes the search that offered the note.
LEMMA ReadDrops ==
  ASSUME Register, NEW a \in Agents, NEW i \in DOMAIN recent[a],
         recent' = [recent EXCEPT ![a] = RemoveAt(@, i)]
  PROVE  /\ OffersDropped(a)
         /\ \A j \in DOMAIN recent'[a] : recent'[a][j].search # recent[a][i].search
<1>1. /\ recent \in [Agents -> Seq(Offer)] /\ recent[a] \in Seq(Offer)
      /\ Len(recent[a]) \in Nat /\ DOMAIN recent[a] = 1 .. Len(recent[a])
  BY DEF Register, RegisterTypes
<1> DEFINE rest == RemoveAt(recent[a], i)
           from(j) == IF j < i THEN j ELSE j + 1
<1>2. rest \in Seq(Offer) /\ Len(rest) = Len(recent[a]) - 1
      /\ \A j \in 1 .. Len(recent[a]) - 1 : rest[j] = IF j < i THEN recent[a][j] ELSE recent[a][j + 1]
  BY <1>1, RemoveAtProperties
<1>3. recent'[a] = rest /\ recent' \in [Agents -> Seq(Offer)] /\ \A b \in Agents : b # a => recent'[b] = recent[b]
  BY <1>1, <1>2
<1> HIDE DEF rest
<1>4. ASSUME NEW j \in DOMAIN recent'[a]
      PROVE  from(j) \in DOMAIN recent[a] /\ from(j) # i /\ recent'[a][j] = recent[a][from(j)]
  BY <1>1, <1>2, <1>3
<1>5. ASSUME NEW j \in DOMAIN recent'[a], NEW k \in DOMAIN recent'[a], from(j) = from(k)
      PROVE  j = k
  BY <1>1, <1>2, <1>3, <1>5
<1> HIDE DEF from
<1>6. OffersDropped(a)
  BY <1>3, <1>4, <1>5 DEF OffersDropped
<1>7. \A j \in DOMAIN recent'[a] : recent'[a][j].search # recent[a][i].search
  BY <1>4 DEF Register, OffersAreOnce
<1>. QED BY <1>6, <1>7

\* What following a search does to the searches,
SearchMarked(s) ==
  /\ searches' \in Seq(Line) /\ DOMAIN searches' = DOMAIN searches
  /\ \A r \in DOMAIN searches :
       /\ searches'[r].gap = searches[r].gap /\ searches'[r].agent = searches[r].agent
       /\ r # s => searches'[r].followed = searches[r].followed
  /\ searches'[s].followed = TRUE
  /\ \A h : SearchesOf(h)' = SearchesOf(h)
  /\ \A h : FollowedOf(h)' = IF h = searches[s].gap THEN FollowedOf(h) \cup {s} ELSE FollowedOf(h)

\* and at most to their gap.
GapMarked(g) ==
  /\ gaps' \in Seq(Row) /\ DOMAIN gaps' = DOMAIN gaps
  /\ \A h \in DOMAIN gaps :
       /\ gaps'[h].question = gaps[h].question /\ gaps'[h].status = gaps[h].status
       /\ gaps'[h].count = gaps[h].count /\ gaps'[h].vec = gaps[h].vec
       /\ gaps'[h].followed \in {gaps[h].followed} \cup IF h = g THEN {gaps[h].followed + 1} ELSE {}

LEMMA MarkSearch ==
  ASSUME Register, NEW s \in DOMAIN searches, MarkFollowed(s)
  PROVE  SearchMarked(s)
<1>1. searches \in Seq(Line) /\ Len(searches) \in Nat /\ DOMAIN searches = 1 .. Len(searches)
  BY DEF Register, RegisterTypes
<1>2. searches[s] \in Line
  BY <1>1
<1> DEFINE line == [searches[s] EXCEPT !.followed = TRUE]
<1>3. line \in Line /\ line.gap = searches[s].gap /\ line.agent = searches[s].agent /\ line.followed = TRUE
  BY <1>2 DEF Line
<1>4. searches' = [searches EXCEPT ![s] = line]
  BY DEF MarkFollowed
<1> HIDE DEF line
<1>5. searches' \in Seq(Line) /\ DOMAIN searches' = DOMAIN searches
      /\ searches'[s] = line /\ \A r \in DOMAIN searches : r # s => searches'[r] = searches[r]
  BY <1>1, <1>3, <1>4
<1>6. \A r \in DOMAIN searches : searches'[r].gap = searches[r].gap /\ searches'[r].agent = searches[r].agent
  BY <1>3, <1>5
<1>7. \A h : SearchesOf(h)' = SearchesOf(h)
  BY <1>5, <1>6 DEF SearchesOf
<1>8. ASSUME NEW h
      PROVE  FollowedOf(h)' = IF h = searches[s].gap THEN FollowedOf(h) \cup {s} ELSE FollowedOf(h)
  BY <1>3, <1>5, <1>7 DEF FollowedOf, SearchesOf
<1>. QED BY <1>3, <1>5, <1>6, <1>7, <1>8 DEF SearchMarked

LEMMA MarkGap ==
  ASSUME Register, NEW s \in DOMAIN searches, MarkFollowed(s)
  PROVE  GapMarked(searches[s].gap)
<1> DEFINE g == searches[s].gap
           row == [gaps[g] EXCEPT !.followed = @ + 1]
<1> SUFFICES GapMarked(g)
  OBVIOUS
<1>1. gaps \in Seq(Row) /\ Len(gaps) \in Nat /\ DOMAIN gaps = 1 .. Len(gaps) /\ g \in DOMAIN gaps
  BY DEF Register, RegisterTypes, PointersAreSound
<1>2. gaps' = gaps \/ gaps' = [gaps EXCEPT ![g] = row]
  BY DEF MarkFollowed
<1> HIDE DEF g
<1>3. gaps[g] \in Row
  BY <1>1
<1>4. row \in Row
  BY <1>3 DEF Row
<1>5. row.question = gaps[g].question /\ row.count = gaps[g].count /\ row.followed = gaps[g].followed + 1
  BY <1>3 DEF Row
<1>6. row.status = gaps[g].status
  BY <1>3 DEF Row
<1>7. row.vec = gaps[g].vec
  BY <1>3 DEF Row
<1> HIDE DEF row
<1>8. CASE gaps' = gaps
  BY <1>1, <1>8 DEF GapMarked
<1>9. CASE gaps' = [gaps EXCEPT ![g] = row]
  <2>1. gaps' \in Seq(Row) /\ DOMAIN gaps' = DOMAIN gaps
        /\ gaps'[g] = row /\ \A h \in DOMAIN gaps : h # g => gaps'[h] = gaps[h]
    BY <1>1, <1>4, <1>9
  <2>2. ASSUME NEW h \in DOMAIN gaps
        PROVE  /\ gaps'[h].question = gaps[h].question /\ gaps'[h].status = gaps[h].status
               /\ gaps'[h].count = gaps[h].count /\ gaps'[h].vec = gaps[h].vec
               /\ gaps'[h].followed \in {gaps[h].followed} \cup IF h = g THEN {gaps[h].followed + 1} ELSE {}
    <3>1. CASE h = g
      BY <1>5, <1>6, <1>7, <2>1, <3>1
    <3>2. CASE h # g
      BY <2>1, <3>2
    <3>. QED BY <3>1, <3>2
  <2>. QED BY <2>1, <2>2 DEF GapMarked
<1>. QED BY <1>2, <1>8, <1>9

LEMMA ReadKeepsRegister ==
  ASSUME Register, NEW a \in Agents, NEW name \in Names, Read(a, name)
  PROVE  Register'
<1>1. PICK i \in Offering(a, name) :
        /\ recent' = [recent EXCEPT ![a] = RemoveAt(@, i)]
        /\ MarkFollowed(recent[a][i].search) \/ UNCHANGED tables
  BY DEF Read
<1>2. centroids' = centroids
  BY DEF Read
<1> DEFINE s == recent[a][i].search
           g == searches[s].gap
<1>3. i \in DOMAIN recent[a]
  BY DEF Offering
<1>4. s \in DOMAIN searches /\ g \in DOMAIN gaps /\ searches[s].agent = a /\ ~searches[s].followed
  BY <1>3 DEF Register, PointersAreSound, RecentAreUnread
<1>5. OffersDropped(a) /\ \A j \in DOMAIN recent'[a] : recent'[a][j].search # s
  BY <1>1, <1>3, ReadDrops
<1>6. CASE UNCHANGED tables
  BY <1>2, <1>5, <1>6, DroppedKeeps DEF tables
<1>7. CASE MarkFollowed(s)
  <2>1. SearchMarked(s) /\ GapMarked(g)
    BY <1>4, <1>7, MarkSearch, MarkGap
  <2> HIDE DEF s, g
  <2>2. RegisterTypes'
    BY <1>2, <1>5, <2>1 DEF Register, RegisterTypes, SearchMarked, GapMarked, OffersDropped
  <2>3. ASSUME NEW b \in Agents, NEW j \in DOMAIN recent'[b], NEW k \in DOMAIN recent'[b]
        PROVE  \E l, m \in DOMAIN recent[b] :
                 recent'[b][j] = recent[b][l] /\ recent'[b][k] = recent[b][m] /\ (l = m => j = k)
    BY <1>5, <2>3 DEF OffersDropped
  <2>4. OffersAreOnce'
    BY <2>3 DEF Register, OffersAreOnce
  <2>5. PointersAreSound'
    <3>1. \A r \in DOMAIN searches' : searches'[r].gap \in DOMAIN gaps'
      BY <2>1 DEF Register, PointersAreSound, SearchMarked, GapMarked
    <3>2. \A b \in Agents : \A j \in DOMAIN recent'[b] : recent'[b][j].search \in DOMAIN searches'
      BY <2>1, <2>3 DEF Register, PointersAreSound, SearchMarked
    <3>. QED BY <3>1, <3>2 DEF PointersAreSound
  <2>6. RecentAreUnread'
    <3> SUFFICES ASSUME NEW b \in Agents, NEW j \in DOMAIN recent'[b]
                 PROVE  /\ searches'[recent'[b][j].search].agent = b
                        /\ ~searches'[recent'[b][j].search].followed
      BY DEF RecentAreUnread
    <3> DEFINE r == recent'[b][j].search
    <3>1. r \in DOMAIN searches /\ searches[r].agent = b /\ ~searches[r].followed
      BY <2>3 DEF Register, PointersAreSound, RecentAreUnread
    <3>2. r # s
      BY <1>4, <1>5, <3>1 DEF s
    <3>. QED BY <2>1, <3>1, <3>2 DEF SearchMarked
  <2>7. MeaningsAreSearched'
    BY <1>2, <2>1 DEF Register, MeaningsAreSearched, GapMarked
  <2>8. CountersAreSound'
    <3> SUFFICES ASSUME NEW h \in DOMAIN gaps
                 PROVE  /\ gaps'[h].followed <= Cardinality(FollowedOf(h)')
                        /\ Cardinality(SearchesOf(h)') <= gaps'[h].count
      BY <2>1 DEF CountersAreSound, GapMarked
    <3>1. gaps[h].followed <= Cardinality(FollowedOf(h)) /\ Cardinality(SearchesOf(h)) <= gaps[h].count
      BY DEF Register, CountersAreSound
    <3>2. IsFiniteSet(FollowedOf(h)) /\ Cardinality(FollowedOf(h)) \in Nat
      BY SearchesCount DEF Register
    <3>3. gaps[h].followed \in Nat
      <4>1. gaps[h] \in Row
        BY DEF Register, RegisterTypes
      <4>. QED BY <4>1 DEF Row
    <3>4. SearchesOf(h)' = SearchesOf(h) /\ gaps'[h].count = gaps[h].count
      BY <2>1 DEF SearchMarked, GapMarked
    <3>5. CASE h = g
      <4>1. FollowedOf(h)' = FollowedOf(h) \cup {s} /\ gaps'[h].followed <= gaps[h].followed + 1
        BY <2>1, <3>3, <3>5 DEF SearchMarked, GapMarked, g
      <4>2. s \notin FollowedOf(h)
        BY <1>4 DEF FollowedOf, s
      <4>3. Cardinality(FollowedOf(h) \cup {s}) = Cardinality(FollowedOf(h)) + 1
        BY <3>2, <4>2, FS_AddElement
      <4>4. gaps'[h].followed \in {gaps[h].followed, gaps[h].followed + 1}
        BY <2>1 DEF GapMarked
      <4>. QED BY <3>1, <3>2, <3>3, <3>4, <4>1, <4>3, <4>4
    <3>6. CASE h # g
      <4>1. FollowedOf(h)' = FollowedOf(h) /\ gaps'[h].followed = gaps[h].followed
        BY <2>1, <3>6 DEF SearchMarked, GapMarked, g
      <4>. QED BY <3>1, <3>4, <4>1
    <3>. QED BY <3>5, <3>6
  <2>. QED BY <2>2, <2>4, <2>5, <2>6, <2>7, <2>8 DEF Register
<1>. QED BY <1>1, <1>6, <1>7

-----------------------------------------------------------------------------
(* The command line, and the life of the process. *)

LEMMA ResolveMoves ==
  ASSUME Register, NEW g \in DOMAIN gaps, NEW status \in {"closed", "dismissed"}, Resolve(g, status)
  PROVE  /\ gaps' \in Seq(Row) /\ DOMAIN gaps' = DOMAIN gaps
         /\ \A h \in DOMAIN gaps :
              /\ gaps'[h].question = gaps[h].question /\ gaps'[h].count = gaps[h].count
              /\ gaps'[h].followed = gaps[h].followed /\ gaps'[h].vec = gaps[h].vec
              /\ gaps'[h].status = "open" => gaps[h].status = "open"
<1> DEFINE row == [gaps[g] EXCEPT !.status = status]
<1>1. gaps \in Seq(Row) /\ Len(gaps) \in Nat /\ DOMAIN gaps = 1 .. Len(gaps)
  BY DEF Register, RegisterTypes
<1>2. gaps' = [gaps EXCEPT ![g] = row]
  BY DEF Resolve, Settled
<1>3. gaps[g] \in Row
  BY <1>1
<1>4. row \in Row /\ row.status # "open"
  BY <1>3 DEF Row
<1>5. row.question = gaps[g].question /\ row.count = gaps[g].count
  BY <1>3 DEF Row
<1>6. row.followed = gaps[g].followed
  BY <1>3 DEF Row
<1>7. row.vec = gaps[g].vec
  BY <1>3 DEF Row
<1> HIDE DEF row
<1>8. gaps' \in Seq(Row) /\ DOMAIN gaps' = DOMAIN gaps
      /\ gaps'[g] = row /\ \A h \in DOMAIN gaps : h # g => gaps'[h] = gaps[h]
  BY <1>1, <1>2, <1>4
<1>9. ASSUME NEW h \in DOMAIN gaps
      PROVE  /\ gaps'[h].question = gaps[h].question /\ gaps'[h].count = gaps[h].count
             /\ gaps'[h].followed = gaps[h].followed /\ gaps'[h].vec = gaps[h].vec
             /\ gaps'[h].status = "open" => gaps[h].status = "open"
  <2>1. CASE h = g
    BY <1>4, <1>5, <1>6, <1>7, <1>8, <2>1
  <2>2. CASE h # g
    BY <1>8, <2>2
  <2>. QED BY <2>1, <2>2
<1>. QED BY <1>8, <1>9

LEMMA ResolveKeepsRegister ==
  ASSUME Register, NEW g \in DOMAIN gaps, NEW status \in {"closed", "dismissed"}, Resolve(g, status)
  PROVE  Register'
<1>1. gaps' \in Seq(Row) /\ DOMAIN gaps' = DOMAIN gaps
  BY ResolveMoves
<1>2. ASSUME NEW h \in DOMAIN gaps
      PROVE  /\ gaps'[h].count = gaps[h].count /\ gaps'[h].followed = gaps[h].followed
             /\ gaps'[h].status = "open" /\ gaps'[h].vec => gaps[h].status = "open" /\ gaps[h].vec
  BY ResolveMoves
<1>3. searches' = searches /\ centroids' = centroids /\ recent' = recent
  BY DEF Resolve, memory
<1>4. RegisterTypes' /\ PointersAreSound' /\ OffersAreOnce' /\ RecentAreUnread'
  BY <1>1, <1>3 DEF Register, RegisterTypes, PointersAreSound, OffersAreOnce, RecentAreUnread
<1>5. MeaningsAreSearched'
  BY <1>1, <1>2, <1>3 DEF Register, MeaningsAreSearched
<1>6. \A h : SearchesOf(h)' = SearchesOf(h) /\ FollowedOf(h)' = FollowedOf(h)
  BY <1>3 DEF SearchesOf, FollowedOf
<1>7. CountersAreSound'
  BY <1>1, <1>2, <1>6 DEF Register, CountersAreSound
<1>. QED BY <1>4, <1>5, <1>7 DEF Register

LEMMA RestartKeepsRegister ==
  ASSUME Register, Restart
  PROVE  Register'
<1>1. /\ gaps' = gaps /\ searches' = searches
      /\ centroids' = {g \in DOMAIN gaps : gaps[g].status = "open" /\ gaps[g].vec}
      /\ recent' = [a \in Agents |-> <<>>]
  BY DEF Restart, tables
<1>2. RegisterTypes'
  BY <1>1 DEF Register, RegisterTypes
<1>3. \A a \in Agents : DOMAIN recent'[a] = {}
  BY <1>1
<1>4. PointersAreSound' /\ OffersAreOnce' /\ RecentAreUnread'
  BY <1>1, <1>3 DEF Register, PointersAreSound, OffersAreOnce, RecentAreUnread
<1>5. MeaningsAreSearched'
  BY <1>1 DEF MeaningsAreSearched
<1>6. \A h : SearchesOf(h)' = SearchesOf(h) /\ FollowedOf(h)' = FollowedOf(h)
  BY <1>1 DEF SearchesOf, FollowedOf
<1>7. CountersAreSound'
  BY <1>1, <1>6 DEF Register, CountersAreSound
<1>. QED BY <1>2, <1>4, <1>5, <1>7 DEF Register

LEMMA RegisterInitially == Init => Register
<1> SUFFICES ASSUME Init PROVE Register
  OBVIOUS
<1>1. gaps = <<>> /\ searches = <<>> /\ centroids = {} /\ recent = [a \in Agents |-> <<>>]
  BY DEF Init
<1>2. DOMAIN gaps = {} /\ DOMAIN searches = {} /\ \A a \in Agents : DOMAIN recent[a] = {}
  BY <1>1
<1>3. RegisterTypes
  BY <1>1 DEF RegisterTypes
<1>. QED BY <1>2, <1>3 DEF Register, PointersAreSound, OffersAreOnce, CountersAreSound,
                           RecentAreUnread, MeaningsAreSearched

\* A call waits with what it asked, and the gap it found, if any.
LEMMA CallAsked ==
  ASSUME Grouping, NEW c \in Calls, call[c] # Idle
  PROVE  /\ call[c] \in Awaiting /\ call[c].agent \in Agents /\ call[c].question \in Question
         /\ call[c].hits \in SUBSET Names /\ call[c].gap \in DOMAIN gaps \cup {0}
<1>1. call[c] \in Awaiting
  BY DEF Grouping, ProcessTypes
<1>. QED BY <1>1 DEF Grouping, CallsWait, Awaiting

LEMMA RegisterStep ==
  ASSUME Inv, [Next]_vars
  PROVE  Register'
<1> USE DEF Inv
<1>1. ASSUME NEW c \in Calls, NEW a \in Agents, NEW q \in Question, NEW hits \in SUBSET Names,
             Search(c, a, q, hits)
      PROVE  Register'
  <2>1. PICK g \in OneOf(ByKey(q)) :
          Record(a, q, hits, g, FALSE) \/ UNCHANGED <<tables, centroids, recent>>
    BY <1>1 DEF Search
  <2>2. g \in DOMAIN gaps \cup {0}
    BY <2>1 DEF OneOf, ByKey
  <2>. QED BY <2>1, <2>2, RecordKeeps, RegisterUnchanged
<1>2. ASSUME NEW c \in Calls, Embedded(c)
      PROVE  Register'
  <2>1. PICK g \in IF call[c].gap # 0 THEN {call[c].gap} ELSE OneOf(ByVector(call[c].question)) :
          Record(call[c].agent, call[c].question, call[c].hits, g, TRUE)
    BY <1>2 DEF Embedded
  <2>2. call[c] # Idle
    BY <1>2 DEF Embedded
  <2>3. g \in DOMAIN gaps \cup {0}
    BY <2>1, <2>2, CallAsked DEF OneOf, ByVector, Register, RegisterTypes
  <2>. QED BY <2>1, <2>2, <2>3, CallAsked, RecordKeeps
<1>3. ASSUME NEW c \in Calls, EmbedFails(c)
      PROVE  Register'
  BY <1>3, CallAsked, RecordKeeps DEF EmbedFails
<1>4. ASSUME NEW a \in Agents, NEW name \in Names, Read(a, name)
      PROVE  Register'
  BY <1>4, ReadKeepsRegister
<1>5. ASSUME NEW a \in Agents, Forget(a)
      PROVE  Register'
  BY <1>5, ForgetKeeps
<1>6. ASSUME NEW g \in DOMAIN gaps, NEW status \in {"closed", "dismissed"}, Resolve(g, status)
      PROVE  Register'
  BY <1>6, ResolveKeepsRegister
<1>7. CASE WarmedUp
  BY <1>7, RegisterUnchanged DEF WarmedUp
<1>8. CASE Restart
  BY <1>8, RestartKeepsRegister
<1>9. CASE UNCHANGED vars
  BY <1>9, RegisterUnchanged DEF vars, memory
<1>. QED BY <1>1, <1>2, <1>3, <1>4, <1>5, <1>6, <1>7, <1>8, <1>9 DEF Next

-----------------------------------------------------------------------------
(* One row per question. *)

\* The open gaps of a question.
OpenOf(q) == {h \in DOMAIN gaps : gaps[h].question = q /\ gaps[h].status = "open"}

\* What recording a search does to the questions: nothing, or the one row more.
Grouped(q, g, vec) ==
  \/ gaps' = gaps /\ centroids' = centroids
  \/ /\ DOMAIN gaps' = DOMAIN gaps \cup {Target(g)} /\ centroids \subseteq centroids'
     /\ \A h \in DOMAIN gaps : gaps'[h].question = gaps[h].question /\ gaps'[h].status = gaps[h].status
     /\ g = 0 => gaps'[Target(g)].question = q /\ Target(g) \notin DOMAIN gaps
                 /\ (vec => Target(g) \in centroids')

LEMMA RecordGroups ==
  ASSUME Register, NEW a \in Agents, NEW q \in Question, NEW hits \in SUBSET Names,
         NEW g \in DOMAIN gaps \cup {0}, NEW vec \in BOOLEAN,
         Record(a, q, hits, g, vec)
  PROVE  Grouped(q, g, vec)
<1>1. CASE UNCHANGED <<tables, centroids, recent>>
  BY <1>1 DEF tables, Grouped
<1>2. ASSUME NEW stored \in BOOLEAN, NEW kept \in BOOLEAN, Insert(a, q, hits, g, vec, stored, kept)
      PROVE  Grouped(q, g, vec)
  <2>1. GapCounted(q, g, vec)
    BY <1>2, GapsAfterInsert DEF Register
  <2>2. Len(gaps) \in Nat /\ DOMAIN gaps = 1 .. Len(gaps)
    BY DEF Register, RegisterTypes
  <2>3. DOMAIN gaps' = DOMAIN gaps \cup {Target(g)} /\ (g = 0 => Target(g) \notin DOMAIN gaps)
    <3>1. DOMAIN gaps' = 1 .. IF g = 0 THEN Len(gaps) + 1 ELSE Len(gaps)
      BY <2>1 DEF GapCounted
    <3>2. CASE g = 0
      BY <2>2, <3>1, <3>2 DEF Target
    <3>3. CASE g # 0
      BY <2>2, <3>1, <3>3 DEF Target
    <3>. QED BY <3>2, <3>3
  <2>4. \A h \in DOMAIN gaps : gaps'[h].question = gaps[h].question /\ gaps'[h].status = gaps[h].status
    BY <2>1, <2>2 DEF GapCounted
  <2>5. g = 0 => gaps'[Target(g)].question = q
    BY <2>1 DEF GapCounted, Target
  <2>6. centroids \subseteq centroids' /\ (vec => Target(g) \in centroids')
    BY <2>1 DEF GapCounted
  <2>. QED BY <2>3, <2>4, <2>5, <2>6 DEF Grouped
<1>. QED BY <1>1, <1>2 DEF Record

\* A new row is made only for a question that has none open.
LEMMA RecordKeepsOneRow ==
  ASSUME NEW q \in Question, NEW g \in DOMAIN gaps \cup {0}, NEW vec \in BOOLEAN,
         Grouped(q, g, vec), OneRowPerQuestion, UNCHANGED hiccup,
         ~hiccup /\ g = 0 /\ q.wording # Blank => OpenOf(q) = {}
  PROVE  OneRowPerQuestion'
<1>1. CASE gaps' = gaps
  BY <1>1 DEF OneRowPerQuestion
<1>2. CASE gaps' # gaps
  <2> SUFFICES ASSUME ~hiccup, NEW h \in DOMAIN gaps', NEW k \in DOMAIN gaps',
                      gaps'[h].status = "open", gaps'[k].status = "open",
                      gaps'[h].question = gaps'[k].question, gaps'[h].question.wording # Blank
               PROVE  h = k
    BY DEF OneRowPerQuestion
  <2>1. /\ DOMAIN gaps' = DOMAIN gaps \cup {Target(g)}
        /\ \A i \in DOMAIN gaps : gaps'[i].question = gaps[i].question /\ gaps'[i].status = gaps[i].status
        /\ g = 0 => gaps'[Target(g)].question = q
    BY <1>2 DEF Grouped
  <2>2. g # 0 => Target(g) \in DOMAIN gaps
    BY DEF Target
  <2>3. CASE h \in DOMAIN gaps /\ k \in DOMAIN gaps
    BY <2>1, <2>3 DEF OneRowPerQuestion
  <2>4. CASE h \notin DOMAIN gaps \/ k \notin DOMAIN gaps
    <3>1. g = 0
      BY <2>1, <2>2, <2>4
    <3>2. CASE h = Target(g) /\ k = Target(g)
      BY <3>2
    <3>3. CASE h = Target(g) /\ k \in DOMAIN gaps
      BY <2>1, <3>1, <3>3 DEF OpenOf
    <3>4. CASE k = Target(g) /\ h \in DOMAIN gaps
      BY <2>1, <3>1, <3>4 DEF OpenOf
    <3>. QED BY <2>1, <2>4, <3>2, <3>3, <3>4
  <2>. QED BY <2>3, <2>4
<1>. QED BY <1>1, <1>2

\* What `ByKey` finds is what there is to find.
LEMMA KeyFinds ==
  ASSUME RegisterTypes, NEW q \in Question, NEW g \in OneOf(ByKey(q))
  PROVE  g \in DOMAIN gaps \cup {0} /\ (g = 0 /\ q.wording # Blank => OpenOf(q) = {})
<1>1. 0 \notin DOMAIN gaps
  BY DEF RegisterTypes
<1>. QED BY <1>1 DEF OneOf, ByKey, OpenOf

\* A gap of the question made while its embedding was awaited is found by it.
LEMMA VectorFinds ==
  ASSUME Inv, NEW c \in Calls, call[c] # Idle,
         NEW g \in IF call[c].gap # 0 THEN {call[c].gap} ELSE OneOf(ByVector(call[c].question))
  PROVE  /\ g \in DOMAIN gaps \cup {0}
         /\ ~hiccup /\ g = 0 /\ call[c].question.wording # Blank => OpenOf(call[c].question) = {}
<1>1. 0 \notin DOMAIN gaps /\ centroids \subseteq DOMAIN gaps
  BY DEF Inv, Register, RegisterTypes
<1>2. g \in DOMAIN gaps \cup {0}
  BY <1>1, CallAsked DEF OneOf, ByVector, Inv
<1>3. ASSUME ~hiccup, g = 0, call[c].question.wording # Blank, NEW h \in OpenOf(call[c].question)
      PROVE  FALSE
  <2>1. call[c].gap = 0 /\ ByVector(call[c].question) = {}
    BY <1>1, <1>3 DEF OneOf, ByVector
  <2>2. h \in centroids
    BY <1>3, <2>1 DEF Inv, Grouping, MadeMeanwhile, OpenOf
  <2>. QED BY <1>3, <2>1, <2>2 DEF ByVector, OpenOf
<1>. QED BY <1>2, <1>3

\* What the calls in flight know stays true when nothing but a row's status or the memory grows.
LEMMA GroupingStep ==
  ASSUME Inv, [Next]_vars
  PROVE  Grouping'
<1> USE DEF Inv
<1>0. 0 \notin DOMAIN gaps
  BY DEF Register, RegisterTypes
<1>1. ASSUME NEW c \in Calls, NEW a \in Agents, NEW q \in Question, NEW hits \in SUBSET Names,
             Search(c, a, q, hits)
      PROVE  Grouping'
  <2>1. embedder' = embedder /\ hiccup' = hiccup /\ embedder \in BOOLEAN
    BY <1>1 DEF Search, Grouping, ProcessTypes
  <2>2. PICK g \in OneOf(ByKey(q)) :
          \/ /\ embedder
             /\ call' = [call EXCEPT ![c] = [agent |-> a, question |-> q, hits |-> hits, gap |-> g]]
             /\ UNCHANGED <<tables, centroids, recent>>
          \/ ~embedder /\ Record(a, q, hits, g, FALSE) /\ UNCHANGED call
    BY <1>1 DEF Search
  <2>3. g \in DOMAIN gaps \cup {0} /\ (g = 0 /\ q.wording # Blank => OpenOf(q) = {})
    BY <2>2, KeyFinds DEF Register
  <2>4. CASE embedder
    <3> DEFINE asked == [agent |-> a, question |-> q, hits |-> hits, gap |-> g]
    <3>1. call' = [call EXCEPT ![c] = asked] /\ gaps' = gaps /\ centroids' = centroids
      BY <2>2, <2>4 DEF tables
    <3>2. g \in Nat
      BY <2>3 DEF Register, RegisterTypes
    <3>3. asked \in Awaiting /\ asked.question = q /\ asked.gap = g
      BY <3>2 DEF Awaiting
    <3> HIDE DEF asked
    <3>4. ProcessTypes'
      BY <2>1, <3>1, <3>3 DEF Grouping, ProcessTypes
    <3>5. call'[c] = asked /\ \A d \in Calls : d # c => call'[d] = call[d]
      BY <3>1 DEF Grouping, ProcessTypes
    <3>6. CallsWait'
      BY <2>1, <2>3, <2>4, <3>1, <3>3, <3>5 DEF Grouping, CallsWait
    <3>7. MadeMeanwhile'
      <4> SUFFICES ASSUME ~hiccup, NEW d \in Calls, NEW h \in DOMAIN gaps,
                          call'[d] # Idle, call'[d].gap = 0, call'[d].question.wording # Blank,
                          gaps[h].question = call'[d].question, gaps[h].status = "open"
                   PROVE  h \in centroids
        BY <2>1, <3>1 DEF MadeMeanwhile
      <4>1. CASE d = c
        BY <2>3, <3>3, <3>5, <4>1 DEF OpenOf
      <4>2. CASE d # c
        BY <3>5, <4>2 DEF Grouping, MadeMeanwhile
      <4>. QED BY <4>1, <4>2
    <3>8. OneRowPerQuestion'
      BY <2>1, <3>1 DEF Grouping, OneRowPerQuestion
    <3>. QED BY <3>4, <3>6, <3>7, <3>8 DEF Grouping
  <2>5. CASE ~embedder
    <3>1. Record(a, q, hits, g, FALSE) /\ call' = call
      BY <2>2, <2>5
    <3>2. Grouped(q, g, FALSE)
      BY <2>3, <3>1, RecordGroups
    <3>3. OneRowPerQuestion'
      BY <2>1, <2>3, <3>2, RecordKeepsOneRow DEF Grouping
    <3>4. \A d \in Calls : call'[d] = Idle
      BY <2>5, <3>1 DEF Grouping, CallsWait
    <3>5. ProcessTypes' /\ CallsWait' /\ MadeMeanwhile'
      BY <2>1, <3>1, <3>4 DEF Grouping, ProcessTypes, CallsWait, MadeMeanwhile
    <3>. QED BY <3>3, <3>5 DEF Grouping
  <2>. QED BY <2>1, <2>4, <2>5
<1>2. ASSUME NEW c \in Calls, Embedded(c)
      PROVE  Grouping'
  <2>1. call[c] # Idle /\ call' = [call EXCEPT ![c] = Idle] /\ embedder' = embedder /\ hiccup' = hiccup
    BY <1>2 DEF Embedded
  <2> DEFINE q == call[c].question
  <2>2. PICK g \in IF call[c].gap # 0 THEN {call[c].gap} ELSE OneOf(ByVector(call[c].question)) :
          Record(call[c].agent, call[c].question, call[c].hits, g, TRUE)
    BY <1>2 DEF Embedded
  <2>3. g \in DOMAIN gaps \cup {0} /\ (~hiccup /\ g = 0 /\ q.wording # Blank => OpenOf(q) = {})
    BY <2>1, <2>2, VectorFinds
  <2>4. q \in Question /\ Grouped(q, g, TRUE)
    BY <2>1, <2>2, <2>3, CallAsked, RecordGroups
  <2>5. OneRowPerQuestion'
    BY <2>1, <2>3, <2>4, RecordKeepsOneRow DEF Grouping
  <2>6. call'[c] = Idle /\ \A d \in Calls : d # c => call'[d] = call[d]
    BY <2>1 DEF Grouping, ProcessTypes
  <2>7. ProcessTypes'
    BY <2>1 DEF Grouping, ProcessTypes
  <2> HIDE DEF q
  <2>8. CallsWait'
    BY <2>1, <2>4, <2>6 DEF Grouping, CallsWait, Grouped
  <2>9. MadeMeanwhile'
    <3> SUFFICES ASSUME ~hiccup, NEW d \in Calls, NEW h \in DOMAIN gaps',
                        call'[d] # Idle, call'[d].gap = 0, call'[d].question.wording # Blank,
                        gaps'[h].question = call'[d].question, gaps'[h].status = "open"
                 PROVE  h \in centroids'
      BY <2>1 DEF MadeMeanwhile
    <3>1. d # c /\ call'[d] = call[d]
      BY <2>6
    <3>2. CASE h \in DOMAIN gaps
      <4>1. gaps'[h].question = gaps[h].question /\ gaps'[h].status = gaps[h].status /\ centroids \subseteq centroids'
        BY <2>4, <3>2 DEF Grouped
      <4>. QED BY <3>1, <3>2, <4>1 DEF Grouping, MadeMeanwhile
    <3>3. CASE h \notin DOMAIN gaps
      <4>1. h = Target(g) /\ g = 0
        BY <2>3, <2>4, <3>3 DEF Grouped, Target
      <4>. QED BY <2>4, <3>3, <4>1 DEF Grouped
    <3>. QED BY <3>2, <3>3
  <2>. QED BY <2>5, <2>7, <2>8, <2>9 DEF Grouping
<1>3. ASSUME NEW c \in Calls, EmbedFails(c)
      PROVE  Grouping'
  <2>1. call[c] # Idle /\ call' = [call EXCEPT ![c] = Idle] /\ embedder' = embedder /\ hiccup' = TRUE
        /\ Record(call[c].agent, call[c].question, call[c].hits, call[c].gap, FALSE)
    BY <1>3 DEF EmbedFails
  <2>2. Grouped(call[c].question, call[c].gap, FALSE)
    BY <2>1, CallAsked, RecordGroups
  <2>3. call'[c] = Idle /\ \A d \in Calls : d # c => call'[d] = call[d]
    BY <2>1 DEF Grouping, ProcessTypes
  <2>4. ProcessTypes'
    BY <2>1 DEF Grouping, ProcessTypes
  <2>5. CallsWait'
    BY <2>1, <2>2, <2>3 DEF Grouping, CallsWait, Grouped
  <2>. QED BY <2>1, <2>4, <2>5 DEF Grouping, MadeMeanwhile, OneRowPerQuestion
<1>4. ASSUME NEW a \in Agents, NEW name \in Names, Read(a, name)
      PROVE  Grouping'
  <2>1. embedder' = embedder /\ hiccup' = hiccup /\ call' = call /\ centroids' = centroids
    BY <1>4 DEF Read
  <2>2. DOMAIN gaps' = DOMAIN gaps
        /\ \A h \in DOMAIN gaps : gaps'[h].question = gaps[h].question /\ gaps'[h].status = gaps[h].status
    <3>1. PICK i \in Offering(a, name) : MarkFollowed(recent[a][i].search) \/ UNCHANGED tables
      BY <1>4 DEF Read
    <3>2. recent[a][i].search \in DOMAIN searches
      BY DEF Offering, Register, PointersAreSound
    <3>3. CASE MarkFollowed(recent[a][i].search)
      BY <3>2, <3>3, MarkGap DEF GapMarked
    <3>4. CASE UNCHANGED tables
      BY <3>4 DEF tables
    <3>. QED BY <3>1, <3>3, <3>4
  <2>. QED BY <2>1, <2>2 DEF Grouping, ProcessTypes, CallsWait, MadeMeanwhile, OneRowPerQuestion
<1>5. ASSUME NEW a \in Agents, Forget(a)
      PROVE  Grouping'
  BY <1>5 DEF Forget, tables, Grouping, ProcessTypes, CallsWait, MadeMeanwhile, OneRowPerQuestion
<1>6. ASSUME NEW g \in DOMAIN gaps, NEW status \in {"closed", "dismissed"}, Resolve(g, status)
      PROVE  Grouping'
  <2>1. embedder' = embedder /\ hiccup' = hiccup /\ call' = call /\ centroids' = centroids
    BY <1>6 DEF Resolve, memory
  <2>2. DOMAIN gaps' = DOMAIN gaps
        /\ \A h \in DOMAIN gaps : gaps'[h].question = gaps[h].question
                                  /\ (gaps'[h].status = "open" => gaps[h].status = "open")
    BY <1>6, ResolveMoves
  <2>. QED BY <2>1, <2>2 DEF Grouping, ProcessTypes, CallsWait, MadeMeanwhile, OneRowPerQuestion
<1>7. CASE WarmedUp
  BY <1>7 DEF WarmedUp, tables, Grouping, ProcessTypes, CallsWait, MadeMeanwhile, OneRowPerQuestion
<1>8. CASE Restart
  <2>1. embedder' = FALSE /\ hiccup' = hiccup /\ gaps' = gaps /\ call' = [c \in Calls |-> Idle]
    BY <1>8 DEF Restart, tables
  <2>. QED BY <2>1 DEF Grouping, ProcessTypes, CallsWait, MadeMeanwhile, OneRowPerQuestion
<1>9. CASE UNCHANGED vars
  BY <1>9 DEF vars, tables, memory, Grouping, ProcessTypes, CallsWait, MadeMeanwhile, OneRowPerQuestion
<1>. QED BY <1>1, <1>2, <1>3, <1>4, <1>5, <1>6, <1>7, <1>8, <1>9 DEF Next

LEMMA GroupingInitially == Init => Grouping
<1> SUFFICES ASSUME Init PROVE Grouping
  OBVIOUS
<1>1. gaps = <<>> /\ call = [c \in Calls |-> Idle] /\ embedder = FALSE /\ hiccup = FALSE
  BY DEF Init
<1>2. DOMAIN gaps = {} /\ \A c \in Calls : call[c] = Idle
  BY <1>1
<1>. QED BY <1>1, <1>2 DEF Grouping, ProcessTypes, CallsWait, MadeMeanwhile, OneRowPerQuestion

LEMMA InvHolds == Spec => []Inv
<1>1. Init => Inv
  BY RegisterInitially, GroupingInitially DEF Inv
<1>2. Inv /\ [Next]_vars => Inv'
  BY RegisterStep, GroupingStep DEF Inv
<1>. QED BY <1>1, <1>2, PTL DEF Spec

(***************************************************************************)
(* Whatever statement is the last to succeed, whatever is read, resolved   *)
(* and restarted in between, a gap was asked at least as often as it has   *)
(* searches and read at most as often as they were followed: the work list *)
(* never has a gap lower than its record would put it for lack of a count. *)
(***************************************************************************)
THEOREM CountersSound == Spec => []CountersAreSound
<1>1. Inv => CountersAreSound
  BY DEF Inv, Register
<1>. QED BY <1>1, InvHolds, PTL

(***************************************************************************)
(* Each search the tracker offers is its agent's and unread, and it is     *)
(* offered once, however reads, expiries and restarts interleave.          *)
(***************************************************************************)
THEOREM OffersUnread == Spec => []RecentAreUnread
<1>1. Inv => RecentAreUnread
  BY DEF Inv, Register
<1>. QED BY <1>1, InvHolds, PTL

(***************************************************************************)
(* The server's memory has every open gap the file has a vector for.       *)
(***************************************************************************)
THEOREM AllSearched == Spec => []MeaningsAreSearched
<1>1. Inv => MeaningsAreSearched
  BY DEF Inv, Register
<1>. QED BY <1>1, InvHolds, PTL

(***************************************************************************)
(* Any number of calls asking one question at the same time make one open  *)
(* gap, as long as no embedding failed: what one call makes while another  *)
(* awaits its embedding is in the memory the other then looks into.        *)
(***************************************************************************)
THEOREM OneRow == Spec => []OneRowPerQuestion
<1>1. Inv => OneRowPerQuestion
  BY DEF Inv, Grouping
<1>. QED BY <1>1, InvHolds, PTL
=============================================================================
