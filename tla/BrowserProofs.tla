--------------------------- MODULE BrowserProofs ---------------------------
(***************************************************************************)
(* The theorems about what browsers hold, of DeckEdit and of ClientCache.  *)
(* Saves of whole drafts keep the layouts of all vessels in order, for any *)
(* number of editors, vessels, changes, saves and fetches. A browser shows *)
(* its user's own writes, for any number of pages, queries and mutations.  *)
(***************************************************************************)
EXTENDS DeckEdit, ClientCache, FiniteSetTheorems, SequenceTheorems,
        WellFoundedInduction, TLAPS

-----------------------------------------------------------------------------
(* The inductive invariant. A layout is in many places at once: on the     *)
(* server, in answers on their way, in caches, drafts and requests. What   *)
(* holds of each copy, and of any two of them, is what a save needs.       *)

LayoutType == [vessel : Vessel, winches : Seq(Winch), stores : SUBSET Id]

DraftType ==
  [vessel : Vessel, winches : Seq(Winch), stores : SUBSET Id,
   shown : SUBSET Id, cut : SUBSET Id]

PutType ==
  [stage : {"sent", "ok", "failed"}, n : Nat, vessel : Vessel,
   draft : DraftType, answer : LayoutType \cup {None}]

FetchType == [winches : SUBSET Winch, stores : (SUBSET Id) \cup {None}]

TypeOK ==
  /\ deck \in [Vessel -> SUBSET Winch] /\ stores \in [Vessel -> SUBSET Id]
  /\ at \in [Editor -> Vessel]
  /\ cache \in [Editor -> [Vessel -> LayoutType \cup {None}]]
  /\ fetch \in [Editor -> [Vessel -> FetchType \cup {None}]]
  /\ draft \in [Editor -> DraftType \cup {None}]
  /\ put \in [Editor -> PutType \cup {None}]
  /\ tally \in [edits : [Editor -> Nat], saves : Nat, fetches : Nat]

\* The layouts in the browsers and on their way.
Lists ==
  ({cache[e][v] : e \in Editor, v \in Vessel} \cup {draft[e] : e \in Editor}
     \cup {put[e].draft : e \in {x \in Editor : put[x] # None}}
     \cup {put[e].answer : e \in {x \in Editor : put[x] # None}}) \ {None}

\* Every set of winches, and of storage locations, that is to be found
\* anywhere, with the vessel it is of.
Decks ==
  {<<v, deck[v]>> : v \in Vessel}
    \cup {<<l.vessel, ToSet(l.winches)>> : l \in Lists}
    \cup UNION {{<<v, fetch[e][v].winches>> : v \in {x \in Vessel : fetch[e][x] # None}} :
                  e \in Editor}

Shelves ==
  {<<v, stores[v]>> : v \in Vessel}
    \cup {<<l.vessel, l.stores>> : l \in Lists}
    \cup UNION {{<<v, fetch[e][v].stores>> :
                   v \in {x \in Vessel : fetch[e][x] # None /\ fetch[e][x].stores # None}} :
                  e \in Editor}

\* Where an id is to be found.
Seen == {<<d[1], Ids(d[2])>> : d \in Decks} \cup Shelves

\* A list has each symbol once.
Listed(winches) ==
  \A i, j \in DOMAIN winches : winches[i].id[1] = winches[j].id[1] => i = j

SymbolsOnce(ids) == \A i, j \in ids : i[1] = j[1] => i = j

ListsListed == \A l \in Lists : Listed(l.winches)

DecksGood ==
  \A d \in Decks :
    /\ IsFiniteSet(d[2]) /\ NamesFollow(d[2])
    /\ \A w, x \in d[2] : w.id[1] = x.id[1] => w = x

ShelvesGood == \A s \in Shelves : SymbolsOnce(s[2])

\* A symbol is a winch or a storage location, wherever it is found.
KindsApart ==
  \A d \in Decks, s \in Shelves : \A w \in d[2], i \in s[2] : w.id[1] # i[1]

\* A row is of one vessel.
Homes ==
  \A a, b \in Seen : a[1] # b[1] => \A i \in a[2] \cap b[2] : IsTmp(i)

\* Symbols and rows are numbered in the order they were made.
Numbered ==
  \A a \in Seen : \A i \in a[2] :
    /\ IsTmp(i) => i[1][1] \in Editor
    /\ i[1][1] \in Editor => i[1][2] <= tally.edits[i[1][1]] /\ i[2] <= tally.saves

\* No row has the number of a save that has yet to reach the server.
PutsOwn ==
  \A e \in Editor : put[e] # None =>
    /\ put[e].n \in 1..tally.saves
    /\ \A x \in Editor \ {e} : put[x] # None => put[x].n # put[e].n
    /\ put[e].stage = "sent" =>
         \A a \in Seen : \A i \in a[2] : i[1][1] \in Editor => i[2] # put[e].n

\* What is on a deck has been saved, and a winch has its drum rows.
RowsThere ==
  \A v \in Vessel : /\ Ids(deck[v]) \subseteq DOMAIN rows
                    /\ \A i \in Ids(deck[v]) \cup stores[v] : ~IsTmp(i)

\* What the user was shown is in the draft, unless the user has removed it.
Accounted(d) == d.shown \subseteq Ids(ToSet(d.winches)) \cup d.stores \cup d.cut

ShownKept ==
  \A e \in Editor : /\ draft[e] # None => Accounted(draft[e])
                    /\ put[e] # None => put[e].draft # None /\ Accounted(put[e].draft)

Copies ==
  /\ ListsListed /\ DecksGood /\ ShelvesGood /\ KindsApart
  /\ Homes /\ Numbered /\ PutsOwn

IInv == TypeOK /\ Copies /\ RowsThere /\ ShownKept

-----------------------------------------------------------------------------
(* Lists and sets of winches.                                              *)

\* The winches of a list are finitely many.
LEMMA ListFinite ==
  ASSUME NEW S, NEW s \in Seq(S)
  PROVE  /\ IsFiniteSet(ToSet(s)) /\ ToSet(s) \subseteq S
         /\ DOMAIN s = 1..Len(s) /\ Len(s) \in Nat
         /\ \A i \in DOMAIN s : s[i] \in ToSet(s) /\ s[i] \in S
<1>1. DOMAIN s = 1..Len(s) /\ Len(s) \in Nat /\ \A i \in DOMAIN s : s[i] \in S
  OBVIOUS
<1>2. IsFiniteSet(1..Len(s))
  BY <1>1, FS_Interval
<1>3. s \in Surjection(1..Len(s), ToSet(s))
  BY <1>1 DEF Surjection, ToSet
<1>4. IsFiniteSet(ToSet(s))
  BY <1>2, <1>3, FS_Surjection
<1> QED
  BY <1>1, <1>4 DEF ToSet

\* A piece of a list.
LEMMA Piece ==
  ASSUME NEW S, NEW s \in Seq(S), NEW m \in Int, NEW n \in Int, m >= 1, n <= Len(s), m <= n + 1
  PROVE  /\ SubSeq(s, m, n) \in Seq(S) /\ Len(SubSeq(s, m, n)) = n - m + 1
         /\ \A i \in 1..(n - m + 1) : SubSeq(s, m, n)[i] = s[m + i - 1]
<1>1. \A j \in m..n : s[j] \in S
  OBVIOUS
<1>2. SubSeq(s, m, n) \in Seq(S)
  BY <1>1, SubSeqProperties
<1>3. Len(SubSeq(s, m, n)) = n - m + 1
  BY <1>1, SubSeqProperties
<1> QED
  BY <1>1, <1>2, <1>3, SubSeqProperties

\* Cutting out an element: what is left moves up by one.
LEMMA Removed ==
  ASSUME NEW S, NEW s \in Seq(S), NEW i \in 1..Len(s)
  PROVE  /\ RemoveAt(s, i) \in Seq(S) /\ Len(RemoveAt(s, i)) = Len(s) - 1
         /\ \A j \in 1..(Len(s) - 1) :
              RemoveAt(s, i)[j] = IF j < i THEN s[j] ELSE s[j + 1]
<1>1. Len(s) \in Nat /\ i \in Int
  OBVIOUS
<1>2. PICK a : a = SubSeq(s, 1, i - 1)
  OBVIOUS
<1>3. PICK b : b = SubSeq(s, i + 1, Len(s))
  OBVIOUS
<1>4. a \in Seq(S) /\ Len(a) = i - 1 /\ \A j \in 1..(i - 1) : a[j] = s[j]
  BY <1>1, <1>2, Piece
<1>5. b \in Seq(S) /\ Len(b) = Len(s) - i /\ \A j \in 1..(Len(s) - i) : b[j] = s[i + j]
  <2>1. /\ b \in Seq(S) /\ Len(b) = Len(s) - (i + 1) + 1
        /\ \A j \in 1..(Len(s) - (i + 1) + 1) : b[j] = s[(i + 1) + j - 1]
    BY <1>1, <1>3, Piece
  <2> QED
    BY <1>1, <2>1
<1>6. /\ a \o b \in Seq(S) /\ Len(a \o b) = Len(a) + Len(b)
      /\ \A j \in 1..(Len(a) + Len(b)) :
           (a \o b)[j] = IF j <= Len(a) THEN a[j] ELSE b[j - Len(a)]
  <2>1. a \in Seq(S) /\ b \in Seq(S)
    BY <1>4, <1>5
  <2> QED
    BY <2>1, ConcatProperties, Zenon
<1>7. RemoveAt(s, i) = a \o b
  BY <1>2, <1>3 DEF RemoveAt
<1> QED
  BY <1>1, <1>4, <1>5, <1>6, <1>7

\* Numbers have a least among them.
LEMMA Least ==
  ASSUME NEW T \in SUBSET Nat, T # {}
  PROVE  \E m \in T : \A n \in T : m <= n
<1>1. OpToRel(<, Nat) = {pair \in Nat \X Nat : pair[1] < pair[2]}
  BY DEF OpToRel
<1>2. PICK m \in T : \A n \in T : ~(<<n, m>> \in OpToRel(<, Nat))
  BY NatLessThanWellFounded, WFMin
<1>3. \A n \in T : ~(<<n, m>> \in {pair \in Nat \X Nat : pair[1] < pair[2]})
  BY <1>1, <1>2, Zenon
<1>4. ASSUME NEW n \in T  PROVE m <= n
  <2>1. m \in Nat /\ n \in Nat /\ <<n, m>> \in Nat \X Nat
    OBVIOUS
  <2>2. <<n, m>>[1] = n /\ <<n, m>>[2] = m
    OBVIOUS
  <2>3. ~(<<n, m>>[1] < <<n, m>>[2])
    BY <1>3, <2>1
  <2> QED
    BY <2>1, <2>2, <2>3
<1> QED
  BY <1>4

Sorted(list) == \A i, j \in DOMAIN list : i < j => Before(list[i], list[j])

\* A set that lists in order, but for a first winch, lists in order.
LEMMA SortedWithFirst ==
  ASSUME NEW W, W \subseteq Winch, IsFiniteSet(W), NEW m \in W,
         \A w \in W : m.label.n <= w.label.n,
         NEW f \in SetToSeqs(W \ {m}), Sorted(f)
  PROVE  \E list \in SetToSeqs(W) : Sorted(list)
<1> DEFINE n == Cardinality(W)
           g == [i \in 1..n |-> IF i = 1 THEN m ELSE f[i - 1]]
<1>1. n \in Nat /\ n >= 1 /\ Cardinality(W \ {m}) = n - 1
  BY FS_CardinalityType, FS_RemoveElement, FS_EmptySet
<1> HIDE DEF n
<1>2. /\ f \in [1..(n - 1) -> W \ {m}]
      /\ \A i, j \in 1..(n - 1) : i # j => f[i] # f[j]
  BY <1>1 DEF SetToSeqs
<1>3. DOMAIN f = 1..(n - 1)
  BY <1>2
<1>4. \A i, j \in 1..(n - 1) : i < j => f[i].label.n <= f[j].label.n
  BY <1>3 DEF Sorted, Before
<1>5. \A i \in 1..n : i # 1 => i - 1 \in 1..(n - 1)
  BY <1>1
<1>6. g \in [1..n -> W]
  BY <1>2, <1>5
<1>7. ASSUME NEW i \in 1..n, NEW j \in 1..n, i # j  PROVE g[i] # g[j]
  BY <1>1, <1>2, <1>5, <1>7
<1>8. g \in SetToSeqs(W)
  BY <1>6, <1>7 DEF SetToSeqs, n
<1>9. ASSUME NEW i \in 1..n, NEW j \in 1..n, i < j  PROVE Before(g[i], g[j])
  <2>1. j # 1 /\ j - 1 \in 1..(n - 1) /\ g[j] = f[j - 1]
    BY <1>1, <1>9
  <2>2. CASE i = 1
    BY <1>2, <2>1, <2>2 DEF Before
  <2>3. CASE i # 1
    <3>1. g[i] = f[i - 1] /\ i - 1 \in 1..(n - 1) /\ i - 1 < j - 1
      BY <1>1, <1>9, <2>3
    <3> QED
      BY <1>4, <2>1, <3>1 DEF Before
  <2> QED
    BY <2>2, <2>3
<1> HIDE DEF g
<1>10. Sorted(g)
  BY <1>6, <1>9 DEF Sorted
<1> QED
  BY <1>8, <1>10

\* Every finite set of winches lists in order: a smallest one that did not
\* would, without the first of its winches.
LEMMA SortedExists ==
  ASSUME NEW W, W \subseteq Winch, IsFiniteSet(W)
  PROVE  \E list \in SetToSeqs(W) : Sorted(list)
<1> DEFINE Bad == {U \in FiniteSubsetsOf(W) : ~ \E list \in SetToSeqs(U) : Sorted(list)}
<1>1. W \in FiniteSubsetsOf(W)
  BY DEF FiniteSubsetsOf
<1> SUFFICES ASSUME Bad # {}  PROVE FALSE
  BY <1>1
<1>2. PICK U \in Bad : \A V \in Bad : ~(<<V, U>> \in StrictSubsetOrdering(W))
  BY FS_StrictSubsetOrderingWellFounded, WFMin
<1>3. U \subseteq Winch /\ IsFiniteSet(U) /\ U \subseteq W
  BY <1>2 DEF FiniteSubsetsOf
<1>4. U # {}
  <2>1. SUFFICES ASSUME U = {}  PROVE FALSE
    OBVIOUS
  <2>2. Cardinality(U) = 0
    BY <2>1, FS_EmptySet
  <2>3. [i \in 1..0 |-> 0] \in SetToSeqs(U)
    BY <2>1, <2>2 DEF SetToSeqs
  <2>4. Sorted([i \in 1..0 |-> 0])
    BY DEF Sorted
  <2> QED
    BY <1>2, <2>3, <2>4
<1>5. PICK m \in U : \A w \in U : m.label.n <= w.label.n
  <2> DEFINE T == {w.label.n : w \in U}
  <2>0. \A w \in Winch : w.label.n \in Nat
    BY DEF Winch, Name
  <2>1. T \in SUBSET Nat /\ T # {}
    BY <1>3, <1>4, <2>0
  <2>2. PICK k \in T : \A j \in T : k <= j
    BY <2>1, Least
  <2> QED
    BY <2>2
<1>6. U \ {m} \in FiniteSubsetsOf(W) /\ <<U \ {m}, U>> \in StrictSubsetOrdering(W)
  BY <1>3, <1>5, FS_RemoveElement DEF FiniteSubsetsOf, StrictSubsetOrdering
<1>7. PICK f \in SetToSeqs(U \ {m}) : Sorted(f)
  BY <1>2, <1>6
<1> QED
  BY <1>2, <1>3, <1>5, <1>7, SortedWithFirst

\* What ORDER BY returns lists each winch once.
LEMMA OrderedLists ==
  ASSUME NEW W, W \subseteq Winch, IsFiniteSet(W)
  PROVE  /\ Ordered(W) \in Seq(Winch) /\ ToSet(Ordered(W)) = W
         /\ \A i, j \in DOMAIN Ordered(W) : i # j => Ordered(W)[i] # Ordered(W)[j]
<1> DEFINE s == Ordered(W)
           n == Cardinality(W)
<1>1. s \in SetToSeqs(W)
  BY SortedExists DEF Ordered, Sorted
<1>2. n \in Nat
  BY FS_CardinalityType
<1>3. s \in [1..n -> W] /\ \A i, j \in 1..n : i # j => s[i] # s[j]
  BY <1>1 DEF SetToSeqs
<1>4. s \in Injection(1..n, W)
  BY <1>3 DEF Injection, IsInjective
<1>5. Cardinality(1..n) = n
  BY <1>2, FS_Interval
<1>6. s \in Surjection(1..n, W)
  BY <1>4, <1>5, FS_Injection
<1>7. ToSet(s) = W
  BY <1>3, <1>6 DEF Surjection, ToSet
<1> HIDE DEF s, n
<1>8. s \in Seq(Winch) /\ DOMAIN s = 1..n
  BY <1>2, <1>3
<1> QED
  BY <1>3, <1>7, <1>8 DEF s

-----------------------------------------------------------------------------
(* Changes of a draft.                                                     *)

SamePlace(s, i) ==
  {j \in 1..i : s[j].auto /\ s[j].station = s[i].station /\ s[j].side = s[i].side}

\* A later winch of a place has a higher number.
LEMMA NumbersDiffer ==
  ASSUME NEW s \in Seq(Winch), NEW i \in DOMAIN s, NEW j \in DOMAIN s, i < j,
         s[j].auto, s[i].station = s[j].station, s[i].side = s[j].side
  PROVE  Cardinality(SamePlace(s, i)) # Cardinality(SamePlace(s, j))
<1>1. DOMAIN s = 1..Len(s) /\ Len(s) \in Nat
  OBVIOUS
<1>2. i \in Nat /\ j \in Nat
  BY <1>1
<1>3. IsFiniteSet(1..j)
  BY <1>2, FS_Interval
<1>4. IsFiniteSet(SamePlace(s, j))
  BY <1>3, FS_Subset DEF SamePlace
<1>5. SamePlace(s, i) \in SUBSET SamePlace(s, j)
  BY <1>2 DEF SamePlace
<1>6. j \in SamePlace(s, j) /\ j \notin SamePlace(s, i)
  BY <1>2 DEF SamePlace
<1> QED
  BY <1>4, <1>5, <1>6, FS_Subset

\* renumberAuto leaves every winch where and what it is, and gives those that
\* are named automatically names that follow their places.
LEMMA Renumbered ==
  ASSUME NEW s \in Seq(Winch), Listed(s)
  PROVE  /\ RenumberAuto(s) \in Seq(Winch) /\ DOMAIN RenumberAuto(s) = DOMAIN s
         /\ \A i \in DOMAIN s : RenumberAuto(s)[i].id = s[i].id
         /\ Listed(RenumberAuto(s)) /\ NamesFollow(ToSet(RenumberAuto(s)))
<1> DEFINE r == RenumberAuto(s)
           k(i) == Cardinality(SamePlace(s, i))
<1>1. DOMAIN s = 1..Len(s) /\ Len(s) \in Nat /\ \A i \in DOMAIN s : s[i] \in Winch
  OBVIOUS
<1>2. DOMAIN r = DOMAIN s
  BY DEF RenumberAuto
<1>3. \A i \in DOMAIN s :
        r[i] = IF s[i].auto THEN [s[i] EXCEPT !.label = AutoName(s[i], k(i))] ELSE s[i]
  BY DEF RenumberAuto, SamePlace
<1>4. \A i \in DOMAIN s : k(i) \in Nat
  <2> TAKE i \in DOMAIN s
  <2>1. IsFiniteSet(1..i)
    BY <1>1, FS_Interval
  <2>2. IsFiniteSet(SamePlace(s, i))
    BY <2>1, FS_Subset DEF SamePlace
  <2> QED
    BY <2>2, FS_CardinalityType
<1> HIDE DEF r, k
<1>5. ASSUME NEW i \in DOMAIN s
      PROVE  /\ r[i] \in Winch /\ r[i].id = s[i].id /\ r[i].auto = s[i].auto
             /\ r[i].station = s[i].station /\ r[i].side = s[i].side
             /\ r[i].auto => r[i].label = AutoName(r[i], k(i))
  <2>1. s[i] \in Winch /\ k(i) \in Nat
    BY <1>1, <1>4
  <2>2. AutoName(s[i], k(i)) \in Name
    BY <2>1 DEF AutoName, Winch, Name
  <2> QED
    BY <1>3, <2>1, <2>2 DEF Winch, AutoName
<1>6. r \in Seq(Winch)
  <2>1. r = [i \in 1..Len(s) |-> r[i]]
    BY <1>1, <1>2 DEF r, RenumberAuto
  <2> QED
    BY <1>1, <1>5, <2>1
<1>7. Listed(r)
  BY <1>2, <1>5 DEF Listed
<1>8. ASSUME NEW i \in DOMAIN s, NEW j \in DOMAIN s, r[i].auto, r[j].auto,
             r[i].label = r[j].label
      PROVE  i = j
  <2>1. /\ s[i].station = s[j].station /\ s[i].side = s[j].side /\ k(i) = k(j)
        /\ s[i].auto /\ s[j].auto
    <3>1. r[i].label = AutoName(r[i], k(i)) /\ r[j].label = AutoName(r[j], k(j))
      BY <1>5, <1>8
    <3>2. AutoName(r[i], k(i)) = AutoName(r[j], k(j))
      BY <1>8, <3>1
    <3>3. r[i].station = r[j].station /\ r[i].side = r[j].side /\ k(i) = k(j)
      BY <3>2 DEF AutoName
    <3>4. s[i].auto /\ s[j].auto
      BY <1>5, <1>8
    <3> QED
      BY <1>5, <3>3, <3>4
  <2>2. ~(i < j) /\ ~(j < i)
    BY <2>1, NumbersDiffer DEF k
  <2> QED
    BY <1>1, <2>2
<1>9. NamesFollow(ToSet(r))
  <2> SUFFICES ASSUME NEW w \in ToSet(r), w.auto
               PROVE  /\ w.label = AutoName(w, w.label.n)
                      /\ \A x \in ToSet(r) : x.auto /\ x.label = w.label => x = w
    BY DEF NamesFollow
  <2>1. PICK i \in DOMAIN s : w = r[i]
    BY <1>2 DEF ToSet
  <2>2. w.label = AutoName(w, k(i))
    BY <1>5, <2>1
  <2>3. w.label = AutoName(w, w.label.n)
    BY <2>2 DEF AutoName
  <2>4. ASSUME NEW x \in ToSet(r), x.auto, x.label = w.label  PROVE x = w
    <3>1. PICK j \in DOMAIN s : x = r[j]
      BY <1>2 DEF ToSet
    <3> QED
      BY <1>8, <2>1, <2>4, <3>1
  <2> QED
    BY <2>3, <2>4
<1> QED
  BY <1>2, <1>5, <1>6, <1>7, <1>9 DEF r

\* Lists with the same ids in the same order have the same ids.
LEMMA SameIds ==
  ASSUME NEW s \in Seq(Winch), NEW t \in Seq(Winch), DOMAIN t = DOMAIN s,
         \A i \in DOMAIN s : t[i].id = s[i].id
  PROVE  Ids(ToSet(t)) = Ids(ToSet(s))
BY DEF Ids, ToSet

\* A winch that is changed keeps its id.
LEMMA Patched ==
  ASSUME NEW s \in Seq(Winch), Listed(s), NEW i \in DOMAIN s,
         NEW p \in Winch, p.id = s[i].id
  PROVE  LET t == [s EXCEPT ![i] = p]
         IN  t \in Seq(Winch) /\ Listed(t) /\ Ids(ToSet(t)) = Ids(ToSet(s))
<1> DEFINE t == [s EXCEPT ![i] = p]
<1>1. t \in Seq(Winch) /\ DOMAIN t = DOMAIN s
  OBVIOUS
<1>2. \A j \in DOMAIN s : t[j] = IF j = i THEN p ELSE s[j]
  OBVIOUS
<1> HIDE DEF t
<1>3. \A j \in DOMAIN s : t[j].id = s[j].id
  BY <1>2
<1>4. Listed(t)
  BY <1>1, <1>3 DEF Listed
<1> QED
  BY <1>1, <1>3, <1>4, SameIds DEF t

\* A change of neither name nor place nor mode leaves the names as they follow.
LEMMA PatchedNames ==
  ASSUME NEW s \in Seq(Winch), NamesFollow(ToSet(s)), Listed(s), NEW i \in DOMAIN s,
         NEW p \in Winch, p.id = s[i].id, p.auto = s[i].auto, p.label = s[i].label,
         p.station = s[i].station, p.side = s[i].side
  PROVE  NamesFollow(ToSet([s EXCEPT ![i] = p]))
<1> DEFINE t == [s EXCEPT ![i] = p]
<1>1. t \in Seq(Winch) /\ DOMAIN t = DOMAIN s
  OBVIOUS
<1>2. \A j \in DOMAIN s : t[j] = IF j = i THEN p ELSE s[j]
  OBVIOUS
<1> HIDE DEF t
<1>3. \A j \in DOMAIN s :
        /\ t[j].auto = s[j].auto /\ t[j].label = s[j].label /\ t[j].id = s[j].id
        /\ t[j].station = s[j].station /\ t[j].side = s[j].side
  BY <1>2
<1> SUFFICES ASSUME NEW j \in DOMAIN s, t[j].auto
             PROVE  /\ t[j].label = AutoName(t[j], t[j].label.n)
                    /\ \A k \in DOMAIN s :
                         t[k].auto /\ t[k].label = t[j].label => t[k] = t[j]
  BY <1>1 DEF NamesFollow, ToSet, t
<1>4. s[j] \in ToSet(s) /\ s[j].auto
  BY <1>3 DEF ToSet
<1>5. t[j].label = AutoName(t[j], t[j].label.n)
  BY <1>3, <1>4 DEF NamesFollow, AutoName
<1>6. ASSUME NEW k \in DOMAIN s, t[k].auto, t[k].label = t[j].label
      PROVE  t[k] = t[j]
  <2>1. s[k] \in ToSet(s) /\ s[k].auto /\ s[k].label = s[j].label
    BY <1>3, <1>6 DEF ToSet
  <2>2. s[k] = s[j]
    BY <1>4, <2>1 DEF NamesFollow
  <2>3. k = j
    BY <2>2 DEF Listed
  <2> QED
    BY <2>3
<1> QED
  BY <1>5, <1>6

\* A winch that is added is another.
LEMMA Appended ==
  ASSUME NEW s \in Seq(Winch), Listed(s), NEW w \in Winch,
         \A i \in DOMAIN s : s[i].id[1] # w.id[1]
  PROVE  /\ Append(s, w) \in Seq(Winch) /\ Listed(Append(s, w))
         /\ Ids(ToSet(Append(s, w))) = Ids(ToSet(s)) \cup {w.id}
<1> DEFINE t == Append(s, w)
<1>1. DOMAIN s = 1..Len(s) /\ Len(s) \in Nat
  OBVIOUS
<1>2. /\ t \in Seq(Winch) /\ DOMAIN t = 1..(Len(s) + 1)
      /\ t[Len(s) + 1] = w /\ \A i \in 1..Len(s) : t[i] = s[i]
  OBVIOUS
<1> HIDE DEF t
<1>3. \A i \in DOMAIN t : i \in DOMAIN s \/ i = Len(s) + 1
  BY <1>1, <1>2
<1>4. Listed(t)
  BY <1>1, <1>2, <1>3 DEF Listed
<1>5. ToSet(t) = ToSet(s) \cup {w}
  BY <1>1, <1>2, <1>3 DEF ToSet
<1>6. Ids(ToSet(t)) = Ids(ToSet(s)) \cup {w.id}
  BY <1>5 DEF Ids
<1> QED
  BY <1>2, <1>4, <1>6 DEF t

\* Filtering by an id takes that winch, if it is there, and no other.
LEMMA Filtered ==
  ASSUME NEW s \in Seq(Winch), Listed(s), NEW id
  PROVE  /\ Without(s, id) \in Seq(Winch) /\ Listed(Without(s, id))
         /\ Ids(ToSet(Without(s, id))) = Ids(ToSet(s)) \ {id}
<1>1. CASE id \notin Ids(ToSet(s))
  BY <1>1 DEF Without
<1>2. CASE id \in Ids(ToSet(s))
  <2> DEFINE k == CHOOSE i \in DOMAIN s : s[i].id = id
             t == Without(s, id)
  <2>1. k \in DOMAIN s /\ s[k].id = id
    BY <1>2 DEF Ids, ToSet
  <2> HIDE DEF k
  <2>2. t = RemoveAt(s, k)
    BY <1>2 DEF Without, k
  <2>3. DOMAIN s = 1..Len(s) /\ Len(s) \in Nat
    OBVIOUS
  <2>4. /\ t \in Seq(Winch) /\ Len(t) = Len(s) - 1
        /\ \A j \in 1..(Len(s) - 1) : t[j] = IF j < k THEN s[j] ELSE s[j + 1]
    BY <2>1, <2>2, <2>3, Removed
  <2> HIDE DEF t
  <2>5. DOMAIN t = 1..(Len(s) - 1)
    BY <2>4
  <2> DEFINE at0(j) == IF j < k THEN j ELSE j + 1
  <2>6. \A j \in DOMAIN t : at0(j) \in DOMAIN s /\ at0(j) # k /\ t[j] = s[at0(j)]
    BY <2>1, <2>3, <2>4, <2>5
  <2>7. \A i, j \in DOMAIN t : at0(i) = at0(j) => i = j
    BY <2>1, <2>3, <2>5
  <2>8. \A i \in DOMAIN s : i # k => \E j \in DOMAIN t : at0(j) = i
    <3> TAKE i \in DOMAIN s
    <3>1. CASE i < k
      BY <2>1, <2>3, <2>5, <3>1
    <3>2. CASE i > k
      <4>1. i - 1 \in DOMAIN t /\ at0(i - 1) = i
        BY <2>1, <2>3, <2>5, <3>2
      <4> QED
        BY <4>1
    <3> QED
      BY <2>1, <2>3, <3>1, <3>2
  <2> HIDE DEF at0
  <2>9. Listed(t)
    BY <2>6, <2>7 DEF Listed
  <2>10. Ids(ToSet(t)) = Ids(ToSet(s)) \ {id}
    <3>1. \A j \in DOMAIN t : t[j].id \in Ids(ToSet(s)) \ {id}
      BY <2>1, <2>6 DEF Ids, ToSet, Listed
    <3>2. \A i \in DOMAIN s : s[i].id # id => \E j \in DOMAIN t : t[j].id = s[i].id
      BY <2>1, <2>6, <2>8
    <3> QED
      BY <3>1, <3>2 DEF Ids, ToSet
  <2> QED
    BY <2>4, <2>9, <2>10 DEF t
<1> QED
  BY <1>1, <1>2

\* What a layout contains is to be found.
LEMMA ListFound ==
  ASSUME NEW l \in Lists
  PROVE  /\ <<l.vessel, ToSet(l.winches)>> \in Decks /\ <<l.vessel, l.stores>> \in Shelves
         /\ <<l.vessel, Ids(ToSet(l.winches))>> \in Seen /\ <<l.vessel, l.stores>> \in Seen
<1>1. <<l.vessel, ToSet(l.winches)>> \in Decks
  BY DEF Decks
<1>2. <<l.vessel, l.stores>> \in Shelves
  BY DEF Shelves
<1>3. <<l.vessel, Ids(ToSet(l.winches))>> \in Seen
  BY <1>1 DEF Seen
<1> QED
  BY <1>1, <1>2, <1>3 DEF Seen

\* What holds of an open draft; a symbol that its user adds is new.
LEMMA DraftFacts ==
  ASSUME IInv, NEW e \in Editor, draft[e] # None
  PROVE  LET d == draft[e]
         IN  /\ d \in DraftType /\ d \in Lists
             /\ Listed(d.winches) /\ NamesFollow(ToSet(d.winches)) /\ Accounted(d)
             /\ NewId(e) \in Id
             /\ \A i \in Ids(ToSet(d.winches)) \cup d.stores : i[1] # NewId(e)[1]
<1> DEFINE d == draft[e]
<1>1. d \in DraftType /\ tally.edits[e] \in Nat
  BY DEF IInv, TypeOK
<1>2. d \in Lists
  BY DEF Lists
<1>3. Listed(d.winches) /\ Accounted(d)
  BY <1>2 DEF IInv, Copies, ListsListed, ShownKept
<1>4. NamesFollow(ToSet(d.winches))
  BY <1>2, ListFound DEF IInv, Copies, DecksGood
<1>5. NewId(e) \in Id /\ NewId(e)[1] = <<e, tally.edits[e] + 1>>
  BY <1>1 DEF NewId, Id
<1>6. ASSUME NEW a \in Seen, NEW i \in a[2], i[1] = NewId(e)[1]  PROVE FALSE
  <2>1. i[1][1] = e /\ i[1][2] = tally.edits[e] + 1
    BY <1>5, <1>6
  <2>2. i[1][2] <= tally.edits[e]
    BY <2>1 DEF IInv, Copies, Numbered
  <2> QED
    BY <1>1, <2>1, <2>2
<1>7. \A i \in Ids(ToSet(d.winches)) \cup d.stores : i[1] # NewId(e)[1]
  <2>1. /\ <<d.vessel, Ids(ToSet(d.winches))>> \in Seen /\ <<d.vessel, d.stores>> \in Seen
    BY <1>2, ListFound
  <2> QED
    BY <1>6, <2>1
<1> QED
  BY <1>1, <1>2, <1>3, <1>4, <1>5, <1>7

\* A draft that a user has changed into d.
EditedTo(e, d) ==
  /\ d \in DraftType /\ d.vessel = draft[e].vessel
  /\ Listed(d.winches) /\ NamesFollow(ToSet(d.winches)) /\ Accounted(d)
  /\ \/ /\ Ids(ToSet(d.winches)) \subseteq Ids(ToSet(draft[e].winches)) \cup {NewId(e)}
        /\ d.stores \subseteq draft[e].stores
     \/ /\ Ids(ToSet(d.winches)) \subseteq Ids(ToSet(draft[e].winches))
        /\ d.stores \subseteq draft[e].stores \cup {NewId(e)}

\* A change of one winch.
LEMMA UpdateEdits ==
  ASSUME IInv, NEW e \in Editor, draft[e] # None, NEW i \in DOMAIN draft[e].winches,
         NEW p \in Winch, p.id = draft[e].winches[i].id, NEW renumber \in BOOLEAN,
         ~renumber => /\ p.auto = draft[e].winches[i].auto
                      /\ p.label = draft[e].winches[i].label
                      /\ p.station = draft[e].winches[i].station
                      /\ p.side = draft[e].winches[i].side,
         UpdateWinch(e, i, p, renumber)
  PROVE  \E d : EditedTo(e, d) /\ SetDraft(e, d)
<1> DEFINE s == draft[e].winches
           t == [s EXCEPT ![i] = p]
           u == IF renumber THEN RenumberAuto(t) ELSE t
           d == [draft[e] EXCEPT !.winches = u]
<1>1. draft[e] \in DraftType /\ s \in Seq(Winch) /\ Listed(s) /\ NamesFollow(ToSet(s))
      /\ Accounted(draft[e])
  BY DraftFacts DEF DraftType
<1>2. t \in Seq(Winch) /\ Listed(t) /\ Ids(ToSet(t)) = Ids(ToSet(s))
  BY <1>1, Patched
<1>3. ~renumber => NamesFollow(ToSet(t))
  BY <1>1, PatchedNames
<1>4. SetDraft(e, d)
  BY DEF UpdateWinch
<1> HIDE DEF t
<1>5. u \in Seq(Winch) /\ Listed(u) /\ Ids(ToSet(u)) = Ids(ToSet(s)) /\ NamesFollow(ToSet(u))
  <2>1. CASE renumber
    <3>1. /\ RenumberAuto(t) \in Seq(Winch) /\ DOMAIN RenumberAuto(t) = DOMAIN t
          /\ \A j \in DOMAIN t : RenumberAuto(t)[j].id = t[j].id
          /\ Listed(RenumberAuto(t)) /\ NamesFollow(ToSet(RenumberAuto(t)))
      BY <1>2, Renumbered
    <3>2. Ids(ToSet(RenumberAuto(t))) = Ids(ToSet(t))
      BY <1>2, <3>1, SameIds
    <3> QED
      BY <1>2, <2>1, <3>1, <3>2
  <2>2. CASE ~renumber
    BY <1>2, <1>3, <2>2
  <2> QED
    BY <2>1, <2>2
<1> HIDE DEF u
<1>6. /\ d \in DraftType /\ d.vessel = draft[e].vessel /\ d.winches = u
      /\ d.stores = draft[e].stores /\ d.shown = draft[e].shown /\ d.cut = draft[e].cut
  BY <1>1, <1>5 DEF DraftType
<1> HIDE DEF d
<1>7. EditedTo(e, d)
  BY <1>1, <1>5, <1>6 DEF EditedTo, Accounted
<1> QED
  BY <1>4, <1>7

\* The controls of a winch.
LEMMA WinchEdits ==
  ASSUME IInv, NEW e \in Editor, draft[e] # None, NEW i \in DOMAIN draft[e].winches,
         EditWinch(e, i)
  PROVE  \E d : EditedTo(e, d) /\ SetDraft(e, d)
<1> DEFINE w == draft[e].winches[i]
<1>1. w \in Winch
  BY DraftFacts, ListFinite DEF DraftType
<1>2. ASSUME NEW side \in Side, Drag(e, i, side)
      PROVE  \E d : EditedTo(e, d) /\ SetDraft(e, d)
  <2>1. [w EXCEPT !.side = side] \in Winch /\ [w EXCEPT !.side = side].id = w.id
    BY <1>1 DEF Winch
  <2> QED
    BY <1>2, <2>1, UpdateEdits DEF Drag
<1>3. ASSUME NEW station \in Station, SetStation(e, i, station)
      PROVE  \E d : EditedTo(e, d) /\ SetDraft(e, d)
  <2>1. [w EXCEPT !.station = station] \in Winch /\ [w EXCEPT !.station = station].id = w.id
    BY <1>1 DEF Winch
  <2> QED
    BY <1>3, <2>1, UpdateEdits DEF SetStation
<1>4. CASE Rename(e, i)
  <2>1. Typed \in Name
    BY DEF Typed, Name
  <2>2. [w EXCEPT !.label = Typed, !.auto = FALSE] \in Winch
        /\ [w EXCEPT !.label = Typed, !.auto = FALSE].id = w.id
    BY <1>1, <2>1 DEF Winch
  <2> QED
    BY <1>4, <2>2, UpdateEdits DEF Rename
<1>5. CASE UseAuto(e, i)
  <2>1. [w EXCEPT !.auto = TRUE] \in Winch /\ [w EXCEPT !.auto = TRUE].id = w.id
    BY <1>1 DEF Winch
  <2> QED
    BY <1>5, <2>1, UpdateEdits DEF UseAuto
<1>6. ASSUME NEW n \in {-1, 1}, StepDrums(e, i, n)
      PROVE  \E d : EditedTo(e, d) /\ SetDraft(e, d)
  <2> DEFINE p == [w EXCEPT !.count = @ + n]
  <2>1. w.count + n \in Nat
    BY <1>1, <1>6, DeckAssumption DEF StepDrums, Winch
  <2>2. /\ p \in Winch /\ p.id = w.id /\ p.auto = w.auto /\ p.label = w.label
        /\ p.station = w.station /\ p.side = w.side
    BY <1>1, <2>1 DEF Winch
  <2> QED
    BY <1>6, <2>2, UpdateEdits DEF StepDrums
<1> QED
  BY <1>2, <1>3, <1>4, <1>5, <1>6 DEF EditWinch

\* Every change a user makes.
LEMMA UserEdits ==
  ASSUME IInv, NEW e \in Editor, Edit(e)
  PROVE  draft[e] # None /\ \E d : EditedTo(e, d) /\ SetDraft(e, d)
<1>0. draft[e] # None
  BY DEF Edit, AddWinch, AddStorage
<1> DEFINE s == draft[e].winches
<1>1. /\ draft[e] \in DraftType /\ s \in Seq(Winch) /\ Listed(s) /\ NamesFollow(ToSet(s))
      /\ Accounted(draft[e]) /\ NewId(e) \in Id
      /\ \A i \in Ids(ToSet(s)) \cup draft[e].stores : i[1] # NewId(e)[1]
  BY <1>0, DraftFacts DEF DraftType
<1>2. ASSUME NEW station \in Station, AddWinch(e, station)
      PROVE  \E d : EditedTo(e, d) /\ SetDraft(e, d)
  <2> DEFINE w == [id |-> NewId(e), station |-> station, side |-> "C", auto |-> TRUE,
                   label |-> Typed, count |-> IF MaxDrums < 2 THEN MaxDrums ELSE 2]
             t == Append(s, w)
             d == [draft[e] EXCEPT !.winches = RenumberAuto(t)]
  <2>1. w \in Winch /\ w.id = NewId(e)
    <3>1. Typed \in Name
      BY DEF Typed, Name
    <3> QED
      BY <1>1, <3>1, DeckAssumption DEF Winch, Side
  <2>2. SetDraft(e, d)
    BY <1>2 DEF AddWinch
  <2> HIDE DEF w
  <2>3. \A i \in DOMAIN s : s[i].id[1] # w.id[1]
    BY <1>1, <2>1 DEF Ids, ToSet
  <2>4. t \in Seq(Winch) /\ Listed(t) /\ Ids(ToSet(t)) = Ids(ToSet(s)) \cup {NewId(e)}
    BY <1>1, <2>1, <2>3, Appended
  <2> HIDE DEF t
  <2>5. /\ RenumberAuto(t) \in Seq(Winch) /\ DOMAIN RenumberAuto(t) = DOMAIN t
        /\ \A j \in DOMAIN t : RenumberAuto(t)[j].id = t[j].id
        /\ Listed(RenumberAuto(t)) /\ NamesFollow(ToSet(RenumberAuto(t)))
    BY <2>4, Renumbered
  <2>6. Ids(ToSet(RenumberAuto(t))) = Ids(ToSet(t))
    BY <2>4, <2>5, SameIds
  <2>7. /\ d \in DraftType /\ d.vessel = draft[e].vessel /\ d.winches = RenumberAuto(t)
        /\ d.stores = draft[e].stores /\ d.shown = draft[e].shown /\ d.cut = draft[e].cut
    BY <1>1, <2>5 DEF DraftType
  <2> HIDE DEF d
  <2>8. EditedTo(e, d)
    BY <1>1, <2>4, <2>5, <2>6, <2>7 DEF EditedTo, Accounted
  <2> QED
    BY <2>2, <2>8
<1>3. CASE AddStorage(e)
  <2> DEFINE d == [draft[e] EXCEPT !.stores = @ \cup {NewId(e)}]
  <2>1. SetDraft(e, d)
    BY <1>3 DEF AddStorage
  <2>2. /\ d \in DraftType /\ d.vessel = draft[e].vessel /\ d.winches = s
        /\ d.stores = draft[e].stores \cup {NewId(e)}
        /\ d.shown = draft[e].shown /\ d.cut = draft[e].cut
    BY <1>1 DEF DraftType
  <2> HIDE DEF d
  <2>3. EditedTo(e, d)
    BY <1>1, <2>2 DEF EditedTo, Accounted
  <2> QED
    BY <1>0, <2>1, <2>3
<1>4. ASSUME NEW id \in Ids(ToSet(s)) \cup draft[e].stores, RemoveSel(e, id)
      PROVE  \E d : EditedTo(e, d) /\ SetDraft(e, d)
  <2> DEFINE t == Without(s, id)
             d == [draft[e] EXCEPT !.winches = RenumberAuto(Without(@, id)),
                                   !.stores = @ \ {id}, !.cut = @ \cup {id}]
  <2>1. SetDraft(e, d)
    BY <1>4 DEF RemoveSel
  <2>2. t \in Seq(Winch) /\ Listed(t) /\ Ids(ToSet(t)) = Ids(ToSet(s)) \ {id}
    BY <1>1, Filtered
  <2>3. id \in Id
    <3>1. \A w \in ToSet(s) : w \in Winch
      BY <1>1, ListFinite
    <3> QED
      BY <1>1, <3>1 DEF Ids, Winch, DraftType
  <2>4. /\ RenumberAuto(t) \in Seq(Winch) /\ DOMAIN RenumberAuto(t) = DOMAIN t
        /\ \A j \in DOMAIN t : RenumberAuto(t)[j].id = t[j].id
        /\ Listed(RenumberAuto(t)) /\ NamesFollow(ToSet(RenumberAuto(t)))
    BY <2>2, Renumbered
  <2>5. Ids(ToSet(RenumberAuto(t))) = Ids(ToSet(t))
    BY <2>2, <2>4, SameIds
  <2>6. /\ d.vessel = draft[e].vessel /\ d.winches = RenumberAuto(t)
        /\ d.stores = draft[e].stores \ {id} /\ d.shown = draft[e].shown
        /\ d.cut = draft[e].cut \cup {id}
    BY <1>1 DEF DraftType
  <2>7. d \in DraftType
    BY <1>1, <2>3, <2>4 DEF DraftType
  <2> HIDE DEF d, t
  <2>8. EditedTo(e, d)
    BY <1>1, <2>2, <2>4, <2>5, <2>6, <2>7 DEF EditedTo, Accounted
  <2> QED
    BY <2>1, <2>8
<1>5. ASSUME NEW i \in DOMAIN s, EditWinch(e, i)
      PROVE  \E d : EditedTo(e, d) /\ SetDraft(e, d)
  BY <1>0, <1>5, WinchEdits
<1> QED
  BY <1>0, <1>2, <1>3, <1>4, <1>5 DEF Edit

-----------------------------------------------------------------------------
(* Steps that only carry copies from place to place.                       *)

\* Where a list may be, now and next.
LEMMA ListsAre ==
  /\ \A l : l \in Lists <=>
       /\ l # None
       /\ \/ \E e \in Editor, v \in Vessel : l = cache[e][v]
          \/ \E e \in Editor : l = draft[e]
          \/ \E e \in Editor : put[e] # None /\ (l = put[e].draft \/ l = put[e].answer)
  /\ \A l : l \in Lists' <=>
       /\ l # None
       /\ \/ \E e \in Editor, v \in Vessel : l = cache'[e][v]
          \/ \E e \in Editor : l = draft'[e]
          \/ \E e \in Editor : put'[e] # None /\ (l = put'[e].draft \/ l = put'[e].answer)
BY DEF Lists

\* Where a set of winches may be, or of storage locations.
LEMMA DecksAre ==
  /\ \A d : d \in Decks <=>
       \/ \E v \in Vessel : d = <<v, deck[v]>>
       \/ \E l \in Lists : d = <<l.vessel, ToSet(l.winches)>>
       \/ \E e \in Editor, v \in Vessel : fetch[e][v] # None /\ d = <<v, fetch[e][v].winches>>
  /\ \A d : d \in Decks' <=>
       \/ \E v \in Vessel : d = <<v, deck'[v]>>
       \/ \E l \in Lists' : d = <<l.vessel, ToSet(l.winches)>>
       \/ \E e \in Editor, v \in Vessel :
            fetch'[e][v] # None /\ d = <<v, fetch'[e][v].winches>>
BY DEF Decks

LEMMA ShelvesAre ==
  /\ \A s : s \in Shelves <=>
       \/ \E v \in Vessel : s = <<v, stores[v]>>
       \/ \E l \in Lists : s = <<l.vessel, l.stores>>
       \/ \E e \in Editor, v \in Vessel :
            fetch[e][v] # None /\ fetch[e][v].stores # None /\ s = <<v, fetch[e][v].stores>>
  /\ \A s : s \in Shelves' <=>
       \/ \E v \in Vessel : s = <<v, stores'[v]>>
       \/ \E l \in Lists' : s = <<l.vessel, l.stores>>
       \/ \E e \in Editor, v \in Vessel :
            fetch'[e][v] # None /\ fetch'[e][v].stores # None /\ s = <<v, fetch'[e][v].stores>>
BY DEF Shelves

\* What every list is.
LEMMA ListTypes ==
  ASSUME TypeOK, NEW l \in Lists
  PROVE  l.vessel \in Vessel /\ l.winches \in Seq(Winch) /\ l.stores \in SUBSET Id
BY ListsAre DEF TypeOK, LayoutType, DraftType, PutType

\* What a fetch has read is to be found.
LEMMA FetchFound ==
  ASSUME NEW e \in Editor, NEW v \in Vessel, fetch[e][v] # None
  PROVE  /\ <<v, fetch[e][v].winches>> \in Decks
         /\ fetch[e][v].stores # None => <<v, fetch[e][v].stores>> \in Shelves
BY DEF Decks, Shelves

\* k is a copy of l.
Same(k, l) == k.vessel = l.vessel /\ k.winches = l.winches /\ k.stores = l.stores

\* No copy is changed, and none that is new.
Carried ==
  /\ TypeOK' /\ ListsListed' /\ ShownKept' /\ RowsThere'
  /\ Decks' \subseteq Decks /\ Shelves' \subseteq Shelves

\* Lists that are copied stay what they are.
LEMMA CopiesCarried ==
  ASSUME IInv, UNCHANGED <<deck, stores, fetch>>,
         \A l \in Lists' : \E k \in Lists : Same(l, k)
  PROVE  ListsListed' /\ Decks' \subseteq Decks /\ Shelves' \subseteq Shelves
<1>1. ListsListed'
  <2> SUFFICES ASSUME NEW l \in Lists'  PROVE Listed(l.winches)
    BY DEF ListsListed
  <2>1. PICK k \in Lists : Same(l, k)
    OBVIOUS
  <2> QED
    BY <2>1 DEF IInv, Copies, ListsListed, Same
<1>2. \A l \in Lists' : /\ <<l.vessel, ToSet(l.winches)>> \in Decks
                        /\ <<l.vessel, l.stores>> \in Shelves
  <2> TAKE l \in Lists'
  <2>1. PICK k \in Lists : Same(l, k)
    OBVIOUS
  <2> QED
    BY <2>1, ListFound DEF Same
<1>3. Decks' \subseteq Decks
  BY <1>2, DecksAre, Zenon
<1>4. Shelves' \subseteq Shelves
  BY <1>2, ShelvesAre, Zenon
<1> QED
  BY <1>1, <1>3, <1>4

\* Entering, cancelling and resetting.
LEMMA DraftCarried ==
  ASSUME IInv, NEW e \in Editor, EnterEdit(e) \/ CancelEdit(e) \/ ResetEdit(e)
  PROVE  Carried
<1> DEFINE l == cache[e][at[e]]
<1>1. UNCHANGED <<server, at, cache, fetch, put, tally>>
  BY DEF EnterEdit, CancelEdit, ResetEdit
<1>2. CASE CancelEdit(e)
  <2>1. draft' = [draft EXCEPT ![e] = None]
    BY <1>2 DEF CancelEdit
  <2>2. TypeOK'
    BY <1>1, <2>1 DEF IInv, TypeOK, server
  <2>3. Lists' \subseteq Lists
    BY <1>1, <2>1, ListsAre DEF IInv, TypeOK
  <2>4. ShownKept'
    BY <1>1, <2>1 DEF IInv, TypeOK, ShownKept
  <2>5. RowsThere'
    BY <1>1 DEF IInv, RowsThere, server
  <2>6. \A k \in Lists' : \E m \in Lists : Same(k, m)
    BY <2>3 DEF Same
  <2> QED
    BY <1>1, <2>2, <2>4, <2>5, <2>6, CopiesCarried DEF Carried, server
<1>3. CASE EnterEdit(e) \/ ResetEdit(e)
  <2>1. l # None /\ draft' = [draft EXCEPT ![e] = Clone(l)]
    BY <1>3 DEF EnterEdit, ResetEdit
  <2>2. l \in LayoutType /\ at[e] \in Vessel
    BY <2>1 DEF IInv, TypeOK
  <2>3. l \in Lists
    BY <2>1, <2>2, ListsAre
  <2>4. Clone(l) \in DraftType /\ Same(Clone(l), l) /\ Accounted(Clone(l))
    <3>1. \A w \in ToSet(l.winches) : w.id \in Id
      <4>1. l.winches \in Seq(Winch)
        BY <2>2 DEF LayoutType
      <4>2. ToSet(l.winches) \subseteq Winch
        BY <4>1, ListFinite
      <4> QED
        BY <4>2 DEF Winch
    <3>2. Ids(ToSet(l.winches)) \subseteq Id
      BY <3>1 DEF Ids
    <3> QED
      BY <2>2, <3>2 DEF Clone, DraftType, LayoutType, Same, Accounted
  <2>5. TypeOK'
    BY <1>1, <2>1, <2>4 DEF IInv, TypeOK, server
  <2>6. ASSUME NEW k \in Lists'  PROVE \E m \in Lists : Same(k, m)
    <3>1. k \in Lists \/ k = Clone(l)
      BY <1>1, <2>1, ListsAre DEF IInv, TypeOK
    <3> QED
      BY <2>3, <2>4, <3>1 DEF Same
  <2>7. ShownKept'
    BY <1>1, <2>1, <2>4 DEF IInv, TypeOK, ShownKept
  <2>8. RowsThere'
    BY <1>1 DEF IInv, RowsThere, server
  <2> QED
    BY <1>1, <2>5, <2>6, <2>7, <2>8, CopiesCarried DEF Carried, server
<1> QED
  BY <1>2, <1>3

\* A save on its way, and what follows its answer.
LEMMA PutCarried ==
  ASSUME IInv, NEW e \in Editor, Save(e) \/ SaveFails(e) \/ SaveSucceeds(e) \/ SaveErrors(e)
  PROVE  Carried
<1>1. UNCHANGED <<server, at, fetch>>
  BY DEF Save, SaveFails, SaveSucceeds, SaveErrors
<1>2. RowsThere'
  BY <1>1 DEF IInv, RowsThere, server
<1> SUFFICES /\ TypeOK' /\ ShownKept'
             /\ \A k \in Lists' : \E m \in Lists : Same(k, m)
  BY <1>1, <1>2, CopiesCarried DEF Carried, server
<1>3. CASE Save(e)
  <2>1. /\ draft[e] # None /\ UNCHANGED <<cache, draft>> /\ tally' = [tally EXCEPT !.saves = @ + 1]
        /\ put' = [put EXCEPT ![e] =
                     [stage |-> "sent", n |-> tally.saves + 1, vessel |-> at[e],
                      draft |-> draft[e], answer |-> None]]
    BY <1>3 DEF Save, Count, Body
  <2>2. draft[e] \in DraftType /\ at[e] \in Vessel /\ tally.saves \in Nat
    BY <2>1 DEF IInv, TypeOK
  <2>3. put'[e] \in PutType /\ put'[e].draft = draft[e] /\ put'[e].answer = None
    BY <2>1, <2>2 DEF IInv, TypeOK, PutType
  <2>4. TypeOK'
    <3>1. tally' \in [edits : [Editor -> Nat], saves : Nat, fetches : Nat]
      <4>1. tally \in [edits : [Editor -> Nat], saves : Nat, fetches : Nat]
        BY DEF IInv, TypeOK
      <4> QED
        BY <2>1, <4>1
    <3>2. put' \in [Editor -> PutType \cup {None}]
      BY <2>1, <2>3 DEF IInv, TypeOK
    <3> QED
      BY <1>1, <2>1, <3>1, <3>2 DEF IInv, TypeOK, server
  <2>5. \A x \in Editor \ {e} : put'[x] = put[x]
    BY <2>1 DEF IInv, TypeOK
  <2>6. Lists' \subseteq Lists
    BY <2>1, <2>3, <2>5, ListsAre
  <2>7. ShownKept'
    BY <2>1, <2>3, <2>5 DEF IInv, ShownKept
  <2> QED
    BY <2>4, <2>6, <2>7 DEF Same
<1>4. CASE SaveFails(e)
  <2>1. /\ put[e] # None /\ UNCHANGED <<cache, draft, tally>>
        /\ put' = [put EXCEPT ![e] = [@ EXCEPT !.stage = "failed", !.answer = None]]
    BY <1>4 DEF SaveFails, Answered
  <2>2. put'[e] \in PutType /\ put'[e].draft = put[e].draft /\ put'[e].answer = None
    BY <2>1 DEF IInv, TypeOK, PutType
  <2>3. TypeOK'
    BY <1>1, <2>1, <2>2 DEF IInv, TypeOK, server
  <2>4. \A x \in Editor \ {e} : put'[x] = put[x]
    BY <2>1 DEF IInv, TypeOK
  <2>5. Lists' \subseteq Lists
    BY <2>1, <2>2, <2>4, ListsAre
  <2>6. ShownKept'
    BY <2>1, <2>2, <2>4 DEF IInv, ShownKept
  <2> QED
    BY <2>3, <2>5, <2>6 DEF Same
<1>5. CASE SaveErrors(e)
  <2>1. UNCHANGED <<cache, draft, tally>> /\ put' = [put EXCEPT ![e] = None]
    BY <1>5 DEF SaveErrors
  <2>2. TypeOK'
    BY <1>1, <2>1 DEF IInv, TypeOK, server
  <2>3. put'[e] = None /\ \A x \in Editor \ {e} : put'[x] = put[x]
    BY <2>1 DEF IInv, TypeOK
  <2>4. Lists' \subseteq Lists
    BY <2>1, <2>3, ListsAre
  <2>5. ShownKept'
    BY <2>1, <2>3 DEF IInv, ShownKept
  <2> QED
    BY <2>2, <2>4, <2>5 DEF Same
<1>6. CASE SaveSucceeds(e)
  <2>1. /\ put[e] # None /\ UNCHANGED tally /\ put' = [put EXCEPT ![e] = None]
        /\ cache' = [cache EXCEPT ![e][at[e]] = put[e].answer]
        /\ draft' = [draft EXCEPT ![e] = None]
    BY <1>6 DEF SaveSucceeds
  <2>2. put[e].answer \in LayoutType \cup {None} /\ at[e] \in Vessel
    BY <2>1 DEF IInv, TypeOK, PutType
  <2>3. cache' \in [Editor -> [Vessel -> LayoutType \cup {None}]]
    BY <2>1, <2>2 DEF IInv, TypeOK
  <2>4. TypeOK'
    BY <1>1, <2>1, <2>3 DEF IInv, TypeOK, server
  <2>5. /\ put'[e] = None /\ \A x \in Editor \ {e} : put'[x] = put[x]
        /\ draft'[e] = None /\ \A x \in Editor \ {e} : draft'[x] = draft[x]
        /\ \A x \in Editor, v \in Vessel :
             cache'[x][v] = cache[x][v] \/ cache'[x][v] = put[e].answer
    BY <2>1, <2>2 DEF IInv, TypeOK
  <2>6. Lists' \subseteq Lists
    BY <2>1, <2>5, ListsAre
  <2>7. ShownKept'
    BY <2>5 DEF IInv, ShownKept
  <2> QED
    BY <2>4, <2>6, <2>7 DEF Same
<1> QED
  BY <1>3, <1>4, <1>5, <1>6

\* A layout as GetLayout returns it, of winches that are each there once.
LEMMA LayoutLists ==
  ASSUME NEW v \in Vessel, NEW W \in SUBSET Winch, NEW S \in SUBSET Id, IsFiniteSet(W),
         \A w, x \in W : w.id[1] = x.id[1] => w = x
  PROVE  LET l == Layout(v, W, S)
         IN  /\ l \in LayoutType /\ l.vessel = v /\ l.stores = S
             /\ ToSet(l.winches) = W /\ Listed(l.winches)
<1> DEFINE s == Ordered(W)
<1>1. /\ s \in Seq(Winch) /\ ToSet(s) = W
      /\ \A i, j \in DOMAIN s : i # j => s[i] # s[j]
  BY OrderedLists
<1> HIDE DEF s
<1>2. \A i \in DOMAIN s : s[i] \in W
  BY <1>1 DEF ToSet
<1>3. Listed(s)
  BY <1>1, <1>2 DEF Listed
<1>4. Layout(v, W, S) = [vessel |-> v, winches |-> s, stores |-> S]
  BY DEF Layout, s
<1> QED
  BY <1>1, <1>3, <1>4 DEF LayoutType

\* Fetches and switching vessels.
LEMMA FetchCarried ==
  ASSUME IInv, NEW e \in Editor, NEW v \in Vessel,
         FetchWinches(e) \/ SwitchVessel(e, v) \/ FetchStores(e, v) \/ FetchArrives(e, v)
  PROVE  Carried
<1>1. UNCHANGED <<server, draft, put>>
  BY DEF FetchWinches, SwitchVessel, FetchStores, FetchArrives
<1>2. RowsThere' /\ ShownKept'
  BY <1>1 DEF IInv, RowsThere, ShownKept, server
<1>3. UNCHANGED <<deck, stores>>
  BY <1>1 DEF server
<1>4. CASE SwitchVessel(e, v)
  <2>1. UNCHANGED <<cache, fetch, tally>> /\ at' = [at EXCEPT ![e] = v]
    BY <1>4 DEF SwitchVessel
  <2>2. TypeOK'
    BY <1>1, <1>3, <2>1 DEF IInv, TypeOK
  <2>3. Lists' = Lists
    BY <1>1, <2>1 DEF Lists
  <2>4. \A l \in Lists' : \E k \in Lists : Same(l, k)
    BY <2>3 DEF Same
  <2> QED
    BY <1>2, <1>3, <2>1, <2>2, <2>4, CopiesCarried DEF Carried
<1>5. ASSUME UNCHANGED <<cache, at>>,
             NEW u \in Vessel, NEW f \in FetchType,
             fetch' = [fetch EXCEPT ![e][u] = f],
             tally' \in [edits : [Editor -> Nat], saves : Nat, fetches : Nat],
             <<u, f.winches>> \in Decks,
             f.stores # None => <<u, f.stores>> \in Shelves
      PROVE  Carried
  <2>1. fetch' \in [Editor -> [Vessel -> FetchType \cup {None}]]
    BY <1>5 DEF IInv, TypeOK
  <2>2. TypeOK'
    BY <1>1, <1>3, <1>5, <2>1 DEF IInv, TypeOK
  <2>3. Lists' = Lists
    BY <1>1, <1>5 DEF Lists
  <2>4. \A x \in Editor, w \in Vessel :
          fetch'[x][w] = fetch[x][w] \/ (w = u /\ fetch'[x][w] = f)
    BY <1>5 DEF IInv, TypeOK
  <2>5. ListsListed'
    BY <2>3 DEF IInv, Copies, ListsListed
  <2>6. Decks' \subseteq Decks
    <3> SUFFICES ASSUME NEW d \in Decks'  PROVE d \in Decks
      OBVIOUS
    <3> QED
      BY <1>3, <1>5, <2>3, <2>4, DecksAre
  <2>7. Shelves' \subseteq Shelves
    <3> SUFFICES ASSUME NEW d \in Shelves'  PROVE d \in Shelves
      OBVIOUS
    <3> QED
      BY <1>3, <1>5, <2>3, <2>4, ShelvesAre
  <2> QED
    BY <1>2, <2>2, <2>5, <2>6, <2>7 DEF Carried
<1>6. CASE FetchWinches(e)
  <2> DEFINE u == at[e]
             f == [winches |-> deck[u], stores |-> None]
  <2>1. /\ UNCHANGED <<cache, at>> /\ fetch' = [fetch EXCEPT ![e][u] = f]
        /\ tally' = [tally EXCEPT !.fetches = @ + 1]
    BY <1>6 DEF FetchWinches, Count
  <2>2. u \in Vessel /\ f \in FetchType /\ f.winches = deck[u] /\ f.stores = None
    BY DEF IInv, TypeOK, FetchType
  <2>3. <<u, deck[u]>> \in Decks
    BY <2>2, DecksAre
  <2>4. tally' \in [edits : [Editor -> Nat], saves : Nat, fetches : Nat]
    <3>1. tally \in [edits : [Editor -> Nat], saves : Nat, fetches : Nat]
      BY DEF IInv, TypeOK
    <3> QED
      BY <2>1, <3>1
  <2> HIDE DEF f, u
  <2> QED
    BY <1>5, <2>1, <2>2, <2>3, <2>4
<1>7. CASE FetchStores(e, v)
  <2> DEFINE f == [fetch[e][v] EXCEPT !.stores = stores[v]]
  <2>1. /\ fetch[e][v] # None /\ UNCHANGED <<cache, at, tally>>
        /\ fetch' = [fetch EXCEPT ![e][v].stores = stores[v]]
    BY <1>7 DEF FetchStores
  <2>2. fetch[e][v] \in FetchType /\ stores[v] \in SUBSET Id
    BY <2>1 DEF IInv, TypeOK
  <2>3. f \in FetchType /\ f.winches = fetch[e][v].winches /\ f.stores = stores[v]
    BY <2>2 DEF FetchType
  <2>4. fetch' = [fetch EXCEPT ![e][v] = f]
    BY <2>1
  <2>5. <<v, fetch[e][v].winches>> \in Decks /\ <<v, stores[v]>> \in Shelves
    BY <2>1, DecksAre, ShelvesAre
  <2>6. tally' \in [edits : [Editor -> Nat], saves : Nat, fetches : Nat]
    BY <2>1 DEF IInv, TypeOK
  <2> HIDE DEF f
  <2> QED
    BY <1>5, <2>1, <2>3, <2>4, <2>5, <2>6
<1>8. CASE FetchArrives(e, v)
  <2> DEFINE f == fetch[e][v]
             l == Layout(v, f.winches, f.stores)
  <2>1. /\ f # None /\ f.stores # None /\ UNCHANGED <<at, tally>>
        /\ cache' = [cache EXCEPT ![e][v] = l] /\ fetch' = [fetch EXCEPT ![e][v] = None]
    BY <1>8 DEF FetchArrives
  <2>2. f.winches \in SUBSET Winch /\ f.stores \in SUBSET Id
    BY <2>1 DEF IInv, TypeOK, FetchType
  <2>3. <<v, f.winches>> \in Decks /\ <<v, f.stores>> \in Shelves
    BY <2>1, FetchFound
  <2>4. IsFiniteSet(f.winches) /\ \A w, x \in f.winches : w.id[1] = x.id[1] => w = x
    BY <2>3 DEF IInv, Copies, DecksGood
  <2> HIDE DEF f
  <2>5. /\ l \in LayoutType /\ l.vessel = v /\ l.stores = f.stores
        /\ ToSet(l.winches) = f.winches /\ Listed(l.winches)
    BY <2>2, <2>4, LayoutLists
  <2> HIDE DEF l
  <2>6. cache' \in [Editor -> [Vessel -> LayoutType \cup {None}]]
    BY <2>1, <2>5 DEF IInv, TypeOK
  <2>7. fetch' \in [Editor -> [Vessel -> FetchType \cup {None}]]
    BY <2>1 DEF IInv, TypeOK
  <2>8. TypeOK'
    BY <1>1, <1>3, <2>1, <2>6, <2>7 DEF IInv, TypeOK
  <2>9. \A x \in Editor, w \in Vessel :
          /\ cache'[x][w] = cache[x][w] \/ cache'[x][w] = l
          /\ fetch'[x][w] = fetch[x][w] \/ fetch'[x][w] = None
    BY <2>1 DEF IInv, TypeOK
  <2>10. Lists' \subseteq Lists \cup {l}
    BY <1>1, <2>9, ListsAre
  <2>11. ListsListed'
    BY <2>5, <2>10 DEF IInv, Copies, ListsListed
  <2>12. Decks' \subseteq Decks
    <3> SUFFICES ASSUME NEW d \in Decks'  PROVE d \in Decks
      OBVIOUS
    <3>1. CASE \E k \in Lists' : d = <<k.vessel, ToSet(k.winches)>>
      BY <2>3, <2>5, <2>10, <3>1, DecksAre
    <3> QED
      BY <1>3, <2>9, <3>1, DecksAre
  <2>13. Shelves' \subseteq Shelves
    <3> SUFFICES ASSUME NEW d \in Shelves'  PROVE d \in Shelves
      OBVIOUS
    <3>1. CASE \E k \in Lists' : d = <<k.vessel, k.stores>>
      BY <2>3, <2>5, <2>10, <3>1, ShelvesAre
    <3> QED
      BY <1>3, <2>9, <3>1, ShelvesAre
  <2> QED
    BY <1>2, <2>8, <2>11, <2>12, <2>13 DEF Carried
<1> QED
  BY <1>4, <1>6, <1>7, <1>8

\* What is to be found is winches and ids, of vessels.
LEMMA SeenTypes ==
  ASSUME TypeOK
  PROVE  /\ \A d \in Decks : d[1] \in Vessel /\ d[2] \subseteq Winch
         /\ \A s \in Shelves : s[1] \in Vessel /\ s[2] \subseteq Id
         /\ \A a \in Seen : /\ a[1] \in Vessel /\ a[2] \subseteq Id
                           /\ \A i \in a[2] : i[1][2] \in Nat /\ i[2] \in Nat
<1>1. ASSUME NEW l \in Lists  PROVE l.vessel \in Vessel /\ ToSet(l.winches) \subseteq Winch
  BY <1>1, ListTypes, ListFinite
<1>2. ASSUME NEW d \in Decks  PROVE d[1] \in Vessel /\ d[2] \subseteq Winch
  <2>1. CASE \E v \in Vessel : d = <<v, deck[v]>>
    BY <2>1 DEF TypeOK
  <2>2. CASE \E l \in Lists : d = <<l.vessel, ToSet(l.winches)>>
    BY <1>1, <2>2
  <2>3. CASE \E e \in Editor, v \in Vessel :
              fetch[e][v] # None /\ d = <<v, fetch[e][v].winches>>
    BY <2>3 DEF TypeOK, FetchType
  <2> QED
    BY <2>1, <2>2, <2>3, DecksAre
<1>3. ASSUME NEW s \in Shelves  PROVE s[1] \in Vessel /\ s[2] \subseteq Id
  <2>1. CASE \E v \in Vessel : s = <<v, stores[v]>>
    BY <2>1 DEF TypeOK
  <2>2. CASE \E l \in Lists : s = <<l.vessel, l.stores>>
    BY <2>2, ListTypes
  <2>3. CASE \E e \in Editor, v \in Vessel :
              fetch[e][v] # None /\ fetch[e][v].stores # None /\ s = <<v, fetch[e][v].stores>>
    BY <2>3 DEF TypeOK, FetchType
  <2> QED
    BY <2>1, <2>2, <2>3, ShelvesAre
<1>4. ASSUME NEW a \in Seen  PROVE a[1] \in Vessel /\ a[2] \subseteq Id
  <2>1. CASE \E d \in Decks : a = <<d[1], Ids(d[2])>>
    BY <1>2, <2>1 DEF Ids, Winch
  <2> QED
    BY <1>3, <2>1 DEF Seen
<1>5. \A i \in Id : i[1][2] \in Nat /\ i[2] \in Nat
  BY DEF Id
<1> QED
  BY <1>2, <1>3, <1>4, <1>5

\* Copies that are carried keep all that is said of them, and of pairs.
LEMMA CarriedKeeps ==
  ASSUME IInv, Carried, PutsOwn', tally'.saves >= tally.saves,
         \A e \in Editor : tally'.edits[e] >= tally.edits[e]
  PROVE  IInv'
<1>1. Seen' \subseteq Seen
  BY DEF Seen, Carried
<1>2. DecksGood' /\ ShelvesGood' /\ KindsApart'
  BY DEF IInv, Copies, Carried, DecksGood, ShelvesGood, KindsApart
<1>3. Homes'
  BY <1>1 DEF IInv, Copies, Homes
<1>4. Numbered'
  <2> SUFFICES ASSUME NEW a \in Seen', NEW i \in a[2]
               PROVE  /\ IsTmp(i) => i[1][1] \in Editor
                      /\ i[1][1] \in Editor => /\ i[1][2] <= tally'.edits[i[1][1]]
                                               /\ i[2] <= tally'.saves
    BY DEF Numbered
  <2>1. a \in Seen /\ i[1][2] \in Nat /\ i[2] \in Nat
    BY <1>1, SeenTypes DEF IInv
  <2>2. /\ IsTmp(i) => i[1][1] \in Editor
        /\ i[1][1] \in Editor => i[1][2] <= tally.edits[i[1][1]] /\ i[2] <= tally.saves
    BY <2>1 DEF IInv, Copies, Numbered
  <2>3. /\ tally.saves \in Nat /\ tally'.saves \in Nat
        /\ \A e \in Editor : tally.edits[e] \in Nat /\ tally'.edits[e] \in Nat
    BY DEF IInv, Carried, TypeOK
  <2> QED
    BY <2>1, <2>2, <2>3
<1> QED
  BY <1>2, <1>3, <1>4 DEF IInv, Copies, Carried

\* Saves that go on, end or are answered keep their numbers to themselves.
LEMMA PutsKept ==
  ASSUME IInv, tally'.saves = tally.saves,
         \A x \in Editor : put'[x] # None =>
           /\ put[x] # None /\ put'[x].n = put[x].n
           /\ put'[x].stage = "sent" => put[x].stage = "sent",
         \A a \in Seen' : \A i \in a[2] :
           \/ \E b \in Seen : i \in b[2]
           \/ \A x \in Editor : put'[x] # None /\ put'[x].stage = "sent" => i[2] # put[x].n
  PROVE  PutsOwn'
<1> SUFFICES ASSUME NEW e \in Editor, put'[e] # None
             PROVE  /\ put'[e].n \in 1..tally'.saves
                    /\ \A x \in Editor \ {e} : put'[x] # None => put'[x].n # put'[e].n
                    /\ put'[e].stage = "sent" =>
                         \A a \in Seen' : \A i \in a[2] :
                           i[1][1] \in Editor => i[2] # put'[e].n
  BY DEF PutsOwn
<1>1. put'[e].n \in 1..tally'.saves
  BY DEF IInv, Copies, PutsOwn
<1>2. \A x \in Editor \ {e} : put'[x] # None => put'[x].n # put'[e].n
  BY DEF IInv, Copies, PutsOwn
<1>3. ASSUME put'[e].stage = "sent", NEW a \in Seen', NEW i \in a[2], i[1][1] \in Editor
      PROVE  i[2] # put'[e].n
  <2>1. CASE \E b \in Seen : i \in b[2]
    BY <1>3, <2>1 DEF IInv, Copies, PutsOwn
  <2> QED
    BY <1>3, <2>1
<1> QED
  BY <1>1, <1>2, <1>3

\* A set of winches and one of storage locations that are added to what is to
\* be found, and go with it.
LEMMA Spread ==
  ASSUME IInv, TypeOK', NEW v \in Vessel, NEW W \in SUBSET Winch, NEW S \in SUBSET Id,
         \A d \in Decks' : d \in Decks \/ d = <<v, W>>,
         \A s \in Shelves' : s \in Shelves \/ s = <<v, S>>,
         IsFiniteSet(W), NamesFollow(W), \A w, x \in W : w.id[1] = x.id[1] => w = x,
         SymbolsOnce(S),
         \A w \in W, s \in Shelves : \A i \in s[2] : w.id[1] # i[1],
         \A i \in S, d \in Decks : \A w \in d[2] : w.id[1] # i[1],
         \A w \in W, i \in S : w.id[1] # i[1],
         \A i \in Ids(W) \cup S : IsTmp(i) \/ \A a \in Seen : a[1] # v => i \notin a[2],
         \A i \in Ids(W) \cup S :
           /\ IsTmp(i) => i[1][1] \in Editor
           /\ i[1][1] \in Editor => i[1][2] <= tally'.edits[i[1][1]] /\ i[2] <= tally'.saves,
         tally'.saves >= tally.saves, \A e \in Editor : tally'.edits[e] >= tally.edits[e]
  PROVE  DecksGood' /\ ShelvesGood' /\ KindsApart' /\ Homes' /\ Numbered'
<1>1. ASSUME NEW a \in Seen'
      PROVE  a \in Seen \/ (a[1] = v /\ a[2] \subseteq Ids(W) \cup S)
  <2>1. CASE \E d \in Decks' : a = <<d[1], Ids(d[2])>>
    <3>1. PICK d \in Decks' : a = <<d[1], Ids(d[2])>>
      BY <2>1
    <3> QED
      BY <3>1 DEF Seen
  <2>2. CASE a \in Shelves'
    BY <2>2 DEF Seen
  <2> QED
    BY <2>1, <2>2 DEF Seen
<1>2. DecksGood'
  <2> SUFFICES ASSUME NEW d \in Decks'
               PROVE  /\ IsFiniteSet(d[2]) /\ NamesFollow(d[2])
                      /\ \A w, x \in d[2] : w.id[1] = x.id[1] => w = x
    BY DEF DecksGood
  <2>1. CASE d \in Decks
    BY <2>1 DEF IInv, Copies, DecksGood
  <2>2. CASE d = <<v, W>>
    BY <2>2
  <2> QED
    BY <2>1, <2>2
<1>3. ShelvesGood'
  BY DEF IInv, Copies, ShelvesGood
<1>4. KindsApart'
  <2> SUFFICES ASSUME NEW d \in Decks', NEW s \in Shelves', NEW w \in d[2], NEW i \in s[2]
               PROVE  w.id[1] # i[1]
    BY DEF KindsApart
  <2>1. CASE d \in Decks /\ s \in Shelves
    BY <2>1 DEF IInv, Copies, KindsApart
  <2>2. CASE d \in Decks /\ s = <<v, S>>
    BY <2>2
  <2>3. CASE d = <<v, W>> /\ s \in Shelves
    BY <2>3
  <2>4. CASE d = <<v, W>> /\ s = <<v, S>>
    BY <2>4
  <2> QED
    BY <2>1, <2>2, <2>3, <2>4
<1>5. Homes'
  <2> SUFFICES ASSUME NEW a \in Seen', NEW b \in Seen', a[1] # b[1],
                      NEW i, i \in a[2], i \in b[2]
               PROVE  IsTmp(i)
    BY DEF Homes
  <2>1. CASE a \in Seen /\ b \in Seen
    BY <2>1 DEF IInv, Copies, Homes
  <2>2. CASE a \in Seen /\ b \notin Seen
    BY <1>1, <2>2
  <2>3. CASE a \notin Seen /\ b \in Seen
    BY <1>1, <2>3
  <2>4. CASE a \notin Seen /\ b \notin Seen
    BY <1>1, <2>4
  <2> QED
    BY <2>1, <2>2, <2>3, <2>4
<1>6. Numbered'
  <2> SUFFICES ASSUME NEW a \in Seen', NEW i \in a[2]
               PROVE  /\ IsTmp(i) => i[1][1] \in Editor
                      /\ i[1][1] \in Editor => /\ i[1][2] <= tally'.edits[i[1][1]]
                                               /\ i[2] <= tally'.saves
    BY DEF Numbered
  <2>1. CASE a \in Seen
    <3>1. i[1][2] \in Nat /\ i[2] \in Nat
      BY <2>1, SeenTypes DEF IInv
    <3>2. /\ IsTmp(i) => i[1][1] \in Editor
          /\ i[1][1] \in Editor => i[1][2] <= tally.edits[i[1][1]] /\ i[2] <= tally.saves
      BY <2>1 DEF IInv, Copies, Numbered
    <3>3. /\ tally.saves \in Nat /\ tally'.saves \in Nat
          /\ \A e \in Editor : tally.edits[e] \in Nat /\ tally'.edits[e] \in Nat
      BY DEF IInv, TypeOK
    <3> QED
      BY <3>1, <3>2, <3>3
  <2>2. CASE a \notin Seen
    BY <1>1, <2>2
  <2> QED
    BY <2>1, <2>2
<1> QED
  BY <1>2, <1>3, <1>4, <1>5, <1>6

\* A symbol that a user is about to add is nowhere yet.
LEMMA NewSymbol ==
  ASSUME IInv, NEW e \in Editor
  PROVE  /\ NewId(e) \in Id /\ IsTmp(NewId(e)) /\ NewId(e)[1] = <<e, tally.edits[e] + 1>>
         /\ \A a \in Seen : \A i \in a[2] : i[1] # NewId(e)[1]
<1>1. tally.edits[e] \in Nat
  BY DEF IInv, TypeOK
<1>2. NewId(e) \in Id /\ IsTmp(NewId(e)) /\ NewId(e)[1] = <<e, tally.edits[e] + 1>>
  BY <1>1 DEF NewId, Id, IsTmp
<1>3. ASSUME NEW a \in Seen, NEW i \in a[2], i[1] = NewId(e)[1]  PROVE FALSE
  <2>1. i[1][1] = e /\ i[1][2] = tally.edits[e] + 1
    BY <1>2, <1>3
  <2>2. i[1][2] <= tally.edits[e]
    BY <2>1 DEF IInv, Copies, Numbered
  <2> QED
    BY <1>1, <2>1, <2>2
<1> QED
  BY <1>2, <1>3

\* A change of a draft keeps the invariant.
LEMMA EditKeeps ==
  ASSUME IInv, NEW e \in Editor, Edit(e)
  PROVE  IInv'
<1>1. PICK d : draft[e] # None /\ EditedTo(e, d) /\ SetDraft(e, d)
  BY UserEdits
<1> DEFINE o == draft[e]
           v == d.vessel
           W == ToSet(d.winches)
           S == d.stores
<1>2. /\ draft' = [draft EXCEPT ![e] = d] /\ tally' = [tally EXCEPT !.edits[e] = @ + 1]
      /\ UNCHANGED <<deck, stores, rows, at, cache, fetch, put>>
  BY <1>1 DEF SetDraft, server
<1>3. /\ d \in DraftType /\ v = o.vessel /\ Listed(d.winches) /\ NamesFollow(W)
      /\ Accounted(d)
  BY <1>1 DEF EditedTo
<1>4. o \in DraftType /\ o \in Lists
  BY <1>1, DraftFacts
<1>5. /\ v \in Vessel /\ d.winches \in Seq(Winch) /\ W \in SUBSET Winch /\ S \in SUBSET Id
      /\ IsFiniteSet(W)
  BY <1>3, ListFinite DEF DraftType
<1>6. TypeOK'
  <2>1. tally' \in [edits : [Editor -> Nat], saves : Nat, fetches : Nat]
    <3>1. tally \in [edits : [Editor -> Nat], saves : Nat, fetches : Nat]
      BY DEF IInv, TypeOK
    <3> QED
      BY <1>2, <3>1
  <2>2. draft' \in [Editor -> DraftType \cup {None}]
    BY <1>2, <1>3 DEF IInv, TypeOK
  <2> QED
    BY <1>2, <2>1, <2>2 DEF IInv, TypeOK
<1>7. /\ tally'.saves = tally.saves /\ tally'.edits[e] = tally.edits[e] + 1
      /\ \A x \in Editor : tally'.edits[x] >= tally.edits[x]
      /\ tally.saves \in Nat
  <2>1. tally \in [edits : [Editor -> Nat], saves : Nat, fetches : Nat]
    BY DEF IInv, TypeOK
  <2> QED
    BY <1>2, <2>1
<1>8. draft'[e] = d /\ \A x \in Editor \ {e} : draft'[x] = draft[x]
  BY <1>2 DEF IInv, TypeOK
<1>9. Lists' \subseteq Lists \cup {d}
  BY <1>2, <1>8, ListsAre
<1>10. ListsListed'
  BY <1>3, <1>9 DEF IInv, Copies, ListsListed
<1>11. \A a \in Decks' : a \in Decks \/ a = <<v, W>>
  BY <1>2, <1>9, DecksAre
<1>12. \A a \in Shelves' : a \in Shelves \/ a = <<v, S>>
  BY <1>2, <1>9, ShelvesAre
<1>13. /\ <<v, ToSet(o.winches)>> \in Decks /\ <<v, o.stores>> \in Shelves
       /\ <<v, Ids(ToSet(o.winches))>> \in Seen /\ <<v, o.stores>> \in Seen
  BY <1>3, <1>4, ListFound
<1>14. /\ Ids(W) \subseteq Ids(ToSet(o.winches)) \cup {NewId(e)}
       /\ S \subseteq o.stores \cup {NewId(e)}
       /\ ~(NewId(e) \in Ids(W) /\ NewId(e) \in S)
  <2>1. NewId(e) \notin Ids(ToSet(o.winches)) /\ NewId(e) \notin o.stores
    BY <1>13, NewSymbol
  <2> QED
    BY <1>1, <2>1 DEF EditedTo
<1>15. \A w, x \in W : w.id[1] = x.id[1] => w = x
  BY <1>3 DEF Listed, ToSet
<1> HIDE DEF v, W, S, o
<1>16. SymbolsOnce(S)
  <2>1. SymbolsOnce(o.stores)
    BY <1>13 DEF IInv, Copies, ShelvesGood
  <2>2. \A i \in o.stores : i[1] # NewId(e)[1]
    BY <1>13, NewSymbol
  <2> QED
    BY <1>14, <2>1, <2>2 DEF SymbolsOnce
<1>17. ASSUME NEW w \in W
       PROVE  (\E x \in ToSet(o.winches) : x.id = w.id) \/ w.id = NewId(e)
  BY <1>14 DEF Ids
<1>18. \A w \in W, s \in Shelves : \A i \in s[2] : w.id[1] # i[1]
  <2> TAKE w \in W, s \in Shelves
  <2> TAKE i \in s[2]
  <2>1. CASE w.id = NewId(e)
    <3>1. s \in Seen
      BY DEF Seen
    <3> QED
      BY <2>1, <3>1, NewSymbol
  <2>2. CASE \E x \in ToSet(o.winches) : x.id = w.id
    BY <1>13, <2>2 DEF IInv, Copies, KindsApart
  <2> QED
    BY <1>17, <2>1, <2>2
<1>19. \A i \in S, a \in Decks : \A w \in a[2] : w.id[1] # i[1]
  <2> TAKE i \in S, a \in Decks
  <2> TAKE w \in a[2]
  <2>1. CASE i = NewId(e)
    <3>1. <<a[1], Ids(a[2])>> \in Seen /\ w.id \in Ids(a[2])
      BY DEF Seen, Ids
    <3> QED
      BY <2>1, <3>1, NewSymbol
  <2>2. CASE i \in o.stores
    BY <1>13, <2>2 DEF IInv, Copies, KindsApart
  <2> QED
    BY <1>14, <2>1, <2>2
<1>20. \A w \in W, i \in S : w.id[1] # i[1]
  <2> TAKE w \in W, i \in S
  <2>1. CASE i \in o.stores
    BY <1>13, <1>18, <2>1
  <2>2. CASE i = NewId(e)
    <3>1. w.id # NewId(e)
      BY <1>14, <2>2 DEF Ids
    <3>2. w.id \in Ids(ToSet(o.winches))
      BY <1>17, <3>1 DEF Ids
    <3> QED
      BY <1>13, <2>2, <3>2, NewSymbol
  <2> QED
    BY <1>14, <2>1, <2>2
<1>21. ASSUME NEW i \in Ids(W) \cup S
       PROVE  i = NewId(e) \/ \E a \in Seen : a[1] = v /\ i \in a[2]
  BY <1>13, <1>14
<1>22. \A i \in Ids(W) \cup S : IsTmp(i) \/ \A a \in Seen : a[1] # v => i \notin a[2]
  BY <1>21, NewSymbol DEF IInv, Copies, Homes
<1>23. ASSUME NEW i \in Ids(W) \cup S
       PROVE  /\ IsTmp(i) => i[1][1] \in Editor
              /\ i[1][1] \in Editor => /\ i[1][2] <= tally'.edits[i[1][1]]
                                       /\ i[2] <= tally'.saves
  <2>1. CASE i = NewId(e)
    <3>1. i[1][1] = e /\ i[1][2] = tally.edits[e] + 1 /\ i[2] = 0
      BY <2>1, NewSymbol DEF IsTmp
    <3>2. tally.edits[e] \in Nat
      BY DEF IInv, TypeOK
    <3> QED
      BY <1>7, <3>1, <3>2
  <2>2. CASE i # NewId(e)
    <3>1. PICK a \in Seen : i \in a[2]
      BY <1>21, <2>2
    <3>2. i[1][2] \in Nat /\ i[2] \in Nat
      BY <3>1, SeenTypes DEF IInv
    <3>3. /\ IsTmp(i) => i[1][1] \in Editor
          /\ i[1][1] \in Editor => i[1][2] <= tally.edits[i[1][1]] /\ i[2] <= tally.saves
      BY <3>1 DEF IInv, Copies, Numbered
    <3>4. \A x \in Editor : tally.edits[x] \in Nat /\ tally'.edits[x] \in Nat
      BY <1>6 DEF IInv, TypeOK
    <3> QED
      BY <1>7, <3>2, <3>3, <3>4
  <2> QED
    BY <2>1, <2>2
<1>24. DecksGood' /\ ShelvesGood' /\ KindsApart' /\ Homes' /\ Numbered'
  <2>1. tally'.saves >= tally.saves
    BY <1>7
  <2>2. v \in Vessel /\ W \in SUBSET Winch /\ S \in SUBSET Id /\ IsFiniteSet(W) /\ NamesFollow(W)
    BY <1>3, <1>5 DEF v, W, S
  <2> QED
    BY <1>6, <1>7, <1>11, <1>12, <1>15, <1>16, <1>18, <1>19, <1>20, <1>22, <1>23,
       <2>1, <2>2, Spread
<1>25. PutsOwn'
  <2>1. \A a \in Seen' : \A i \in a[2] : i = NewId(e) \/ \E b \in Seen : i \in b[2]
    <3> SUFFICES ASSUME NEW a \in Seen', NEW i \in a[2]
                 PROVE  i = NewId(e) \/ \E b \in Seen : i \in b[2]
      OBVIOUS
    <3>1. CASE a \in Shelves'
      BY <1>12, <1>21, <3>1 DEF Seen
    <3>2. CASE \E b \in Decks' : a = <<b[1], Ids(b[2])>>
      BY <1>11, <1>21, <3>2 DEF Seen
    <3> QED
      BY <3>1, <3>2 DEF Seen
  <2>2. \A x \in Editor : put[x] # None => put[x].n # 0
    BY DEF IInv, Copies, PutsOwn
  <2>3. NewId(e)[2] = 0
    BY NewSymbol DEF IsTmp
  <2> QED
    BY <1>2, <1>7, <2>1, <2>2, <2>3, PutsKept
<1>26. ShownKept' /\ RowsThere'
  BY <1>2, <1>3, <1>8 DEF IInv, ShownKept, RowsThere
<1> QED
  BY <1>6, <1>10, <1>24, <1>25, <1>26 DEF IInv, Copies

-----------------------------------------------------------------------------
(* The save.                                                               *)

\* A winch of a draft as the save stores it.
Stored(y, n) == [y EXCEPT !.id = Fresh(y.id, n)]

\* A save stores winches and storage locations of the draft, each that was
\* not there before under an id of this save.
LEMMA SavedFrom ==
  ASSUME IInv, NEW d \in DraftType, d \in Lists, NEW v \in Vessel, NEW n, Saved(v, d, n)
  PROVE  /\ deck' = [deck EXCEPT ![v] = deck'[v]]
         /\ stores' = [stores EXCEPT ![v] = stores'[v]]
         /\ \A w \in deck'[v] : \E y \in ToSet(d.winches) :
              w = Stored(y, n) /\ (IsTmp(y.id) \/ y.id \in Ids(deck[v]))
         /\ \A i \in stores'[v] : \E j \in d.stores :
              i = Fresh(j, n) /\ (IsTmp(j) \/ j \in stores[v])
<1> DEFINE sent == ToSet(d.winches)
           Updated(w) == IF w.id \in Ids(sent) THEN CHOOSE x \in sent : x.id = w.id ELSE w
           kept == {w \in deck[v] : w.id \notin Dropped(v, d)}
           newStores == {Fresh(id, n) : id \in {x \in d.stores : IsTmp(x)}}
<1>1. /\ deck' = [deck EXCEPT ![v] = {Updated(w) : w \in kept} \cup Inserted(d, n)]
      /\ stores' = [stores EXCEPT ![v] = (@ \ Dropped(v, d)) \cup newStores]
  BY DEF Saved
<1>2. deck \in [Vessel -> SUBSET Winch] /\ stores \in [Vessel -> SUBSET Id]
  BY DEF IInv, TypeOK
<1>3. /\ deck'[v] = {Updated(w) : w \in kept} \cup Inserted(d, n)
      /\ stores'[v] = (stores[v] \ Dropped(v, d)) \cup newStores
  BY <1>1, <1>2
<1>4. /\ \A w \in deck[v], i \in d.stores : w.id[1] # i[1]
      /\ \A w \in sent, i \in stores[v] : w.id[1] # i[1]
  <2>1. <<v, deck[v]>> \in Decks /\ <<v, stores[v]>> \in Shelves
    BY DecksAre, ShelvesAre
  <2>2. <<d.vessel, sent>> \in Decks /\ <<d.vessel, d.stores>> \in Shelves
    BY ListFound
  <2> QED
    BY <2>1, <2>2 DEF IInv, Copies, KindsApart
<1>5. ASSUME NEW w \in deck'[v]
      PROVE  \E y \in sent : w = Stored(y, n) /\ (IsTmp(y.id) \/ y.id \in Ids(deck[v]))
  <2>1. CASE w \in Inserted(d, n)
    BY <2>1 DEF Inserted, Stored
  <2>2. CASE \E x \in kept : w = Updated(x)
    <3>1. PICK x \in kept : w = Updated(x)
      BY <2>2
    <3>2. x.id \in Ids(sent)
      BY <1>4 DEF Dropped, Ids
    <3>3. w \in sent /\ w.id = x.id
      BY <3>1, <3>2 DEF Ids
    <3>4. ~IsTmp(x.id) /\ x.id \in Ids(deck[v])
      BY DEF IInv, RowsThere, Ids
    <3>5. w \in Winch
      BY <3>3, ListFinite DEF DraftType
    <3>6. Stored(w, n) = w
      BY <3>3, <3>4, <3>5 DEF Stored, Fresh, Winch
    <3> QED
      BY <3>3, <3>4, <3>6
  <2> QED
    BY <1>3, <2>1, <2>2
<1>6. ASSUME NEW i \in stores'[v]
      PROVE  \E j \in d.stores : i = Fresh(j, n) /\ (IsTmp(j) \/ j \in stores[v])
  <2>1. CASE i \in newStores
    BY <2>1
  <2>2. CASE i \in stores[v] \ Dropped(v, d)
    <3>1. i \in d.stores
      BY <1>4, <2>2 DEF Dropped, Ids
    <3>2. ~IsTmp(i)
      BY <2>2 DEF IInv, RowsThere
    <3> QED
      BY <2>2, <3>1, <3>2 DEF Fresh
  <2> QED
    BY <1>3, <2>1, <2>2
<1> QED
  BY <1>1, <1>3, <1>5, <1>6

\* The save that is answered for.
LEMMA SentFacts ==
  ASSUME IInv, NEW e \in Editor, put[e] # None
  PROVE  LET p == put[e]
         IN  /\ p \in PutType /\ p.draft \in DraftType /\ p.draft \in Lists
             /\ p.vessel \in Vessel /\ p.n \in Nat /\ p.n # 0 /\ p.n <= tally.saves
             /\ Accounted(p.draft)
<1>1. put[e] \in PutType /\ tally.saves \in Nat
  BY DEF IInv, TypeOK
<1>2. put[e].draft # None /\ Accounted(put[e].draft)
  BY DEF IInv, ShownKept
<1>3. put[e].draft \in Lists
  BY <1>2, ListsAre
<1>4. put[e].n \in 1..tally.saves
  BY DEF IInv, Copies, PutsOwn
<1> QED
  BY <1>1, <1>2, <1>3, <1>4 DEF PutType

\* What a vessel has is to be found.
LEMMA ServerFound ==
  ASSUME NEW v \in Vessel
  PROVE  <<v, Ids(deck[v])>> \in Seen /\ <<v, stores[v]>> \in Seen
<1>1. <<v, deck[v]>> \in Decks /\ <<v, stores[v]>> \in Shelves
  BY DecksAre, ShelvesAre
<1>2. <<v, Ids(deck[v])>> \in {<<x[1], Ids(x[2])>> : x \in Decks}
  BY <1>1
<1> QED
  BY <1>1, <1>2 DEF Seen

\* What a save stores is in order if the draft is.
LEMMA StoredGood ==
  ASSUME NEW s \in Seq(Winch), Listed(s), NamesFollow(ToSet(s)), NEW n \in Nat,
         NEW W, \A w \in W : \E y \in ToSet(s) : w = Stored(y, n)
  PROVE  /\ W \subseteq Winch /\ IsFiniteSet(W) /\ NamesFollow(W)
         /\ \A w, x \in W : w.id[1] = x.id[1] => w = x
<1> DEFINE f == [y \in ToSet(s) |-> Stored(y, n)]
           R == {Stored(y, n) : y \in ToSet(s)}
<1>1. IsFiniteSet(ToSet(s)) /\ ToSet(s) \subseteq Winch
  BY ListFinite
<1>2. ASSUME NEW y \in ToSet(s)
      PROVE  /\ Stored(y, n) \in Winch /\ Stored(y, n).id[1] = y.id[1]
             /\ Stored(y, n).auto = y.auto /\ Stored(y, n).label = y.label
             /\ Stored(y, n).station = y.station /\ Stored(y, n).side = y.side
  <2>1. y \in Winch
    BY <1>1
  <2>2. Fresh(y.id, n) \in Id /\ Fresh(y.id, n)[1] = y.id[1]
    BY <2>1 DEF Fresh, Winch, Id
  <2> QED
    BY <2>1, <2>2 DEF Stored, Winch
<1>3. f \in Surjection(ToSet(s), R)
  BY DEF Surjection
<1>4. IsFiniteSet(R)
  BY <1>1, <1>3, FS_Surjection
<1>5. W \subseteq R
  OBVIOUS
<1>6. IsFiniteSet(W)
  BY <1>4, <1>5, FS_Subset
<1>7. \A w, x \in ToSet(s) : w.id[1] = x.id[1] => w = x
  BY DEF Listed, ToSet
<1>8. \A w, x \in W : w.id[1] = x.id[1] => w = x
  BY <1>2, <1>7
<1>9. NamesFollow(W)
  <2> SUFFICES ASSUME NEW w \in W, w.auto
               PROVE  /\ w.label = AutoName(w, w.label.n)
                      /\ \A x \in W : x.auto /\ x.label = w.label => x = w
    BY DEF NamesFollow
  <2>1. PICK y \in ToSet(s) : w = Stored(y, n)
    OBVIOUS
  <2>2. /\ y.label = AutoName(y, y.label.n)
        /\ \A x \in ToSet(s) : x.auto /\ x.label = y.label => x = y
    BY <1>2, <2>1 DEF NamesFollow
  <2>3. w.label = AutoName(w, w.label.n)
    BY <1>2, <2>1, <2>2 DEF AutoName
  <2>4. ASSUME NEW x \in W, x.auto, x.label = w.label  PROVE x = w
    BY <1>2, <2>1, <2>2, <2>4
  <2> QED
    BY <2>3, <2>4
<1> QED
  BY <1>2, <1>6, <1>8, <1>9

\* A save that commits keeps the invariant.
LEMMA CommitKeeps ==
  ASSUME IInv, NEW e \in Editor, SaveCommits(e)
  PROVE  IInv'
<1> DEFINE d == put[e].draft
           v == put[e].vessel
           n == put[e].n
           W == deck'[v]
           S == stores'[v]
<1>1. /\ put[e] # None /\ put[e].stage = "sent" /\ Saved(v, d, n)
      /\ UNCHANGED <<at, cache, fetch, draft, tally>>
      /\ Answered(e, "failed", None) \/ Answered(e, "ok", Layout(v, W, S))
  BY DEF SaveCommits
<1>2. /\ put[e] \in PutType /\ d \in DraftType /\ d \in Lists /\ v \in Vessel
      /\ n \in Nat /\ n # 0 /\ n <= tally.saves
  BY <1>1, SentFacts
<1>3. /\ deck' = [deck EXCEPT ![v] = W] /\ stores' = [stores EXCEPT ![v] = S]
      /\ \A w \in W : \E y \in ToSet(d.winches) :
           w = Stored(y, n) /\ (IsTmp(y.id) \/ y.id \in Ids(deck[v]))
      /\ \A i \in S : \E j \in d.stores : i = Fresh(j, n) /\ (IsTmp(j) \/ j \in stores[v])
  BY <1>1, <1>2, SavedFrom
<1>4. /\ d.winches \in Seq(Winch) /\ d.stores \in SUBSET Id
      /\ ToSet(d.winches) \subseteq Winch
  BY <1>2, ListFinite DEF DraftType
<1>5. /\ <<d.vessel, ToSet(d.winches)>> \in Decks /\ <<d.vessel, d.stores>> \in Shelves
      /\ <<d.vessel, Ids(ToSet(d.winches))>> \in Seen /\ <<d.vessel, d.stores>> \in Seen
  BY <1>2, ListFound
<1>6. <<v, Ids(deck[v])>> \in Seen /\ <<v, stores[v]>> \in Seen
  BY <1>2, ServerFound
<1>7. /\ W \subseteq Winch /\ IsFiniteSet(W) /\ NamesFollow(W)
      /\ \A w, x \in W : w.id[1] = x.id[1] => w = x
  <2>1. Listed(d.winches) /\ NamesFollow(ToSet(d.winches))
    BY <1>2, <1>5 DEF IInv, Copies, ListsListed, DecksGood
  <2>2. \A w \in W : \E y \in ToSet(d.winches) : w = Stored(y, n)
    BY <1>3
  <2>3. d.winches \in Seq(Winch) /\ n \in Nat
    BY <1>2, <1>4
  <2> HIDE DEF d, W, n, S, v
  <2> QED
    BY <2>1, <2>2, <2>3, StoredGood
<1> HIDE DEF d, v, n, W, S
<1>8. ASSUME NEW j \in Id  PROVE Fresh(j, n) \in Id /\ Fresh(j, n)[1] = j[1]
  BY <1>2 DEF Fresh, Id
<1>9. \A i \in S : \E j \in d.stores : i = Fresh(j, n) /\ i[1] = j[1] /\ i \in Id
  BY <1>3, <1>4, <1>8
<1>10. \A w \in W : \E y \in ToSet(d.winches) : w.id = Fresh(y.id, n) /\ w.id[1] = y.id[1]
  <2> TAKE w \in W
  <2>1. PICK y \in ToSet(d.winches) : w = Stored(y, n)
    BY <1>3
  <2>2. y \in Winch /\ y.id \in Id
    BY <1>4 DEF Winch
  <2>3. w.id = Fresh(y.id, n)
    BY <2>1, <2>2 DEF Stored, Winch
  <2> QED
    BY <1>8, <2>2, <2>3
<1>11. ASSUME NEW i \in Ids(W) \cup S
       PROVE  \E a \in Seen : \E j \in a[2] :
                /\ i = Fresh(j, n)
                /\ IsTmp(j) \/ \E b \in Seen : b[1] = v /\ j \in b[2]
  <2>1. CASE i \in S
    <3>1. PICK j \in d.stores : i = Fresh(j, n) /\ (IsTmp(j) \/ j \in stores[v])
      BY <1>3, <2>1
    <3> QED
      BY <1>5, <1>6, <3>1
  <2>2. CASE i \in Ids(W)
    <3>1. PICK w \in W : i = w.id
      BY <2>2 DEF Ids
    <3>2. PICK y \in ToSet(d.winches) :
            w = Stored(y, n) /\ (IsTmp(y.id) \/ y.id \in Ids(deck[v]))
      BY <1>3
    <3>3. i = Fresh(y.id, n)
      BY <1>4, <3>1, <3>2 DEF Stored, Winch
    <3>4. y.id \in Ids(ToSet(d.winches))
      BY DEF Ids
    <3> QED
      BY <1>5, <1>6, <3>2, <3>3, <3>4
  <2> QED
    BY <2>1, <2>2
\* An id that is saved was on the vessel, or is of this save.
<1>12. ASSUME NEW i \in Ids(W) \cup S
       PROVE  /\ ~IsTmp(i)
              /\ \/ \E b \in Seen : b[1] = v /\ i \in b[2]
                 \/ /\ i[2] = n
                    /\ \E a \in Seen : \E j \in a[2] : IsTmp(j) /\ i[1] = j[1]
  <2>1. PICK a \in Seen : \E j \in a[2] :
          /\ i = Fresh(j, n)
          /\ IsTmp(j) \/ \E b \in Seen : b[1] = v /\ j \in b[2]
    BY <1>11
  <2>2. PICK j \in a[2] : /\ i = Fresh(j, n)
                          /\ IsTmp(j) \/ \E b \in Seen : b[1] = v /\ j \in b[2]
    BY <2>1
  <2>3. CASE IsTmp(j)
    <3>1. i = <<j[1], n>>
      BY <2>2, <2>3 DEF Fresh
    <3> QED
      BY <1>2, <2>3, <3>1 DEF IsTmp
  <2>4. CASE ~IsTmp(j)
    <3>1. i = j
      BY <2>2, <2>4 DEF Fresh
    <3> QED
      BY <2>2, <2>4, <3>1
  <2> QED
    BY <2>3, <2>4
\* Nothing of this save has been seen before.
<1>13. ASSUME NEW i \in Ids(W) \cup S, ~ \E b \in Seen : b[1] = v /\ i \in b[2]
       PROVE  \A a \in Seen : i \notin a[2]
  <2>1. PICK a \in Seen, j \in Id : j \in a[2] /\ IsTmp(j) /\ i[1] = j[1] /\ i[2] = n
    BY <1>12, <1>13, SeenTypes DEF IInv
  <2>2. i[1][1] \in Editor
    BY <2>1 DEF IInv, Copies, Numbered
  <2>3. \A b \in Seen : \A k \in b[2] : k[1][1] \in Editor => k[2] # n
    BY <1>1 DEF IInv, Copies, PutsOwn, n
  <2> QED
    BY <2>1, <2>2, <2>3
<1>14. S \subseteq Id
  BY <1>9
\* The answer is a copy of what was saved.
<1>15. /\ put' \in [Editor -> PutType \cup {None}]
       /\ put'[e] # None => put'[e].stage # "sent"
       /\ \A x \in Editor : put'[x] # None =>
            put[x] # None /\ put'[x].n = put[x].n /\ put'[x].draft = put[x].draft
       /\ \A x \in Editor \ {e} : put'[x] = put[x]
       /\ put'[e] # None /\ put'[e].answer # None =>
            /\ put'[e].answer.vessel = v /\ ToSet(put'[e].answer.winches) = W
            /\ put'[e].answer.stores = S /\ Listed(put'[e].answer.winches)
  <2> DEFINE l == Layout(v, W, S)
  <2>1. /\ l \in LayoutType /\ l.vessel = v /\ l.stores = S
        /\ ToSet(l.winches) = W /\ Listed(l.winches)
    BY <1>2, <1>7, <1>14, LayoutLists
  <2> HIDE DEF l
  <2>2. ASSUME NEW stage \in {"ok", "failed"}, NEW a \in {l, None}, Answered(e, stage, a)
        PROVE  /\ put' \in [Editor -> PutType \cup {None}]
               /\ put'[e].stage = stage /\ put'[e].answer = a
               /\ put'[e].n = put[e].n /\ put'[e].draft = put[e].draft
               /\ \A x \in Editor \ {e} : put'[x] = put[x]
    <3>1. put' = [put EXCEPT ![e] = [put[e] EXCEPT !.stage = stage, !.answer = a]]
      BY <2>2 DEF Answered
    <3>2. a \in LayoutType \cup {None}
      BY <2>1
    <3>3. [put[e] EXCEPT !.stage = stage, !.answer = a] \in PutType
      BY <1>2, <3>2 DEF PutType
    <3>4. put \in [Editor -> PutType \cup {None}]
      BY DEF IInv, TypeOK
    <3> QED
      BY <1>2, <3>1, <3>3, <3>4 DEF PutType
  <2>3. Answered(e, "failed", None) \/ Answered(e, "ok", l)
    BY <1>1 DEF l
  <2>4. CASE Answered(e, "failed", None)
    BY <1>1, <2>2, <2>4
  <2>5. CASE Answered(e, "ok", l)
    BY <1>1, <2>1, <2>2, <2>5
  <2> QED
    BY <2>3, <2>4, <2>5
<1>16. TypeOK'
  <2>1. /\ deck' \in [Vessel -> SUBSET Winch] /\ stores' \in [Vessel -> SUBSET Id]
    BY <1>2, <1>3, <1>7, <1>14 DEF IInv, TypeOK
  <2>2. put' \in [Editor -> PutType \cup {None}]
    BY <1>15
  <2>3. UNCHANGED <<at, cache, fetch, draft, tally>>
    BY <1>1
  <2> QED
    BY <2>1, <2>2, <2>3 DEF IInv, TypeOK
<1>17. ASSUME NEW l \in Lists'
       PROVE  \/ l \in Lists
              \/ l.vessel = v /\ ToSet(l.winches) = W /\ l.stores = S /\ Listed(l.winches)
  <2>1. CASE \E x \in Editor : put'[x] # None /\ (l = put'[x].draft \/ l = put'[x].answer)
    <3>1. PICK x \in Editor : put'[x] # None /\ (l = put'[x].draft \/ l = put'[x].answer)
      BY <2>1
    <3>2. l # None
      BY ListsAre
    <3>3. CASE l = put'[x].draft \/ x # e
      BY <1>15, <3>1, <3>2, <3>3, ListsAre
    <3>4. CASE l = put'[x].answer /\ x = e
      BY <1>15, <3>1, <3>2, <3>4
    <3> QED
      BY <3>1, <3>3, <3>4
  <2>2. CASE ~ \E x \in Editor : put'[x] # None /\ (l = put'[x].draft \/ l = put'[x].answer)
    BY <1>1, <2>2, ListsAre
  <2> QED
    BY <2>1, <2>2
<1>18. ListsListed'
  BY <1>17 DEF IInv, Copies, ListsListed
<1>19. \A u \in Vessel : u # v => deck'[u] = deck[u] /\ stores'[u] = stores[u]
  BY <1>3 DEF IInv, TypeOK
<1>20. W = deck'[v] /\ S = stores'[v]
  BY DEF W, S
<1>21. \A a \in Decks' : a \in Decks \/ a = <<v, W>>
  <2> TAKE a \in Decks'
  <2>1. CASE \E u \in Vessel : a = <<u, deck'[u]>>
    BY <1>19, <1>20, <2>1, DecksAre
  <2>2. CASE \E l \in Lists' : a = <<l.vessel, ToSet(l.winches)>>
    BY <1>17, <2>2, DecksAre
  <2>3. CASE \E x \in Editor, u \in Vessel :
               fetch'[x][u] # None /\ a = <<u, fetch'[x][u].winches>>
    BY <1>1, <2>3, DecksAre
  <2> QED
    BY <2>1, <2>2, <2>3, DecksAre
<1>22. \A a \in Shelves' : a \in Shelves \/ a = <<v, S>>
  <2> TAKE a \in Shelves'
  <2>1. CASE \E u \in Vessel : a = <<u, stores'[u]>>
    BY <1>19, <1>20, <2>1, ShelvesAre
  <2>2. CASE \E l \in Lists' : a = <<l.vessel, l.stores>>
    BY <1>17, <2>2, ShelvesAre
  <2>3. CASE \E x \in Editor, u \in Vessel :
          fetch'[x][u] # None /\ fetch'[x][u].stores # None /\ a = <<u, fetch'[x][u].stores>>
    BY <1>1, <2>3, ShelvesAre
  <2> QED
    BY <2>1, <2>2, <2>3, ShelvesAre
<1>23. /\ \A w \in W, s \in Shelves : \A i \in s[2] : w.id[1] # i[1]
       /\ \A i \in S, a \in Decks : \A w \in a[2] : w.id[1] # i[1]
       /\ \A w \in W, i \in S : w.id[1] # i[1]
       /\ SymbolsOnce(S)
  <2>1. \A w \in W, s \in Shelves : \A i \in s[2] : w.id[1] # i[1]
    BY <1>5, <1>10 DEF IInv, Copies, KindsApart
  <2>2. \A i \in S, a \in Decks : \A w \in a[2] : w.id[1] # i[1]
    BY <1>5, <1>9 DEF IInv, Copies, KindsApart
  <2>3. \A w \in W, i \in S : w.id[1] # i[1]
    BY <1>5, <1>9, <2>1
  <2>4. SymbolsOnce(d.stores)
    BY <1>5 DEF IInv, Copies, ShelvesGood
  <2>5. SymbolsOnce(S)
    BY <1>3, <1>9, <2>4 DEF SymbolsOnce
  <2> QED
    BY <2>1, <2>2, <2>3, <2>5
<1>24. \A i \in Ids(W) \cup S : IsTmp(i) \/ \A a \in Seen : a[1] # v => i \notin a[2]
  <2> TAKE i \in Ids(W) \cup S
  <2>1. CASE \E b \in Seen : b[1] = v /\ i \in b[2]
    BY <2>1 DEF IInv, Copies, Homes
  <2> QED
    BY <1>13, <2>1
<1>25. ASSUME NEW i \in Ids(W) \cup S
       PROVE  /\ IsTmp(i) => i[1][1] \in Editor
              /\ i[1][1] \in Editor => /\ i[1][2] <= tally'.edits[i[1][1]]
                                       /\ i[2] <= tally'.saves
  <2>1. CASE \E b \in Seen : b[1] = v /\ i \in b[2]
    BY <1>1, <2>1 DEF IInv, Copies, Numbered
  <2>2. CASE ~ \E b \in Seen : b[1] = v /\ i \in b[2]
    <3>1. PICK a \in Seen : \E j \in a[2] : IsTmp(j) /\ i[1] = j[1]
      BY <1>12, <2>2
    <3>2. PICK j \in a[2] : IsTmp(j) /\ i[1] = j[1]
      BY <3>1
    <3>3. i[1][1] \in Editor => i[1][2] <= tally.edits[i[1][1]]
      BY <3>2 DEF IInv, Copies, Numbered
    <3> QED
      BY <1>1, <1>2, <1>12, <2>2, <3>3
  <2> QED
    BY <2>1, <2>2
<1>26. DecksGood' /\ ShelvesGood' /\ KindsApart' /\ Homes' /\ Numbered'
  <2>1. tally'.saves >= tally.saves /\ \A x \in Editor : tally'.edits[x] >= tally.edits[x]
    BY <1>1 DEF IInv, TypeOK
  <2>2. W \in SUBSET Winch /\ S \in SUBSET Id
    BY <1>7, <1>14
  <2> QED
    BY <1>2, <1>7, <1>16, <1>21, <1>22, <1>23, <1>24, <1>25, <2>1, <2>2, Spread
<1>27. PutsOwn'
  <2>1. ASSUME NEW a \in Seen', NEW i \in a[2]
        PROVE  \/ \E b \in Seen : i \in b[2]
               \/ \A x \in Editor : put'[x] # None /\ put'[x].stage = "sent" => i[2] # put[x].n
    <3>1. (\E b \in Seen : i \in b[2]) \/ i \in Ids(W) \cup S
      <4>1. CASE \E b \in Decks' : a = <<b[1], Ids(b[2])>>
        <5>1. PICK b \in Decks' : a = <<b[1], Ids(b[2])>>
          BY <4>1
        <5> QED
          BY <1>21, <5>1 DEF Seen
      <4>2. CASE a \in Shelves'
        BY <1>22, <4>2 DEF Seen
      <4> QED
        BY <4>1, <4>2 DEF Seen
    <3>2. ASSUME i[2] = n, NEW x \in Editor, put'[x] # None, put'[x].stage = "sent"
          PROVE  i[2] # put[x].n
      <4>1. x # e /\ put[x] # None
        BY <1>15, <3>2
      <4>2. put[x].n # put[e].n
        BY <1>1, <4>1 DEF IInv, Copies, PutsOwn
      <4> QED
        BY <3>2, <4>2 DEF n
    <3> QED
      BY <1>12, <3>1, <3>2
  <2>2. \A x \in Editor : put'[x] # None =>
          /\ put[x] # None /\ put'[x].n = put[x].n
          /\ put'[x].stage = "sent" => put[x].stage = "sent"
    BY <1>15
  <2> QED
    BY <1>1, <2>1, <2>2, PutsKept
<1>28. ShownKept'
  BY <1>1, <1>15 DEF IInv, ShownKept
<1>29. RowsThere'
  <2>1. DOMAIN rows' = (DOMAIN rows \ Dropped(v, d)) \cup Ids(Adjusted(d, n))
    BY <1>1 DEF Saved
  <2>2. ASSUME NEW u \in Vessel, u # v
        PROVE  /\ Ids(deck'[u]) \subseteq DOMAIN rows'
               /\ \A i \in Ids(deck'[u]) \cup stores'[u] : ~IsTmp(i)
    <3>1. <<u, Ids(deck[u])>> \in Seen
      BY ServerFound
    <3>2. ASSUME NEW i \in Ids(deck[u])  PROVE i \notin Dropped(v, d)
      <4>1. ~IsTmp(i)
        BY DEF IInv, RowsThere
      <4>2. i \notin Ids(deck[v]) /\ i \notin stores[v]
        BY <1>6, <2>2, <3>1, <4>1 DEF IInv, Copies, Homes
      <4> QED
        BY <4>2 DEF Dropped
    <3> QED
      BY <1>19, <2>1, <2>2, <3>2 DEF IInv, RowsThere
  <2>3. ASSUME NEW w \in W  PROVE w.id \in DOMAIN rows'
    <3>1. PICK y \in ToSet(d.winches) :
            w = Stored(y, n) /\ (IsTmp(y.id) \/ y.id \in Ids(deck[v]))
      BY <1>3
    <3>2. CASE IsTmp(y.id)
      <4>1. w \in Inserted(d, n)
        BY <3>1, <3>2 DEF Inserted, Stored
      <4> QED
        BY <2>1, <4>1 DEF Adjusted, Ids
    <3>3. CASE ~IsTmp(y.id)
      <4>1. w.id = y.id
        BY <1>4, <3>1, <3>3 DEF Stored, Fresh, Winch
      <4>2. y.id \notin Dropped(v, d) /\ y.id \in DOMAIN rows
        BY <1>2, <3>1, <3>3 DEF Dropped, Ids, IInv, RowsThere
      <4> QED
        BY <2>1, <4>1, <4>2
    <3> QED
      BY <3>2, <3>3
  <2>4. Ids(W) \subseteq DOMAIN rows'
    BY <2>3 DEF Ids
  <2> QED
    BY <1>12, <1>20, <2>2, <2>4 DEF RowsThere
<1> QED
  BY <1>16, <1>18, <1>26, <1>27, <1>28, <1>29 DEF IInv, Copies

\* A save that is sent gets a number that no row and no other save has.
LEMMA SaveKeeps ==
  ASSUME IInv, NEW e \in Editor, Save(e)
  PROVE  IInv'
<1>1. Carried
  BY PutCarried
<1>2. /\ put[e] = None /\ tally' = [tally EXCEPT !.saves = @ + 1]
      /\ put' = [put EXCEPT ![e] =
                   [stage |-> "sent", n |-> tally.saves + 1, vessel |-> at[e],
                    draft |-> draft[e], answer |-> None]]
  BY DEF Save, Count, Body
<1>3. /\ tally'.saves = tally.saves + 1 /\ tally'.edits = tally.edits
      /\ tally.saves \in Nat /\ tally.edits \in [Editor -> Nat]
  <2>1. tally \in [edits : [Editor -> Nat], saves : Nat, fetches : Nat]
    BY DEF IInv, TypeOK
  <2> QED
    BY <1>2, <2>1
<1>4. /\ put'[e].n = tally.saves + 1 /\ \A x \in Editor \ {e} : put'[x] = put[x]
  BY <1>2 DEF IInv, TypeOK
<1>5. \A x \in Editor : put[x] # None => put[x].n \in 1..tally.saves
  BY DEF IInv, Copies, PutsOwn
<1>6. Seen' \subseteq Seen
  BY <1>1 DEF Seen, Carried
<1>7. PutsOwn'
  <2> SUFFICES ASSUME NEW x \in Editor, put'[x] # None
               PROVE  /\ put'[x].n \in 1..tally'.saves
                      /\ \A y \in Editor \ {x} : put'[y] # None => put'[y].n # put'[x].n
                      /\ put'[x].stage = "sent" =>
                           \A a \in Seen' : \A i \in a[2] :
                             i[1][1] \in Editor => i[2] # put'[x].n
    BY DEF PutsOwn
  <2>1. put'[x].n \in 1..tally'.saves
    BY <1>3, <1>4, <1>5
  <2>2. ASSUME NEW y \in Editor \ {x}, put'[y] # None  PROVE put'[y].n # put'[x].n
    <3>1. CASE x # e /\ y # e
      BY <1>4, <2>2, <3>1 DEF IInv, Copies, PutsOwn
    <3>2. CASE x = e
      BY <1>3, <1>4, <1>5, <2>2, <3>2
    <3>3. CASE y = e
      BY <1>3, <1>4, <1>5, <3>3
    <3> QED
      BY <3>1, <3>2, <3>3
  <2>3. ASSUME put'[x].stage = "sent", NEW a \in Seen', NEW i \in a[2], i[1][1] \in Editor
        PROVE  i[2] # put'[x].n
    <3>1. a \in Seen
      BY <1>6
    <3>2. CASE x = e
      <4>1. i[2] <= tally.saves /\ i[2] \in Nat
        BY <2>3, <3>1, SeenTypes DEF IInv, Copies, Numbered
      <4> QED
        BY <1>3, <1>4, <3>2, <4>1
    <3>3. CASE x # e
      BY <1>4, <2>3, <3>1, <3>3 DEF IInv, Copies, PutsOwn
    <3> QED
      BY <3>2, <3>3
  <2> QED
    BY <2>1, <2>2, <2>3
<1>8. tally'.saves >= tally.saves /\ \A x \in Editor : tally'.edits[x] >= tally.edits[x]
  BY <1>3
<1> QED
  BY <1>1, <1>7, <1>8, CarriedKeeps

\* Steps that only carry copies, and send nothing, keep the invariant.
LEMMA QuietKeeps ==
  ASSUME IInv, Carried, tally'.saves = tally.saves, tally'.edits = tally.edits,
         \A x \in Editor : put'[x] # None =>
           /\ put[x] # None /\ put'[x].n = put[x].n
           /\ put'[x].stage = "sent" => put[x].stage = "sent"
  PROVE  IInv'
<1>1. Seen' \subseteq Seen
  BY DEF Seen, Carried
<1>2. PutsOwn'
  BY <1>1, PutsKept
<1>3. tally'.saves >= tally.saves /\ \A x \in Editor : tally'.edits[x] >= tally.edits[x]
  BY DEF IInv, TypeOK
<1> QED
  BY <1>2, <1>3, CarriedKeeps

\* Every step of Next keeps the invariant.
LEMMA NextKeeps ==
  ASSUME IInv, Next
  PROVE  IInv'
<1>1. PICK e \in Editor :
        \/ EnterEdit(e) \/ CancelEdit(e) \/ ResetEdit(e) \/ Edit(e)
        \/ Save(e) \/ SaveCommits(e) \/ SaveFails(e) \/ SaveSucceeds(e) \/ SaveErrors(e)
        \/ FetchWinches(e)
        \/ \E v \in Vessel : SwitchVessel(e, v) \/ FetchStores(e, v) \/ FetchArrives(e, v)
  BY DEF Next
<1>2. CASE EnterEdit(e) \/ CancelEdit(e) \/ ResetEdit(e)
  <2>1. UNCHANGED <<put, tally>>
    BY <1>2 DEF EnterEdit, CancelEdit, ResetEdit
  <2> QED
    BY <1>2, <2>1, DraftCarried, QuietKeeps
<1>3. CASE SaveFails(e) \/ SaveSucceeds(e) \/ SaveErrors(e)
  <2>1. Carried
    BY <1>3, PutCarried
  <2>2. UNCHANGED tally
    BY <1>3 DEF SaveFails, SaveSucceeds, SaveErrors
  <2>3. \A x \in Editor \ {e} : put'[x] = put[x]
    BY <1>3 DEF SaveFails, SaveSucceeds, SaveErrors, Answered, IInv, TypeOK
  <2>4. CASE SaveFails(e)
    <3>1. put[e] \in PutType /\ put[e] # None
      BY <2>4 DEF SaveFails, IInv, TypeOK
    <3>2. put'[e] = [put[e] EXCEPT !.stage = "failed", !.answer = None]
      BY <2>4 DEF SaveFails, Answered, IInv, TypeOK
    <3>3. put'[e].n = put[e].n /\ put'[e].stage = "failed"
      BY <3>1, <3>2 DEF PutType
    <3> QED
      BY <2>1, <2>2, <2>3, <3>1, <3>3, QuietKeeps
  <2>5. CASE SaveSucceeds(e) \/ SaveErrors(e)
    <3>1. put'[e] = None
      BY <2>5 DEF SaveSucceeds, SaveErrors, IInv, TypeOK
    <3> QED
      BY <2>1, <2>2, <2>3, <3>1, QuietKeeps
  <2> QED
    BY <1>3, <2>4, <2>5
<1>4. ASSUME NEW v \in Vessel,
             FetchWinches(e) \/ SwitchVessel(e, v) \/ FetchStores(e, v) \/ FetchArrives(e, v)
      PROVE  IInv'
  <2>1. Carried /\ UNCHANGED put
    BY <1>4, FetchCarried DEF FetchWinches, SwitchVessel, FetchStores, FetchArrives
  <2>2. tally'.saves = tally.saves /\ tally'.edits = tally.edits
    <3>1. tally \in [edits : [Editor -> Nat], saves : Nat, fetches : Nat]
      BY DEF IInv, TypeOK
    <3> QED
      BY <1>4, <3>1 DEF FetchWinches, SwitchVessel, FetchStores, FetchArrives, Count
  <2> QED
    BY <2>1, <2>2, QuietKeeps
<1>5. First \in Vessel
  BY DeckAssumption
<1> QED
  BY <1>1, <1>2, <1>3, <1>4, <1>5, EditKeeps, SaveKeeps, CommitKeeps

\* The decks and storage locations at the start are in order, whatever they
\* are.
LEMMA InitDeck == Init => IInv
<1> SUFFICES ASSUME Init  PROVE IInv
  OBVIOUS
<1> DEFINE l == Layout(First, SeedDeck[First], SeedStores[First])
<1>1. /\ deck = SeedDeck /\ stores = SeedStores
      /\ at = [e \in Editor |-> First]
      /\ cache = [e \in Editor |-> [v \in Vessel |->
                   IF v = First THEN Layout(v, deck[v], stores[v]) ELSE None]]
      /\ fetch = [e \in Editor |-> [v \in Vessel |-> None]]
      /\ draft = [e \in Editor |-> None] /\ put = [e \in Editor |-> None]
      /\ tally = [edits |-> [e \in Editor |-> 0], saves |-> 0, fetches |-> 0]
  BY DEF Init
<1>2. /\ \A v \in Vessel :
           /\ SeedDeck[v] \in SUBSET Winch /\ SeedStores[v] \in SUBSET Id
           /\ IsFiniteSet(SeedDeck[v]) /\ NamesFollow(SeedDeck[v])
           /\ \A w, x \in SeedDeck[v] : w.id = x.id => w = x
           /\ Ids(SeedDeck[v]) \cap SeedStores[v] = {}
           /\ \A i \in Ids(SeedDeck[v]) \cup SeedStores[v] : i[1][1] = None /\ ~IsTmp(i)
      /\ \A u, v \in Vessel :
           \A i \in Ids(SeedDeck[u]) \cup SeedStores[u],
              j \in Ids(SeedDeck[v]) \cup SeedStores[v] : i[1] = j[1] => u = v /\ i = j
      /\ First \in Vessel /\ None \notin Editor
  BY DeckAssumption DEF SeedIds
<1>3. \A v \in Vessel : \A w, x \in SeedDeck[v] : w.id[1] = x.id[1] => w = x
  <2> SUFFICES ASSUME NEW v \in Vessel, NEW w \in SeedDeck[v], NEW x \in SeedDeck[v],
                      w.id[1] = x.id[1]
               PROVE  w = x
    OBVIOUS
  <2>1. w.id \in Ids(SeedDeck[v]) /\ x.id \in Ids(SeedDeck[v])
    BY DEF Ids
  <2> QED
    BY <1>2, <2>1
<1>4. /\ l \in LayoutType /\ l.vessel = First /\ l.stores = SeedStores[First]
      /\ ToSet(l.winches) = SeedDeck[First] /\ Listed(l.winches)
  BY <1>2, <1>3, LayoutLists
<1> HIDE DEF l
<1>5. cache = [e \in Editor |-> [v \in Vessel |-> IF v = First THEN l ELSE None]]
  BY <1>1 DEF l
<1>6. TypeOK
  <2>1. /\ deck \in [Vessel -> SUBSET Winch] /\ stores \in [Vessel -> SUBSET Id]
    BY <1>1, DeckAssumption
  <2>2. cache \in [Editor -> [Vessel -> LayoutType \cup {None}]]
    BY <1>4, <1>5
  <2>3. tally \in [edits : [Editor -> Nat], saves : Nat, fetches : Nat]
    BY <1>1
  <2> QED
    BY <1>1, <1>2, <2>1, <2>2, <2>3 DEF TypeOK
<1>7. \A k \in Lists : k = l
  BY <1>1, <1>5, ListsAre
<1>8. \A d \in Decks : \E v \in Vessel : d = <<v, SeedDeck[v]>>
  BY <1>1, <1>2, <1>4, <1>7, DecksAre
<1>9. \A s \in Shelves : \E v \in Vessel : s = <<v, SeedStores[v]>>
  BY <1>1, <1>2, <1>4, <1>7, ShelvesAre
<1>10. \A a \in Seen : \E v \in Vessel :
         a[1] = v /\ (a[2] = Ids(SeedDeck[v]) \/ a[2] = SeedStores[v])
  BY <1>8, <1>9 DEF Seen
<1>11. ListsListed
  BY <1>4, <1>7 DEF ListsListed
<1>12. DecksGood
  BY <1>2, <1>3, <1>8 DEF DecksGood
<1>13. ShelvesGood
  BY <1>2, <1>9 DEF ShelvesGood, SymbolsOnce
<1>14. KindsApart
  <2> SUFFICES ASSUME NEW u \in Vessel, NEW v \in Vessel, NEW w \in SeedDeck[u],
                      NEW i \in SeedStores[v], w.id[1] = i[1]
               PROVE  FALSE
    BY <1>8, <1>9 DEF KindsApart
  <2>1. w.id \in Ids(SeedDeck[u])
    BY DEF Ids
  <2>2. u = v /\ w.id = i
    BY <1>2, <2>1
  <2> QED
    BY <1>2, <2>1, <2>2
<1>15. Homes
  <2> SUFFICES ASSUME NEW a \in Seen, NEW b \in Seen, a[1] # b[1],
                      NEW i, i \in a[2], i \in b[2]
               PROVE  FALSE
    BY DEF Homes
  <2> QED
    BY <1>2, <1>10
<1>16. Numbered
  BY <1>2, <1>10 DEF Numbered
<1>17. PutsOwn /\ ShownKept
  BY <1>1 DEF PutsOwn, ShownKept
<1>18. RowsThere
  <2>1. \A v \in Vessel : Ids(deck[v]) \subseteq DOMAIN rows
    BY DEF Init
  <2> QED
    BY <1>1, <1>2, <2>1 DEF RowsThere
<1> QED
  BY <1>6, <1>11, <1>12, <1>13, <1>14, <1>15, <1>16, <1>17, <1>18 DEF IInv, Copies

-----------------------------------------------------------------------------
(* The theorems.                                                           *)

\* Layouts, drafts, requests and answers stay in order, and so do the decks
\* that saves of drafts make.
THEOREM DeckInvariant == Spec => []IInv
<1>1. Init => IInv
  BY InitDeck
<1>2. IInv /\ [Next]_vars => IInv'
  <2> SUFFICES ASSUME IInv, [Next]_vars  PROVE IInv'
    OBVIOUS
  <2>1. CASE UNCHANGED vars
    <3>1. UNCHANGED <<deck, stores, rows, at, cache, fetch, draft, put, tally>>
      BY <2>1 DEF vars, server
    <3>2. TypeOK' /\ RowsThere' /\ ShownKept'
      BY <3>1 DEF IInv, TypeOK, RowsThere, ShownKept
    <3>3. Lists' = Lists
      BY <3>1 DEF Lists
    <3>4. \A k \in Lists' : \E m \in Lists : Same(k, m)
      BY <3>3 DEF Same
    <3>5. Carried
      BY <3>1, <3>2, <3>4, CopiesCarried DEF Carried
    <3> QED
      BY <3>1, <3>5, QuietKeeps
  <2>2. CASE Next
    BY <2>2, NextKeeps
  <2> QED
    BY <2>1, <2>2
<1> QED
  BY <1>1, <1>2, PTL DEF Spec

\* On every deck, at every moment, the winches that are named automatically
\* are named for where they are, and apart.
THEOREM NamesFollowAlways == Spec => []AutoNamesFollowPlace
<1>1. ASSUME IInv, NEW v \in Vessel  PROVE NamesFollow(deck[v])
  <2>1. <<v, deck[v]>> \in Decks
    BY DecksAre
  <2> QED
    BY <1>1, <2>1 DEF IInv, Copies, DecksGood
<1>2. IInv => AutoNamesFollowPlace
  BY <1>1 DEF AutoNamesFollowPlace
<1> QED
  BY <1>2, DeckInvariant, PTL

\* A symbol that a user added is on a deck once at most, however often its
\* draft is saved.
THEOREM AddedOnceAlways == Spec => []AddedOnce
<1>1. ASSUME IInv, NEW v \in Vessel, NEW i \in Ids(deck[v]) \cup stores[v],
             NEW j \in Ids(deck[v]) \cup stores[v], i[1] = j[1]
      PROVE  i = j
  <2>1. <<v, deck[v]>> \in Decks /\ <<v, stores[v]>> \in Shelves
    BY DecksAre, ShelvesAre
  <2>2. \A w, x \in deck[v] : w.id[1] = x.id[1] => w = x
    BY <1>1, <2>1 DEF IInv, Copies, DecksGood
  <2>3. SymbolsOnce(stores[v])
    BY <1>1, <2>1 DEF IInv, Copies, ShelvesGood
  <2>4. \A w \in deck[v], k \in stores[v] : w.id[1] # k[1]
    BY <1>1, <2>1 DEF IInv, Copies, KindsApart
  <2> QED
    BY <1>1, <2>2, <2>3, <2>4 DEF Ids, SymbolsOnce
<1>2. IInv => AddedOnce
  BY <1>1 DEF AddedOnce
<1> QED
  BY <1>2, DeckInvariant, PTL

\* Only a save that commits changes the tables.
LEMMA OnlyCommits ==
  ASSUME IInv, [Next]_vars, ~ \E e \in Editor : SaveCommits(e)
  PROVE  UNCHANGED server
<1>1. CASE UNCHANGED vars
  BY <1>1 DEF vars
<1>2. CASE Next
  <2>1. PICK e \in Editor :
          \/ EnterEdit(e) \/ CancelEdit(e) \/ ResetEdit(e) \/ Edit(e)
          \/ Save(e) \/ SaveFails(e) \/ SaveSucceeds(e) \/ SaveErrors(e)
          \/ FetchWinches(e)
          \/ \E v \in Vessel : SwitchVessel(e, v) \/ FetchStores(e, v) \/ FetchArrives(e, v)
    BY <1>2 DEF Next
  <2>2. Edit(e) => UNCHANGED server
    BY UserEdits DEF SetDraft
  <2> QED
    BY <2>1, <2>2 DEF EnterEdit, CancelEdit, ResetEdit, Save, SaveFails, SaveSucceeds,
         SaveErrors, FetchWinches, SwitchVessel, FetchStores, FetchArrives
<1> QED
  BY <1>1, <1>2

\* Saving a draft removes what the user removed and what the user was never
\* shown.
THEOREM ShownStaysAlways == Spec => ShownStays
<1> DEFINE Stays ==
      \A e \in Editor : put[e] # None /\ put[e].stage = "sent" /\ ~Crossing(e) =>
        LET v == put[e].vessel
            d == put[e].draft
            removed == (Ids(deck[v]) \cup stores[v]) \ (Ids(deck'[v]) \cup stores'[v])
        IN  put'[e] # put[e] => removed \cap d.shown \subseteq d.cut
<1>1. ASSUME IInv, [Next]_vars  PROVE Stays
  <2> SUFFICES ASSUME NEW e \in Editor, put[e] # None, put[e].stage = "sent",
                      put'[e] # put[e]
               PROVE  LET v == put[e].vessel
                          d == put[e].draft
                          removed == (Ids(deck[v]) \cup stores[v])
                                       \ (Ids(deck'[v]) \cup stores'[v])
                      IN  removed \cap d.shown \subseteq d.cut
    OBVIOUS
  <2> DEFINE v == put[e].vessel
             d == put[e].draft
  <2>1. CASE ~ \E x \in Editor : SaveCommits(x)
    BY <1>1, <2>1, OnlyCommits DEF server
  <2>2. ASSUME NEW x \in Editor, SaveCommits(x)
        PROVE  (Ids(deck[v]) \cup stores[v]) \ (Ids(deck'[v]) \cup stores'[v])
                 \subseteq Dropped(v, d)
    <3>1. x = e
      BY <1>1, <2>2 DEF SaveCommits, Answered, IInv, TypeOK
    <3>2. Saved(v, d, put[e].n)
      BY <2>2, <3>1 DEF SaveCommits
    <3>3. v \in Vessel
      BY <1>1, SentFacts
    <3> HIDE DEF v, d
    <3> DEFINE sent == ToSet(d.winches)
               Updated(w) == IF w.id \in Ids(sent) THEN CHOOSE y \in sent : y.id = w.id ELSE w
               kept == {w \in deck[v] : w.id \notin Dropped(v, d)}
               newStores == {Fresh(id, put[e].n) : id \in {y \in d.stores : IsTmp(y)}}
    <3>4. /\ deck' = [deck EXCEPT ![v] = {Updated(w) : w \in kept} \cup Inserted(d, put[e].n)]
          /\ stores' = [stores EXCEPT ![v] = (@ \ Dropped(v, d)) \cup newStores]
      BY <3>2 DEF Saved
    <3>5. /\ deck'[v] = {Updated(w) : w \in kept} \cup Inserted(d, put[e].n)
          /\ stores'[v] = (stores[v] \ Dropped(v, d)) \cup newStores
      BY <1>1, <3>3, <3>4 DEF IInv, TypeOK
    <3>6. \A w \in kept : Updated(w).id = w.id
      BY DEF Ids
    <3>7. \A w \in kept : w.id \in Ids(deck'[v])
      BY <3>5, <3>6 DEF Ids
    <3> QED
      BY <3>5, <3>7 DEF Ids
  <2>3. d.shown \cap Dropped(v, d) \subseteq d.cut
    BY <1>1, SentFacts DEF Accounted, Dropped
  <2> QED
    BY <2>1, <2>2, <2>3
<1>2. IInv /\ [Next]_vars => [Stays]_vars
  BY <1>1
<1> QED
  BY <1>2, DeckInvariant, PTL DEF Spec, ShownStays

\* A save on the vessel its draft is of gives every winch the drums that it
\* asks for, and takes none from a winch of another vessel.
LEMMA CommitDrums ==
  ASSUME IInv, NEW e \in Editor, SaveCommits(e), ~Crossing(e), NEW v \in Vessel,
         \A w \in deck[v] : rows[w.id] = w.count, NEW w \in deck'[v]
  PROVE  rows'[w.id] = w.count
<1> DEFINE d == put[e].draft
           n == put[e].n
           A == Adjusted(d, n)
           left == (DOMAIN rows \ Dropped(d.vessel, d)) \cup Ids(A)
<1>1. put[e] # None /\ put[e].stage = "sent" /\ put[e].vessel = d.vessel
  BY DEF SaveCommits, Crossing
<1>2. /\ d \in DraftType /\ d \in Lists /\ d.vessel \in Vessel /\ n \in Nat /\ n # 0
  BY <1>1, SentFacts
<1>3. Saved(d.vessel, d, n)
  BY <1>1 DEF SaveCommits
<1>4. rows' = [id \in left |-> IF id \in Ids(A) THEN (CHOOSE x \in A : x.id = id).count
                                                ELSE rows[id]]
  BY <1>3 DEF Saved
<1>5. /\ deck' = [deck EXCEPT ![d.vessel] = deck'[d.vessel]]
      /\ \A x \in deck'[d.vessel] : \E y \in ToSet(d.winches) : x = Stored(y, n)
  BY <1>2, <1>3, SavedFrom
<1>6. d.winches \in Seq(Winch) /\ ToSet(d.winches) \subseteq Winch
  BY <1>2, ListFinite DEF DraftType
<1> HIDE DEF d, n
<1>7. ASSUME NEW y \in ToSet(d.winches)  PROVE Stored(y, n) \in A
  BY <1>6 DEF Adjusted, Inserted, Stored, Fresh, Winch
<1>8. \A x \in A : \E y \in ToSet(d.winches) : x = Stored(y, n)
  BY <1>6 DEF Adjusted, Inserted, Stored, Fresh, Winch
<1>9. \A x, y \in A : x.id[1] = y.id[1] => x = y
  <2>1. Listed(d.winches) /\ NamesFollow(ToSet(d.winches))
    BY <1>2, ListFound DEF IInv, Copies, ListsListed, DecksGood
  <2> HIDE DEF A
  <2> QED
    BY <1>2, <1>6, <1>8, <2>1, StoredGood
<1> HIDE DEF A
<1>10. CASE v = d.vessel
  <2>1. w \in A
    BY <1>5, <1>7, <1>10
  <2>2. w.id \in Ids(A) /\ (CHOOSE x \in A : x.id = w.id) = w
    BY <1>9, <2>1 DEF Ids
  <2> QED
    BY <1>4, <2>2
<1>11. CASE v # d.vessel
  <2>1. w \in deck[v]
    BY <1>5, <1>11 DEF IInv, TypeOK
  <2>2. <<v, Ids(deck[v])>> \in Seen /\ w.id \in Ids(deck[v]) /\ ~IsTmp(w.id)
    BY <2>1, ServerFound DEF Ids, IInv, RowsThere
  <2>3. \A a \in Seen : a[1] = d.vessel => w.id \notin a[2]
    BY <1>11, <2>2 DEF IInv, Copies, Homes
  <2>4. w.id \notin Dropped(d.vessel, d)
    BY <1>2, <2>3, ServerFound DEF Dropped
  <2>5. ASSUME NEW y \in ToSet(d.winches)  PROVE Stored(y, n).id # w.id
    <3>1. <<d.vessel, Ids(ToSet(d.winches))>> \in Seen /\ y.id \in Ids(ToSet(d.winches))
      BY <1>2, ListFound DEF Ids
    <3>2. Stored(y, n).id = Fresh(y.id, n)
      BY <1>6 DEF Stored, Winch
    <3>3. CASE ~IsTmp(y.id)
      BY <2>3, <3>1, <3>2, <3>3 DEF Fresh
    <3>4. CASE IsTmp(y.id)
      <4>1. y.id[1][1] \in Editor
        BY <3>1, <3>4 DEF IInv, Copies, Numbered
      <4>2. w.id[1][1] \in Editor => w.id[2] # n
        BY <1>1, <2>2 DEF IInv, Copies, PutsOwn, n
      <4> QED
        BY <3>2, <3>4, <4>1, <4>2 DEF Fresh
    <3> QED
      BY <3>3, <3>4
  <2>6. w.id \notin Ids(A)
    BY <1>8, <2>5 DEF Ids
  <2>7. w.id \in DOMAIN rows
    BY <2>2 DEF IInv, RowsThere
  <2> QED
    BY <1>4, <2>1, <2>4, <2>6, <2>7
<1> QED
  BY <1>10, <1>11

\* Winches keep the drums their drum_count says, whichever editors save, and
\* crossing saves apart.
THEOREM DrumsKeptAlways == Spec => DrumsKept
<1> DEFINE Kept ==
      \A v \in Vessel :
        (\A w \in deck[v] : rows[w.id] = w.count)
        /\ ~(\E e \in Editor : Crossing(e) /\ put'[e] # put[e])
          => \A w \in deck'[v] : rows'[w.id] = w.count
<1>1. ASSUME IInv, [Next]_vars  PROVE Kept
  <2> SUFFICES ASSUME NEW v \in Vessel, \A w \in deck[v] : rows[w.id] = w.count,
                      ~(\E e \in Editor : Crossing(e) /\ put'[e] # put[e]),
                      NEW w \in deck'[v]
               PROVE  rows'[w.id] = w.count
    OBVIOUS
  <2>1. CASE ~ \E e \in Editor : SaveCommits(e)
    BY <1>1, <2>1, OnlyCommits DEF server
  <2>2. ASSUME NEW e \in Editor, SaveCommits(e)  PROVE rows'[w.id] = w.count
    <3>1. put'[e] # put[e]
      <4>1. put[e].stage = "sent" /\ put[e] \in PutType
        BY <1>1, <2>2 DEF SaveCommits, IInv, TypeOK
      <4>2. \E stage \in {"ok", "failed"} : \E a : put'[e] = [put[e] EXCEPT !.stage = stage,
           !.answer = a]
        BY <1>1, <2>2 DEF SaveCommits, Answered, IInv, TypeOK
      <4> QED
        BY <4>1, <4>2 DEF PutType
    <3>2. ~Crossing(e)
      BY <3>1
    <3> QED
      BY <1>1, <2>2, <3>2, CommitDrums
  <2> QED
    BY <2>1, <2>2
<1>2. IInv /\ [Next]_vars => [Kept]_vars
  BY <1>1
<1> QED
  BY <1>2, DeckInvariant, PTL DEF Spec, DrumsKept

-----------------------------------------------------------------------------
(* Why: whatever the query has to show is in its data, in the answer it    *)
(* waits for, or newer than the request it has yet to make.                *)

Stages == {"unused", "sent", "executed", "over"}

Mutation == DOMAIN Changes

CacheTypeOK ==
  /\ now \in Nat /\ owed \in Nat /\ raced \in BOOLEAN
  /\ write \in [Write -> [stage : Stages, kind : Mutation \cup {"none"},
                          here : BOOLEAN, version : Nat]]
  /\ query \in [data : Nat \cup {NoData}, stale : BOOLEAN, failed : BOOLEAN,
                fetch : {"idle", "first", "second", "answered"}, answer : Nat]
  /\ cached \in Nat \cup {NoData} /\ asked \in Nat /\ late \subseteq Nat

\* A write that was executed is one the server counts.
Counted ==
  \A w \in Write : InFlight(w) => write[w].kind \in Mutation /\ write[w].version <= now

\* What is owed can be had from the server.
Payable == owed <= now

\* An answer on its way was read after everything that is owed: a write that is
\* answered meanwhile cancels the fetch, or is known to have been overtaken.
AnswerPays == ~sw /\ query.fetch = "answered" => owed <= query.answer \/ raced

\* Data that counts as fresh will not be asked for again when it is shown.
FreshPays == ~sw /\ ~Fetching /\ ~query.stale => ~Behind \/ raced

CacheInv == CacheTypeOK /\ Counted /\ Payable /\ AnswerPays /\ FreshPays /\ OwnWritesShown

\* What a mutation changes and does not leave to age, it invalidates; the layout
\* that a save changes is seeded.
LEMMA NothingForgotten ==
  ASSUME NEW k \in Mutation, NEW q \in Changes[k] \ LeftToAge[k]
  PROVE  q \in Invalidates(k) \/ (k = "save" /\ q = "layout")
<1>1. k \in {"register", "move", "save", "turn", "inspection", "maker", "linetype", "product"}
  BY DEF Mutation, Changes
<1>2. CASE k \in {"register", "move", "save"}
  <2>1. k \in DOMAIN LineWrites
    BY <1>2 DEF LineWrites
  <2>2. Invalidates(k) = LineWrites[k]
    BY <2>1 DEF Invalidates
  <2>3. CASE k = "register"
    BY <2>2, <2>3 DEF Changes, LeftToAge, LineWrites
  <2>4. CASE k = "move"
    BY <2>2, <2>4 DEF Changes, LeftToAge, LineWrites
  <2>5. CASE k = "save"
    BY <2>2, <2>5 DEF Changes, LeftToAge, LineWrites
  <2> QED  BY <1>2, <2>3, <2>4, <2>5
<1>3. CASE k = "turn"
  <2>1. k \notin DOMAIN LineWrites /\ k \in DOMAIN TurnWrites
    BY <1>3 DEF LineWrites, TurnWrites
  <2>2. Invalidates(k) = TurnWrites[k]
    BY <2>1 DEF Invalidates
  <2> QED  BY <1>3, <2>2 DEF Changes, LeftToAge, TurnWrites
<1>4. CASE k = "inspection"
  <2>1. /\ k \notin DOMAIN LineWrites /\ k \notin DOMAIN TurnWrites
        /\ k \in DOMAIN InspectionWrites
    BY <1>4 DEF LineWrites, TurnWrites, InspectionWrites
  <2>2. Invalidates(k) = InspectionWrites[k]
    BY <2>1 DEF Invalidates
  <2> QED  BY <1>4, <2>2 DEF Changes, LeftToAge, InspectionWrites
<1>5. CASE k \in {"maker", "linetype", "product"}
  <2>1. /\ k \notin DOMAIN LineWrites /\ k \notin DOMAIN TurnWrites
        /\ k \notin DOMAIN InspectionWrites
    BY <1>5 DEF LineWrites, TurnWrites, InspectionWrites
  <2>2. Invalidates(k) = CatalogueWrites[k]
    BY <2>1 DEF Invalidates
  <2>3. CASE k = "maker"
    BY <2>2, <2>3 DEF Changes, LeftToAge, CatalogueWrites
  <2>4. CASE k = "linetype"
    BY <2>2, <2>4 DEF Changes, LeftToAge, CatalogueWrites
  <2>5. CASE k = "product"
    BY <2>2, <2>5 DEF Changes, LeftToAge, CatalogueWrites
  <2> QED  BY <1>5, <2>3, <2>4, <2>5
<1> QED  BY <1>1, <1>2, <1>3, <1>4, <1>5

-----------------------------------------------------------------------------

\* At the start nothing is owed.
LEMMA InitCache == CacheInit => CacheInv
<1> SUFFICES ASSUME CacheInit  PROVE CacheInv
  OBVIOUS
<1>1. query \in {Empty, Loading}
  BY DEF CacheInit
<1>2. /\ Empty \in [data : Nat \cup {NoData}, stale : BOOLEAN, failed : BOOLEAN,
                   fetch : {"idle", "first", "second", "answered"}, answer : Nat]
      /\ Empty.stale /\ Empty.data = NoData /\ Empty.fetch = "idle"
  BY DEF Empty
<1>3. /\ query.stale /\ query.data = NoData /\ query.fetch \in {"idle", "first"}
      /\ CacheTypeOK
  <2>1. /\ Loading \in [data : Nat \cup {NoData}, stale : BOOLEAN, failed : BOOLEAN,
                        fetch : {"idle", "first", "second", "answered"}, answer : Nat]
        /\ Loading.stale /\ Loading.data = NoData /\ Loading.fetch = "first"
    BY <1>2 DEF Loading
  <2>2. write \in [Write -> [stage : Stages, kind : Mutation \cup {"none"},
                            here : BOOLEAN, version : Nat]]
    BY DEF CacheInit, NoWrite, Stages
  <2> QED  BY <1>1, <1>2, <2>1, <2>2 DEF CacheInit, CacheTypeOK
<1>4. Counted /\ Payable
  BY DEF CacheInit, Counted, Payable, InFlight, NoWrite
<1>5. AnswerPays /\ FreshPays /\ OwnWritesShown
  BY <1>3 DEF AnswerPays, FreshPays, OwnWritesShown, Behind
<1> QED  BY <1>3, <1>4, <1>5 DEF CacheInv

\* The steps keep the types.
LEMMA CacheTypes ==
  ASSUME CacheTypeOK, Counted, CacheNext
  PROVE  CacheTypeOK'
<1> DEFINE Records == [stage : Stages, kind : Mutation \cup {"none"},
                       here : BOOLEAN, version : Nat]
           Queries == [data : Nat \cup {NoData}, stale : BOOLEAN, failed : BOOLEAN,
                       fetch : {"idle", "first", "second", "answered"}, answer : Nat]
           Rest == /\ now' \in Nat /\ owed' \in Nat /\ raced' \in BOOLEAN
                   /\ cached' \in Nat \cup {NoData} /\ asked' \in Nat /\ late' \subseteq Nat
<1>0. /\ write \in [Write -> Records] /\ query \in Queries /\ now \in Nat /\ owed \in Nat
      /\ raced \in BOOLEAN /\ cached \in Nat \cup {NoData} /\ asked \in Nat /\ late \subseteq Nat
  BY DEF CacheTypeOK
<1>a. SUFFICES write' \in [Write -> Records] /\ query' \in Queries /\ Rest
  BY DEF CacheTypeOK
<1>b. Empty \in Queries /\ NoWrite \in Records /\ Over \in Records
  BY DEF Empty, NoWrite, Over, Stages
<1>c. ASSUME NEW v \in Nat, AnsweredWith(v)  PROVE query' \in Queries
  BY <1>0, <1>c DEF AnsweredWith
<1>d. DOMAIN Changes = Mutation
  BY DEF Mutation
<1>1. ASSUME NEW p \in Pages, GoTo(p)
      PROVE  write' \in [Write -> Records] /\ query' \in Queries /\ Rest
  <2>1. query' \in Queries
    BY <1>0, <1>1 DEF GoTo
  <2>2. write' \in [Write -> Records]
    BY <1>0, <1>1 DEF GoTo
  <2> QED  BY <1>0, <1>1, <2>1, <2>2 DEF GoTo, duty, network
<1>2. CASE Age \/ Collect
  <2>1. query' \in Queries
    BY <1>0, <1>b, <1>2 DEF Age, Collect
  <2> QED  BY <1>0, <1>2, <2>1 DEF Age, Collect, duty, network
<1>3. CASE Serve
  BY <1>0, <1>c, <1>3 DEF Serve, duty
<1>4. CASE FetchFails
  <2>1. query' \in Queries
    BY <1>0, <1>4 DEF FetchFails
  <2> QED  BY <1>0, <1>4, <2>1 DEF FetchFails, duty, network
<1>5. CASE Deliver
  <2>1. query.answer \in Nat
    BY <1>0
  <2>2. query' \in Queries
    BY <1>5, <2>1 DEF Deliver, Empty
  <2> QED  BY <1>0, <1>5, <2>2 DEF Deliver, duty, network
<1>6. CASE FromCache
  <2>1. query' \in Queries
    BY <1>0, <1>c, <1>6 DEF FromCache
  <2> QED  BY <1>0, <1>6, <2>1 DEF FromCache, duty
<1>7. CASE ServiceWorker
  <2>1. UNCHANGED <<now, owed, raced, write, query>>
    BY <1>7 DEF ServiceWorker, Revalidate, RevalidateFails, Store, Expire, duty
  <2>2. CASE Revalidate \/ RevalidateFails
    <3>1. asked' \in Nat
      BY <1>0, <2>2 DEF Revalidate, RevalidateFails
    <3>2. late' \subseteq Nat
      BY <1>0, <2>2 DEF Revalidate, RevalidateFails
    <3>3. UNCHANGED cached
      BY <2>2 DEF Revalidate, RevalidateFails
    <3> QED  BY <1>0, <2>1, <3>1, <3>2, <3>3
  <2>3. CASE Store \/ Expire
    BY <1>0, <2>1, <2>3 DEF Store, Expire
  <2> QED  BY <1>7, <2>2, <2>3 DEF ServiceWorker
<1>8. ASSUME NEW w \in Write, NEW k \in Kinds, Submit(w, k)
      PROVE write' \in [Write -> Records] /\ query' \in Queries /\ Rest
  <2>1. k \in Mutation
    BY <1>8 DEF Submit, Offered, Mutation, Changes
  <2>2. [NoWrite EXCEPT !.stage = "sent", !.kind = k, !.here = TRUE] \in Records
    BY <2>1 DEF NoWrite, Stages
  <2>3. write' \in [Write -> Records]
    BY <1>0, <1>8, <2>2 DEF Submit
  <2> QED  BY <1>0, <1>8, <2>3 DEF Submit, duty, network
<1>9. ASSUME NEW w \in Write, Execute(w)
      PROVE write' \in [Write -> Records] /\ query' \in Queries /\ Rest
  <2> DEFINE done == [write[w] EXCEPT !.stage = "executed", !.version = now + 1]
  <2>0. write[w] \in Records /\ now + 1 \in Nat /\ "executed" \in Stages
    BY <1>0 DEF Stages
  <2>1. done \in Records
    BY <2>0
  <2>2. write' = [write EXCEPT ![w] = done]
    BY <1>0, <1>9 DEF Execute
  <2>3. write' \in [Write -> Records]
    BY <1>0, <2>1, <2>2
  <2> QED  BY <1>0, <1>9, <2>3 DEF Execute, duty, network
<1>10. ASSUME NEW w \in Write, Fails(w)
      PROVE write' \in [Write -> Records] /\ query' \in Queries /\ Rest
  BY <1>0, <1>b, <1>10 DEF Fails, duty, network
<1>11. ASSUME NEW w \in Write, Succeed(w)
      PROVE write' \in [Write -> Records] /\ query' \in Queries /\ Rest
  <2>1. write[w].version \in Nat
    BY <1>0
  <2>2. Seeded(w) \in Queries /\ Invalidated \in Queries /\ raced' \in BOOLEAN
    BY <1>0, <1>11, <2>1 DEF Seeded, Invalidated, Succeed
  <2>3. query' \in Queries
    BY <1>0, <1>11, <2>2 DEF Succeed
  <2>4. owed' \in Nat
    BY <1>0, <1>11, <2>1 DEF Succeed
  <2>5. write' \in [Write -> Records]
    BY <1>0, <1>b, <1>11 DEF Succeed
  <2> QED  BY <1>0, <1>11, <2>2, <2>3, <2>4, <2>5 DEF Succeed, network
<1> QED
  BY <1>1, <1>2, <1>3, <1>4, <1>5, <1>6, <1>7, <1>8, <1>9, <1>10, <1>11 DEF CacheNext, Fetch

\* What is said of a write stays true of it: the server counts it when it
\* executes it.
LEMMA WritesCounted ==
  ASSUME CacheTypeOK, Counted, CacheNext
  PROVE  Counted'
<1> DEFINE Safe(w) == InFlight(w) => write[w].kind \in Mutation /\ write[w].version <= now
<1>0. /\ \A w \in Write : write[w].version \in Nat
      /\ now \in Nat
      /\ \A w \in Write : Safe(w)
  BY DEF CacheTypeOK, Counted
<1>w. /\ write \in [Write -> [stage : Stages, kind : Mutation \cup {"none"},
                            here : BOOLEAN, version : Nat]]
  BY DEF CacheTypeOK
<1>1. CASE UNCHANGED <<write, now>>
  BY <1>0, <1>1 DEF Counted, InFlight
<1>2. ASSUME NEW p \in Pages, GoTo(p)  PROVE Counted'
  <2>1. UNCHANGED now /\ write' = [w \in Write |-> [write[w] EXCEPT !.here = FALSE]]
    BY <1>2 DEF GoTo
  <2>2. ASSUME NEW w \in Write
        PROVE  /\ write'[w].stage = write[w].stage /\ write'[w].kind = write[w].kind
               /\ write'[w].version = write[w].version
    <3>1. write[w] \in [stage : Stages, kind : Mutation \cup {"none"},
                            here : BOOLEAN, version : Nat]
      BY <1>w
    <3> QED  BY <2>1, <3>1
  <2> QED  BY <1>0, <2>1, <2>2 DEF Counted, InFlight
<1>3. CASE Age \/ Collect \/ Fetch \/ ServiceWorker
  BY <1>1, <1>3 DEF Age, Collect, Fetch, Serve, FetchFails, Deliver, FromCache, ServiceWorker,
                    Revalidate, RevalidateFails, Store, Expire
<1>4. ASSUME NEW w \in Write, NEW k \in Kinds, Submit(w, k)  PROVE Counted'
  <2>1. k \in Mutation
    BY <1>4 DEF Submit, Offered, Mutation, Changes
  <2> DEFINE new == [NoWrite EXCEPT !.stage = "sent", !.kind = k, !.here = TRUE]
  <2>2. new.kind = k /\ new.version = 0
    BY DEF NoWrite
  <2>3. write' = [write EXCEPT ![w] = new] /\ UNCHANGED now
    BY <1>4 DEF Submit
  <2> HIDE DEF new
  <2>4. write'[w] = new /\ \A v \in Write : v # w => write'[v] = write[v]
    BY <1>w, <2>3
  <2> QED  BY <1>0, <2>1, <2>2, <2>3, <2>4 DEF Counted, InFlight
<1>5. ASSUME NEW w \in Write, Execute(w)  PROVE Counted'
  <2> DEFINE done == [write[w] EXCEPT !.stage = "executed", !.version = now + 1]
  <2>1. /\ write' = [write EXCEPT ![w] = done]
        /\ now' = now + 1 /\ write[w].stage = "sent"
    BY <1>w, <1>5 DEF Execute
  <2>2. write[w] \in [stage : Stages, kind : Mutation \cup {"none"},
                     here : BOOLEAN, version : Nat]
    BY <1>w
  <2>3. done.kind = write[w].kind /\ done.version = now + 1
    BY <2>2
  <2> HIDE DEF done
  <2>4. write'[w] = done /\ \A v \in Write : v # w => write'[v] = write[v]
    BY <1>w, <2>1
  <2> QED  BY <1>0, <2>1, <2>3, <2>4 DEF Counted, InFlight
<1>6. ASSUME NEW w \in Write, Fails(w) \/ Succeed(w)  PROVE Counted'
  <2>1. write' = [write EXCEPT ![w] = Over] /\ UNCHANGED now
    BY <1>6 DEF Fails, Succeed
  <2>2. Over.stage = "over"
    BY DEF Over, NoWrite
  <2>3. write'[w] = Over /\ \A v \in Write : v # w => write'[v] = write[v]
    BY <1>w, <2>1
  <2> QED  BY <1>0, <2>1, <2>2, <2>3 DEF Counted, InFlight
<1> QED  BY <1>2, <1>3, <1>4, <1>5, <1>6 DEF CacheNext

-----------------------------------------------------------------------------

Pays == Payable /\ AnswerPays /\ FreshPays /\ OwnWritesShown

\* A page that comes to show the query fetches it, unless its data is fresh or
\* a fetch is running.
LEMMA GoToPays ==
  ASSUME CacheTypeOK, Pays, NEW p \in Pages, GoTo(p)
  PROVE  Pays'
<1>0. /\ query.stale \in BOOLEAN /\ query.failed \in BOOLEAN /\ now \in Nat
      /\ UNCHANGED <<now, key, sw>> /\ page' = p
  BY DEF CacheTypeOK, GoTo, network
<1> DEFINE mounted == key \in Shows[p] /\ ~Active
<1>1. CASE mounted /\ Mounts
  <2>1. owed' = now
    BY <1>1 DEF GoTo
  <2>2. query'.fetch = "first"
    BY <1>1 DEF GoTo, CacheTypeOK
  <2> QED  BY <1>0, <2>1, <2>2 DEF Pays, Payable, AnswerPays, FreshPays, OwnWritesShown, Fetching
<1>2. CASE ~(mounted /\ Mounts)
  <2>1. UNCHANGED <<query, owed, raced>>
    BY <1>2 DEF GoTo, duty
  <2>2. Payable' /\ AnswerPays' /\ FreshPays'
    BY <1>0, <2>1 DEF Pays, Payable, AnswerPays, FreshPays, Fetching, Behind
  <2>3. OwnWritesShown'
    <3> SUFFICES ASSUME ~sw, key \in Shows[p], ~Fetching, ~query.failed  PROVE ~Behind \/ raced
      BY <1>0, <2>1 DEF OwnWritesShown, Active, Fetching, Behind
    <3>1. CASE Active
      BY <3>1 DEF Pays, OwnWritesShown
    <3>2. CASE ~query.stale
      BY <3>2 DEF Pays, FreshPays
    <3> QED  BY <1>2, <3>1, <3>2 DEF Mounts
  <2> QED  BY <2>2, <2>3 DEF Pays
<1> QED  BY <1>1, <1>2

\* Time and the garbage collector only make a query ask again.
LEMMA AgePays ==
  ASSUME CacheTypeOK, Pays, Age \/ Collect
  PROVE  Pays'
<1>0. UNCHANGED <<now, key, sw, owed, raced, page>>
  BY DEF Age, Collect, duty, network
<1>1. CASE Age
  <2>1. /\ query'.fetch = query.fetch /\ query'.stale /\ query'.failed = query.failed
        /\ query'.data = query.data /\ query'.answer = query.answer
    BY <1>1 DEF Age, CacheTypeOK
  <2> QED  BY <1>0, <2>1 DEF Pays, Payable, AnswerPays, FreshPays, OwnWritesShown, Fetching,
                            Active, Behind
<1>2. CASE Collect
  <2>1. query'.data = NoData /\ query'.fetch = "idle"
    BY <1>2 DEF Collect, Empty
  <2> QED  BY <1>0, <2>1 DEF Pays, Payable, AnswerPays, FreshPays, OwnWritesShown, Behind
<1> QED  BY <1>1, <1>2

\* Without a service worker the server answers with all it has executed.
LEMMA FetchPays ==
  ASSUME CacheTypeOK, Pays, Fetch
  PROVE  Pays'
<1>0. UNCHANGED <<now, key, sw, owed, raced, page>>
  BY DEF Fetch, Serve, FetchFails, Deliver, FromCache, duty, network
<1>1. CASE Serve
  <2>1. query'.fetch = "answered" /\ query'.answer = now
    BY <1>1 DEF Serve, AnsweredWith, CacheTypeOK
  <2> QED  BY <1>0, <2>1 DEF Pays, Payable, AnswerPays, FreshPays, OwnWritesShown, Fetching
<1>2. CASE FetchFails
  <2>1. query'.fetch = "second" \/ (query'.fetch = "idle" /\ query'.failed /\ query'.stale)
    <3>1. query \in [data : Nat \cup {NoData}, stale : BOOLEAN, failed : BOOLEAN,
                   fetch : {"idle", "first", "second", "answered"}, answer : Nat]
      BY DEF CacheTypeOK
    <3>2. CASE query.fetch = "first" /\ Active
      <4>1. query' = [query EXCEPT !.fetch = "second"]
        BY <1>2, <3>2 DEF FetchFails
      <4> QED  BY <3>1, <4>1
    <3>3. CASE ~(query.fetch = "first" /\ Active)
      <4>1. query' = [query EXCEPT !.fetch = "idle", !.failed = TRUE, !.stale = TRUE]
        BY <1>2, <3>3 DEF FetchFails
      <4> QED  BY <3>1, <4>1
    <3> QED  BY <3>2, <3>3
  <2> QED  BY <1>0, <2>1 DEF Pays, Payable, AnswerPays, FreshPays, OwnWritesShown, Fetching
<1>3. CASE Deliver
  <2>1. query.fetch = "answered"
    BY <1>3 DEF Deliver
  <2>2. query'.fetch = "idle" /\ query'.data = query.answer
    BY <1>3 DEF Deliver, Empty
  <2>3. query.answer \in Nat /\ owed \in Nat
    BY DEF CacheTypeOK
  <2> QED  BY <1>0, <2>1, <2>2, <2>3
              DEF Pays, Payable, AnswerPays, FreshPays, OwnWritesShown, Behind
<1>4. CASE FromCache
  BY <1>0, <1>4 DEF FromCache, Pays, Payable, AnswerPays, FreshPays, OwnWritesShown
<1> QED  BY <1>1, <1>2, <1>3, <1>4 DEF Fetch

\* A write that is answered is owed by data that is seeded with it or asked for
\* again: whatever it does not leave to age it invalidates. What comes in between
\* is told by raced.
LEMMA SucceedPays ==
  ASSUME CacheTypeOK, Counted, Pays, NEW w \in Write, Succeed(w)
  PROVE  Pays'
<1> DEFINE k == write[w].kind
           v == write[w].version
<1>0. /\ UNCHANGED <<now, key, sw, page>>
      /\ k \in Mutation /\ v \in Nat /\ v <= now /\ now \in Nat /\ owed \in Nat
      /\ raced \in BOOLEAN
      /\ owed' = IF Owes(w) /\ owed < v THEN v ELSE owed
      /\ raced' = (query'.fetch # "first" /\ (raced \/ (Owes(w) /\ Overtaken(w))))
  BY DEF Succeed, network, CacheTypeOK, Counted, InFlight
<1>q. query \in [data : Nat \cup {NoData}, stale : BOOLEAN, failed : BOOLEAN,
                fetch : {"idle", "first", "second", "answered"}, answer : Nat]
  BY DEF CacheTypeOK
<1>p. Payable'
  BY <1>0 DEF Pays, Payable
<1>1. CASE query'.fetch \in {"first", "second"}
  BY <1>1, <1>p DEF Pays, AnswerPays, FreshPays, OwnWritesShown, Fetching
<1>2. CASE Seeds(w) /\ query'.fetch \notin {"first", "second"}
  <2>1. query' = Seeded(w) /\ Owes(w)
    BY <1>2 DEF Succeed, Seeds, Owes, Changes, LeftToAge
  <2>2. query'.data = v /\ query'.fetch = query.fetch /\ query'.answer = query.answer
    BY <1>q, <2>1 DEF Seeded
  <2>3. CASE query.fetch = "answered"
    <3>1. ~sw => owed' <= query.answer \/ raced'
      <4>1. CASE query.answer < v
        BY <1>0, <1>2, <2>1, <2>2, <2>3, <4>1 DEF Overtaken
      <4>2. CASE v <= query.answer
        BY <1>0, <1>q, <2>2, <2>3, <4>2 DEF Pays, AnswerPays
      <4> QED  BY <1>0, <1>q, <4>1, <4>2
    <3> QED  BY <1>0, <1>p, <2>2, <2>3, <3>1
                DEF Pays, AnswerPays, FreshPays, OwnWritesShown, Fetching
  <2>4. CASE query.fetch = "idle"
    <3>1. v < owed => raced'
      BY <1>0, <1>2, <2>1, <2>2, <2>4 DEF Overtaken, Fetching
    <3>2. owed' <= v \/ raced'
      BY <1>0, <2>1, <3>1
    <3> QED  BY <1>0, <1>p, <2>2, <2>4, <3>2
                DEF Pays, AnswerPays, FreshPays, OwnWritesShown, Behind
  <2> QED  BY <1>q, <1>2, <2>2, <2>3, <2>4
<1>3. CASE ~Seeds(w) /\ query'.fetch \notin {"first", "second"}
  <2>1. query' \in {query, Invalidated}
    BY <1>3 DEF Succeed
  <2>2. /\ query'.fetch = query.fetch /\ query'.answer = query.answer
        /\ query'.data = query.data /\ query'.failed = query.failed
        /\ query'.stale \/ query'.stale = query.stale
    BY <1>q, <1>3, <2>1 DEF Invalidated
  <2>3. CASE owed' = owed
    BY <1>0, <1>p, <1>3, <2>2, <2>3
       DEF Pays, AnswerPays, FreshPays, OwnWritesShown, Fetching, Active, Behind
  <2>4. CASE owed' # owed
    <3>1. Owes(w) /\ owed' = v
      BY <1>0, <2>4
    <3>2. key \in Invalidates(k)
      BY <1>0, <1>3, <3>1, NothingForgotten DEF Owes, Seeds
    <3>3. query' = Invalidated /\ ~(Active /\ (Fetching => query.data # NoData))
      <4>1. query' = Invalidated
        BY <1>3, <3>2 DEF Succeed
      <4>2. ASSUME Active, Fetching => query.data # NoData  PROVE query'.fetch = "first"
        BY <1>q, <4>1, <4>2 DEF Invalidated
      <4> QED  BY <1>3, <4>1, <4>2
    <3>4. query'.stale
      BY <1>q, <3>3 DEF Invalidated
    <3>5. CASE query.fetch = "answered"
      <4>1. query.answer < v => raced'
        BY <1>0, <1>3, <2>2, <3>1, <3>3, <3>5 DEF Overtaken
      <4>2. owed' <= query.answer \/ raced'
        BY <1>0, <1>q, <3>1, <4>1
      <4> QED  BY <1>0, <1>p, <2>2, <3>5, <4>2
                  DEF Pays, AnswerPays, FreshPays, OwnWritesShown, Fetching
    <3>6. CASE query.fetch = "idle"
      <4>1. ~Active'
        BY <1>0, <3>3, <3>6 DEF Active, Fetching
      <4> QED  BY <1>p, <2>2, <3>4, <3>6, <4>1
                  DEF Pays, AnswerPays, FreshPays, OwnWritesShown
    <3> QED  BY <1>q, <1>3, <2>2, <3>5, <3>6
  <2> QED  BY <2>3, <2>4
<1> QED  BY <1>1, <1>2, <1>3

\* The invariant holds in every reachable state.
THEOREM CacheInvariant == CacheSpec => []CacheInv
<1>1. ASSUME CacheInv, CacheNext  PROVE CacheInv'
  <2>1. CacheTypeOK' /\ Counted'
    BY <1>1, CacheTypes, WritesCounted DEF CacheInv
  <2>2. Pays
    BY <1>1 DEF CacheInv, Pays
  <2>3. Pays'
    <3>1. ASSUME UNCHANGED <<page, key, query, owed, raced, sw>>, now \in Nat, now' \in Nat, now <= now'
          PROVE  Pays'
      <4>1. Payable' /\ AnswerPays'
        BY <1>1, <2>2, <3>1 DEF Pays, CacheInv, CacheTypeOK, Payable, AnswerPays
      <4>2. FreshPays' /\ OwnWritesShown'
        BY <2>2, <3>1 DEF Pays, FreshPays, OwnWritesShown, Fetching, Active, Behind
      <4> QED  BY <4>1, <4>2 DEF Pays
    <3>2. CASE ServiceWorker
      BY <1>1, <3>1, <3>2 DEF ServiceWorker, Revalidate, RevalidateFails, Store, Expire,
                              duty, CacheInv, CacheTypeOK
    <3>3. ASSUME NEW w \in Write, NEW k \in Kinds, Submit(w, k)  PROVE Pays'
      BY <1>1, <3>1, <3>3 DEF Submit, duty, network, CacheInv, CacheTypeOK
    <3>4. ASSUME NEW w \in Write, Execute(w) \/ Fails(w)  PROVE Pays'
      <4>1. now' \in Nat /\ now <= now'
        BY <1>1, <3>4 DEF Execute, Fails, CacheInv, CacheTypeOK
      <4>2. UNCHANGED <<page, key, query, owed, raced, sw>> /\ now \in Nat
        BY <1>1, <3>4 DEF Execute, Fails, duty, network, CacheInv, CacheTypeOK
      <4> QED  BY <3>1, <4>1, <4>2
    <3> QED
      BY <1>1, <2>2, <3>2, <3>3, <3>4, GoToPays, AgePays, FetchPays,
         SucceedPays DEF CacheNext, CacheInv
  <2> QED  BY <2>1, <2>3 DEF CacheInv, Pays
<1>2. CacheInv /\ UNCHANGED cacheVars => CacheInv'
  BY DEF cacheVars, CacheInv, CacheTypeOK, Counted, InFlight, Payable, AnswerPays,
         FreshPays, OwnWritesShown, Fetching, Active, Behind
<1> QED  BY <1>1, <1>2, InitCache, PTL DEF CacheSpec

\* Without a service worker, a query that is shown, has settled and has not
\* failed shows every write of the user that was answered, unless one of these
\* answers was overtaken (Overtaken) since the query was last asked for: the
\* seed and the invalidations of hooks.ts leave no other way to lose a write.
THEOREM WritesShow == CacheSpec => []OwnWritesShown
<1>1. CacheInv => OwnWritesShown
  BY DEF CacheInv
<1> QED  BY <1>1, CacheInvariant, PTL
=============================================================================
