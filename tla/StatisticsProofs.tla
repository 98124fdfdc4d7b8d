--------------------------- MODULE StatisticsProofs ---------------------------
(* What the queries of Statistics return for any table of events, any range
   and filters, any limit.

   The sums run over sets of any size, so they need an induction.  It is done
   as a least counterexample: finite subsets are well-founded under inclusion. *)
EXTENDS FiniteSetsExt, FiniteSetTheorems, TLAPS

CONSTANTS None, Limit, Day, Week

Db(rows, named) == INSTANCE Statistics

\* The sum of the counts of a breakdown.
Total(groups) == MapThenSumSet(LAMBDA g : g.count, groups)

-----------------------------------------------------------------------------
(* Least elements. *)

LEMMA MinimalSubset ==
  ASSUME NEW S, IsFiniteSet(S), NEW T \in SUBSET (SUBSET S), T # {}
  PROVE  \E s \in T : \A r \in T : r \subseteq s => r = s
<1>1. T \subseteq FiniteSubsetsOf(S)
  BY FS_Subset DEF FiniteSubsetsOf
<1>2. \E s \in T : \A r \in T : <<r, s>> \notin StrictSubsetOrdering(S)
  BY <1>1, FS_StrictSubsetOrderingWellFounded, WFMin
<1> QED BY <1>2 DEF StrictSubsetOrdering

LEMMA LeastNat ==
  ASSUME NEW T \in SUBSET Nat, T # {}
  PROVE  \E n \in T : \A m \in T : n <= m
<1>1. PICK top \in T : TRUE
  OBVIOUS
<1> DEFINE S == 0..top
           below == {0..n : n \in {m \in T : m <= top}}
<1>2. IsFiniteSet(S)
  BY FS_Interval
<1>3. below \in SUBSET (SUBSET S) /\ below # {}
  BY <1>1
<1> HIDE DEF below, S
<1>4. PICK s \in below : \A r \in below : r \subseteq s => r = s
  BY <1>2, <1>3, MinimalSubset
<1>5. PICK n \in T : s = 0..n /\ n <= top
  BY DEF below
<1>6. ASSUME NEW m \in T PROVE n <= m
  <2> SUFFICES ASSUME m < n PROVE FALSE
    BY <1>5
  <2>1. 0..m \in below /\ 0..m \subseteq 0..n /\ n \in 0..n /\ n \notin 0..m
    BY <1>5 DEF below
  <2> QED BY <1>4, <1>5, <2>1
<1> QED BY <1>6

-----------------------------------------------------------------------------
(* Counting. *)

LEMMA DisjointUnion ==
  ASSUME NEW S, IsFiniteSet(S), NEW T, IsFiniteSet(T), S \cap T = {}
  PROVE  /\ IsFiniteSet(S \cup T)
         /\ Cardinality(S) \in Nat /\ Cardinality(T) \in Nat
         /\ Cardinality(S \cup T) = Cardinality(S) + Cardinality(T)
<1>1. IsFiniteSet(S \cup T) /\ Cardinality(S \cup T) = Cardinality(S) + Cardinality(T) - Cardinality({})
  <2>1. /\ IsFiniteSet(S \cup T)
        /\ Cardinality(S \cup T) = Cardinality(S) + Cardinality(T) - Cardinality(S \cap T)
    BY FS_Union
  <2> QED BY Zenon, <2>1
<1>2. Cardinality(S) \in Nat /\ Cardinality(T) \in Nat
  BY FS_CardinalityType
<1>3. Cardinality({}) = 0
  BY FS_EmptySet
<1> QED BY <1>1, <1>2, <1>3

-----------------------------------------------------------------------------
(* The few largest: what ORDER BY ... DESC LIMIT picks. *)

LEMMA LargestFew ==
  ASSUME NEW S, IsFiniteSet(S), NEW w \in [S -> Nat], NEW k \in Nat, k <= Cardinality(S)
  PROVE  \E T \in SUBSET S : /\ Cardinality(T) = k
                             /\ \A a \in T, b \in S \ T : w[a] >= w[b]
<1> DEFINE Heavy(T) == \A a \in T, b \in S \ T : w[a] >= w[b]
           U == {T \in SUBSET S : Heavy(T) /\ Cardinality(T) >= k}
<1>1. S \in U
  OBVIOUS
<1>2. PICK T \in U : \A r \in U : r \subseteq T => r = T
  <2>1. U \in SUBSET (SUBSET S) /\ U # {}
    BY <1>1
  <2> HIDE DEF U
  <2> QED BY <2>1, MinimalSubset
<1>3. T \in SUBSET S /\ Heavy(T) /\ IsFiniteSet(T) /\ Cardinality(T) \in Nat /\ Cardinality(T) >= k
  BY <1>2, FS_Subset, FS_CardinalityType
<1>4. ASSUME Cardinality(T) > k PROVE FALSE
  <2>1. T # {}
    BY <1>3, <1>4, FS_EmptySet
  <2>2. PICK x \in T : \A y \in T : w[x] <= w[y]
    <3>1. {w[y] : y \in T} \in SUBSET Nat /\ {w[y] : y \in T} # {}
      BY <1>3, <2>1
    <3>2. PICK n \in {w[y] : y \in T} : \A m \in {w[y] : y \in T} : n <= m
      BY <3>1, LeastNat
    <3> QED BY <3>2
  <2>3. Cardinality(T \ {x}) = Cardinality(T) - 1
    BY <1>3, FS_RemoveElement
  <2>4. Heavy(T \ {x})
    BY <1>3, <2>2
  <2>5. T \ {x} \in U
    BY <1>3, <1>4, <2>3, <2>4
  <2> QED BY <1>2, <2>5
<1> QED BY <1>3, <1>4

-----------------------------------------------------------------------------
(* Sums over groups. *)

Grouped(key) ==
  {[name |-> key[e], count |-> Cardinality({d \in DOMAIN key : key[d] = key[e]})] : e \in DOMAIN key}

\* What is in the groups G.
Members(key, G) == {e \in DOMAIN key : \E g \in G : g.name = key[e]}

\* A group is of the rows that have its name; no two have the same.
LEMMA GroupIsItsName ==
  ASSUME NEW key, NEW g \in Grouped(key)
  PROVE  /\ \E e \in DOMAIN key : g.name = key[e]
         /\ g = [name |-> g.name, count |-> Cardinality({d \in DOMAIN key : key[d] = g.name})]
         /\ g.count = Cardinality({d \in DOMAIN key : key[d] = g.name})
         /\ \A h \in Grouped(key) : h.name = g.name => h = g
<1> DEFINE group(k) == [name |-> k, count |-> Cardinality({d \in DOMAIN key : key[d] = k})]
<1>1. \A h \in Grouped(key) : \E e \in DOMAIN key : h = group(key[e])
  BY DEF Grouped
<1>2. \A k : /\ group(k) = [name |-> k, count |-> Cardinality({d \in DOMAIN key : key[d] = k})]
            /\ group(k).name = k
            /\ group(k).count = Cardinality({d \in DOMAIN key : key[d] = k})
  OBVIOUS
<1> HIDE DEF group
<1>3. \A h \in Grouped(key) : h = group(h.name)
  BY <1>1, <1>2
<1> QED BY <1>1, <1>2, <1>3

LEMMA MembersOfOneMore ==
  ASSUME NEW key, IsFiniteSet(DOMAIN key), NEW G \in SUBSET Grouped(key), NEW g \in G
  PROVE  /\ g.count \in Nat
         /\ Cardinality(Members(key, G \ {g})) \in Nat
         /\ Cardinality(Members(key, G)) = g.count + Cardinality(Members(key, G \ {g}))
<1> DEFINE one == {d \in DOMAIN key : key[d] = g.name}
           rest == Members(key, G \ {g})
<1>1. g.count = Cardinality(one)
  BY GroupIsItsName
<1>2. Members(key, G) = one \cup rest
  BY DEF Members
<1>3. one \cap rest = {}
  <2>1. \A f \in G : f.name = g.name => f = g
    BY GroupIsItsName
  <2> QED BY <2>1 DEF Members
<1>4. IsFiniteSet(one) /\ IsFiniteSet(rest)
  BY FS_Subset DEF Members
<1> HIDE DEF one, rest
<1>5. /\ Cardinality(one \cup rest) = Cardinality(one) + Cardinality(rest)
      /\ Cardinality(one) \in Nat /\ Cardinality(rest) \in Nat
  BY <1>3, <1>4, DisjointUnion
<1> QED BY <1>1, <1>2, <1>5 DEF rest

LEMMA TotalIsMembers ==
  ASSUME NEW key, IsFiniteSet(DOMAIN key), NEW G \in SUBSET Grouped(key)
  PROVE  Total(G) = Cardinality(Members(key, G))
<1> DEFINE Pick(s) == CHOOSE x \in s : TRUE
           Sums(f) == f = [s \in SUBSET G |-> IF s = {} THEN 0 ELSE Pick(s).count + f[s \ {Pick(s)}]]
           sum == CHOOSE f : Sums(f)
           size == [s \in SUBSET G |-> Cardinality(Members(key, s))]
<1>1. Total(G) = sum[G]
  BY DEF Total, MapThenSumSet, MapThenFoldSet
<1>2. ASSUME NEW s \in SUBSET G, s # {}
      PROVE  Pick(s) \in s /\ size[s] = Pick(s).count + size[s \ {Pick(s)}]
  <2>1. Pick(s) \in s
    BY <1>2
  <2> HIDE DEF Pick
  <2>2. s \in SUBSET Grouped(key) /\ s \ {Pick(s)} \in SUBSET G
    OBVIOUS
  <2> QED BY <2>1, <2>2, MembersOfOneMore
<1>3. size[{}] = 0
  BY FS_EmptySet DEF Members
<1>4. Sums(size)
  <2> HIDE DEF Pick
  <2> QED BY <1>2, <1>3
<1>5. Sums(sum)
  BY <1>4
<1>6. IsFiniteSet(G)
  <2> DEFINE g == [e \in DOMAIN key |-> [name |-> key[e], count |-> Cardinality({d \in DOMAIN key : key[d] = key[e]})]]
  <2>1. g \in Surjection(DOMAIN key, Grouped(key))
    BY DEF Surjection, Grouped
  <2> QED BY <2>1, FS_Surjection, FS_Subset
<1> DEFINE Bad == {s \in SUBSET G : sum[s] # size[s]}
<1>7. Bad = {}
  <2> SUFFICES ASSUME Bad # {} PROVE FALSE
    OBVIOUS
  <2>1. PICK s \in Bad : \A r \in Bad : r \subseteq s => r = s
    <3>1. Bad \in SUBSET (SUBSET G)
      OBVIOUS
    <3> HIDE DEF Bad
    <3> QED BY <1>6, <3>1, MinimalSubset
  <2> HIDE DEF sum, size, Pick
  <2>2. s # {}
    BY <1>3, <1>5
  <2>3. Pick(s) \in s /\ size[s] = Pick(s).count + size[s \ {Pick(s)}]
    BY <1>2, <2>2
  <2>4. sum[s] = Pick(s).count + sum[s \ {Pick(s)}]
    BY <1>5, <2>2
  <2>5. s \ {Pick(s)} \notin Bad /\ s \ {Pick(s)} \in SUBSET G
    BY <2>1, <2>3
  <2> QED BY <2>3, <2>4, <2>5
<1>8. sum[G] = size[G]
  BY <1>7
<1> QED BY <1>1, <1>8

-----------------------------------------------------------------------------
(* The operators of Statistics in these terms. *)

LEMMA GroupsAreGrouped ==
  ASSUME NEW rows, NEW named, NEW key PROVE Db(rows, named)!Groups(key) = Grouped(key)
<1>1. \A S : Db(rows, named)!Cardinality(S) = Cardinality(S)
  BY DEF Db!Cardinality, Cardinality
<1>2. Db(rows, named)!Groups(key)
        = {[name |-> k, count |-> Cardinality({e \in DOMAIN key : key[e] = k})] :
             k \in {key[e] : e \in DOMAIN key}}
  BY <1>1 DEF Db!Groups, Db!Range
<1> QED BY <1>2 DEF Grouped

LEMMA GroupedIsFinite ==
  ASSUME NEW key, IsFiniteSet(DOMAIN key)
  PROVE  /\ IsFiniteSet(Grouped(key))
         /\ Cardinality(Grouped(key)) = Cardinality({key[e] : e \in DOMAIN key})
         /\ \A g \in Grouped(key) : g.count \in Nat
<1> DEFINE group == [e \in DOMAIN key |->
             [name |-> key[e], count |-> Cardinality({d \in DOMAIN key : key[d] = key[e]})]]
           names == {key[e] : e \in DOMAIN key}
           name == [g \in Grouped(key) |-> g.name]
<1>1. group \in Surjection(DOMAIN key, Grouped(key))
  BY DEF Surjection, Grouped
<1>2. IsFiniteSet(Grouped(key))
  BY <1>1, FS_Surjection
<1>3. \A g \in Grouped(key) : g.count \in Nat
  <2> SUFFICES ASSUME NEW g \in Grouped(key) PROVE g.count \in Nat
    OBVIOUS
  <2>1. g.count = Cardinality({d \in DOMAIN key : key[d] = g.name})
    BY GroupIsItsName
  <2> QED BY <2>1, FS_Subset, FS_CardinalityType
<1>4. \A g, h \in Grouped(key) : g.name = h.name => g = h
  BY GroupIsItsName
<1>5. \A g \in Grouped(key) : g.name \in names
  BY GroupIsItsName
<1>6. \A e \in DOMAIN key : group[e] \in Grouped(key) /\ group[e].name = key[e]
  BY DEF Grouped
<1> HIDE DEF group
<1>7. name \in Bijection(Grouped(key), names)
  <2>1. name \in [Grouped(key) -> names]
    BY <1>5
  <2>2. \A n \in names : \E g \in Grouped(key) : name[g] = n
    BY <1>6
  <2>3. \A g, h \in Grouped(key) : name[g] = name[h] => g = h
    BY <1>4
  <2> HIDE DEF name, names
  <2> QED BY <2>1, <2>2, <2>3 DEF Bijection, Injection, Surjection, IsInjective
<1>8. Cardinality(names) = Cardinality(Grouped(key))
  <2>1. ExistsBijection(Grouped(key), names)
    BY <1>7 DEF ExistsBijection
  <2> HIDE DEF names
  <2> QED BY <1>2, <2>1, FS_Bijection
<1> QED BY <1>2, <1>3, <1>8

\* Top shows Limit groups, or all, and none left out is larger.
LEMMA TopIsLargest ==
  ASSUME NEW rows, NEW named, Limit \in Nat, NEW key, IsFiniteSet(DOMAIN key),
         NEW top, top = Db(rows, named)!Top(Grouped(key))
  PROVE  /\ top \in SUBSET Grouped(key)
         /\ Cardinality(top) = Db(rows, named)!Min2(Limit, Cardinality(Grouped(key)))
         /\ \A g \in top, h \in Grouped(key) \ top : g.count >= h.count
<1> DEFINE G == Grouped(key)
           k == Db(rows, named)!Min2(Limit, Cardinality(G))
           w == [g \in G |-> g.count]
           Largest(T) == Cardinality(T) = k /\ \A g \in T, h \in G \ T : g.count >= h.count
<1>1. IsFiniteSet(G) /\ Cardinality(G) \in Nat /\ w \in [G -> Nat]
  BY GroupedIsFinite, FS_CardinalityType
<1>2. k \in Nat /\ k <= Cardinality(G)
  BY <1>1 DEF Db!Min2
<1>3. \E T \in SUBSET G : Largest(T)
  <2>1. \E T \in SUBSET G : Cardinality(T) = k /\ \A a \in T, b \in G \ T : w[a] >= w[b]
    <3> HIDE DEF G, k, w
    <3> QED BY <1>1, <1>2, LargestFew
  <2> QED BY <2>1
<1>4. \A S : Db(rows, named)!Cardinality(S) = Cardinality(S)
  BY DEF Db!Cardinality, Cardinality
<1>5. top = CHOOSE T \in SUBSET G : Largest(T)
  <2>1. top = CHOOSE T \in SUBSET G :
                /\ Db(rows, named)!Cardinality(T) = Db(rows, named)!Min2(Limit, Db(rows, named)!Cardinality(G))
                /\ \A g \in T, h \in G \ T : g.count >= h.count
    BY DEF Db!Top
  <2> HIDE DEF G
  <2> QED BY <1>4, <2>1
<1> HIDE DEF G, k
<1>6. top \in SUBSET G /\ Largest(top)
  BY <1>3, <1>5
<1> QED BY <1>6 DEF G, k

LEMMA EveryRowHasItsGroup ==
  ASSUME NEW key, NEW e \in DOMAIN key PROVE \E g \in Grouped(key) : g.name = key[e]
<1> DEFINE group == [name |-> key[e], count |-> Cardinality({d \in DOMAIN key : key[d] = key[e]})]
<1>1. group \in Grouped(key) /\ group.name = key[e]
  BY DEF Grouped
<1> QED BY <1>1

\* Where there is room for every group, Top shows them all.
LEMMA AllAreShown ==
  ASSUME NEW rows, NEW named, Limit \in Nat, NEW key, IsFiniteSet(DOMAIN key),
         Cardinality({key[e] : e \in DOMAIN key}) <= Limit
  PROVE  Db(rows, named)!Top(Grouped(key)) = Grouped(key)
<1> DEFINE G == Grouped(key)
           top == Db(rows, named)!Top(G)
<1>1. top \in SUBSET G /\ Cardinality(top) = Db(rows, named)!Min2(Limit, Cardinality(G))
  BY TopIsLargest
<1>2. IsFiniteSet(G) /\ Cardinality(G) \in Nat /\ Cardinality(G) <= Limit
  BY GroupedIsFinite, FS_CardinalityType
<1> HIDE DEF top, G
<1>3. Cardinality(top) = Cardinality(G)
  BY <1>1, <1>2 DEF Db!Min2
<1>4. top = G
  BY <1>1, <1>2, <1>3, FS_Subset
<1> QED BY <1>4 DEF top, G

LEMMA WholeBreakdown ==
  ASSUME NEW rows, NEW named, Limit \in Nat, NEW key, IsFiniteSet(DOMAIN key)
  PROVE  /\ Total(Db(rows, named)!Groups(key)) = Cardinality(DOMAIN key)
         /\ Total(Db(rows, named)!Top(Db(rows, named)!Groups(key))) <= Cardinality(DOMAIN key)
         /\ Cardinality({key[e] : e \in DOMAIN key}) <= Limit
              => Total(Db(rows, named)!Top(Db(rows, named)!Groups(key))) = Cardinality(DOMAIN key)
<1> DEFINE G == Grouped(key)
           top == Db(rows, named)!Top(G)
<1>1. Db(rows, named)!Groups(key) = G
  BY GroupsAreGrouped
<1>2. Total(G) = Cardinality(DOMAIN key)
  <2>1. Members(key, G) = DOMAIN key
    BY EveryRowHasItsGroup DEF Members
  <2> QED BY <2>1, TotalIsMembers
<1>3. Total(top) <= Cardinality(DOMAIN key)
  <2>1. top \in SUBSET G /\ Members(key, top) \in SUBSET DOMAIN key
    BY TopIsLargest DEF Members
  <2>2. Cardinality(Members(key, top)) <= Cardinality(DOMAIN key)
    BY <2>1, FS_Subset
  <2> QED BY <2>1, <2>2, TotalIsMembers
<1>4. Cardinality({key[e] : e \in DOMAIN key}) <= Limit => top = G
  BY AllAreShown
<1> HIDE DEF top, G
<1> QED BY <1>1, <1>2, <1>3, <1>4 DEF top

LEMMA NothingTotal == Total({}) = 0
<1> DEFINE key == [e \in {} |-> e]
<1>1. IsFiniteSet(DOMAIN key) /\ {} \in SUBSET Grouped(key) /\ Members(key, {}) = {}
  BY FS_EmptySet DEF Members
<1> HIDE DEF key
<1> QED BY <1>1, TotalIsMembers, FS_EmptySet

LEMMA StatsAre ==
  ASSUME NEW rows, NEW named, NEW f
  PROVE  LET s == Db(rows, named)!Stats(f)
             S == Db(rows, named)!Selected(f) IN
         /\ s.totalEvents = Cardinality(S)
         /\ s.uniqueVisitors = Cardinality({rows[e].visitor : e \in S})
         /\ s.visitsOverTime = Db(rows, named)!VisitsOverTime(S)
         /\ s.deviceTypes = Db(rows, named)!GroupBy(S, "device")
         /\ s.browsers = Db(rows, named)!GroupBy(S, "browser")
         /\ s.operatingSystems = Db(rows, named)!GroupBy(S, "os")
         /\ s.customEventNames = Db(rows, named)!EventNameBreakdown(S, "custom")
         /\ s.errorEventNames = Db(rows, named)!EventNameBreakdown(S, "error")
<1>1. \A S : Db(rows, named)!Cardinality(S) = Cardinality(S)
  BY DEF Db!Cardinality, Cardinality
<1> QED BY <1>1 DEF Db!Stats

LEMMA SelectedIsFinite ==
  ASSUME NEW rows, NEW named, IsFiniteSet(DOMAIN rows), NEW f
  PROVE  IsFiniteSet(Db(rows, named)!Selected(f)) /\ Db(rows, named)!Selected(f) \subseteq DOMAIN rows
<1>1. Db(rows, named)!Selected(f) \subseteq DOMAIN rows
  BY DEF Db!Selected, Db!InRange
<1> QED BY <1>1, FS_Subset

-----------------------------------------------------------------------------
(* The theorems. *)

(* VisitsOverTime has no limit and no empty group: for any table and filter the days
   add up to the total of the other statement. *)
THEOREM DaysAddUp ==
  ASSUME NEW rows, NEW named, IsFiniteSet(DOMAIN rows), Limit \in Nat, NEW f
  PROVE  Total(Db(rows, named)!Stats(f).visitsOverTime) = Db(rows, named)!Stats(f).totalEvents
<1> DEFINE S == Db(rows, named)!Selected(f)
           key == [e \in S |-> rows[e].at \div Day]
<1>1. IsFiniteSet(DOMAIN key) /\ DOMAIN key = S
  BY SelectedIsFinite
<1>2. Db(rows, named)!VisitsOverTime(S) = Db(rows, named)!Groups(key)
  BY DEF Db!VisitsOverTime
<1>3. /\ Db(rows, named)!Stats(f).visitsOverTime = Db(rows, named)!VisitsOverTime(S)
      /\ Db(rows, named)!Stats(f).totalEvents = Cardinality(S)
  BY Zenon, StatsAre
<1> HIDE DEF key, S
<1>4. Total(Db(rows, named)!Groups(key)) = Cardinality(S)
  BY <1>1, WholeBreakdown
<1> QED BY <1>2, <1>3, <1>4

\* The rows of S that a breakdown of that column counts.
FilledRows(rows, S, column) == {e \in S : rows[e][column] # None}

(* GroupBy: what a breakdown of a column shows is never more than the rows with that column,
   and exactly that if there is room for every group. *)
THEOREM ColumnsAddUp ==
  ASSUME NEW rows, NEW named, Limit \in Nat, NEW S, IsFiniteSet(S), NEW column
  PROVE  LET filled == FilledRows(rows, S, column)
             shown  == Total(Db(rows, named)!GroupBy(S, column)) IN
         /\ shown <= Cardinality(filled)
         /\ Cardinality({rows[e][column] : e \in filled}) <= Limit => shown = Cardinality(filled)
<1> DEFINE filled == FilledRows(rows, S, column)
           key == [e \in filled |-> rows[e][column]]
<1>1. IsFiniteSet(DOMAIN key) /\ DOMAIN key = filled
  BY FS_Subset DEF FilledRows
<1>2. Db(rows, named)!GroupBy(S, column) = Db(rows, named)!Top(Db(rows, named)!Groups(key))
  BY DEF Db!GroupBy, FilledRows
<1>3. {key[e] : e \in DOMAIN key} = {rows[e][column] : e \in filled}
  OBVIOUS
<1> HIDE DEF key
<1> QED BY <1>1, <1>2, <1>3, WholeBreakdown

\* The rows of S with that type and a name.
NamedRows(rows, S, type) == {e \in S : rows[e].type = type /\ rows[e].name # None}

(* EventNameBreakdown: the two lists of names fall short of the total by the page views and the
   events without a name, as long as there is room for every name. *)
THEOREM NamesAddUp ==
  ASSUME NEW rows, NEW named, IsFiniteSet(DOMAIN rows), Limit \in Nat, NEW f,
         \A e \in DOMAIN rows : rows[e].type \in {"pageview", "custom", "error"},
         \A type \in {"custom", "error"} :
           Cardinality({rows[e].name : e \in NamedRows(rows, Db(rows, named)!Selected(f), type)}) <= Limit
  PROVE  LET s == Db(rows, named)!Stats(f)
             S == Db(rows, named)!Selected(f) IN
         Total(s.customEventNames) + Total(s.errorEventNames)
           + Cardinality({e \in S : rows[e].type = "pageview" \/ rows[e].name = None})
           = s.totalEvents
<1> DEFINE S == Db(rows, named)!Selected(f)
           s == Db(rows, named)!Stats(f)
           custom == NamedRows(rows, S, "custom")
           error == NamedRows(rows, S, "error")
           rest == {e \in S : rows[e].type = "pageview" \/ rows[e].name = None}
<1>1. IsFiniteSet(S) /\ S \subseteq DOMAIN rows
  BY SelectedIsFinite
<1>2. ASSUME NEW type \in {"custom", "error"}
      PROVE  Total(Db(rows, named)!EventNameBreakdown(S, type)) = Cardinality(NamedRows(rows, S, type))
  <2> DEFINE key == [e \in NamedRows(rows, S, type) |-> rows[e].name]
  <2>1. IsFiniteSet(DOMAIN key) /\ DOMAIN key = NamedRows(rows, S, type)
    BY <1>1, FS_Subset DEF NamedRows
  <2>2. Db(rows, named)!EventNameBreakdown(S, type) = Db(rows, named)!Top(Db(rows, named)!Groups(key))
    BY DEF Db!EventNameBreakdown, NamedRows
  <2>3. Cardinality({key[e] : e \in DOMAIN key}) <= Limit
    <3>1. {key[e] : e \in DOMAIN key} = {rows[e].name : e \in NamedRows(rows, S, type)}
      OBVIOUS
    <3> QED BY <3>1
  <2> HIDE DEF key, S
  <2> QED BY <2>1, <2>2, <2>3, WholeBreakdown
<1>3. S = (custom \cup error) \cup rest /\ custom \cap error = {} /\ (custom \cup error) \cap rest = {}
  BY <1>1 DEF NamedRows
<1>4. IsFiniteSet(custom) /\ IsFiniteSet(error) /\ IsFiniteSet(rest)
  BY <1>1, FS_Subset DEF NamedRows
<1>5. s.totalEvents = Cardinality(S)
  BY Zenon, StatsAre
<1>6. /\ Total(s.customEventNames) = Cardinality(custom)
      /\ Total(s.errorEventNames) = Cardinality(error)
  BY <1>2, StatsAre
<1> HIDE DEF S, custom, error, rest, s
<1>7. Cardinality(S) = Cardinality(custom) + Cardinality(error) + Cardinality(rest)
  <2>1. /\ IsFiniteSet(custom \cup error)
        /\ Cardinality(custom \cup error) = Cardinality(custom) + Cardinality(error)
    BY <1>3, <1>4, DisjointUnion
  <2>2. Cardinality(S) = Cardinality(custom \cup error) + Cardinality(rest)
    BY <1>3, <1>4, <2>1, DisjointUnion
  <2> QED BY <2>1, <2>2
<1> QED BY <1>5, <1>6, <1>7 DEF S, rest, s

(* EventNameBreakdown under its limit: a name it leaves out has no more events than any it
   shows, and it leaves none out as long as there is room. *)
THEOREM LeftOutAreSmaller ==
  ASSUME NEW rows, NEW named, Limit \in Nat, NEW S, IsFiniteSet(S), NEW type,
         NEW e \in NamedRows(rows, S, type),
         LET shown == Db(rows, named)!EventNameBreakdown(S, type) IN
         \A g \in shown : g.name # rows[e].name
  PROVE  LET shown == Db(rows, named)!EventNameBreakdown(S, type)
             left  == {d \in NamedRows(rows, S, type) : rows[d].name = rows[e].name} IN
         /\ Cardinality(shown) = Limit
         /\ \A g \in shown : g.count >= Cardinality(left)
<1> DEFINE key == [d \in NamedRows(rows, S, type) |-> rows[d].name]
           G == Grouped(key)
           shown == Db(rows, named)!EventNameBreakdown(S, type)
           left == {d \in NamedRows(rows, S, type) : rows[d].name = rows[e].name}
<1>1. IsFiniteSet(DOMAIN key) /\ e \in DOMAIN key /\ key[e] = rows[e].name
  BY FS_Subset DEF NamedRows
<1>2. shown = Db(rows, named)!Top(Db(rows, named)!Groups(key))
  BY DEF Db!EventNameBreakdown, NamedRows
<1>3. left = {d \in DOMAIN key : key[d] = rows[e].name}
  OBVIOUS
<1> HIDE DEF key, shown, left
<1>4. shown = Db(rows, named)!Top(G)
  BY <1>2, GroupsAreGrouped
<1>5. /\ shown \in SUBSET G
      /\ Cardinality(shown) = Db(rows, named)!Min2(Limit, Cardinality(G))
      /\ \A g \in shown, h \in G \ shown : g.count >= h.count
  BY <1>1, <1>4, TopIsLargest
<1>6. PICK h \in G : h.name = rows[e].name
  BY <1>1, EveryRowHasItsGroup
<1>7. h.count = Cardinality(left)
  BY <1>3, <1>6, GroupIsItsName
<1>8. h \notin shown
  BY <1>6 DEF shown
<1>9. IsFiniteSet(G) /\ Cardinality(G) \in Nat
  BY <1>1, GroupedIsFinite, FS_CardinalityType
<1> HIDE DEF G
<1>10. Cardinality(shown) = Limit
  <2>1. Cardinality(shown) # Cardinality(G)
    BY <1>5, <1>6, <1>8, <1>9, FS_Subset
  <2> QED BY <1>5, <1>9, <2>1 DEF Db!Min2
<1> QED BY <1>5, <1>6, <1>7, <1>8, <1>10 DEF shown, left

Filter == [since : Nat, until : Nat, excludeNamed : BOOLEAN, includeBots : BOOLEAN]

(* A range begins at since and ends before until: where a range is cut in two, no event is
   lost and none counted twice, and nobody is missing among the visitors. *)
THEOREM RangesSplit ==
  ASSUME NEW rows, NEW named, IsFiniteSet(DOMAIN rows), \A e \in DOMAIN rows : rows[e].at \in Nat,
         NEW f \in Filter, NEW cut \in f.since..f.until
  PROVE  LET s     == Db(rows, named)!Stats(f)
             older == Db(rows, named)!Stats([f EXCEPT !.until = cut])
             newer == Db(rows, named)!Stats([f EXCEPT !.since = cut]) IN
         /\ older.totalEvents + newer.totalEvents = s.totalEvents
         /\ s.uniqueVisitors <= older.uniqueVisitors + newer.uniqueVisitors
<1> DEFINE S == Db(rows, named)!Selected(f)
           A == Db(rows, named)!Selected([f EXCEPT !.until = cut])
           B == Db(rows, named)!Selected([f EXCEPT !.since = cut])
           visitors(T) == {rows[e].visitor : e \in T}
           fA == [f EXCEPT !.until = cut]
           fB == [f EXCEPT !.since = cut]
<1>1. A \cup B = S /\ A \cap B = {}
  <2>1. cut \in Nat /\ f.since <= cut /\ cut <= f.until /\ f.since \in Nat /\ f.until \in Nat
    BY DEF Filter
  <2>2. /\ [f EXCEPT !.until = cut].since = f.since /\ [f EXCEPT !.until = cut].until = cut
        /\ [f EXCEPT !.until = cut].excludeNamed = f.excludeNamed
        /\ [f EXCEPT !.until = cut].includeBots = f.includeBots
    BY DEF Filter
  <2>3. /\ [f EXCEPT !.since = cut].since = cut /\ [f EXCEPT !.since = cut].until = f.until
        /\ [f EXCEPT !.since = cut].excludeNamed = f.excludeNamed
        /\ [f EXCEPT !.since = cut].includeBots = f.includeBots
    BY DEF Filter
  <2> QED BY <2>1, <2>2, <2>3 DEF Db!Selected, Db!InRange
<1>2. IsFiniteSet(A) /\ IsFiniteSet(B)
  BY SelectedIsFinite
<1>3. /\ Db(rows, named)!Stats(f).totalEvents = Cardinality(S)
      /\ Db(rows, named)!Stats([f EXCEPT !.until = cut]).totalEvents = Cardinality(A)
      /\ Db(rows, named)!Stats([f EXCEPT !.since = cut]).totalEvents = Cardinality(B)
      /\ Db(rows, named)!Stats(f).uniqueVisitors = Cardinality(visitors(S))
      /\ Db(rows, named)!Stats([f EXCEPT !.until = cut]).uniqueVisitors = Cardinality(visitors(A))
      /\ Db(rows, named)!Stats([f EXCEPT !.since = cut]).uniqueVisitors = Cardinality(visitors(B))
  <2>1. \A g : /\ Db(rows, named)!Stats(g).totalEvents = Cardinality(Db(rows, named)!Selected(g))
               /\ Db(rows, named)!Stats(g).uniqueVisitors
                    = Cardinality({rows[e].visitor : e \in Db(rows, named)!Selected(g)})
    BY StatsAre
  <2> HIDE DEF fA, fB
  <2>2. /\ Db(rows, named)!Stats(fA).totalEvents = Cardinality(A)
        /\ Db(rows, named)!Stats(fB).totalEvents = Cardinality(B)
        /\ Db(rows, named)!Stats(fA).uniqueVisitors = Cardinality(visitors(A))
        /\ Db(rows, named)!Stats(fB).uniqueVisitors = Cardinality(visitors(B))
    BY <2>1 DEF fA, fB
  <2> QED BY <2>1, <2>2 DEF fA, fB
<1> HIDE DEF A, B, S
<1>4. Cardinality(A) + Cardinality(B) = Cardinality(S)
  BY <1>1, <1>2, DisjointUnion
<1>5. Cardinality(visitors(S)) <= Cardinality(visitors(A)) + Cardinality(visitors(B))
  <2>1. ASSUME NEW T, IsFiniteSet(T) PROVE IsFiniteSet(visitors(T))
    <3> DEFINE visitor == [e \in T |-> rows[e].visitor]
    <3>1. visitor \in Surjection(T, visitors(T))
      BY DEF Surjection
    <3> HIDE DEF visitor, visitors
    <3> QED BY <2>1, <3>1, FS_Surjection
  <2>2. visitors(S) = visitors(A) \cup visitors(B)
    BY <1>1
  <2>3. IsFiniteSet(visitors(A)) /\ IsFiniteSet(visitors(B))
    BY <1>2, <2>1
  <2> HIDE DEF visitors
  <2>4. /\ Cardinality(visitors(S))
             = Cardinality(visitors(A)) + Cardinality(visitors(B)) - Cardinality(visitors(A) \cap visitors(B))
        /\ IsFiniteSet(visitors(S)) /\ IsFiniteSet(visitors(A) \cap visitors(B))
    BY <2>2, <2>3, FS_Union, FS_Intersection
  <2>5. /\ Cardinality(visitors(A)) \in Nat /\ Cardinality(visitors(B)) \in Nat
        /\ Cardinality(visitors(A) \cap visitors(B)) \in Nat
    BY <2>3, <2>4, FS_CardinalityType
  <2> QED BY <2>4, <2>5
<1> QED BY <1>3, <1>4, <1>5 DEF S, A, B

(* RecentByName shows Limit events of that name and range, or all there are, and none left
   out is newer than one shown. *)
THEOREM RecentAreNewest ==
  ASSUME NEW rows, NEW named, IsFiniteSet(DOMAIN rows), \A e \in DOMAIN rows : rows[e].at \in Nat,
         Limit \in Nat, NEW f, NEW type, NEW name
  PROVE  LET called == Db(rows, named)!Called(f, type, name)
             recent == Db(rows, named)!RecentByName(f, type, name) IN
         /\ recent \in SUBSET called
         /\ Cardinality(recent) = Db(rows, named)!Min2(Limit, Cardinality(called))
         /\ \A d \in recent, e \in called \ recent : rows[d].at >= rows[e].at
<1> DEFINE S == Db(rows, named)!Called(f, type, name)
           k == Db(rows, named)!Min2(Limit, Cardinality(S))
           w == [e \in S |-> rows[e].at]
           Newest(T) == Cardinality(T) = k /\ \A d \in T, e \in S \ T : rows[d].at >= rows[e].at
<1>1. S \subseteq DOMAIN rows
  BY DEF Db!Called, Db!InRange
<1>2. IsFiniteSet(S) /\ Cardinality(S) \in Nat /\ w \in [S -> Nat]
  BY <1>1, FS_Subset, FS_CardinalityType
<1>3. k \in Nat /\ k <= Cardinality(S)
  BY <1>2 DEF Db!Min2
<1>4. \E T \in SUBSET S : Newest(T)
  <2>1. \E T \in SUBSET S : Cardinality(T) = k /\ \A a \in T, b \in S \ T : w[a] >= w[b]
    <3> HIDE DEF S, k, w
    <3> QED BY <1>2, <1>3, LargestFew
  <2> QED BY <2>1
<1>5. \A T : Db(rows, named)!Cardinality(T) = Cardinality(T)
  BY DEF Db!Cardinality, Cardinality
<1>6. Db(rows, named)!RecentByName(f, type, name) = CHOOSE T \in SUBSET S : Newest(T)
  <2>1. Db(rows, named)!RecentByName(f, type, name)
          = CHOOSE T \in SUBSET S :
              /\ Db(rows, named)!Cardinality(T)
                   = Db(rows, named)!Min2(Limit, Db(rows, named)!Cardinality(S))
              /\ \A d \in T, e \in S \ T : rows[d].at >= rows[e].at
    BY DEF Db!RecentByName
  <2> HIDE DEF S
  <2> QED BY <1>5, <2>1
<1> DEFINE recent == Db(rows, named)!RecentByName(f, type, name)
<1> HIDE DEF S, k
<1>7. recent \in SUBSET S /\ Newest(recent)
  BY <1>4, <1>6
<1> QED BY <1>7 DEF S, k

\* The rows S of an event name that are older than since.
Older(rows, S, type, name, since) ==
  {e \in S : rows[e].type = type /\ rows[e].name = name /\ rows[e].at < since}

(* RecentByName against EventNameBreakdown of an earlier page: whatever the page filtered by,
   and whoever was named then, a drill-down into one of its names, over a range that ends no
   earlier, shows as many as it counted less those older than the new range, or it is full. *)
THEOREM DrilldownCovers ==
  ASSUME NEW rows, NEW named, NEW then, IsFiniteSet(DOMAIN rows),
         \A e \in DOMAIN rows : rows[e].at \in Nat,
         Limit \in Nat, NEW type, NEW f, NEW d, f.until \in Nat, d.since \in Nat, d.until \in Nat,
         f.until <= d.until,
         NEW g \in Db(rows, then)!EventNameBreakdown(Db(rows, then)!Selected(f), type)
  PROVE  LET shown == Db(rows, named)!RecentByName(d, type, g.name)
             past  == Older(rows, Db(rows, then)!Selected(f), type, g.name, d.since) IN
         Cardinality(shown) = Limit \/ Cardinality(shown) + Cardinality(past) >= g.count
<1> DEFINE S == Db(rows, then)!Selected(f)
           key == [e \in NamedRows(rows, S, type) |-> rows[e].name]
           called == Db(rows, named)!Called(d, type, g.name)
           counted == {e \in DOMAIN key : key[e] = g.name}
           past == Older(rows, S, type, g.name, d.since)
           kept == counted \ past
           shown == Db(rows, named)!RecentByName(d, type, g.name)
<1>1. IsFiniteSet(DOMAIN key) /\ IsFiniteSet(S)
  BY SelectedIsFinite, FS_Subset DEF NamedRows
<1>2. g \in Grouped(key)
  <2>1. Db(rows, then)!EventNameBreakdown(S, type) = Db(rows, then)!Top(Db(rows, then)!Groups(key))
    BY DEF Db!EventNameBreakdown, NamedRows
  <2> HIDE DEF key
  <2>2. Db(rows, then)!Top(Grouped(key)) \in SUBSET Grouped(key)
    BY <1>1, TopIsLargest
  <2> QED BY <2>1, <2>2, GroupsAreGrouped
<1>3. g.count = Cardinality(counted)
  <2> HIDE DEF key
  <2> QED BY <1>2, GroupIsItsName
<1>4. kept \subseteq called /\ called \subseteq DOMAIN rows
  BY DEF Older, NamedRows, Db!Called, Db!Selected, Db!InRange
<1>5. IsFiniteSet(called) /\ IsFiniteSet(past) /\ IsFiniteSet(counted)
  <2>1. past \subseteq S /\ counted \subseteq DOMAIN key
    BY DEF Older
  <2> HIDE DEF past, counted, S, key
  <2> QED BY <1>1, <1>4, <2>1, FS_Subset
<1>6. Cardinality(shown) = Db(rows, named)!Min2(Limit, Cardinality(called))
  BY RecentAreNewest
<1> HIDE DEF called, counted, past, shown, S
<1>7. /\ IsFiniteSet(kept) /\ Cardinality(kept) \in Nat /\ Cardinality(past) \in Nat
      /\ Cardinality(called) \in Nat /\ Cardinality(kept) <= Cardinality(called)
  BY <1>4, <1>5, FS_Subset, FS_CardinalityType
<1>8. Cardinality(counted) <= Cardinality(kept) + Cardinality(past) /\ Cardinality(counted) \in Nat
  <2>1. /\ IsFiniteSet(kept \cup past) /\ kept \cap past = {}
        /\ counted \subseteq kept \cup past
    BY <1>5, <1>7, FS_Union
  <2> HIDE DEF kept
  <2> QED BY <1>5, <1>7, <2>1, DisjointUnion, FS_Subset, FS_CardinalityType
<1> HIDE DEF kept
<1>9. Cardinality(shown) = Limit \/ Cardinality(shown) + Cardinality(past) >= g.count
  BY <1>3, <1>6, <1>7, <1>8 DEF Db!Min2
<1> QED BY <1>9 DEF shown, past, S

(* computePanelRows, MetadataBreakdown: as long as none of its events has a JSON null there, a
   panel counts the events of each value of its key, and nothing else; a value it leaves out has
   no more events than any it shows, and none is left out while there is room. *)
THEOREM PanelCountsValues ==
  ASSUME NEW rows, NEW named, IsFiniteSet(DOMAIN rows), Limit \in Nat, NEW f, NEW name,
         \A e \in Db(rows, named)!Keyed(f, name) : rows[e].meta # "null"
  PROVE  LET K       == Db(rows, named)!Keyed(f, name)
             panel   == Db(rows, named)!PanelRows(f, name)
             same(e) == Cardinality({d \in K : rows[d].meta = rows[e].meta}) IN
         /\ \A e \in K : \/ [name |-> rows[e].meta, count |-> same(e)] \in panel
                         \/ Cardinality(panel) = Limit /\ \A g \in panel : g.count >= same(e)
         /\ \A g \in panel : \E e \in K : g.name = rows[e].meta
<1> DEFINE K == Db(rows, named)!Keyed(f, name)
           key == [e \in K |-> rows[e].meta]
           top == Db(rows, named)!Top(Db(rows, named)!Groups(key))
           panel == Db(rows, named)!PanelRows(f, name)
<1>1. K \subseteq DOMAIN rows /\ IsFiniteSet(DOMAIN key) /\ DOMAIN key = K
  <2>1. K \subseteq DOMAIN rows
    BY DEF Db!Keyed, Db!Called, Db!InRange
  <2> QED BY <2>1, FS_Subset
<1>2. \A e \in K : key[e] = rows[e].meta /\ rows[e].meta # "null"
  OBVIOUS
<1>3. panel = IF \E g \in top : g.name = "null" THEN {} ELSE top
  BY DEF Db!PanelRows, Db!MetadataBreakdown
<1> HIDE DEF key, K, panel
<1>4. /\ top \in SUBSET Grouped(key)
      /\ Cardinality(top) = Db(rows, named)!Min2(Limit, Cardinality(Grouped(key)))
      /\ \A g \in top, h \in Grouped(key) \ top : g.count >= h.count
  BY <1>1, TopIsLargest, GroupsAreGrouped
<1> HIDE DEF top
<1>5. \A g \in top : \E e \in K : g.name = rows[e].meta
  <2> SUFFICES ASSUME NEW g \in top PROVE \E e \in K : g.name = rows[e].meta
    OBVIOUS
  <2>1. \E e \in DOMAIN key : g.name = key[e]
    BY <1>4, GroupIsItsName
  <2> QED BY <1>1, <1>2, <2>1
<1>6. panel = top
  BY <1>2, <1>3, <1>5
<1>7. ASSUME NEW e \in K, NEW same, same = Cardinality({d \in K : rows[d].meta = rows[e].meta})
      PROVE  \/ [name |-> rows[e].meta, count |-> same] \in top
             \/ Cardinality(top) = Limit /\ \A g \in top : g.count >= same
  <2>1. PICK h \in Grouped(key) : h.name = rows[e].meta
    BY <1>1, <1>2, EveryRowHasItsGroup
  <2>2. {d \in DOMAIN key : key[d] = h.name} = {d \in K : rows[d].meta = rows[e].meta}
    BY <1>1, <1>2, <2>1
  <2>3. /\ h = [name |-> h.name, count |-> Cardinality({d \in DOMAIN key : key[d] = h.name})]
        /\ h.count = Cardinality({d \in DOMAIN key : key[d] = h.name})
    BY GroupIsItsName
  <2>4. h.count = same
    BY <1>7, <2>2, <2>3
  <2>5. h = [name |-> rows[e].meta, count |-> same]
    BY <1>7, <2>1, <2>2, <2>3
  <2>6. CASE h \in top
    BY <2>5, <2>6
  <2>7. CASE h \notin top
    <3>1. IsFiniteSet(Grouped(key)) /\ Cardinality(Grouped(key)) \in Nat
      BY <1>1, GroupedIsFinite, FS_CardinalityType
    <3>2. Cardinality(top) # Cardinality(Grouped(key))
      BY <1>4, <2>7, <3>1, FS_Subset
    <3>3. Cardinality(top) = Limit
      BY <1>4, <3>1, <3>2 DEF Db!Min2
    <3> QED BY <1>4, <2>4, <2>7, <3>3
  <2> QED BY <2>6, <2>7
<1> DEFINE same(e) == Cardinality({d \in K : rows[d].meta = rows[e].meta})
<1>8. \A e \in K : \/ [name |-> rows[e].meta, count |-> same(e)] \in panel
                   \/ Cardinality(panel) = Limit /\ \A g \in panel : g.count >= same(e)
  BY <1>6, <1>7
<1> QED BY <1>5, <1>6, <1>8 DEF K, panel

(* computePanelRows: if there is room for its groups, a panel shows every event that has its
   key, or nothing at all -- because one of them has a JSON null there. *)
THEOREM PanelShowsAllOrNothing ==
  ASSUME NEW rows, NEW named, IsFiniteSet(DOMAIN rows), Limit \in Nat, NEW f, NEW name,
         Cardinality({rows[e].meta : e \in Db(rows, named)!Keyed(f, name)}) <= Limit
  PROVE  LET K == Db(rows, named)!Keyed(f, name) IN
         Total(Db(rows, named)!PanelRows(f, name))
           = IF \E e \in K : rows[e].meta = "null" THEN 0 ELSE Cardinality(K)
<1> DEFINE K == Db(rows, named)!Keyed(f, name)
           key == [e \in K |-> rows[e].meta]
           top == Db(rows, named)!Top(Db(rows, named)!Groups(key))
<1>1. K \subseteq DOMAIN rows /\ IsFiniteSet(DOMAIN key) /\ DOMAIN key = K
  <2>1. K \subseteq DOMAIN rows
    BY DEF Db!Keyed, Db!Called, Db!InRange
  <2> QED BY <2>1, FS_Subset
<1>2. \A e \in K : key[e] = rows[e].meta
  OBVIOUS
<1>3. Db(rows, named)!PanelRows(f, name) = IF \E g \in top : g.name = "null" THEN {} ELSE top
  BY DEF Db!PanelRows, Db!MetadataBreakdown
<1>4. Cardinality({key[e] : e \in DOMAIN key}) <= Limit
  <2>1. {key[e] : e \in DOMAIN key} = {rows[e].meta : e \in K}
    OBVIOUS
  <2> QED BY <2>1
<1> HIDE DEF key, K
<1>5. top = Grouped(key) /\ Total(top) = Cardinality(K)
  BY <1>1, <1>4, WholeBreakdown, AllAreShown, GroupsAreGrouped
<1>6. (\E g \in top : g.name = "null") <=> \E e \in K : rows[e].meta = "null"
  <2>1. ASSUME NEW g \in Grouped(key) PROVE \E e \in K : g.name = rows[e].meta
    <3>1. \E e \in DOMAIN key : g.name = key[e]
      BY GroupIsItsName
    <3> QED BY <1>1, <1>2, <3>1
  <2>2. \A e \in K : \E g \in Grouped(key) : g.name = rows[e].meta
    BY <1>1, <1>2, EveryRowHasItsGroup
  <2> HIDE DEF top
  <2> QED BY <1>5, <2>1, <2>2
<1>7. Total({}) = 0
  BY NothingTotal
<1> QED BY <1>3, <1>5, <1>6, <1>7 DEF K
=============================================================================
