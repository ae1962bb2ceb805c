-------------------------- MODULE DependenciesProofs --------------------------
(***************************************************************************)
(* The verdict of Dependencies is right for every list of tables: Kahn's   *)
(* algorithm with the code's bookkeeping, entries counted one by one and   *)
(* taken back child by child.                                              *)
(***************************************************************************)
EXTENDS Dependencies, FiniteSetTheorems, WellFoundedInduction, TLAPS

Parents(list, n) == {d \in Names(list) : DependsOn(list, n, d)}

\* Every member depends on a member.
CyclicSet(list, S) == \A n \in S : \E d \in S : DependsOn(list, n, d)

\* The table a dependency entry names.
Target(list, n) == [e \in Entries(list, n) |-> list[e[1]].dependencies[e[2]]]

-----------------------------------------------------------------------------
(***************************************************************************)
(* Counting entries.                                                       *)
(***************************************************************************)
LEMMA ListShape ==
  ASSUME NEW list \in Configurations
  PROVE  /\ Len(list) \in Nat /\ DOMAIN list = 1..Len(list)
         /\ IsFiniteSet(DOMAIN list) /\ Cardinality(DOMAIN list) = Len(list)
         /\ \A i \in DOMAIN list :
              /\ DOMAIN list[i].dependencies \subseteq Nat
              /\ IsFiniteSet(DOMAIN list[i].dependencies)
<1> DEFINE Entry == [name : STRING, dependencies : Seq(STRING), order : Nat, batch_size : Int]
<1>1. list \in Seq(Entry)
  BY ConfigurationsAssumption
<1>2. \A i \in DOMAIN list : list[i].dependencies \in Seq(STRING)
  <2>1. \A i \in DOMAIN list : list[i] \in Entry
    <3> HIDE DEF Entry
    <3> QED
      BY <1>1
  <2> QED
    BY <2>1
<1> HIDE DEF Entry
<1>3. \A n \in Nat : IsFiniteSet(1..n) /\ Cardinality(1..n) = n
  BY FS_Interval
<1>4. Len(list) \in Nat /\ DOMAIN list = 1..Len(list)
  BY <1>1
<1>5. ASSUME NEW i \in DOMAIN list
      PROVE  Len(list[i].dependencies) \in Nat
             /\ DOMAIN list[i].dependencies = 1..Len(list[i].dependencies)
  BY <1>2
<1> QED
  BY <1>3, <1>4, <1>5

LEMMA NamesAreFinite ==
  ASSUME NEW list \in Configurations
  PROVE  /\ IsFiniteSet(Names(list)) /\ Cardinality(Names(list)) \in Nat
         /\ Cardinality(Names(list)) <= Len(list)
<1> DEFINE NameAt == [i \in DOMAIN list |-> list[i].name]
<1>1. NameAt \in Surjection(DOMAIN list, Names(list))
  BY DEF Surjection, Names
<1>2. IsFiniteSet(DOMAIN list) /\ Cardinality(DOMAIN list) = Len(list)
  BY ListShape
<1>3. IsFiniteSet(Names(list)) /\ Cardinality(Names(list)) <= Len(list)
  <2> HIDE DEF NameAt
  <2> QED
    BY <1>1, <1>2, FS_Surjection
<1> QED
  BY <1>3, FS_CardinalityType

LEMMA EntriesAreFinite ==
  ASSUME NEW list \in Configurations, NEW n
  PROVE  IsFiniteSet(Entries(list, n)) /\ Cardinality(Entries(list, n)) \in Nat
<1> DEFINE I == {i \in DOMAIN list : list[i].name = n}
           Of(i) == {<<i, k>> : k \in DOMAIN list[i].dependencies}
           Sets == {Of(i) : i \in I}
           OfI == [i \in I |-> Of(i)]
<1>1. IsFiniteSet(I)
  BY ListShape, FS_Subset
<1>2. IsFiniteSet(Sets)
  <2>1. OfI \in Surjection(I, Sets)
    BY DEF Surjection
  <2> HIDE DEF OfI, Sets, I
  <2> QED
    BY <1>1, <2>1, FS_Surjection
<1>3. \A i \in I : IsFiniteSet(Of(i))
  <2> TAKE i \in I
  <2> DEFINE D == DOMAIN list[i].dependencies
             Pair == [k \in D |-> <<i, k>>]
  <2>1. IsFiniteSet(D)
    BY ListShape
  <2>2. Pair \in Surjection(D, Of(i))
    BY DEF Surjection
  <2> HIDE DEF D, Pair, Of
  <2> QED
    BY <2>1, <2>2, FS_Surjection
<1>4. IsFiniteSet(UNION Sets)
  BY <1>2, <1>3, FS_UNION
<1>5. Entries(list, n) = UNION Sets
  BY DEF Entries
<1> QED
  BY <1>4, <1>5, FS_CardinalityType

\* No table has more parents than entries, and if nothing is repeated, as many.
LEMMA EntriesCoverParents ==
  ASSUME NEW list \in Configurations, WellFormed(list), NEW n
  PROVE  /\ IsFiniteSet(Parents(list, n)) /\ Cardinality(Parents(list, n)) \in Nat
         /\ Cardinality(Parents(list, n)) <= Cardinality(Entries(list, n))
         /\ Target(list, n) \in Surjection(Entries(list, n), Parents(list, n))
<1>1. Target(list, n) \in Surjection(Entries(list, n), Parents(list, n))
  <2>1. \A e \in Entries(list, n) : Target(list, n)[e] \in Parents(list, n)
    BY DEF Entries, Target, Parents, DependsOn, WellFormed
  <2>2. \A d \in Parents(list, n) : \E e \in Entries(list, n) : Target(list, n)[e] = d
    <3> TAKE d \in Parents(list, n)
    <3> PICK i \in DOMAIN list : list[i].name = n /\ \E k \in DOMAIN list[i].dependencies :
                                   list[i].dependencies[k] = d
      BY DEF Parents, DependsOn
    <3> PICK k \in DOMAIN list[i].dependencies : list[i].dependencies[k] = d
      OBVIOUS
    <3>1. <<i, k>> \in Entries(list, n)
      BY DEF Entries
    <3> QED
      BY <3>1 DEF Target
  <2> QED
    BY <2>1, <2>2 DEF Surjection, Target
<1>2. IsFiniteSet(Parents(list, n)) /\ Cardinality(Parents(list, n)) <= Cardinality(Entries(list, n))
  BY <1>1, EntriesAreFinite, FS_Surjection
<1> QED
  BY <1>1, <1>2, FS_CardinalityType

LEMMA EntriesWithoutRepetition ==
  ASSUME NEW list \in Configurations, WellFormed(list), ~Repeats(list), NEW n
  PROVE  Cardinality(Parents(list, n)) = Cardinality(Entries(list, n))
<1>1. \A i, j \in DOMAIN list : list[i].name = list[j].name => i = j
  <2> DEFINE NameAt == [i \in DOMAIN list |-> list[i].name]
  <2>1. NameAt \in Surjection(DOMAIN list, Names(list))
    BY DEF Surjection, Names
  <2>2. IsFiniteSet(DOMAIN list) /\ Cardinality(DOMAIN list) = Len(list)
    BY ListShape
  <2>3. Cardinality(Names(list)) = Len(list)
    BY ListShape, NamesAreFinite DEF Repeats
  <2>4. NameAt \in Injection(DOMAIN list, Names(list))
    <3> HIDE DEF NameAt
    <3> QED
      BY <2>1, <2>2, <2>3, FS_SurjSameCardinalityImpliesInj
  <2> QED
    BY <2>4 DEF Injection, IsInjective
<1>2. \A i \in DOMAIN list : \A k, m \in DOMAIN list[i].dependencies :
        list[i].dependencies[k] = list[i].dependencies[m] => k = m
  BY ListShape DEF Repeats
<1>3. Target(list, n) \in Injection(Entries(list, n), Parents(list, n))
  <2>1. \A a, b \in Entries(list, n) : Target(list, n)[a] = Target(list, n)[b] => a = b
    BY <1>1, <1>2 DEF Entries, Target
  <2> QED
    BY <2>1, EntriesCoverParents DEF Injection, Surjection, IsInjective
<1> QED
  BY <1>3, EntriesCoverParents, EntriesAreFinite, FS_Surjection

-----------------------------------------------------------------------------
(***************************************************************************)
(* The invariant of the loop: a degree is what the visited parents left of *)
(* the entries, and the names queued are those whose degree has come down  *)
(* to 0.  Their parents were all visited, so no cyclic set meets them.     *)
(***************************************************************************)
Degrees ==
  /\ DOMAIN indegree = Names(tables)
  /\ \A n \in Names(tables) :
       indegree[n] = Cardinality(Entries(tables, n)) - Cardinality(Parents(tables, n) \cap visited)

Queued ==
  /\ ready \cap visited = {}
  /\ \A n \in Names(tables) : n \in visited \cup ready <=> indegree[n] = 0

AvoidsCycles ==
  \A S \in SUBSET Names(tables) : CyclicSet(tables, S) => S \cap (visited \cup ready) = {}

IInv ==
  /\ tables \in Configurations
  /\ verdict \in {"unread", "walking", "accepted", "rejected"}
  /\ visited \subseteq Names(tables) /\ ready \subseteq Names(tables)
  /\ verdict = "unread" => visited = {}
  /\ verdict = "walking" => WellFormed(tables) /\ Degrees /\ Queued /\ AvoidsCycles
  /\ VerdictIsRight

\* A name with degree 0 has no parent left to visit.
LEMMA ParentsWereVisited ==
  ASSUME IInv, verdict = "walking", NEW n \in Names(tables), indegree[n] = 0
  PROVE  Parents(tables, n) \subseteq visited
<1> DEFINE P == Parents(tables, n)
<1>1. tables \in Configurations /\ WellFormed(tables) /\ Degrees
  BY DEF IInv
<1>2. IsFiniteSet(P) /\ Cardinality(P) \in Nat /\ Cardinality(P) <= Cardinality(Entries(tables, n))
  BY <1>1, EntriesCoverParents
<1>3. Cardinality(P \cap visited) <= Cardinality(P) /\ Cardinality(P \cap visited) \in Nat
  BY <1>2, FS_Subset, FS_CardinalityType
<1>4. Cardinality(Entries(tables, n)) \in Nat
  BY <1>1, EntriesAreFinite
<1>5. Cardinality(P \cap visited) = Cardinality(P)
  BY <1>1, <1>2, <1>3, <1>4 DEF Degrees
<1>6. P \cap visited = P
  BY <1>2, <1>5, FS_Subset
<1> QED
  BY <1>6

LEMMA InitiallyRight == Init => IInv
  BY DEF Init, IInv, VerdictIsRight

LEMMA ReadIsRight ==
  ASSUME IInv, Read
  PROVE  IInv'
<1>1. CASE WellFormed(tables)
  <2>1. visited' = {} /\ tables' = tables /\ tables \in Configurations /\ verdict' = "walking"
    BY <1>1 DEF Read, IInv
  <2>2. \A n \in Names(tables) :
          /\ IsFiniteSet(Entries(tables, n)) /\ Cardinality(Entries(tables, n)) \in Nat
          /\ indegree'[n] = Cardinality(Entries(tables, n))
          /\ Entries(tables, n) = {} <=> Cardinality(Entries(tables, n)) = 0
    BY <1>1, <2>1, EntriesAreFinite, FS_EmptySet DEF Read
  <2>3. Degrees'
    <3>1. \A n : Parents(tables, n) \cap visited' = {}
      BY <2>1
    <3> QED
      BY <1>1, <2>1, <2>2, <3>1, FS_EmptySet DEF Read, Degrees
  <2>4. ready' = {n \in Names(tables) : Entries(tables, n) = {}}
    BY <1>1 DEF Read
  <2>5. Queued'
    BY <2>1, <2>2, <2>4 DEF Queued
  <2>6. AvoidsCycles'
    <3>1. ASSUME NEW S \in SUBSET Names(tables), CyclicSet(tables, S), NEW n \in S \cap ready'
          PROVE  FALSE
      <4> PICK d \in S : DependsOn(tables, n, d)
        BY <3>1 DEF CyclicSet
      <4> PICK i \in DOMAIN tables :
                 tables[i].name = n /\ \E k \in DOMAIN tables[i].dependencies :
                                        tables[i].dependencies[k] = d
        BY DEF DependsOn
      <4> PICK k \in DOMAIN tables[i].dependencies : tables[i].dependencies[k] = d
        OBVIOUS
      <4>1. <<i, k>> \in Entries(tables, n)
        BY DEF Entries
      <4> QED
        BY <3>1, <2>4, <4>1
    <3> QED
      BY <2>1, <3>1 DEF AvoidsCycles
  <2> QED
    BY <1>1, <2>1, <2>3, <2>4, <2>5, <2>6 DEF IInv, VerdictIsRight
<1>2. CASE ~WellFormed(tables)
  BY <1>2 DEF Read, IInv, VerdictIsRight
<1> QED
  BY <1>1, <1>2

LEMMA VisitIsRight ==
  ASSUME IInv, NEW m \in Names(tables), Visit(m)
  PROVE  IInv'
<1>1. /\ tables \in Configurations /\ WellFormed(tables) /\ Degrees /\ Queued /\ AvoidsCycles
      /\ verdict = "walking" /\ m \in ready /\ m \notin visited
  BY DEF IInv, Visit, Queued
<1>2. tables' = tables /\ verdict' = verdict /\ visited' = visited \cup {m}
  BY DEF Visit
<1>3. \A c \in Names(tables) : c \in Children(m) <=> m \in Parents(tables, c)
  BY DEF Children, Parents
<1>4. /\ DOMAIN indegree' = Names(tables)
      /\ \A c \in Names(tables) :
           indegree'[c] = IF c \in Children(m) THEN indegree[c] - 1 ELSE indegree[c]
  BY DEF Visit
<1>5. ready' = (ready \ {m}) \cup {c \in Children(m) : indegree'[c] = 0}
  BY DEF Visit
<1>6. \A c \in Names(tables) : c \in visited \cup ready => c \notin Children(m)
  <2> TAKE c \in Names(tables)
  <2> HAVE c \in visited \cup ready
  <2>1. indegree[c] = 0
    BY <1>1 DEF Queued
  <2>2. Parents(tables, c) \subseteq visited
    BY <1>1, <2>1, ParentsWereVisited
  <2> QED
    BY <1>1, <1>3, <2>2
<1>7. Degrees'
  <2>1. ASSUME NEW c \in Names(tables)
        PROVE  indegree'[c] = Cardinality(Entries(tables, c))
                               - Cardinality(Parents(tables, c) \cap visited')
    <3> DEFINE V == Parents(tables, c) \cap visited
    <3>1. IsFiniteSet(V) /\ Cardinality(V) \in Nat
      BY <1>1, EntriesCoverParents, FS_Subset, FS_CardinalityType
    <3>2. Cardinality(Entries(tables, c)) \in Nat
      BY <1>1, EntriesAreFinite
    <3>3. CASE c \in Children(m)
      <4>1. Parents(tables, c) \cap visited' = V \cup {m} /\ m \notin V
        BY <1>1, <1>2, <1>3, <3>3
      <4>2. Cardinality(V \cup {m}) = Cardinality(V) + 1
        BY <3>1, <4>1, FS_AddElement
      <4>3. indegree[c] = Cardinality(Entries(tables, c)) - Cardinality(V)
        BY <1>1 DEF Degrees
      <4>4. indegree'[c] = indegree[c] - 1
        BY <1>4, <3>3
      <4>5. Cardinality(Parents(tables, c) \cap visited') = Cardinality(V) + 1
        BY <4>1, <4>2
      <4> HIDE DEF V
      <4> QED
        BY <3>1, <3>2, <4>3, <4>4, <4>5
    <3>4. CASE c \notin Children(m)
      <4>1. Parents(tables, c) \cap visited' = V
        BY <1>2, <1>3, <3>4
      <4> QED
        BY <1>1, <1>4, <3>4, <4>1 DEF Degrees
    <3> QED
      BY <3>3, <3>4
  <2> QED
    BY <1>2, <1>4, <2>1 DEF Degrees
<1>8. Queued'
  <2>1. ready' \cap visited' = {}
    BY <1>1, <1>2, <1>5, <1>6 DEF Queued, Children
  <2>2. ASSUME NEW n \in Names(tables)
        PROVE  n \in visited' \cup ready' <=> indegree'[n] = 0
    <3>1. CASE n \in visited \cup ready
      BY <1>1, <1>2, <1>4, <1>5, <1>6, <3>1 DEF Queued
    <3>2. CASE n \notin visited \cup ready
      BY <1>1, <1>2, <1>4, <1>5, <3>2 DEF Queued
    <3> QED
      BY <3>1, <3>2
  <2> QED
    BY <1>2, <2>1, <2>2 DEF Queued
<1>9. visited' \subseteq Names(tables) /\ ready' \subseteq Names(tables)
  BY <1>2, <1>5 DEF IInv, Children
<1>10. AvoidsCycles'
  <2>1. ASSUME NEW S \in SUBSET Names(tables), CyclicSet(tables, S),
               NEW n \in S \cap (visited' \cup ready')
        PROVE  FALSE
    <3>1. S \cap (visited \cup ready) = {}
      BY <1>1, <2>1 DEF AvoidsCycles
    <3>2. n \in Names(tables) /\ indegree'[n] = 0 /\ n \notin visited \cup ready /\ n # m
      BY <1>1, <1>2, <1>5, <2>1, <3>1
    <3>3. Parents(tables, n) \subseteq visited \cup {m}
      <4> DEFINE P == Parents(tables, n)
      <4>1. IsFiniteSet(P) /\ Cardinality(P) \in Nat
            /\ Cardinality(P) <= Cardinality(Entries(tables, n))
        BY <1>1, EntriesCoverParents
      <4>2. Cardinality(P \cap visited') <= Cardinality(P) /\ Cardinality(P \cap visited') \in Nat
        BY <4>1, FS_Subset, FS_CardinalityType
      <4>3. Cardinality(Entries(tables, n)) \in Nat
        BY <1>1, EntriesAreFinite
      <4>4. indegree'[n] = Cardinality(Entries(tables, n)) - Cardinality(P \cap visited')
        BY <1>2, <1>7, <3>2 DEF Degrees
      <4>5. Cardinality(P \cap visited') = Cardinality(P)
        BY <3>2, <4>1, <4>2, <4>3, <4>4
      <4>6. P \cap visited' = P
        BY <4>1, <4>5, FS_Subset
      <4> QED
        BY <1>2, <4>6
    <3>4. PICK d \in S : DependsOn(tables, n, d)
      BY <2>1 DEF CyclicSet
    <3>5. d \in Parents(tables, n)
      BY <2>1, <3>4 DEF Parents
    <3> QED
      BY <1>1, <3>1, <3>3, <3>5
  <2> QED
    BY <1>2, <2>1 DEF AvoidsCycles
<1> QED
  BY <1>1, <1>2, <1>7, <1>8, <1>9, <1>10 DEF IInv, VerdictIsRight

LEMMA DecideIsRight ==
  ASSUME IInv, Decide
  PROVE  IInv'
<1>1. /\ tables \in Configurations /\ WellFormed(tables) /\ Degrees /\ Queued /\ AvoidsCycles
      /\ verdict = "walking" /\ ready = {} /\ visited \subseteq Names(tables)
  BY DEF IInv, Decide
<1>2. UNCHANGED <<tables, indegree, ready, visited>>
  BY DEF Decide
<1>3. /\ IsFiniteSet(Names(tables)) /\ Cardinality(Names(tables)) \in Nat
      /\ Cardinality(Names(tables)) <= Len(tables) /\ Len(tables) \in Nat
  BY <1>1, NamesAreFinite, ListShape
<1>4. IsFiniteSet(visited) /\ Cardinality(visited) \in Nat
      /\ Cardinality(visited) <= Cardinality(Names(tables))
  BY <1>1, <1>3, FS_Subset, FS_CardinalityType
<1>5. CASE Cardinality(visited) = Len(tables)
  <2>1. visited = Names(tables)
    BY <1>1, <1>3, <1>4, <1>5, FS_Subset
  <2>2. ~Cyclic(tables)
    <3> SUFFICES ASSUME NEW S \in SUBSET Names(tables), S # {}, CyclicSet(tables, S)
                 PROVE  FALSE
      BY DEF Cyclic, CyclicSet
    <3> QED
      BY <1>1, <2>1 DEF AvoidsCycles
  <2>3. verdict' = "accepted"
    BY <1>5 DEF Decide
  <2> QED
    BY <1>1, <1>2, <2>2, <2>3 DEF IInv, VerdictIsRight
<1>6. CASE Cardinality(visited) # Len(tables)
  <2>1. verdict' = "rejected"
    BY <1>6 DEF Decide
  <2>2. ASSUME ~Repeats(tables)
        PROVE  Cyclic(tables)
    <3> DEFINE S == Names(tables) \ visited
    <3>1. S # {}
      <4>1. Cardinality(Names(tables)) = Len(tables)
        BY <1>3, <2>2 DEF Repeats
      <4>2. visited # Names(tables)
        BY <1>6, <4>1
      <4> QED
        BY <1>1, <4>2
    <3>2. ASSUME NEW n \in S
          PROVE  \E d \in S : DependsOn(tables, n, d)
      <4> DEFINE P == Parents(tables, n)
      <4>1. indegree[n] # 0
        BY <1>1, <3>2 DEF Queued
      <4>2. Cardinality(P) = Cardinality(Entries(tables, n)) /\ Cardinality(P) \in Nat
        BY <1>1, <2>2, EntriesWithoutRepetition, EntriesCoverParents
      <4>3. P \cap visited # P
        BY <1>1, <4>1, <4>2 DEF Degrees
      <4>4. PICK d \in P : d \notin visited
        BY <4>3
      <4> QED
        BY <4>4 DEF Parents
    <3> QED
      BY <3>1, <3>2 DEF Cyclic
  <2> QED
    BY <1>1, <1>2, <2>1, <2>2 DEF IInv, VerdictIsRight
<1> QED
  BY <1>5, <1>6

LEMMA InductiveStep == IInv /\ [Next]_vars => IInv'
<1> SUFFICES ASSUME IInv, [Next]_vars PROVE IInv'
  OBVIOUS
<1>1. CASE Read
  BY <1>1, ReadIsRight
<1>2. CASE \E n \in Names(tables) : Visit(n)
  BY <1>2, VisitIsRight
<1>3. CASE Decide
  BY <1>3, DecideIsRight
<1>4. CASE UNCHANGED vars
  BY <1>4 DEF vars, IInv, VerdictIsRight, Degrees, Queued, AvoidsCycles
<1> QED
  BY <1>1, <1>2, <1>3, <1>4 DEF Next

\* Whatever the tables: an accepted list has no circular dependency, and a rejected
\* one has a wrong entry, a circular dependency or a repeated entry.
THEOREM VerdictsAreRight == Spec => []VerdictIsRight
<1>1. IInv => VerdictIsRight
  BY DEF IInv
<1> QED
  BY InitiallyRight, InductiveStep, <1>1, PTL DEF Spec

-----------------------------------------------------------------------------
(***************************************************************************)
(* The tables' order and the verdict.                                      *)
(***************************************************************************)

\* Some table of a cycle has the least order of all, and depends on another.
LEMMA OrderedIsAcyclic ==
  ASSUME NEW list \in Configurations, RunsParentsFirst(list)
  PROVE  ~Cyclic(list)
<1> SUFFICES ASSUME NEW S \in (SUBSET Names(list)) \ {{}},
                    \A n \in S : \E d \in S : DependsOn(list, n, d)
             PROVE  FALSE
  BY DEF Cyclic
<1> DEFINE Orders == {list[i].order : i \in {j \in DOMAIN list : list[j].name \in S}}
<1>1. \A i \in DOMAIN list : list[i].order \in Nat
  <2> DEFINE Entry == [name : STRING, dependencies : Seq(STRING), order : Nat, batch_size : Int]
  <2>1. list \in Seq(Entry)
    BY ConfigurationsAssumption
  <2>2. \A i \in DOMAIN list : list[i] \in Entry
    <3> HIDE DEF Entry
    <3> QED
      BY <2>1
  <2> QED
    BY <2>2
<1>2. Orders \subseteq Nat
  BY <1>1
<1>3. \A n \in S : \E i \in DOMAIN list : list[i].name = n
  BY DEF Names
<1>4. Orders # {}
  <2>1. PICK i \in DOMAIN list : list[i].name \in S
    BY <1>3
  <2>2. list[i].order \in Orders
    BY <2>1
  <2> HIDE DEF Orders
  <2> QED
    BY <2>2
<1>5. PICK least \in Orders : \A m \in Orders : ~(<<m, least>> \in OpToRel(<, Nat))
  <2> HIDE DEF Orders
  <2> QED
    BY <1>2, <1>4, NatLessThanWellFounded, WFMin
<1>6. \A m \in Orders : ~(m < least)
  BY <1>2, <1>5 DEF OpToRel
<1>7. PICK i \in DOMAIN list : list[i].name \in S /\ list[i].order = least
  OBVIOUS
<1>8. PICK j \in DOMAIN list : list[j].name \in S /\ DependsOn(list, list[i].name, list[j].name)
  BY <1>3, <1>7
<1>9. list[j].order < least
  BY <1>7, <1>8 DEF RunsParentsFirst, RunsBefore
<1> QED
  BY <1>6, <1>8, <1>9

\* What a list needs to be accepted: entries that are right and given once, and order
\* fields that put every table after those it depends on.
Runnable(list) == WellFormed(list) /\ ~Repeats(list) /\ RunsParentsFirst(list)

\* For lists of any length: the check, which does not look at the order fields, never
\* turns down a list that the engine, which looks at nothing else, runs parents first.
THEOREM RunnableIsAccepted == Spec => [](Runnable(tables) => verdict # "rejected")
<1>1. IInv => (Runnable(tables) => verdict # "rejected")
  BY OrderedIsAcyclic DEF IInv, VerdictIsRight, Runnable
<1> QED
  BY InitiallyRight, InductiveStep, <1>1, PTL DEF Spec
=============================================================================
