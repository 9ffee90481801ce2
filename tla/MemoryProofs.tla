---------------------------- MODULE MemoryProofs ----------------------------
(***************************************************************************)
(* Physical pages and page tables, proved for every number of blocks,      *)
(* pages, address spaces and VMAs: no block is mapped after it was freed,  *)
(* the counter of get_page agrees with the free list, and no block has two *)
(* writers.                                                                *)
(***************************************************************************)
EXTENDS Memory, FiniteSetTheorems, FunctionTheorems, SequenceTheorems, TLAPS

-----------------------------------------------------------------------------
(* Ranks: the elements of a finite set of numbers, in order. *)

\* Ranks count the smaller elements of a set.
LEMMA RankType ==
    ASSUME NEW S, IsFiniteSet(S), NEW x
    PROVE  /\ Rank(S, x) \in Nat
           /\ x \in S /\ S \subseteq Int => Rank(S, x) < Cardinality(S)
<1> DEFINE B == {y \in S : y < x}
<1>1. IsFiniteSet(B) /\ Cardinality(B) \in Nat /\ Cardinality(S) \in Nat
  BY FS_Subset, FS_CardinalityType
<1>2. Cardinality(B) <= Cardinality(S)
  BY FS_Subset
<1>3. ASSUME x \in S, S \subseteq Int, Cardinality(B) = Cardinality(S)
      PROVE  FALSE
  <2>1. B = S
    BY <1>3, FS_Subset
  <2> QED
    BY <1>3, <2>1
<1> QED
  BY <1>1, <1>2, <1>3 DEF Rank

\* A larger element has a larger rank.
LEMMA RankIncreases ==
    ASSUME NEW S, IsFiniteSet(S), S \subseteq Int, NEW x \in S, NEW y \in S, x < y
    PROVE  Rank(S, x) < Rank(S, y)
<1> DEFINE A == {z \in S : z < x}
           B == {z \in S : z < y}
<1>1. A \subseteq B /\ x \in B /\ x \notin A
  <2>1. x \in Int /\ y \in Int /\ \A z \in S : z \in Int
    OBVIOUS
  <2>2. \A z \in S : z < x => z < y
    BY <2>1
  <2>3. ~(x < x)
    BY <2>1
  <2> QED
    BY <2>2, <2>3
<1>2. IsFiniteSet(A) /\ IsFiniteSet(B) /\ Cardinality(A) \in Nat /\ Cardinality(B) \in Nat
  BY FS_Subset, FS_CardinalityType
<1> HIDE DEF A, B
<1>3. Cardinality(A) <= Cardinality(B)
  BY <1>1, <1>2, FS_Subset
<1>4. Cardinality(A) # Cardinality(B)
  BY <1>1, <1>2, FS_Subset
<1> QED
  BY <1>2, <1>3, <1>4 DEF A, B, Rank

\* Each rank belongs to one element, and to exactly one.
LEMMA RankBijection ==
    ASSUME NEW S, IsFiniteSet(S), S \subseteq Int
    PROVE  /\ \A x, y \in S : Rank(S, x) = Rank(S, y) => x = y
           /\ \A r \in Nat : r < Cardinality(S) => \E x \in S : Rank(S, x) = r
<1> DEFINE N == 0..(Cardinality(S) - 1)
           rank == [x \in S |-> Rank(S, x)]
<1>1. Cardinality(S) \in Nat
  BY FS_CardinalityType
<1>2. rank \in [S -> N]
  <2>1. \A x \in S : Rank(S, x) \in Nat /\ Rank(S, x) < Cardinality(S)
    BY RankType
  <2> QED
    BY <1>1, <2>1
<1>3. \A x, y \in S : Rank(S, x) = Rank(S, y) => x = y
  <2> SUFFICES ASSUME NEW x \in S, NEW y \in S, x # y, Rank(S, x) = Rank(S, y)
               PROVE  FALSE
    OBVIOUS
  <2>1. x < y \/ y < x
    OBVIOUS
  <2>2. Rank(S, x) \in Nat /\ Rank(S, y) \in Nat
    BY RankType
  <2>3. ASSUME x < y
        PROVE  FALSE
    <3>1. Rank(S, x) < Rank(S, y)
      BY <2>3, RankIncreases
    <3> QED
      BY <2>2, <3>1
  <2>4. ASSUME y < x
        PROVE  FALSE
    <3>1. Rank(S, y) < Rank(S, x)
      BY <2>4, RankIncreases
    <3> QED
      BY <2>2, <3>1
  <2> QED
    BY <2>1, <2>3, <2>4
<1>4. rank \in Injection(S, N)
  BY <1>2, <1>3, Fun_IsInj
<1>5. IsFiniteSet(N) /\ Cardinality(N) = Cardinality(S)
  BY <1>1, FS_Interval
<1>6. rank \in Surjection(S, N)
  <2> HIDE DEF rank, N
  <2> QED
    BY <1>4, <1>5, FS_Injection
<1>7. \A r \in N : \E x \in S : rank[x] = r
  BY <1>6 DEF Surjection
<1> QED
  BY <1>1, <1>3, <1>7

\* n calls of get_page return n blocks.
LEMMA FirstCount ==
    ASSUME NEW S, IsFiniteSet(S), S \subseteq Int, NEW n \in Nat, n <= Cardinality(S)
    PROVE  /\ First(S, n) \subseteq S
           /\ IsFiniteSet(First(S, n))
           /\ Cardinality(First(S, n)) = n
<1> DEFINE F == First(S, n)
           N == 0..(n - 1)
           rank == [x \in F |-> Rank(S, x)]
<1>1. F \subseteq S /\ IsFiniteSet(F)
  BY FS_Subset DEF First
<1>2. rank \in [F -> N]
  BY RankType DEF First
<1>3. \A x, y \in F : rank[x] = rank[y] => x = y
  BY <1>1, RankBijection
<1>4. \A r \in N : \E x \in F : rank[x] = r
  <2> SUFFICES ASSUME NEW r \in N
               PROVE  \E x \in F : rank[x] = r
    OBVIOUS
  <2>1. Cardinality(S) \in Nat
    BY FS_CardinalityType
  <2>2. r \in Nat /\ r < n /\ r < Cardinality(S)
    BY <2>1
  <2>3. PICK x \in S : Rank(S, x) = r
    BY <2>2, RankBijection
  <2> QED
    BY <2>2, <2>3 DEF First
<1>5. IsFiniteSet(N) /\ Cardinality(N) = n
  BY FS_Interval
<1> HIDE DEF rank, N, F
<1>6. rank \in Injection(F, N) /\ rank \in Surjection(F, N)
  BY <1>2, <1>3, <1>4, Fun_IsInj, Fun_IsSurj
<1>7. Cardinality(F) = Cardinality(N)
  BY <1>5, <1>6, FS_Injection
<1> QED
  BY <1>1, <1>5, <1>7 DEF F

-----------------------------------------------------------------------------
(* Blocks taken from a list, and what is mapped with them. *)

\* Blocks, pages and address spaces are finitely many.
LEMMA FiniteBounds ==
    /\ IsFiniteSet(Frames) /\ Frames \subseteq Int /\ 0 \notin Frames
    /\ Cardinality(Frames) = NFRAMES
    /\ IsFiniteSet(Pages) /\ Pages \subseteq Int /\ 0 \in Pages
    /\ IsFiniteSet(Spaces)
    /\ \A S : S \subseteq Spaces \X Pages => IsFiniteSet(S)
<1>1. IsFiniteSet(Frames) /\ Frames \subseteq Int /\ 0 \notin Frames
      /\ Cardinality(Frames) = NFRAMES
  BY SpacesAssumption, FS_Interval DEF Frames
<1>2. IsFiniteSet(Pages) /\ Pages \subseteq Int /\ 0 \in Pages
  BY SpacesAssumption, FS_Interval DEF Pages
<1>3. IsFiniteSet(Spaces)
  BY SpacesAssumption
<1>4. IsFiniteSet(Spaces \X Pages)
  BY <1>2, <1>3, FS_Product
<1> QED
  BY <1>1, <1>2, <1>3, <1>4, FS_Subset

\* A list F and a counter that is one less than its length.
LEMMA BlocksTaken ==
    ASSUME NEW F \in SUBSET Frames, NEW n \in Nat,
           Cardinality(F) - 1 \in Nat, Suffices(Cardinality(F) - 1, n)
    PROVE  /\ First(F, n) \subseteq F
           /\ IsFiniteSet(First(F, n)) /\ Cardinality(First(F, n)) = n
           /\ Cardinality(F) - 1 - n = Cardinality(F \ First(F, n)) - 1
           /\ Cardinality(F) - 1 - n \in Nat
           /\ F \ First(F, n) # {}
<1> DEFINE T == First(F, n)
<1>1. IsFiniteSet(F) /\ F \subseteq Int /\ Cardinality(F) \in Nat
  BY FiniteBounds, FS_Subset, FS_CardinalityType
<1>2. n <= Cardinality(F) - 1
  BY <1>1, SpacesAssumption DEF Suffices
<1>3. T \subseteq F /\ IsFiniteSet(T) /\ Cardinality(T) = n
  <2>1. n <= Cardinality(F)
    BY <1>1, <1>2
  <2> QED
    BY <1>1, <2>1, FirstCount
<1> HIDE DEF T
<1>4. F \cap T = T
  BY <1>3
<1>5. IsFiniteSet(F \ T) /\ Cardinality(F \ T) = Cardinality(F) - n
  BY <1>1, <1>3, <1>4, FS_Difference
<1>6. F \ T # {}
  <2>1. Cardinality(F \ T) # 0
    BY <1>1, <1>2, <1>5
  <2> QED
    BY <2>1, FS_EmptySet
<1> QED
  BY <1>1, <1>2, <1>3, <1>5, <1>6 DEF T

Entries == [frame : {0} \union Frames, rw : BOOLEAN]

\* A page table entry from its parts.
LEMMA EntryMade ==
    ASSUME NEW f \in {0} \union Frames, NEW b \in BOOLEAN
    PROVE  [frame |-> f, rw |-> b] \in Entries
BY DEF Entries

\* The entry of a page that is not mapped.
LEMMA AbsentEntry == Absent \in Entries /\ Absent.frame = 0 /\ Absent.rw = FALSE
BY DEF Entries, Absent

\* Pages mapped to blocks taken from the list get different blocks.
LEMMA MappedEntries ==
    ASSUME NEW T \in SUBSET Frames, NEW P \in SUBSET Pages,
           Cardinality(P) <= Cardinality(T)
    PROVE  /\ Mapped(P, T) \in [Pages -> Entries]
           /\ \A pg \in P : Mapped(P, T)[pg].frame \in T /\ Mapped(P, T)[pg].rw = TRUE
           /\ \A pg \in Pages \ P : Mapped(P, T)[pg] = Absent
           /\ \A pg, qg \in P : Mapped(P, T)[pg].frame = Mapped(P, T)[qg].frame => pg = qg
<1> DEFINE r(pg) == Cardinality(T) - Cardinality(P) + Rank(P, pg)
           frame(pg) == CHOOSE f \in T : Rank(T, f) = r(pg)
<1>1. /\ IsFiniteSet(T) /\ T \subseteq Int /\ Cardinality(T) \in Nat
      /\ IsFiniteSet(P) /\ P \subseteq Int /\ Cardinality(P) \in Nat
  BY FiniteBounds, FS_Subset, FS_CardinalityType
<1>2. \A pg \in P : r(pg) \in Nat /\ r(pg) < Cardinality(T)
  <2>1. \A pg \in P : Rank(P, pg) \in Nat /\ Rank(P, pg) < Cardinality(P)
    BY <1>1, RankType
  <2> QED
    BY <1>1, <2>1
<1>3. \A pg \in P : \E f \in T : Rank(T, f) = r(pg)
  <2> HIDE DEF r
  <2>1. \A i \in Nat : i < Cardinality(T) => \E f \in T : Rank(T, f) = i
    BY <1>1, RankBijection
  <2> QED
    BY <1>2, <2>1
<1>4. \A pg \in P : frame(pg) \in T /\ Rank(T, frame(pg)) = r(pg)
  BY <1>3
<1>5. \A pg, qg \in P : r(pg) = r(qg) => pg = qg
  <2> SUFFICES ASSUME NEW pg \in P, NEW qg \in P, r(pg) = r(qg)
               PROVE  pg = qg
    OBVIOUS
  <2>1. Rank(P, pg) \in Nat /\ Rank(P, qg) \in Nat
    BY <1>1, RankType
  <2>2. Rank(P, pg) = Rank(P, qg)
    BY <1>1, <2>1
  <2> QED
    BY <1>1, <2>2, RankBijection
<1> DEFINE m == Mapped(P, T)
<1>6. m = [pg \in Pages |-> IF pg \in P THEN [frame |-> frame(pg), rw |-> TRUE]
                            ELSE Absent]
  BY DEF Mapped
<1> HIDE DEF frame, r, m
<1>7. \A pg \in P : m[pg] = [frame |-> frame(pg), rw |-> TRUE]
  BY <1>6
<1>8. \A pg \in Pages \ P : m[pg] = Absent
  BY <1>6
<1>9. \A pg \in Pages : m[pg] \in Entries
  <2> SUFFICES ASSUME NEW pg \in Pages
               PROVE  m[pg] \in Entries
    OBVIOUS
  <2>1. CASE pg \in P
    <3>1. frame(pg) \in Frames
      BY <1>4, <2>1
    <3> QED
      BY <1>7, <2>1, <3>1, EntryMade
  <2>2. CASE pg \notin P
    BY <1>8, <2>2, AbsentEntry
  <2> QED
    BY <2>1, <2>2
<1>10. m \in [Pages -> Entries]
  BY <1>6, <1>9
<1>11. \A pg \in P : m[pg].frame = frame(pg) /\ m[pg].rw = TRUE
  <2> TAKE pg \in P
  <2>1. m[pg] = [frame |-> frame(pg), rw |-> TRUE]
    BY <1>7
  <2> QED
    BY <2>1
<1>12. \A pg, qg \in P : frame(pg) = frame(qg) => pg = qg
  BY <1>4, <1>5
<1> QED
  BY <1>4, <1>8, <1>10, <1>11, <1>12 DEF m

-----------------------------------------------------------------------------
(* Who maps a block, before and after a change of the page tables. *)

PageTables == [Spaces -> [Pages -> Entries]]

UsersOf(p, f) == {u \in Spaces \X Pages : p[u[1]][u[2]].frame = f}

\* q is p with the entry of (s, pg) changed to e, with the pages U of s
\* unmapped.
EntryIs(q, p, s, pg, e) ==
    \A t \in Spaces, h \in Pages : q[t][h] = IF t = s /\ h = pg THEN e ELSE p[t][h]

Unmapped(q, p, s, U) ==
    \A t \in Spaces, h \in Pages : q[t][h] = IF t = s /\ h \in U THEN Absent ELSE p[t][h]

\* q is p with the space c replaced by row, by the pages X of s, read-only.
SpaceIs(q, p, c, row) ==
    \A t \in Spaces, h \in Pages : q[t][h] = IF t = c THEN row[h] ELSE p[t][h]

SpaceCopied(q, p, s, c, X) ==
    \A t \in Spaces, h \in Pages :
        q[t][h] = IF t # c THEN p[t][h]
                  ELSE IF h \in X THEN [frame |-> p[s][h].frame, rw |-> FALSE]
                  ELSE Absent

\* row maps the pages P, each with a block of its own from T.
Fills(row, P, T) ==
    /\ \A pg \in P : row[pg].frame \in T
    /\ \A pg \in Pages \ P : row[pg] = Absent
    /\ \A pg, qg \in P : row[pg].frame = row[qg].frame => pg = qg

OneWriterOf(p) == \A f \in Frames : \A u, w \in UsersOf(p, f) :
                     p[u[1]][u[2]].rw /\ p[w[1]][w[2]].rw => u = w

\* A block has finitely many users.
LEMMA UsersFinite ==
    ASSUME NEW p, NEW f
    PROVE  IsFiniteSet(UsersOf(p, f)) /\ Cardinality(UsersOf(p, f)) \in Nat
BY FiniteBounds, FS_CardinalityType DEF UsersOf

\* An entry of p is changed, or all the entries of a space.
LEMMA EntryChanged ==
    ASSUME NEW p \in PageTables, NEW s \in Spaces, NEW pg \in Pages, NEW e \in Entries
    PROVE  /\ [p EXCEPT ![s][pg] = e] \in PageTables
           /\ EntryIs([p EXCEPT ![s][pg] = e], p, s, pg, e)
<1>1. p[s] \in [Pages -> Entries]
  BY DEF PageTables
<1>2. [p[s] EXCEPT ![pg] = e] \in [Pages -> Entries]
  BY <1>1
<1>3. [p EXCEPT ![s][pg] = e] = [p EXCEPT ![s] = [p[s] EXCEPT ![pg] = e]]
  BY DEF PageTables
<1>4. [p EXCEPT ![s] = [p[s] EXCEPT ![pg] = e]] \in PageTables
  BY <1>2 DEF PageTables
<1>5. \A t \in Spaces : [p EXCEPT ![s] = [p[s] EXCEPT ![pg] = e]][t]
                          = IF t = s THEN [p[s] EXCEPT ![pg] = e] ELSE p[t]
  BY DEF PageTables
<1>6. \A h \in Pages : [p[s] EXCEPT ![pg] = e][h] = IF h = pg THEN e ELSE p[s][h]
  BY <1>1
<1> QED
  BY <1>3, <1>4, <1>5, <1>6 DEF EntryIs

\* The page table of one space is replaced.
LEMMA SpaceChanged ==
    ASSUME NEW p \in PageTables, NEW s \in Spaces, NEW row \in [Pages -> Entries]
    PROVE  /\ [p EXCEPT ![s] = row] \in PageTables
           /\ SpaceIs([p EXCEPT ![s] = row], p, s, row)
BY DEF PageTables, SpaceIs

\* map_phyaddr and cow: an entry gets a block that nobody maps.
LEMMA FreshEntry ==
    ASSUME NEW p \in PageTables, NEW s \in Spaces, NEW pg \in Pages,
           NEW g \in Frames, UsersOf(p, g) = {},
           NEW q, NEW e, e.frame = g, EntryIs(q, p, s, pg, e)
    PROVE  /\ UsersOf(q, g) = {<<s, pg>>}
           /\ \A f \in Frames \ {g} : UsersOf(q, f) = UsersOf(p, f) \ {<<s, pg>>}
           /\ OneWriterOf(p) => OneWriterOf(q)
<1>1. \A u \in Spaces \X Pages : /\ u[1] \in Spaces /\ u[2] \in Pages
                                 /\ u[1] = s /\ u[2] = pg <=> u = <<s, pg>>
  OBVIOUS
<1>2. \A u \in Spaces \X Pages : q[u[1]][u[2]] = IF u = <<s, pg>> THEN e ELSE p[u[1]][u[2]]
  <2> TAKE u \in Spaces \X Pages
  <2>1. q[u[1]][u[2]] = IF u[1] = s /\ u[2] = pg THEN e ELSE p[u[1]][u[2]]
    BY <1>1 DEF EntryIs
  <2> QED
    BY <1>1, <2>1
<1>3. UsersOf(q, g) = {<<s, pg>>}
  <2>1. \A u \in Spaces \X Pages : p[u[1]][u[2]].frame # g
    BY DEF UsersOf
  <2>2. <<s, pg>> \in Spaces \X Pages
    OBVIOUS
  <2> QED
    BY <1>2, <2>1, <2>2 DEF UsersOf
<1>4. \A f \in Frames \ {g} : UsersOf(q, f) = UsersOf(p, f) \ {<<s, pg>>}
  BY <1>2 DEF UsersOf
<1>5. ASSUME OneWriterOf(p), NEW f \in Frames, NEW u \in UsersOf(q, f), NEW w \in UsersOf(q, f),
             q[u[1]][u[2]].rw, q[w[1]][w[2]].rw
      PROVE  u = w
  <2>1. CASE f = g
    <3>1. u \in UsersOf(q, g) /\ w \in UsersOf(q, g)
      BY <1>5, <2>1
    <3> QED
      BY <1>3, <3>1
  <2>2. CASE f # g
    <3>1. /\ u \in UsersOf(p, f) /\ u # <<s, pg>> /\ u \in Spaces \X Pages
          /\ w \in UsersOf(p, f) /\ w # <<s, pg>> /\ w \in Spaces \X Pages
      BY <1>4, <2>2 DEF UsersOf
    <3>2. p[u[1]][u[2]].rw /\ p[w[1]][w[2]].rw
      BY <1>2, <1>5, <3>1
    <3> QED
      BY <1>5, <3>1, <3>2 DEF OneWriterOf
  <2> QED
    BY <2>1, <2>2
<1> QED
  BY <1>3, <1>4, <1>5 DEF OneWriterOf

\* The pages of one space, as entries, are as many as the pages.
LEMMA PagesAsPairs ==
    ASSUME NEW s, NEW X \in SUBSET Pages
    PROVE  /\ IsFiniteSet({s} \X X)
           /\ IsFiniteSet(X) /\ Cardinality(X) \in Nat
           /\ Cardinality({s} \X X) = Cardinality(X)
<1>1. IsFiniteSet(X) /\ Cardinality(X) \in Nat
  BY FiniteBounds, FS_Subset, FS_CardinalityType
<1>2. IsFiniteSet({s}) /\ Cardinality({s}) = 1
  BY FS_Singleton
<1>3. IsFiniteSet({s} \X X) /\ Cardinality({s} \X X) = 1 * Cardinality(X)
  BY <1>1, <1>2, FS_Product
<1> QED
  BY <1>1, <1>3

\* The pages U of a space are unmapped.
LEMMA SpaceUnmapped ==
    ASSUME NEW p \in PageTables, NEW s \in Spaces, NEW U, NEW q,
           Unmapped(q, p, s, U)
    PROVE  /\ \A f \in Frames :
                LET hits == Cardinality({pg \in U \cap Pages : p[s][pg].frame = f})
                IN /\ hits \in Nat /\ hits <= Cardinality(UsersOf(p, f))
                   /\ Cardinality(UsersOf(q, f)) = Cardinality(UsersOf(p, f)) - hits
           /\ OneWriterOf(p) => OneWriterOf(q)
<1>1. \A u \in Spaces \X Pages : u[1] \in Spaces /\ u[2] \in Pages
  OBVIOUS
<1>2. \A u \in Spaces \X Pages :
        q[u[1]][u[2]] = IF u[1] = s /\ u[2] \in U THEN Absent ELSE p[u[1]][u[2]]
  BY <1>1 DEF Unmapped
<1>3. ASSUME NEW f \in Frames
      PROVE  LET hits == Cardinality({pg \in U \cap Pages : p[s][pg].frame = f})
             IN /\ hits \in Nat /\ hits <= Cardinality(UsersOf(p, f))
                /\ Cardinality(UsersOf(q, f)) = Cardinality(UsersOf(p, f)) - hits
  <2> DEFINE H == {pg \in U \cap Pages : p[s][pg].frame = f}
             X == {s} \X H
  <2>1. f # 0 /\ Absent.frame = 0
    BY FiniteBounds, AbsentEntry
  <2>2. X \subseteq UsersOf(p, f)
    BY DEF UsersOf
  <2>3. UsersOf(q, f) = UsersOf(p, f) \ X
    <3>1. \A u \in Spaces \X Pages : u \in X <=> /\ u[1] = s /\ u[2] \in U
                                                 /\ p[u[1]][u[2]].frame = f
      BY <1>1
    <3> HIDE DEF X
    <3> QED
      BY <1>2, <2>1, <3>1 DEF UsersOf
  <2>4. IsFiniteSet(H) /\ Cardinality(H) \in Nat /\ Cardinality(X) = Cardinality(H)
    BY PagesAsPairs
  <2> HIDE DEF X, H
  <2>5. UsersOf(p, f) \cap X = X
    BY <2>2
  <2>6. Cardinality(UsersOf(q, f)) = Cardinality(UsersOf(p, f)) - Cardinality(X)
    BY <2>3, <2>5, UsersFinite, FS_Difference
  <2>7. Cardinality(X) <= Cardinality(UsersOf(p, f))
    BY <2>2, UsersFinite, FS_Subset
  <2> QED
    BY <2>4, <2>6, <2>7 DEF H
<1>4. ASSUME OneWriterOf(p), NEW f \in Frames, NEW u \in UsersOf(q, f), NEW w \in UsersOf(q, f),
             q[u[1]][u[2]].rw, q[w[1]][w[2]].rw
      PROVE  u = w
  <2>1. \A v \in UsersOf(q, f) : v \in UsersOf(p, f) /\ q[v[1]][v[2]] = p[v[1]][v[2]]
    BY <1>2, FiniteBounds, AbsentEntry DEF UsersOf
  <2> QED
    BY <1>4, <2>1 DEF OneWriterOf
<1> QED
  BY <1>3, <1>4 DEF OneWriterOf

\* A set without two different elements has at most one.
LEMMA AtMostOne ==
    ASSUME NEW S, \A x, y \in S : x = y
    PROVE  IsFiniteSet(S) /\ Cardinality(S) \in Nat /\ Cardinality(S) <= 1
<1>1. CASE S = {}
  BY <1>1, FS_EmptySet
<1>2. CASE S # {}
  <2>1. PICK x \in S : S = {x}
    BY <1>2
  <2> QED
    BY <2>1, FS_Singleton
<1> QED
  BY <1>1, <1>2

\* exec and boot: a space is filled with blocks T that nobody maps, each for
\* one page.
LEMMA FreshSpace ==
    ASSUME NEW p \in PageTables, NEW c \in Spaces, NEW T \in SUBSET Frames,
           NEW P \in SUBSET Pages, NEW row, NEW q,
           \A f \in T : UsersOf(p, f) = {},
           Fills(row, P, T), SpaceIs(q, p, c, row)
    PROVE  /\ \A f \in Frames \ T : UsersOf(q, f) \subseteq UsersOf(p, f)
           /\ \A f \in T : Cardinality(UsersOf(q, f)) <= 1
           /\ OneWriterOf(p) => OneWriterOf(q)
<1>1. \A u \in Spaces \X Pages : u[1] \in Spaces /\ u[2] \in Pages /\ u = <<u[1], u[2]>>
  OBVIOUS
<1>2. \A u \in Spaces \X Pages :
        q[u[1]][u[2]] = IF u[1] = c THEN row[u[2]] ELSE p[u[1]][u[2]]
  BY <1>1 DEF SpaceIs
<1> USE DEF Fills
<1>3. 0 \notin Frames /\ Absent.frame = 0
  BY FiniteBounds, AbsentEntry
<1>4. ASSUME NEW f \in Frames \ T, NEW u \in UsersOf(q, f)
      PROVE  u \in UsersOf(p, f) /\ u[1] # c
  <2>1. u \in Spaces \X Pages /\ q[u[1]][u[2]].frame = f
    BY DEF UsersOf
  <2>2. u[1] # c
    <3> SUFFICES ASSUME u[1] = c
                 PROVE  FALSE
      OBVIOUS
    <3>1. row[u[2]].frame = f /\ u[2] \in Pages
      BY <1>1, <1>2, <2>1
    <3>2. CASE u[2] \in P
      BY <3>1, <3>2
    <3>3. CASE u[2] \notin P
      BY <1>3, <3>1, <3>3
    <3> QED
      BY <3>2, <3>3
  <2> QED
    BY <1>2, <2>1, <2>2 DEF UsersOf
<1>5. ASSUME NEW f \in T, NEW u \in UsersOf(q, f)
      PROVE  u[1] = c /\ u[2] \in P /\ row[u[2]].frame = f /\ u = <<u[1], u[2]>>
  <2>1. u \in Spaces \X Pages /\ q[u[1]][u[2]].frame = f
    BY DEF UsersOf
  <2>2. u[1] = c
    BY <1>2, <2>1 DEF UsersOf
  <2>3. row[u[2]].frame = f /\ u[2] \in Pages
    BY <1>1, <1>2, <2>1, <2>2
  <2>4. u[2] \in P
    BY <1>3, <2>3
  <2> QED
    BY <1>1, <2>1, <2>2, <2>3, <2>4
<1>6. ASSUME NEW f \in T, NEW u \in UsersOf(q, f), NEW w \in UsersOf(q, f)
      PROVE  u = w
  <2>1. u[1] = c /\ u[2] \in P /\ row[u[2]].frame = f /\ u = <<u[1], u[2]>>
    BY <1>5
  <2>2. w[1] = c /\ w[2] \in P /\ row[w[2]].frame = f /\ w = <<w[1], w[2]>>
    BY <1>5
  <2> QED
    BY <2>1, <2>2
<1>7. \A f \in T : Cardinality(UsersOf(q, f)) <= 1
  BY <1>6, AtMostOne
<1>8. ASSUME OneWriterOf(p), NEW f \in Frames, NEW u \in UsersOf(q, f), NEW w \in UsersOf(q, f),
             q[u[1]][u[2]].rw, q[w[1]][w[2]].rw
      PROVE  u = w
  <2>1. CASE f \in T
    BY <1>6, <2>1
  <2>2. CASE f \notin T
    <3>1. /\ u \in UsersOf(p, f) /\ u[1] # c /\ u \in Spaces \X Pages
          /\ w \in UsersOf(p, f) /\ w[1] # c /\ w \in Spaces \X Pages
      BY <1>4, <2>2 DEF UsersOf
    <3>2. p[u[1]][u[2]].rw /\ p[w[1]][w[2]].rw
      BY <1>2, <1>8, <3>1
    <3> QED
      BY <1>8, <3>1, <3>2 DEF OneWriterOf
  <2> QED
    BY <2>1, <2>2
<1> QED
  BY <1>4, <1>7, <1>8 DEF OneWriterOf

\* fork: a space is filled with the blocks of the pages X of another, read-only.
LEMMA CopiedSpace ==
    ASSUME NEW p \in PageTables, NEW s \in Spaces, NEW c \in Spaces,
           NEW X \in SUBSET Pages, NEW q,
           SpaceCopied(q, p, s, c, X)
    PROVE  /\ \A f \in Frames : Cardinality(UsersOf(q, f)) <= Cardinality(UsersOf(p, f))
                                   + Cardinality({pg \in X : p[s][pg].frame = f})
           /\ OneWriterOf(p) => OneWriterOf(q)
<1> USE DEF SpaceCopied
<1>1. \A u \in Spaces \X Pages : u[1] \in Spaces /\ u[2] \in Pages /\ u = <<u[1], u[2]>>
  OBVIOUS
<1>2. ASSUME NEW u \in Spaces \X Pages
      PROVE  /\ u[1] # c => q[u[1]][u[2]] = p[u[1]][u[2]]
             /\ u[1] = c /\ u[2] \in X => /\ q[u[1]][u[2]].frame = p[s][u[2]].frame
                                          /\ ~q[u[1]][u[2]].rw
             /\ u[1] = c /\ u[2] \notin X => q[u[1]][u[2]].frame = 0
  <2>1. u[1] \in Spaces /\ u[2] \in Pages
    BY <1>1
  <2>2. ASSUME u[1] = c, u[2] \in X
        PROVE  /\ q[u[1]][u[2]].frame = p[s][u[2]].frame
               /\ ~q[u[1]][u[2]].rw
    <3>1. q[u[1]][u[2]] = [frame |-> p[s][u[2]].frame, rw |-> FALSE]
      BY <2>1, <2>2
    <3> QED
      BY <3>1
  <2>3. u[1] = c /\ u[2] \notin X => q[u[1]][u[2]].frame = 0
    BY <2>1, AbsentEntry
  <2> QED
    BY <2>1, <2>2, <2>3
<1>3. ASSUME NEW f \in Frames
      PROVE  Cardinality(UsersOf(q, f)) <= Cardinality(UsersOf(p, f))
                                   + Cardinality({pg \in X : p[s][pg].frame = f})
  <2> DEFINE A == UsersOf(p, f)
             H == {pg \in X : p[s][pg].frame = f}
             B == {c} \X H
  <2>1. \A u \in UsersOf(q, f) : u \in A \union B
    <3> TAKE u \in UsersOf(q, f)
    <3>1. u \in Spaces \X Pages /\ q[u[1]][u[2]].frame = f
      BY DEF UsersOf
    <3>2. CASE u[1] # c
      BY <1>2, <3>1, <3>2 DEF UsersOf
    <3>3. CASE u[1] = c
      <4>1. u[2] \in X /\ p[s][u[2]].frame = f
        BY <1>2, <3>1, <3>3, FiniteBounds
      <4>2. u = <<c, u[2]>> /\ u[2] \in H
        BY <1>1, <3>1, <3>3, <4>1
      <4> QED
        BY <4>2
    <3> QED
      BY <3>2, <3>3
  <2>2. IsFiniteSet(A) /\ Cardinality(A) \in Nat
    BY UsersFinite
  <2>3. /\ IsFiniteSet(B) /\ Cardinality(H) \in Nat /\ Cardinality(B) = Cardinality(H)
    <3>1. H \in SUBSET Pages
      OBVIOUS
    <3> HIDE DEF H
    <3> QED
      BY <3>1, PagesAsPairs
  <2> HIDE DEF A, H, B
  <2>4. /\ IsFiniteSet(A \union B) /\ Cardinality(A \cap B) \in Nat
        /\ Cardinality(A \union B) = Cardinality(A) + Cardinality(B) - Cardinality(A \cap B)
    BY <2>2, <2>3, FS_Union, FS_Intersection, FS_CardinalityType
  <2>5. Cardinality(UsersOf(q, f)) <= Cardinality(A \union B)
    BY <2>1, <2>4, FS_Subset
  <2>6. Cardinality(UsersOf(q, f)) \in Nat
    BY UsersFinite
  <2>7. Cardinality(UsersOf(q, f)) <= Cardinality(A) + Cardinality(H)
    BY <2>2, <2>3, <2>4, <2>5, <2>6
  <2> QED
    BY <2>7 DEF A, H
<1>4. ASSUME OneWriterOf(p), NEW f \in Frames, NEW u \in UsersOf(q, f), NEW w \in UsersOf(q, f),
             q[u[1]][u[2]].rw, q[w[1]][w[2]].rw
      PROVE  u = w
  <2>1. \A v \in UsersOf(q, f) : q[v[1]][v[2]].rw =>
          v \in UsersOf(p, f) /\ q[v[1]][v[2]] = p[v[1]][v[2]]
    <3> SUFFICES ASSUME NEW v \in UsersOf(q, f), q[v[1]][v[2]].rw
                 PROVE  v \in UsersOf(p, f) /\ q[v[1]][v[2]] = p[v[1]][v[2]]
      OBVIOUS
    <3>1. v \in Spaces \X Pages /\ q[v[1]][v[2]].frame = f
      BY DEF UsersOf
    <3>2. v[1] # c
      BY <1>2, <3>1, FiniteBounds
    <3> QED
      BY <1>2, <3>1, <3>2 DEF UsersOf
  <2> QED
    BY <1>4, <2>1 DEF OneWriterOf
<1> QED
  BY <1>3, <1>4 DEF OneWriterOf

\* increment_childpg_ref is called at least once for a page of a VMA.
LEMMA PairsReach ==
    ASSUME NEW n \in Nat, NEW X \in SUBSET Pages, NEW R \in SUBSET ((1..n) \X Pages),
           \A pg \in X : \E i \in 1..n : <<i, pg>> \in R
    PROVE  Cardinality(X) <= Cardinality(R) /\ Cardinality(R) \in Nat
<1>1. IsFiniteSet(R)
  <2>1. IsFiniteSet(1..n)
    BY FS_Interval
  <2>2. IsFiniteSet((1..n) \X Pages)
    BY <2>1, FiniteBounds, FS_Product
  <2> QED
    BY <2>2, FS_Subset
<1> DEFINE in(pg) == CHOOSE i \in 1..n : <<i, pg>> \in R
           g == [pg \in X |-> <<in(pg), pg>>]
<1>2. \A pg \in X : <<in(pg), pg>> \in R
  OBVIOUS
<1> HIDE DEF in
<1>3. g \in [X -> R]
  BY <1>2
<1>4. \A x, y \in X : g[x] = g[y] => x = y
  OBVIOUS
<1> HIDE DEF g
<1>5. g \in Injection(X, R)
  BY <1>3, <1>4, Fun_IsInj
<1> QED
  BY <1>1, <1>5, FS_Injection, FS_CardinalityType

-----------------------------------------------------------------------------
(* The invariant of the blocks, of any free list, counter, reference counts *)
(* and page tables: Exit goes through values that are no state.             *)

FramesOK(fr, count, refs, p) ==
    /\ fr \in SUBSET Frames /\ fr # {}
    /\ count \in Nat /\ count = Cardinality(fr) - 1
    /\ refs \in [Frames -> Nat]
    /\ p \in PageTables
    /\ \A f \in Frames : /\ Cardinality(UsersOf(p, f)) <= refs[f]
                         /\ f \in fr => refs[f] = 0
    /\ OneWriterOf(p)

\* T are n blocks of a list fr that is not used up; nobody maps them.
Taken(T, n, fr, count, refs, p) ==
    /\ T \subseteq fr /\ T \in SUBSET Frames
    /\ IsFiniteSet(T) /\ Cardinality(T) = n
    /\ \A f \in T : refs[f] = 0 /\ UsersOf(p, f) = {}
    /\ count - n \in Nat /\ count - n = Cardinality(fr \ T) - 1
    /\ fr \ T # {}

\* Blocks taken from the head of the free list are used by nobody.
LEMMA TakenAreUnused ==
    ASSUME NEW fr, NEW count, NEW refs, NEW p, FramesOK(fr, count, refs, p),
           NEW n \in Nat, Suffices(count, n)
    PROVE  Taken(First(fr, n), n, fr, count, refs, p)
<1> DEFINE T == First(fr, n)
<1>1. /\ T \subseteq fr /\ IsFiniteSet(T) /\ Cardinality(T) = n
      /\ count - n \in Nat /\ count - n = Cardinality(fr \ T) - 1
      /\ fr \ T # {}
  BY BlocksTaken DEF FramesOK
<1>2. fr \in SUBSET Frames
  BY DEF FramesOK
<1> HIDE DEF T
<1>3. ASSUME NEW f \in T
      PROVE  refs[f] = 0 /\ UsersOf(p, f) = {}
  <2>1. f \in Frames /\ refs[f] = 0 /\ Cardinality(UsersOf(p, f)) <= 0
    BY <1>1, <1>2 DEF FramesOK
  <2>2. IsFiniteSet(UsersOf(p, f)) /\ Cardinality(UsersOf(p, f)) \in Nat
    BY UsersFinite
  <2> QED
    BY <2>1, <2>2, FS_EmptySet
<1> QED
  BY <1>1, <1>2, <1>3 DEF T, Taken

\* map_phyaddr, and the fault on page 0 that ends exit: n blocks are taken,
\* one of them for the page, the others for tables.
LEMMA PageMapped ==
    ASSUME NEW fr, NEW count, NEW refs, NEW p, FramesOK(fr, count, refs, p),
           NEW n \in Nat \ {0}, Suffices(count, n),
           NEW s \in Spaces, NEW pg \in Pages, NEW q \in PageTables, NEW r,
           EntryIs(q, p, s, pg, Mapped({pg}, First(fr, n))[pg]),
           r \in [Frames -> Nat],
           \A f \in Frames : r[f] = IF f \in First(fr, n) THEN refs[f] + 1 ELSE refs[f]
    PROVE  FramesOK(fr \ First(fr, n), count - n, r, q)
<1> DEFINE T == First(fr, n)
           e == Mapped({pg}, T)[pg]
<1>1. /\ T \subseteq fr /\ T \in SUBSET Frames
      /\ Cardinality(T) = n
      /\ \A f \in T : refs[f] = 0 /\ UsersOf(p, f) = {}
      /\ count - n \in Nat /\ count - n = Cardinality(fr \ T) - 1
      /\ fr \ T # {}
  <2>1. n \in Nat /\ FramesOK(fr, count, refs, p) /\ Suffices(count, n)
    OBVIOUS
  <2>2. Taken(T, n, fr, count, refs, p)
    BY <2>1, TakenAreUnused
  <2> QED
    BY <2>2 DEF Taken
<1>2. fr \in SUBSET Frames /\ p \in PageTables /\ OneWriterOf(p) /\ refs \in [Frames -> Nat]
      /\ \A f \in Frames : /\ Cardinality(UsersOf(p, f)) <= refs[f]
                           /\ f \in fr => refs[f] = 0
  BY DEF FramesOK
<1>3. e.frame \in T
  <2> HIDE DEF T
  <2>1. Cardinality({pg}) <= Cardinality(T)
    <3>1. Cardinality({pg}) = 1 /\ n >= 1
      BY FS_Singleton
    <3> QED
      BY <1>1, <3>1
  <2>2. {pg} \in SUBSET Pages
    OBVIOUS
  <2> QED
    BY <1>1, <2>1, <2>2, MappedEntries
<1>4. EntryIs(q, p, s, pg, e)
  OBVIOUS
<1>5. \A f \in Frames : r[f] = IF f \in T THEN refs[f] + 1 ELSE refs[f]
  OBVIOUS
<1> HIDE DEF T, e
<1> DEFINE g == e.frame
<1>6. g \in Frames /\ UsersOf(p, g) = {} /\ e.frame = g
  BY <1>1, <1>3
<1> HIDE DEF g
<1>7. /\ UsersOf(q, g) = {<<s, pg>>}
      /\ \A f \in Frames \ {g} : UsersOf(q, f) = UsersOf(p, f) \ {<<s, pg>>}
      /\ OneWriterOf(q)
  BY <1>2, <1>4, <1>6, FreshEntry
<1>8. ASSUME NEW f \in Frames
      PROVE  Cardinality(UsersOf(q, f)) <= r[f] /\ (f \in fr \ T => r[f] = 0)
  <2>1. ASSUME f \in fr \ T
        PROVE  r[f] = 0
    <3>1. r[f] = refs[f]
      BY <1>5, <2>1
    <3>2. refs[f] = 0
      BY <1>2, <2>1
    <3> QED
      BY <3>1, <3>2
  <2>2. CASE f = g
    <3>1. Cardinality(UsersOf(q, f)) = 1
      BY <1>7, <2>2, FS_Singleton
    <3>2. r[f] = 1
      BY <1>1, <1>3, <1>5, <2>2 DEF g
    <3> QED
      BY <2>1, <3>1, <3>2
  <2>3. CASE f # g
    <3>1. UsersOf(q, f) \in SUBSET UsersOf(p, f)
      BY <1>7, <2>3
    <3>2. Cardinality(UsersOf(q, f)) <= Cardinality(UsersOf(p, f))
      BY <3>1, UsersFinite, FS_Subset
    <3>3. Cardinality(UsersOf(q, f)) \in Nat /\ Cardinality(UsersOf(p, f)) \in Nat
      BY UsersFinite
    <3> QED
      BY <1>2, <1>5, <2>1, <3>2, <3>3
  <2> QED
    BY <2>2, <2>3
<1>9. FramesOK(fr \ T, count - n, r, q)
  BY <1>1, <1>2, <1>7, <1>8 DEF FramesOK
<1> QED
  BY <1>9 DEF T

\* hits[f] entries of the space s for the pages U hold the block f; when
\* they go, the blocks gone are freed and the counts are r.
Unreferenced(hits, gone, r, refs, p, s, U) ==
    /\ \A f \in Frames : hits[f] = Cardinality({pg \in U \cap Pages : p[s][pg].frame = f})
    /\ gone = {f \in Frames : refs[f] \in 1..hits[f]}
    /\ r = [f \in Frames |-> IF refs[f] > hits[f] THEN refs[f] - hits[f] ELSE 0]

\* unmap_phyaddr.
LEMMA PagesUnmapped ==
    ASSUME NEW fr, NEW count, NEW refs, NEW p, FramesOK(fr, count, refs, p),
           NEW s \in Spaces, NEW U, NEW q \in PageTables,
           Unmapped(q, p, s, U),
           NEW hits, NEW gone, NEW r, Unreferenced(hits, gone, r, refs, p, s, U)
    PROVE  FramesOK(fr \union gone, count + Cardinality(gone), r, q)
<1> USE DEF Unreferenced
<1>1. /\ \A f \in Frames : /\ hits[f] \in Nat /\ hits[f] <= Cardinality(UsersOf(p, f))
                           /\ Cardinality(UsersOf(q, f)) = Cardinality(UsersOf(p, f)) - hits[f]
      /\ OneWriterOf(q)
  <2>1. p \in PageTables /\ OneWriterOf(p)
    BY DEF FramesOK
  <2>2. OneWriterOf(q)
    BY <2>1, SpaceUnmapped
  <2>3. ASSUME NEW f \in Frames
        PROVE  /\ hits[f] \in Nat /\ hits[f] <= Cardinality(UsersOf(p, f))
               /\ Cardinality(UsersOf(q, f)) = Cardinality(UsersOf(p, f)) - hits[f]
    <3>1. hits[f] = Cardinality({pg \in U \cap Pages : p[s][pg].frame = f})
      OBVIOUS
    <3> QED
      BY <2>1, <3>1, SpaceUnmapped
  <2> QED
    BY <2>2, <2>3
<1>2. /\ fr \in SUBSET Frames /\ fr # {} /\ refs \in [Frames -> Nat]
      /\ count \in Nat /\ count = Cardinality(fr) - 1
      /\ \A f \in Frames : /\ Cardinality(UsersOf(p, f)) <= refs[f]
                           /\ f \in fr => refs[f] = 0
  BY DEF FramesOK
<1>3. r \in [Frames -> Nat]
  BY <1>1, <1>2
<1>4. ASSUME NEW f \in Frames
      PROVE  /\ Cardinality(UsersOf(q, f)) <= r[f]
             /\ f \in fr \union gone => r[f] = 0
  <2>1. Cardinality(UsersOf(q, f)) \in Nat /\ Cardinality(UsersOf(p, f)) \in Nat
    BY UsersFinite
  <2> QED
    BY <1>1, <1>2, <2>1
<1>5. /\ IsFiniteSet(fr) /\ IsFiniteSet(gone)
      /\ Cardinality(fr) \in Nat /\ Cardinality(gone) \in Nat
  BY <1>2, FiniteBounds, FS_Subset, FS_CardinalityType
<1>6. fr \cap gone = {}
  BY <1>2
<1>7. Cardinality(fr \union gone) = Cardinality(fr) + Cardinality(gone)
  <2>1. Cardinality(fr \union gone) = Cardinality(fr) + Cardinality(gone)
                                       - Cardinality(fr \cap gone)
    BY <1>5, FS_Union
  <2>2. Cardinality(fr \cap gone) = 0
    BY <1>6, FS_EmptySet
  <2> QED
    BY <1>5, <2>1, <2>2
<1> QED
  BY <1>1, <1>2, <1>3, <1>4, <1>5, <1>7 DEF FramesOK

\* cow: the block of an entry is replaced by one that nobody maps, and the
\* count of the old one goes down.
LEMMA EntryReplaced ==
    ASSUME NEW fr, NEW count, NEW refs, NEW p, FramesOK(fr, count, refs, p),
           NEW new \in fr, NEW s \in Spaces, NEW pg \in Pages, NEW q \in PageTables,
           NEW e, e.frame = new, EntryIs(q, p, s, pg, e),
           NEW old \in Frames, p[s][pg].frame = old, NEW c \in Nat,
           c = Cardinality(fr \ {new}) - 1, fr \ {new} # {},
           NEW r \in [Frames -> Nat], r[new] = 1, r[old] = refs[old] - 1,
           \A f \in Frames \ {old, new} : r[f] = refs[f]
    PROVE  FramesOK(fr \ {new}, c, r, q)
<1>1. fr \in SUBSET Frames /\ p \in PageTables /\ OneWriterOf(p) /\ refs \in [Frames -> Nat]
      /\ \A f \in Frames : /\ Cardinality(UsersOf(p, f)) <= refs[f]
                           /\ f \in fr => refs[f] = 0
  BY DEF FramesOK
<1>2. new \in Frames /\ refs[new] = 0
  BY <1>1
<1>3. UsersOf(p, new) = {}
  <2>1. IsFiniteSet(UsersOf(p, new)) /\ Cardinality(UsersOf(p, new)) \in Nat
    BY UsersFinite
  <2>2. Cardinality(UsersOf(p, new)) <= 0
    BY <1>1, <1>2
  <2> QED
    BY <2>1, <2>2, FS_EmptySet
<1>4. /\ UsersOf(q, new) = {<<s, pg>>}
      /\ \A f \in Frames \ {new} : UsersOf(q, f) = UsersOf(p, f) \ {<<s, pg>>}
      /\ OneWriterOf(q)
  BY <1>1, <1>2, <1>3, FreshEntry
<1>5. <<s, pg>> \in UsersOf(p, old)
  BY DEF UsersOf
<1>6. old # new
  BY <1>3, <1>5
<1>7. Cardinality(UsersOf(q, old)) <= r[old]
  <2>1. IsFiniteSet(UsersOf(p, old)) /\ Cardinality(UsersOf(p, old)) \in Nat
    BY UsersFinite
  <2>2. UsersOf(q, old) = UsersOf(p, old) \ {<<s, pg>>}
    BY <1>4, <1>6
  <2>3. Cardinality(UsersOf(q, old)) = Cardinality(UsersOf(p, old)) - 1
    <3> DEFINE S == UsersOf(p, old)
               x == <<s, pg>>
    <3>1. IsFiniteSet(S) /\ x \in S /\ UsersOf(q, old) = S \ {x}
      BY <1>5, <2>1, <2>2
    <3> HIDE DEF S, x
    <3>2. Cardinality(S \ {x}) = Cardinality(S) - 1
      BY <3>1, FS_RemoveElement
    <3> QED
      BY <3>1, <3>2 DEF S
  <2>4. Cardinality(UsersOf(p, old)) <= refs[old] /\ refs[old] \in Nat
    BY <1>1
  <2> QED
    BY <2>1, <2>3, <2>4
<1>8. Cardinality(UsersOf(q, new)) <= r[new]
  <2>1. Cardinality(UsersOf(q, new)) = 1
    BY <1>4, FS_Singleton
  <2> QED
    BY <2>1
<1>9. ASSUME NEW f \in Frames \ {old, new}
      PROVE  Cardinality(UsersOf(q, f)) <= r[f]
  <2>1. UsersOf(q, f) \in SUBSET UsersOf(p, f)
    BY <1>4
  <2>2. Cardinality(UsersOf(q, f)) <= Cardinality(UsersOf(p, f))
    BY <2>1, UsersFinite, FS_Subset
  <2>3. Cardinality(UsersOf(q, f)) \in Nat /\ Cardinality(UsersOf(p, f)) \in Nat
    BY UsersFinite
  <2>4. Cardinality(UsersOf(p, f)) <= r[f] /\ r[f] \in Nat
    BY <1>1
  <2> QED
    BY <2>2, <2>3, <2>4
<1>10. old \notin fr
  <2>1. Cardinality(UsersOf(q, old)) \in Nat /\ r[old] \in Nat /\ refs[old] \in Nat
    BY <1>1, UsersFinite
  <2>2. refs[old] # 0
    BY <2>1
  <2> QED
    BY <1>1, <2>2
<1>11. \A f \in fr \ {new} : r[f] = 0
  BY <1>1, <1>10
<1>12. \A f \in Frames : Cardinality(UsersOf(q, f)) <= r[f]
  BY <1>7, <1>8, <1>9
<1> QED
  BY <1>1, <1>4, <1>11, <1>12 DEF FramesOK

\* Boot and exec: n blocks are taken for the pages P of a space and its
\* tables, and each is counted once or more.
LEMMA SpaceLoaded ==
    ASSUME NEW fr, NEW count, NEW refs, NEW p, FramesOK(fr, count, refs, p),
           NEW n \in Nat, Suffices(count, n), NEW c \in Spaces,
           NEW P \in SUBSET Pages, Cardinality(P) <= n,
           NEW q \in PageTables, SpaceIs(q, p, c, Mapped(P, First(fr, n))),
           NEW r \in [Frames -> Nat], \A f \in First(fr, n) : r[f] >= 1,
           \A f \in Frames \ First(fr, n) : r[f] = refs[f]
    PROVE  FramesOK(fr \ First(fr, n), count - n, r, q)
<1> DEFINE T == First(fr, n)
           row == Mapped(P, T)
<1>1. /\ T \subseteq fr /\ T \in SUBSET Frames
      /\ Cardinality(T) = n
      /\ \A f \in T : refs[f] = 0 /\ UsersOf(p, f) = {}
      /\ count - n \in Nat /\ count - n = Cardinality(fr \ T) - 1
      /\ fr \ T # {}
  <2>1. n \in Nat /\ FramesOK(fr, count, refs, p) /\ Suffices(count, n)
    OBVIOUS
  <2>2. Taken(T, n, fr, count, refs, p)
    BY <2>1, TakenAreUnused
  <2> QED
    BY <2>2 DEF Taken
<1>2. fr \in SUBSET Frames /\ p \in PageTables /\ OneWriterOf(p) /\ refs \in [Frames -> Nat]
      /\ \A f \in Frames : /\ Cardinality(UsersOf(p, f)) <= refs[f]
                           /\ f \in fr => refs[f] = 0
  BY DEF FramesOK
<1>3. SpaceIs(q, p, c, row) /\ (\A f \in T : r[f] >= 1) /\ (\A f \in Frames \ T : r[f] = refs[f])
  OBVIOUS
<1> HIDE DEF T
<1>4. Fills(row, P, T)
  <2>1. Cardinality(P) <= Cardinality(T)
    BY <1>1
  <2> QED
    BY <1>1, <2>1, MappedEntries DEF Fills
<1> HIDE DEF row
<1>6. /\ \A f \in Frames \ T : UsersOf(q, f) \subseteq UsersOf(p, f)
      /\ \A f \in T : Cardinality(UsersOf(q, f)) <= 1
      /\ OneWriterOf(q)
  <2>1. (\A f \in T : UsersOf(p, f) = {}) /\ SpaceIs(q, p, c, row) /\ T \in SUBSET Frames
    BY <1>1, <1>3
  <2> QED
    BY <1>2, <1>4, <2>1, FreshSpace
<1>7. ASSUME NEW f \in Frames
      PROVE  Cardinality(UsersOf(q, f)) <= r[f] /\ (f \in fr \ T => r[f] = 0)
  <2>1. /\ Cardinality(UsersOf(q, f)) \in Nat /\ Cardinality(UsersOf(p, f)) \in Nat
        /\ r[f] \in Nat /\ refs[f] \in Nat /\ Cardinality(UsersOf(p, f)) <= refs[f]
    BY <1>2, UsersFinite
  <2>2. CASE f \in T
    <3>1. Cardinality(UsersOf(q, f)) <= 1 /\ r[f] >= 1
      BY <1>3, <1>6, <2>2
    <3> QED
      BY <2>1, <2>2, <3>1
  <2>3. CASE f \notin T
    <3>1. r[f] = refs[f] /\ UsersOf(q, f) \subseteq UsersOf(p, f)
      BY <1>3, <1>6, <2>3
    <3>2. Cardinality(UsersOf(q, f)) <= Cardinality(UsersOf(p, f))
      BY <3>1, UsersFinite, FS_Subset
    <3> QED
      BY <1>2, <2>1, <3>1, <3>2
  <2> QED
    BY <2>2, <2>3
<1>8. FramesOK(fr \ T, count - n, r, q)
  BY <1>1, <1>2, <1>6, <1>7 DEF FramesOK
<1> QED
  BY <1>8 DEF T

\* more[f] counts the pages of X that hold f, some perhaps twice.
Counted(more, p, s, X) ==
    \A f \in Frames : /\ more[f] \in Nat
                      /\ Cardinality({pg \in X : p[s][pg].frame = f}) <= more[f]
                      /\ UsersOf(p, f) = {} => more[f] = 0

\* fork: the tables of the child take n blocks, and each block of a page of
\* X is counted once more or oftener.
LEMMA SpaceForked ==
    ASSUME NEW fr, NEW count, NEW refs, NEW p, FramesOK(fr, count, refs, p),
           NEW n \in Nat, Suffices(count, n), NEW s \in Spaces, NEW c \in Spaces,
           NEW X \in SUBSET Pages, NEW q \in PageTables,
           SpaceCopied(q, p, s, c, X),
           NEW more, Counted(more, p, s, X),
           NEW r \in [Frames -> Nat],
           \A f \in Frames : r[f] = IF f \in First(fr, n) THEN 1 ELSE refs[f] + more[f]
    PROVE  FramesOK(fr \ First(fr, n), count - n, r, q)
<1> DEFINE T == First(fr, n)
<1>1. /\ T \subseteq fr /\ T \in SUBSET Frames
      /\ Cardinality(T) = n
      /\ \A f \in T : refs[f] = 0 /\ UsersOf(p, f) = {}
      /\ count - n \in Nat /\ count - n = Cardinality(fr \ T) - 1
      /\ fr \ T # {}
  <2>1. n \in Nat /\ FramesOK(fr, count, refs, p) /\ Suffices(count, n)
    OBVIOUS
  <2>2. Taken(T, n, fr, count, refs, p)
    BY <2>1, TakenAreUnused
  <2> QED
    BY <2>2 DEF Taken
<1>2. fr \in SUBSET Frames /\ p \in PageTables /\ OneWriterOf(p) /\ refs \in [Frames -> Nat]
      /\ \A f \in Frames : /\ Cardinality(UsersOf(p, f)) <= refs[f]
                           /\ f \in fr => refs[f] = 0
  BY DEF FramesOK
<1>3. \A f \in Frames : r[f] = IF f \in T THEN 1 ELSE refs[f] + more[f]
  OBVIOUS
<1> HIDE DEF T
<1> DEFINE H(f) == {pg \in X : p[s][pg].frame = f}
<1>4. /\ \A f \in Frames : Cardinality(UsersOf(q, f)) <= Cardinality(UsersOf(p, f))
                                                         + Cardinality(H(f))
      /\ OneWriterOf(q)
  BY <1>2, CopiedSpace
<1>5. \A f \in Frames : /\ more[f] \in Nat /\ Cardinality(H(f)) <= more[f]
                        /\ UsersOf(p, f) = {} => more[f] = 0
  BY DEF Counted
<1>6. \A f \in Frames : Cardinality(H(f)) \in Nat
  <2> TAKE f \in Frames
  <2>1. H(f) \in SUBSET Pages
    OBVIOUS
  <2> HIDE DEF H
  <2> QED
    BY <2>1, FiniteBounds, FS_Subset, FS_CardinalityType
<1> HIDE DEF H
<1>7. ASSUME NEW f \in Frames
      PROVE  Cardinality(UsersOf(q, f)) <= r[f] /\ (f \in fr \ T => r[f] = 0)
  <2>1. /\ Cardinality(UsersOf(q, f)) \in Nat /\ Cardinality(UsersOf(p, f)) \in Nat
        /\ r[f] \in Nat /\ refs[f] \in Nat /\ Cardinality(UsersOf(p, f)) <= refs[f]
        /\ Cardinality(H(f)) \in Nat
    BY <1>2, <1>6, UsersFinite
  <2>2. Cardinality(UsersOf(q, f)) <= Cardinality(UsersOf(p, f)) + Cardinality(H(f))
    BY <1>4
  <2>3. more[f] \in Nat /\ Cardinality(H(f)) <= more[f] /\ (UsersOf(p, f) = {} => more[f] = 0)
    BY <1>5
  <2>4. refs[f] = 0 => UsersOf(p, f) = {}
    BY <2>1, UsersFinite, FS_EmptySet
  <2>5. CASE f \in T
    <3>1. r[f] = 1 /\ refs[f] = 0
      BY <1>1, <1>3, <2>5
    <3> QED
      BY <2>1, <2>2, <2>3, <2>4, <2>5, <3>1
  <2>6. CASE f \notin T
    <3>1. r[f] = refs[f] + more[f]
      BY <1>3, <2>6
    <3>2. f \in fr => refs[f] = 0
      BY <1>2
    <3> QED
      BY <2>1, <2>2, <2>3, <2>4, <3>1, <3>2
  <2> QED
    BY <2>5, <2>6
<1>8. FramesOK(fr \ T, count - n, r, q)
  BY <1>1, <1>2, <1>4, <1>7 DEF FramesOK
<1> QED
  BY <1>8 DEF T

-----------------------------------------------------------------------------
(* The inductive invariant. *)

FrameInv == FramesOK(free, totalblockcount, ref_count, pte)

\* A process has a heap, above address 0: so the VMA that k_mmap appends ends
\* at an address even when its length is 0.
ProcInv ==
    /\ walk \in [Spaces -> SUBSET {"null", "user"}]
    /\ vma_list \in [Spaces -> Seq(Vmas)]
    /\ heap_top \in [Spaces -> Nat]
    /\ life \in [Spaces -> {"none", "user", "waiting to die"}]
    /\ machine \in {"running", "no memory", "segmentation fault"}
    /\ \A s \in Spaces : life[s] # "none" => heap_top[s] > 0

MemoryInv == FrameInv /\ ProcInv

\* Addresses lie in pages.
LEMMA PageOfAddress ==
    /\ \A a \in Nat : Page(a) \in Nat /\ (Page(a) + 1) * PAGE_SIZE \in Nat \ {0}
    /\ \A a \in Addrs : Page(a) \in Pages
<1>1. PAGE_SIZE \in Nat \ {0} /\ NPAGES \in Nat \ {0}
  BY SpacesAssumption
<1>2. ASSUME NEW a \in Nat
      PROVE  Page(a) \in Nat /\ (Page(a) + 1) * PAGE_SIZE \in Nat \ {0}
  <2>1. Page(a) \in Nat
    BY <1>1 DEF Page
  <2> HIDE DEF Page
  <2> QED
    BY <1>1, <2>1
<1>3. ASSUME NEW a \in Addrs
      PROVE  Page(a) \in Pages
  <2>1. NPAGES * PAGE_SIZE \in Nat
    BY <1>1
  <2>2. a \in Nat /\ a < NPAGES * PAGE_SIZE
    BY <2>1 DEF Addrs
  <2>3. Page(a) \in Nat /\ a >= PAGE_SIZE * Page(a)
    BY <1>1, <2>2 DEF Page
  <2>4. ASSUME Page(a) >= NPAGES
        PROVE  FALSE
    <3>1. PAGE_SIZE * Page(a) >= NPAGES * PAGE_SIZE
      BY <1>1, <2>3, <2>4
    <3> QED
      BY <1>1, <2>1, <2>2, <2>3, <3>1
  <2> QED
    BY <1>1, <2>3, <2>4 DEF Pages
<1> QED
  BY <1>2, <1>3

\* The tables that a mapping lacks and the page itself are at least one block.
LEMMA TablesCount ==
    ASSUME NEW w, NEW r
    PROVE  Tables(w, r) \in Nat /\ Tables(w, r) + 1 \in Nat \ {0}
BY SpacesAssumption DEF Tables

\* The heap of a new process does not begin at address 0.
LEMMA HeapAboveZero == HeapBase \in Nat /\ HeapBase > 0
<1>1. Len(Segments) \in 1..Len(Segments) /\ Segments \in Seq(Vmas)
  BY SpacesAssumption
<1>2. Segments[Len(Segments)] \in Vmas
  BY <1>1
<1>3. Segments[Len(Segments)].vend \in Nat
  BY <1>2 DEF Vmas
<1>4. HeapBase \in Nat \ {0}
  BY <1>3, PageOfAddress DEF HeapBase
<1> QED
  BY <1>4

\* Boot leaves the frames in their invariant.
LEMMA InitInv == Init => MemoryInv
<1> SUFFICES ASSUME Init
             PROVE  MemoryInv
  OBVIOUS
<1> DEFINE n == UPPER + 1 + Cardinality(Loaded)
           T == First(Frames, n)
           p == [s \in Spaces |-> [pg \in Pages |-> Absent]]
           refs == [f \in Frames |-> 0]
<1>1. /\ free = Frames \ T /\ totalblockcount = NFRAMES - 1 - n
      /\ ref_count = [f \in Frames |-> IF f \in T THEN 1 ELSE 0]
      /\ pte = [s \in Spaces |-> IF s = 0 THEN Mapped(Loaded, T)
                                 ELSE [pg \in Pages |-> Absent]]
  BY DEF Init
<1>2. /\ Loaded \in SUBSET Pages /\ Suffices(NFRAMES - 1, n)
      /\ Cardinality(Loaded) \in Nat /\ n \in Nat /\ n > 0 /\ Cardinality(Loaded) <= n
  <2>1. Loaded \in SUBSET Pages /\ Suffices(NFRAMES - 1, n)
    BY BootAssumption
  <2>2. Cardinality(Loaded) \in Nat
    BY <2>1, FiniteBounds, FS_Subset, FS_CardinalityType
  <2> QED
    BY <2>1, <2>2, SpacesAssumption
<1> HIDE DEF n
<1>3. NFRAMES - 1 \in Nat
  BY <1>2, SpacesAssumption DEF Suffices
<1>4. FramesOK(Frames, NFRAMES - 1, refs, p)
  <2>1. p \in PageTables
    BY AbsentEntry DEF PageTables
  <2>2. \A f \in Frames : UsersOf(p, f) = {}
    <3>1. \A u \in Spaces \X Pages : p[u[1]][u[2]] = Absent
      OBVIOUS
    <3> QED
      BY <3>1, FiniteBounds, AbsentEntry DEF UsersOf
  <2>3. OneWriterOf(p)
    BY <2>2 DEF OneWriterOf
  <2>4. \A f \in Frames : Cardinality(UsersOf(p, f)) <= refs[f] /\ refs[f] = 0
    BY <2>2, FS_EmptySet
  <2>5. Frames # {} /\ Cardinality(Frames) = NFRAMES
    BY <1>3, FiniteBounds, FS_EmptySet, SpacesAssumption
  <2>6. refs \in [Frames -> Nat]
    OBVIOUS
  <2> HIDE DEF p, refs
  <2> QED
    BY <1>3, <2>1, <2>3, <2>4, <2>5, <2>6 DEF FramesOK
<1>5. Taken(T, n, Frames, NFRAMES - 1, refs, p)
  <2> HIDE DEF p, refs
  <2> QED
    BY <1>2, <1>4, TakenAreUnused
<1>6. pte \in PageTables
  <2>1. Mapped(Loaded, T) \in [Pages -> Entries]
    <3>1. T \in SUBSET Frames /\ Cardinality(Loaded) <= Cardinality(T)
      BY <1>2, <1>5 DEF Taken
    <3> HIDE DEF T
    <3> QED
      BY <1>2, <3>1, MappedEntries
  <2>2. [pg \in Pages |-> Absent] \in [Pages -> Entries]
    BY AbsentEntry
  <2> QED
    BY <1>1, <2>1, <2>2 DEF PageTables
<1>7. SpaceIs(pte, p, 0, Mapped(Loaded, T))
  BY <1>1 DEF SpaceIs
<1>8. /\ ref_count \in [Frames -> Nat] /\ \A f \in T : ref_count[f] >= 1
      /\ \A f \in Frames \ T : ref_count[f] = refs[f]
  <2>1. T \in SUBSET Frames
    BY <1>5 DEF Taken
  <2> HIDE DEF T
  <2> QED
    BY <1>1, <2>1
<1>9. FramesOK(Frames \ T, NFRAMES - 1 - n, ref_count, pte)
  <2>1. 0 \in Spaces
    BY SpacesAssumption
  <2> HIDE DEF p, refs
  <2> QED
    BY <1>2, <1>4, <1>6, <1>7, <1>8, <2>1, SpaceLoaded
<1>10. FrameInv
  BY <1>1, <1>9 DEF FrameInv
<1>11. HeapBase \in Nat /\ HeapBase > 0
  BY HeapAboveZero
<1>12. ProcInv
  <2>1. Segments \in Seq(Vmas) /\ <<>> \in Seq(Vmas)
    BY SpacesAssumption
  <2> QED
    BY <1>11, <2>1 DEF Init, ProcInv
<1> QED
  BY <1>10, <1>12 DEF MemoryInv

-----------------------------------------------------------------------------
(* Page faults. *)

\* A hang changes nothing but machine.
LEMMA HangKeeps ==
    ASSUME MemoryInv, NEW why \in {"no memory", "segmentation fault"}, Hang(why)
    PROVE  MemoryInv'
<1>1. FrameInv'
  BY DEF MemoryInv, FrameInv, Hang, frameVars
<1>2. ProcInv'
  BY DEF MemoryInv, ProcInv, Hang, frameVars
<1> QED
  BY <1>1, <1>2 DEF MemoryInv

\* A fault on a page that is not mapped: map_phyaddr takes its blocks.
LEMMA DemandFaultKeeps ==
    ASSUME MemoryInv, NEW s \in Spaces, NEW a \in Addrs, NEW mode, DemandFault(s, a, mode)
    PROVE  MemoryInv'
<1> DEFINE pg == Page(a)
<1>1. pg \in Pages
  BY PageOfAddress
<1> HIDE DEF pg
<1>2. CASE map_phyaddr(s, pg) /\ UNCHANGED machine /\ UNCHANGED <<vma_list, heap_top, life>>
  <2> DEFINE n == Tables(walk[s], Region(pg)) + 1
             T == First(free, n)
             e == Mapped({pg}, T)[pg]
  <2>1. /\ Suffices(totalblockcount, n)
        /\ free' = free \ T /\ totalblockcount' = totalblockcount - n
        /\ ref_count' = [f \in Frames |-> ref_count[f] + IF f \in T THEN 1 ELSE 0]
        /\ pte' = [pte EXCEPT ![s][pg] = e]
        /\ walk' = [walk EXCEPT ![s] = @ \union {Region(pg)}]
    BY <1>2 DEF map_phyaddr, get_page
  <2>2. n \in Nat \ {0} /\ n \in Nat
    BY TablesCount
  <2> HIDE DEF n
  <2>3. FramesOK(free, totalblockcount, ref_count, pte)
    BY DEF MemoryInv, FrameInv
  <2>4. Taken(T, n, free, totalblockcount, ref_count, pte)
    BY <2>1, <2>2, <2>3, TakenAreUnused
  <2>5. e \in Entries
    <3>1. T \in SUBSET Frames /\ Cardinality({pg}) <= Cardinality(T) /\ {pg} \in SUBSET Pages
      <4>1. Cardinality({pg}) = 1
        BY FS_Singleton
      <4>2. n >= 1
        BY <2>2
      <4> QED
        BY <1>1, <2>4, <4>1, <4>2 DEF Taken
    <3> HIDE DEF T
    <3>2. Mapped({pg}, T) \in [Pages -> Entries]
      BY <3>1, MappedEntries
    <3> QED
      BY <1>1, <3>2
  <2>6. pte' \in PageTables /\ EntryIs(pte', pte, s, pg, e)
    <3>1. pte \in PageTables
      BY <2>3 DEF FramesOK
    <3> HIDE DEF e
    <3> QED
      BY <1>1, <2>1, <2>5, <3>1, EntryChanged
  <2>7. /\ ref_count' \in [Frames -> Nat]
        /\ \A f \in Frames : ref_count'[f] = IF f \in T THEN ref_count[f] + 1 ELSE ref_count[f]
    <3>1. ref_count \in [Frames -> Nat]
      BY <2>3 DEF FramesOK
    <3> HIDE DEF T
    <3>2. \A f \in Frames : ref_count'[f] = IF f \in T THEN ref_count[f] + 1 ELSE ref_count[f]
      BY <2>1, <3>1
    <3> QED
      BY <2>1, <3>1
  <2>8. FramesOK(free \ T, totalblockcount - n, ref_count', pte')
    BY <1>1, <2>1, <2>2, <2>3, <2>6, <2>7, PageMapped
  <2>9. FrameInv'
    BY <2>1, <2>8 DEF FrameInv
  <2>10. ProcInv'
    BY <1>2, <2>1 DEF MemoryInv, ProcInv, Region
  <2> QED
    BY <2>9, <2>10 DEF MemoryInv
<1>3. CASE Hang("no memory")
  BY <1>3, HangKeeps
<1> QED
  BY <1>2, <1>3 DEF DemandFault, pg

\* A write to a shared page: cow copies it or makes it writable.
LEMMA cowKeeps ==
    ASSUME MemoryInv, NEW s \in Spaces, NEW a \in Addrs, cow(s, a)
    PROVE  MemoryInv'
<1> DEFINE pg == Page(a)
           old == pte[s][pg].frame
           T   == First(free, 1)
           new == CHOOSE f \in T : TRUE
           less == [ref_count EXCEPT ![old] = IF @ < 1 THEN @ ELSE @ - 1]
           e == [frame |-> new, rw |-> TRUE]
<1>1. pg \in Pages
  BY PageOfAddress
<1>2. CASE /\ Present(s, pg) /\ ~pte[s][pg].rw
           /\ get_page(1)
           /\ ref_count' = [less EXCEPT ![new] = @ + 1]
           /\ pte' = [pte EXCEPT ![s][pg] = e]
           /\ UNCHANGED <<walk, vma_list, heap_top, life, machine>>
  <2> HIDE DEF pg
  <2>1. FramesOK(free, totalblockcount, ref_count, pte)
    BY DEF MemoryInv, FrameInv
  <2>2. /\ Suffices(totalblockcount, 1)
        /\ free' = free \ T /\ totalblockcount' = totalblockcount - 1
    BY <1>2 DEF get_page
  <2>3. Taken(T, 1, free, totalblockcount, ref_count, pte)
    BY <2>1, <2>2, TakenAreUnused
  <2> HIDE DEF T
  <2>4. T = {new} /\ new \in free /\ new \in Frames
    <3>1. IsFiniteSet(T) /\ Cardinality(T) = 1 /\ T \subseteq free /\ T \subseteq Frames
      BY <2>3 DEF Taken
    <3>2. PICK x : T = {x}
      BY <3>1, FS_Singleton
    <3> QED
      BY <3>1, <3>2
  <2> HIDE DEF new
  <2>5. pte \in PageTables /\ ref_count \in [Frames -> Nat]
    BY <2>1 DEF FramesOK
  <2>6. old \in Frames
    <3>1. pte[s][pg] \in Entries
      BY <1>1, <2>5 DEF PageTables
    <3>2. PICK f \in {0} \union Frames, b \in BOOLEAN : pte[s][pg] = [frame |-> f, rw |-> b]
      BY <3>1 DEF Entries
    <3>3. b = FALSE
      BY <1>2, <3>2
    <3>4. f # 0
      BY <1>2, <3>2, <3>3 DEF Present, Absent
    <3> QED
      BY <3>2, <3>4
  <2>7. UsersOf(pte, new) = {} /\ ref_count[new] = 0
    BY <2>3, <2>4 DEF Taken
  <2>8. old # new /\ ref_count[old] >= 1 /\ ref_count[old] \in Nat
    <3>1. <<s, pg>> \in UsersOf(pte, old)
      BY <1>1 DEF UsersOf
    <3> HIDE DEF old
    <3>2. IsFiniteSet(UsersOf(pte, old)) /\ Cardinality(UsersOf(pte, old)) \in Nat
      BY UsersFinite
    <3>3. Cardinality(UsersOf(pte, old)) # 0
      BY <3>1, <3>2, FS_EmptySet
    <3>4. Cardinality(UsersOf(pte, old)) <= ref_count[old] /\ ref_count[old] \in Nat
      BY <2>1, <2>6 DEF FramesOK
    <3> QED
      BY <2>7, <3>1, <3>2, <3>3, <3>4
  <2>9. e \in Entries /\ e.frame = new
    BY <2>4, EntryMade
  <2>10. pte' \in PageTables /\ EntryIs(pte', pte, s, pg, e)
    <3> HIDE DEF e
    <3> QED
      BY <1>1, <1>2, <2>5, <2>9, EntryChanged
  <2> HIDE DEF old, e
  <2>11. /\ ref_count' \in [Frames -> Nat] /\ ref_count'[new] = 1
         /\ ref_count'[old] = ref_count[old] - 1
         /\ \A f \in Frames \ {old, new} : ref_count'[f] = ref_count[f]
    <3>1. less = [ref_count EXCEPT ![old] = ref_count[old] - 1]
      <4>1. (IF ref_count[old] < 1 THEN ref_count[old] ELSE ref_count[old] - 1)
              = ref_count[old] - 1
        BY <2>8
      <4> QED
        BY <4>1
    <3>2. ref_count[old] - 1 \in Nat
      BY <2>8
    <3>3. /\ less \in [Frames -> Nat] /\ less[old] = ref_count[old] - 1
          /\ \A f \in Frames \ {old} : less[f] = ref_count[f]
      BY <2>5, <2>6, <3>1, <3>2
    <3>4. less[new] = 0
      BY <2>4, <2>7, <2>8, <3>3
    <3> HIDE DEF less
    <3>5. ref_count' = [less EXCEPT ![new] = 1]
      BY <1>2, <2>4, <3>3, <3>4
    <3> QED
      BY <2>4, <2>6, <2>8, <3>3, <3>5
  <2>12. /\ totalblockcount - 1 \in Nat /\ free \ {new} # {}
         /\ totalblockcount - 1 = Cardinality(free \ {new}) - 1
    BY <2>3, <2>4 DEF Taken
  <2>13. pte[s][pg].frame = old
    BY DEF old
  <2>14. FramesOK(free \ {new}, totalblockcount - 1, ref_count', pte')
    <3> DEFINE c == totalblockcount - 1
    <3>1. c \in Nat /\ c = Cardinality(free \ {new}) - 1
      BY <2>12
    <3> HIDE DEF c
    <3>2. FramesOK(free \ {new}, c, ref_count', pte')
      BY <1>1, <2>1, <2>4, <2>6, <2>9, <2>10, <2>11, <2>12, <2>13, <3>1, EntryReplaced
    <3> QED
      BY <3>2 DEF c
  <2>15. FrameInv'
    BY <2>2, <2>4, <2>14 DEF FrameInv
  <2>16. ProcInv'
    BY <1>2 DEF MemoryInv, ProcInv
  <2> QED
    BY <2>15, <2>16 DEF MemoryInv
<1>3. CASE Hang("no memory")
  BY <1>3, HangKeeps
<1> QED
  BY <1>2, <1>3 DEF cow

-----------------------------------------------------------------------------
(* System calls. *)

\* k_mmap adds a VMA and maps nothing.
LEMMA k_mmapKeeps ==
    ASSUME MemoryInv, NEW s \in Spaces, NEW length \in Sizes, k_mmap(s, length)
    PROVE  MemoryInv'
<1> DEFINE endAddr == heap_top[s] + length - 1
           v == [vstart |-> heap_top[s], vend |-> endAddr]
           top == (Page(endAddr) + 1) * PAGE_SIZE
<1>1. /\ life[s] # "none"
      /\ heap_top' = [heap_top EXCEPT ![s] = top]
      /\ vma_list' = [vma_list EXCEPT ![s] = Append(@, v)]
      /\ UNCHANGED <<frameVars, pte, walk, life, machine>>
  BY DEF k_mmap, Runs
<1>2. heap_top[s] \in Nat /\ heap_top[s] > 0 /\ vma_list[s] \in Seq(Vmas)
  BY <1>1 DEF MemoryInv, ProcInv
<1>3. endAddr \in Nat
  BY <1>2, SpacesAssumption
<1>4. v \in Vmas
  BY <1>2, <1>3 DEF Vmas
<1>5. Append(vma_list[s], v) \in Seq(Vmas)
  BY <1>2, <1>4, AppendProperties
<1>6. top \in Nat /\ top > 0
  <2> HIDE DEF endAddr
  <2>1. top \in Nat \ {0}
    BY <1>3, PageOfAddress
  <2> QED
    BY <2>1
<1> HIDE DEF endAddr, v, top
<1>7. ProcInv'
  BY <1>1, <1>5, <1>6 DEF MemoryInv, ProcInv
<1>8. FrameInv'
  BY <1>1 DEF MemoryInv, FrameInv, frameVars
<1> QED
  BY <1>7, <1>8 DEF MemoryInv

\* unmap_phyaddr on the pages U of s.
LEMMA UnmapFrames ==
    ASSUME FrameInv, NEW s \in Spaces, NEW U
    PROVE  FramesOK(free \union Freed(s, U),
                    totalblockcount + Cardinality(Freed(s, U)),
                    RefsAfterUnmap(s, U),
                    [pte EXCEPT ![s] = PteAfterUnmap(s, U)])
<1> DEFINE hits == [f \in Frames |-> Hits(s, U, f)]
           gone == Freed(s, U)
           r == RefsAfterUnmap(s, U)
           row == PteAfterUnmap(s, U)
           q == [pte EXCEPT ![s] = row]
<1>1. FramesOK(free, totalblockcount, ref_count, pte) /\ pte \in PageTables
  BY DEF FrameInv, FramesOK
<1>2. row \in [Pages -> Entries]
  <2>1. \A pg \in Pages : row[pg] \in Entries
    BY <1>1, AbsentEntry DEF PteAfterUnmap, PageTables
  <2> QED
    BY <2>1 DEF PteAfterUnmap
<1>3. \A pg \in Pages : row[pg] = IF pg \in U THEN Absent ELSE pte[s][pg]
  BY DEF PteAfterUnmap
<1>4. \A f \in Frames : hits[f] = Cardinality({pg \in U \cap Pages : pte[s][pg].frame = f})
  BY DEF Hits
<1>5. gone = {f \in Frames : ref_count[f] \in 1..hits[f]}
  BY DEF Freed
<1>6. r = [f \in Frames |-> IF ref_count[f] > hits[f] THEN ref_count[f] - hits[f] ELSE 0]
  BY DEF RefsAfterUnmap
<1> HIDE DEF hits, gone, r, row
<1>7. q \in PageTables /\ SpaceIs(q, pte, s, row)
  BY <1>1, <1>2, SpaceChanged
<1> HIDE DEF q
<1>8. Unmapped(q, pte, s, U)
  BY <1>3, <1>7 DEF Unmapped, SpaceIs
<1>9. FramesOK(free \union gone, totalblockcount + Cardinality(gone), r, q)
  <2>1. Unreferenced(hits, gone, r, ref_count, pte, s, U)
    BY <1>4, <1>5, <1>6 DEF Unreferenced
  <2> QED
    BY <1>1, <1>7, <1>8, <2>1, PagesUnmapped
<1> QED
  BY <1>9 DEF gone, r, q, row

\* A list of VMAs without one of them.
LEMMA WithoutType ==
    ASSUME NEW q \in Seq(Vmas), NEW i \in DOMAIN q
    PROVE  Without(q, i) \in Seq(Vmas)
<1>1. i \in 1..Len(q)
  OBVIOUS
<1>2. SubSeq(q, 1, i - 1) \in Seq(Vmas)
  BY <1>1, SubSeqProperties
<1>3. SubSeq(q, i + 1, Len(q)) \in Seq(Vmas)
  BY <1>1, SubSeqProperties
<1> QED
  BY <1>2, <1>3, ConcatProperties DEF Without

\* k_munmap drops the pages of a VMA.
LEMMA k_munmapKeeps ==
    ASSUME MemoryInv, NEW s \in Spaces, NEW a, k_munmap(s, a)
    PROVE  MemoryInv'
<1>1. ASSUME NEW i \in DOMAIN vma_list[s],
             unmap_phyaddr(s, UnmapRange(vma_list[s][i])),
             vma_list' = [vma_list EXCEPT ![s] = Without(@, i)],
             UNCHANGED <<walk, heap_top, life, machine>>
      PROVE  MemoryInv'
  <2>1. FrameInv'
    <3> DEFINE U == UnmapRange(vma_list[s][i])
    <3>1. /\ free' = free \union Freed(s, U)
          /\ totalblockcount' = totalblockcount + Cardinality(Freed(s, U))
          /\ ref_count' = RefsAfterUnmap(s, U)
          /\ pte' = [pte EXCEPT ![s] = PteAfterUnmap(s, U)]
      BY <1>1 DEF unmap_phyaddr
    <3> HIDE DEF U
    <3> QED
      BY <3>1, UnmapFrames DEF MemoryInv, FrameInv
  <2>2. vma_list[s] \in Seq(Vmas)
    BY DEF MemoryInv, ProcInv
  <2>3. Without(vma_list[s], i) \in Seq(Vmas)
    BY <2>2, WithoutType
  <2>4. ProcInv'
    BY <1>1, <2>3 DEF MemoryInv, ProcInv
  <2> QED
    BY <2>1, <2>4 DEF MemoryInv
<1>2. CASE Hang("segmentation fault")
  BY <1>2, HangKeeps
<1> QED
  BY <1>1, <1>2 DEF k_munmap

\* kill unmaps the first VMA of its victim, in the caller's tables.
LEMMA KillKeeps ==
    ASSUME MemoryInv, NEW s \in Spaces, NEW t \in Spaces, Kill(s, t)
    PROVE  MemoryInv'
<1>1. FrameInv'
  <2>1. CASE vma_list[t] = <<>>
    BY <2>1 DEF Kill, MemoryInv, FrameInv, frameVars
  <2>2. CASE vma_list[t] # <<>>
    <3> DEFINE U == UnmapRange(vma_list[t][1])
    <3>1. /\ free' = free \union Freed(s, U)
          /\ totalblockcount' = totalblockcount + Cardinality(Freed(s, U))
          /\ ref_count' = RefsAfterUnmap(s, U)
          /\ pte' = [pte EXCEPT ![s] = PteAfterUnmap(s, U)]
      BY <2>2 DEF Kill, unmap_phyaddr
    <3> HIDE DEF U
    <3> QED
      BY <3>1, UnmapFrames DEF MemoryInv, FrameInv
  <2> QED
    BY <2>1, <2>2
<1>2. vma_list' \in [Spaces -> Seq(Vmas)]
  <2>1. vma_list \in [Spaces -> Seq(Vmas)]
    BY DEF MemoryInv, ProcInv
  <2>2. CASE vma_list[t] = <<>>
    BY <2>1, <2>2 DEF Kill
  <2>3. CASE vma_list[t] # <<>>
    <3>1. Tail(vma_list[t]) \in Seq(Vmas)
      BY <2>1, <2>3, HeadTailProperties
    <3>2. vma_list' = [vma_list EXCEPT ![t] = Tail(vma_list[t])]
      BY <2>3 DEF Kill
    <3> QED
      BY <2>1, <3>1, <3>2
  <2> QED
    BY <2>2, <2>3
<1>3. ProcInv'
  <2>1. life' = [life EXCEPT ![t] = "none"] /\ UNCHANGED <<walk, heap_top, machine>>
    BY DEF Kill
  <2> QED
    BY <1>2, <2>1 DEF MemoryInv, ProcInv
<1> QED
  BY <1>1, <1>3 DEF MemoryInv

\* exit drops the references of the process.
LEMMA ExitKeeps ==
    ASSUME MemoryInv, NEW s \in Spaces, Exit(s)
    PROVE  MemoryInv'
<1> DEFINE U == UNION {UnmapRange(vma_list[s][i]) : i \in DOMAIN vma_list[s]}
           n == Tables(walk[s], "null") + 1
           pool == free \union Freed(s, U)
           count == totalblockcount + Cardinality(Freed(s, U))
           refs == RefsAfterUnmap(s, U)
           row == PteAfterUnmap(s, U)
           T == IF Present(s, 0) THEN {} ELSE First(pool, n)
           e == Mapped({0}, T)[0]
           newRow == [row EXCEPT ![0] = IF Present(s, 0) THEN @ ELSE e]
<1>1. CASE /\ Present(s, 0) \/ Suffices(count, n)
           /\ free' = pool \ T
           /\ totalblockcount' = count - Cardinality(T)
           /\ ref_count' = [f \in Frames |-> IF f \in T THEN refs[f] + 1 ELSE refs[f]]
           /\ pte' = [pte EXCEPT ![s] = newRow]
           /\ walk' = [walk EXCEPT ![s] = @ \union {"null"}]
           /\ vma_list' = [vma_list EXCEPT ![s] = <<>>]
           /\ life' = [life EXCEPT ![s] = "none"]
           /\ UNCHANGED <<heap_top, machine>>
  <2> DEFINE q == [pte EXCEPT ![s] = row]
  <2> HIDE DEF U
  <2>1. FramesOK(pool, count, refs, q)
    BY UnmapFrames DEF MemoryInv
  <2>2. row \in [Pages -> Entries] /\ pte \in PageTables
    <3>1. pte \in PageTables
      BY DEF MemoryInv, FrameInv, FramesOK
    <3>2. \A pg \in Pages : row[pg] \in Entries
      BY <3>1, AbsentEntry DEF PteAfterUnmap, PageTables
    <3> QED
      BY <3>1, <3>2 DEF PteAfterUnmap
  <2>3. n \in Nat \ {0} /\ n \in Nat
    BY TablesCount
  <2> HIDE DEF n, pool, count, refs, row
  <2>4. q \in PageTables /\ SpaceIs(q, pte, s, row)
    BY <2>2, SpaceChanged
  <2>5. /\ refs \in [Frames -> Nat] /\ count \in Nat
    BY <2>1 DEF FramesOK
  <2>6. ASSUME Present(s, 0)
        PROVE  FrameInv'
    <3>1. newRow = row
      BY <2>2, <2>6
    <3>2. T = {}
      BY <2>6
    <3>3. pte' = q
      BY <1>1, <3>1
    <3> HIDE DEF q, newRow, T
    <3>4. free' = pool
      BY <1>1, <3>2
    <3>5. totalblockcount' = count
      <4>1. Cardinality(T) = 0
        BY <3>2, FS_EmptySet
      <4> QED
        BY <1>1, <2>5, <4>1
    <3>6. ref_count' = refs
      <4>1. ref_count' = [f \in Frames |-> refs[f]]
        BY <1>1, <3>2
      <4> QED
        BY <2>5, <4>1
    <3> QED
      BY <2>1, <3>3, <3>4, <3>5, <3>6 DEF FrameInv
  <2>7. ASSUME ~Present(s, 0)
        PROVE  FrameInv'
    <3> HIDE DEF q
    <3>1. T = First(pool, n) /\ Suffices(count, n)
      BY <1>1, <2>7
    <3> HIDE DEF T
    <3>2. Taken(T, n, pool, count, refs, q)
      BY <2>1, <2>3, <3>1, TakenAreUnused
    <3>3. 0 \in Pages /\ {0} \in SUBSET Pages
      BY FiniteBounds
    <3>4. e \in Entries
      <4>1. Cardinality({0}) = 1
        BY FS_Singleton
      <4>2. n >= 1
        BY <2>3
      <4>3. T \in SUBSET Frames /\ Cardinality({0}) <= Cardinality(T)
        BY <3>2, <4>1, <4>2 DEF Taken
      <4>4. Mapped({0}, T) \in [Pages -> Entries]
        BY <3>3, <4>3, MappedEntries
      <4> QED
        BY <3>3, <4>4
    <3>5. e = Mapped({0}, First(pool, n))[0]
      BY <3>1
    <3> HIDE DEF e
    <3>6. newRow = [row EXCEPT ![0] = e]
      BY <2>7
    <3>7. newRow \in [Pages -> Entries]
      BY <2>2, <3>4, <3>6
    <3>8. \A h \in Pages : newRow[h] = IF h = 0 THEN e ELSE row[h]
      BY <2>2, <3>3, <3>6
    <3> HIDE DEF newRow
    <3>9. pte' \in PageTables /\ SpaceIs(pte', pte, s, newRow)
      BY <1>1, <2>2, <3>7, SpaceChanged
    <3>10. EntryIs(pte', q, s, 0, e)
      BY <2>4, <3>8, <3>9 DEF EntryIs, SpaceIs
    <3>11. /\ ref_count' \in [Frames -> Nat]
           /\ \A f \in Frames : ref_count'[f] = IF f \in T THEN refs[f] + 1 ELSE refs[f]
      BY <1>1, <2>5
    <3>12. FramesOK(pool \ T, count - n, ref_count', pte')
      <4>1. EntryIs(pte', q, s, 0, Mapped({0}, First(pool, n))[0])
        BY <3>5, <3>10
      <4>2. \A f \in Frames : ref_count'[f] = IF f \in First(pool, n) THEN refs[f] + 1
                                              ELSE refs[f]
        BY <3>1, <3>11
      <4>3. FramesOK(pool \ First(pool, n), count - n, ref_count', pte')
        BY <2>1, <2>3, <3>1, <3>3, <3>9, <3>11, <4>1, <4>2, PageMapped
      <4> QED
        BY <3>1, <4>3
    <3>13. Cardinality(T) = n
      BY <3>2 DEF Taken
    <3> QED
      BY <1>1, <3>12, <3>13 DEF FrameInv
  <2>8. ProcInv'
    <3>1. <<>> \in Seq(Vmas)
      OBVIOUS
    <3> QED
      BY <1>1, <3>1 DEF MemoryInv, ProcInv
  <2> QED
    BY <2>6, <2>7, <2>8 DEF MemoryInv
<1>2. CASE Hang("no memory")
  BY <1>2, HangKeeps
<1> QED
  BY <1>1, <1>2 DEF Exit

\* fork shares every page, read-only on both sides.
LEMMA ForkKeeps ==
    ASSUME MemoryInv, NEW s \in Spaces, NEW c \in Spaces, Fork(s, c)
    PROVE  MemoryInv'
<1> DEFINE n == IF Shared(s) = {} THEN 0 ELSE UPPER + 1
           T == First(free, n)
           X == Shared(s)
           row == [pg \in Pages |-> IF pg \in X THEN Copied(s, pg) ELSE Absent]
           more == [f \in Frames |-> Reaches(s, f)]
<1>1. life[s] # "none"
  BY DEF Fork, Runs
<1>2. CASE /\ get_page(n)
           /\ ref_count' = [f \in Frames |->
                    IF f \in T THEN 1 ELSE ref_count[f] + Reaches(s, f)]
           /\ pte' = [pte EXCEPT ![c] = row]
           /\ walk' = [walk EXCEPT ![c] = IF n = 0 THEN {} ELSE {"user"}]
           /\ vma_list' = [vma_list EXCEPT ![c] = vma_list[s]]
           /\ heap_top' = [heap_top EXCEPT ![c] = heap_top[s]]
           /\ life' = [life EXCEPT ![c] = "user"]
           /\ UNCHANGED machine
  <2>1. /\ Suffices(totalblockcount, n) /\ n \in Nat
        /\ free' = free \ T /\ totalblockcount' = totalblockcount - n
    BY <1>2, SpacesAssumption DEF get_page
  <2>2. FramesOK(free, totalblockcount, ref_count, pte) /\ pte \in PageTables
        /\ ref_count \in [Frames -> Nat]
    BY DEF MemoryInv, FrameInv, FramesOK
  <2>3. X \in SUBSET Pages
    BY DEF Shared
  <2>4. vma_list[s] \in Seq(Vmas)
    BY DEF MemoryInv, ProcInv
  <2>5. ASSUME NEW f \in Frames
        PROVE  /\ more[f] \in Nat
               /\ Cardinality({pg \in X : pte[s][pg].frame = f}) <= more[f]
               /\ UsersOf(pte, f) = {} => more[f] = 0
    <3> DEFINE Y == {pg \in X : pte[s][pg].frame = f}
               m == Len(vma_list[s])
               R == {r \in (DOMAIN vma_list[s]) \X Pages :
                       r[2] \in Covers(vma_list[s][r[1]]) /\ pte[s][r[2]].frame = f}
    <3>1. DOMAIN vma_list[s] = 1..m /\ m \in Nat
      BY <2>4
    <3>2. more[f] = Cardinality(R)
      BY DEF Reaches
    <3>3. R \in SUBSET ((1..m) \X Pages)
      BY <3>1
    <3>4. \A pg \in Y : \E i \in 1..m : <<i, pg>> \in R
      <4> TAKE pg \in Y
      <4>1. pg \in Pages /\ pte[s][pg].frame = f
        BY <2>3
      <4>2. PICK i \in DOMAIN vma_list[s] : pg \in Covers(vma_list[s][i])
        BY DEF Shared
      <4>3. <<i, pg>> \in (DOMAIN vma_list[s]) \X Pages
        BY <4>1, <4>2
      <4>4. <<i, pg>> \in R
        BY <4>1, <4>2, <4>3
      <4> QED
        BY <3>1, <4>2, <4>4
    <3>5. Y \in SUBSET Pages
      BY <2>3
    <3>6. ASSUME UsersOf(pte, f) = {}
          PROVE  R = {}
      <4>1. \A pg \in Pages : <<s, pg>> \notin UsersOf(pte, f)
        BY <3>6
      <4>2. \A pg \in Pages : pte[s][pg].frame # f
        BY <4>1 DEF UsersOf
      <4> QED
        BY <4>2
    <3> HIDE DEF Y, R, m
    <3>7. Cardinality(Y) <= Cardinality(R) /\ Cardinality(R) \in Nat
      BY <3>1, <3>3, <3>4, <3>5, PairsReach
    <3>8. R = {} => Cardinality(R) = 0
      BY FS_EmptySet
    <3> HIDE DEF more
    <3> QED
      BY <3>2, <3>6, <3>7, <3>8 DEF Y
  <2>6. row \in [Pages -> Entries]
    <3>1. \A pg \in Pages : row[pg] \in Entries
      <4> SUFFICES ASSUME NEW pg \in Pages
                   PROVE  row[pg] \in Entries
        OBVIOUS
      <4>1. pte[s][pg] \in Entries
        BY <2>2 DEF PageTables
      <4>2. pte[s][pg].frame \in {0} \union Frames
        BY <4>1 DEF Entries
      <4>3. Copied(s, pg) \in Entries
        BY <4>2, EntryMade DEF Copied
      <4> QED
        BY <4>3, AbsentEntry
    <3> QED
      BY <3>1
  <2>7. \A pg \in Pages : row[pg] = IF pg \in X THEN [frame |-> pte[s][pg].frame, rw |-> FALSE]
                                    ELSE Absent
    BY DEF Copied
  <2> HIDE DEF row, X
  <2>8. pte' \in PageTables /\ SpaceIs(pte', pte, c, row)
    BY <1>2, <2>2, <2>6, SpaceChanged
  <2>9. SpaceCopied(pte', pte, s, c, X)
    BY <2>7, <2>8 DEF SpaceCopied, SpaceIs
  <2>10. /\ ref_count' \in [Frames -> Nat]
         /\ \A f \in Frames : ref_count'[f] = IF f \in T THEN 1 ELSE ref_count[f] + more[f]
    <3>1. \A f \in Frames : more[f] \in Nat /\ more[f] = Reaches(s, f)
      BY <2>5
    <3> HIDE DEF more, T
    <3>2. \A f \in Frames : ref_count'[f] = IF f \in T THEN 1 ELSE ref_count[f] + more[f]
      BY <1>2, <3>1
    <3>3. \A f \in Frames : ref_count'[f] \in Nat
      BY <2>2, <3>1, <3>2
    <3> QED
      BY <1>2, <3>2, <3>3
  <2> HIDE DEF more, n
  <2>11. FramesOK(free \ T, totalblockcount - n, ref_count', pte')
    <3>1. Counted(more, pte, s, X)
      BY <2>5 DEF Counted
    <3> QED
      BY <2>1, <2>2, <2>3, <2>8, <2>9, <2>10, <3>1, SpaceForked
  <2>12. FrameInv'
    BY <2>1, <2>11 DEF FrameInv
  <2>13. ProcInv'
    BY <1>1, <1>2 DEF MemoryInv, ProcInv
  <2> QED
    BY <2>12, <2>13 DEF MemoryInv
<1>3. CASE Hang("no memory")
  BY <1>3, HangKeeps
<1> QED
  BY <1>2, <1>3 DEF Fork

\* exec maps the binary and the arguments in a new space.
LEMMA ExecKeeps ==
    ASSUME MemoryInv, NEW s \in Spaces, NEW c \in Spaces, NEW arg \in ArgVmas,
           Exec(s, c, arg)
    PROVE  MemoryInv'
<1> DEFINE P == Loaded \union Covers(arg)
           n == UPPER + 1 + Cardinality(P)
           T == First(free, n)
           entries == Mapped(P, T)
           argFrames == {entries[pg].frame : pg \in Covers(arg)}
<1>1. CASE /\ get_page(n)
           /\ ref_count' = [f \in Frames |->
                    IF f \in argFrames THEN 2
                    ELSE IF f \in T THEN 1 ELSE ref_count[f]]
           /\ pte' = [pte EXCEPT ![c] = entries]
           /\ walk' = [walk EXCEPT ![c] = {"user"}]
           /\ vma_list' = [vma_list EXCEPT ![c] = Append(Segments, arg)]
           /\ heap_top' = [heap_top EXCEPT ![c] = HeapBase]
           /\ life' = [life EXCEPT ![s] = "waiting to die", ![c] = "user"]
           /\ UNCHANGED machine
  <2>1. P \in SUBSET Pages /\ Covers(arg) \subseteq P
    BY BootAssumption
  <2> HIDE DEF P
  <2>2. Cardinality(P) \in Nat /\ n \in Nat /\ Cardinality(P) <= n
    <3>1. Cardinality(P) \in Nat
      BY <2>1, FiniteBounds, FS_Subset, FS_CardinalityType
    <3> QED
      BY <3>1, SpacesAssumption
  <2> HIDE DEF n
  <2>3. /\ Suffices(totalblockcount, n)
        /\ free' = free \ T /\ totalblockcount' = totalblockcount - n
    BY <1>1 DEF get_page
  <2>4. FramesOK(free, totalblockcount, ref_count, pte) /\ pte \in PageTables
        /\ ref_count \in [Frames -> Nat]
    BY DEF MemoryInv, FrameInv, FramesOK
  <2>5. Taken(T, n, free, totalblockcount, ref_count, pte)
    BY <2>2, <2>3, <2>4, TakenAreUnused
  <2>6. T \in SUBSET Frames /\ Cardinality(P) <= Cardinality(T)
    BY <2>2, <2>5 DEF Taken
  <2>7. entries \in [Pages -> Entries] /\ \A pg \in P : entries[pg].frame \in T
    <3> HIDE DEF T
    <3> QED
      BY <2>1, <2>6, MappedEntries
  <2>8. argFrames \subseteq T
    BY <2>1, <2>7
  <2>9. pte' \in PageTables /\ SpaceIs(pte', pte, c, entries)
    <3> HIDE DEF entries
    <3> QED
      BY <1>1, <2>4, <2>7, SpaceChanged
  <2>10. /\ ref_count' \in [Frames -> Nat] /\ \A f \in T : ref_count'[f] >= 1
         /\ \A f \in Frames \ T : ref_count'[f] = ref_count[f]
    <3> HIDE DEF T, argFrames
    <3>1. \A f \in Frames : ref_count'[f] = IF f \in argFrames THEN 2
                                            ELSE IF f \in T THEN 1 ELSE ref_count[f]
      BY <1>1
    <3>2. \A f \in Frames : ref_count'[f] \in Nat
      BY <2>4, <3>1
    <3>3. \A f \in T : ref_count'[f] >= 1
      <4> TAKE f \in T
      <4>1. f \in Frames
        BY <2>6
      <4>2. ref_count'[f] = 2 \/ ref_count'[f] = 1
        BY <3>1, <4>1
      <4> QED
        BY <4>2
    <3>4. \A f \in Frames \ T : ref_count'[f] = ref_count[f]
      BY <2>8, <3>1
    <3> QED
      BY <1>1, <3>2, <3>3, <3>4
  <2>11. FramesOK(free \ T, totalblockcount - n, ref_count', pte')
    BY <2>1, <2>2, <2>3, <2>4, <2>9, <2>10, SpaceLoaded
  <2>12. FrameInv'
    BY <2>3, <2>11 DEF FrameInv
  <2>13. Append(Segments, arg) \in Seq(Vmas)
    <3>1. Segments \in Seq(Vmas) /\ arg \in Vmas
      BY SpacesAssumption
    <3> QED
      BY <3>1, AppendProperties
  <2>14. HeapBase \in Nat /\ HeapBase > 0
    BY HeapAboveZero
  <2>15. life[s] # "none"
    BY DEF Exec, Runs
  <2>16. ProcInv'
    BY <1>1, <2>13, <2>14, <2>15 DEF MemoryInv, ProcInv
  <2> QED
    BY <2>12, <2>16 DEF MemoryInv
<1>2. CASE Hang("no memory")
  BY <1>2, HangKeeps
<1> QED
  BY <1>1, <1>2 DEF Exec

-----------------------------------------------------------------------------

\* Every call and every fault keeps the invariant.
LEMMA NextKeeps == MemoryInv /\ [Next]_vars => MemoryInv'
<1> SUFFICES ASSUME MemoryInv, [Next]_vars
             PROVE  MemoryInv'
  OBVIOUS
<1>1. ASSUME NEW s \in Spaces, NEW a \in Addrs, NEW mode, DemandFault(s, a, mode)
      PROVE  MemoryInv'
  BY <1>1, DemandFaultKeeps
<1>2. ASSUME NEW s \in Spaces, NEW a \in Addrs, cow(s, a)
      PROVE  MemoryInv'
  BY <1>2, cowKeeps
<1>3. ASSUME NEW s \in Spaces, NEW a \in Addrs, SegmentationFault(s, a)
      PROVE  MemoryInv'
  BY <1>3, HangKeeps DEF SegmentationFault
<1>4. ASSUME NEW s \in Spaces, NEW length \in Sizes, k_mmap(s, length)
      PROVE  MemoryInv'
  BY <1>4, k_mmapKeeps
<1>5. ASSUME NEW s \in Spaces, NEW i, k_munmap(s, vma_list[s][i].vstart)
      PROVE  MemoryInv'
  BY <1>5, k_munmapKeeps
<1>6. ASSUME NEW s \in Spaces, Exit(s)
      PROVE  MemoryInv'
  BY <1>6, ExitKeeps
<1>7. ASSUME NEW s \in Spaces, NEW c \in Spaces, Fork(s, c)
      PROVE  MemoryInv'
  BY <1>7, ForkKeeps
<1>8. ASSUME NEW s \in Spaces, NEW c \in Spaces, NEW arg \in ArgVmas, Exec(s, c, arg)
      PROVE  MemoryInv'
  BY <1>8, ExecKeeps
<1>9. ASSUME NEW s \in Spaces, NEW c \in Spaces, Kill(s, c)
      PROVE  MemoryInv'
  BY <1>9, KillKeeps
<1>10. CASE UNCHANGED vars
  <2>1. FrameInv'
    BY <1>10 DEF MemoryInv, FrameInv, vars, frameVars
  <2>2. ProcInv'
    BY <1>10 DEF MemoryInv, ProcInv, vars, frameVars
  <2> QED
    BY <2>1, <2>2 DEF MemoryInv
<1>11. CASE Hung
  BY <1>10, <1>11 DEF Hung
<1> QED
  BY <1>1, <1>2, <1>3, <1>4, <1>5, <1>6, <1>7, <1>8, <1>9, <1>10, <1>11 DEF Next

\* The invariant of the physical pages.
LEMMA SpecInv == Spec => []MemoryInv
BY InitInv, NextKeeps, PTL DEF Spec

\* What the runs check follows from the invariant.
LEMMA InvImplies ==
    ASSUME MemoryInv
    PROVE  TypeOK /\ NoUseAfterFree /\ CountMatchesList /\ OneWriter
<1>1. FramesOK(free, totalblockcount, ref_count, pte)
  BY DEF MemoryInv, FrameInv
<1>2. TypeOK
  BY <1>1 DEF MemoryInv, ProcInv, FramesOK, PageTables, Entries, TypeOK
<1>3. \A f : Users(f) = UsersOf(pte, f)
  BY DEF Users, UsersOf
<1>4. NoUseAfterFree
  BY <1>1, <1>3 DEF FramesOK, NoUseAfterFree
<1>5. CountMatchesList
  BY <1>1 DEF FramesOK, CountMatchesList
<1>6. OneWriter
  BY <1>1, <1>3 DEF FramesOK, OneWriterOf, OneWriter
<1> QED
  BY <1>2, <1>4, <1>5, <1>6

\* Type correctness of the memory model: the counts and the counter of
\* phy_mem_manager.c stay natural numbers, and every page-table entry holds a
\* block of the list or none.
THEOREM MemoryTypeCorrect == Spec => []TypeOK
BY SpecInv, InvImplies, PTL

\* unmap_phyaddr, cow, fork, exec and exit together never put a block on the
\* free list that an address space maps, whatever VMAs overlap.
THEOREM NoBlockIsUsedAfterFree == Spec => []NoUseAfterFree
BY SpecInv, InvImplies, PTL

\* get_page looks only at totalblockcount: the list it takes from is never
\* empty, and no path frees a block twice.
THEOREM FreeListIsNeverEmpty == Spec => []CountMatchesList
BY SpecInv, InvImplies, PTL

\* copy_vma and cow: two writable entries never hold the same block.
THEOREM BlocksHaveOneWriter == Spec => []OneWriter
BY SpecInv, InvImplies, PTL

=============================================================================
