--------------------------- MODULE ArchiveProofs ---------------------------
(***************************************************************************)
(* What the kernel makes of its archive, for every archive that find and   *)
(* tar can write and every set of binaries that ld can make.               *)
(*                                                                         *)
(* The tree: after boot every entry that is not dropped is found with its  *)
(* own bytes, and working directories are directories.  The invariant says *)
(* of each inode for which member it was made, and of each member read so  *)
(* far which way its path takes through the tree.  A full directory makes  *)
(* paths take wrong ways; these end elsewhere than those of the entries    *)
(* that are found because find goes through a directory before it goes on. *)
(*                                                                         *)
(* The loader: scan_tarfs finds the member of a name however many members  *)
(* with similar names and of whatever size are before it, and read_elf     *)
(* leaves all its segments in memory.                                      *)
(***************************************************************************)
EXTENDS FilesProofs, SequenceTheorems

-----------------------------------------------------------------------------
(* The way of a path through a tree. *)

\* Two sequences of values that are handed on alike.
LEMMA Agree ==
    ASSUME NEW N \in Nat, NEW f, NEW g, f[0] = g[0], \A k \in 1..N : f[k - 1] = g[k - 1] => f[k] = g[k]
    PROVE  \A k \in 0..N : f[k] = g[k]
<1> DEFINE T == {k \in 0..N : f[k] = g[k]}
<1>1. 0 \in T /\ \A k \in 1..N : k - 1 \in T => k \in T
  OBVIOUS
<1>2. \A k \in 0..N : k \in T
  <2> HIDE DEF T
  <2> QED
    BY <1>1, IntervalInduction
<1> QED
  BY <1>2

\* Where a token leads: to the first child that matches, or nowhere.
Goes(tree, node, token) ==
    IF findFamily(tree, node, token) = 0 THEN node
    ELSE tree[node].family[findFamily(tree, node, token)]

IsWay(w, tree, path) == w = [k \in 0..Len(path) |-> IF k = 0 THEN 1 ELSE Goes(tree, w[k - 1], path[k])]

Way(tree, path) == CHOOSE w : IsWay(w, tree, path)

\* A token leads to an inode of the tree, and to a later one if it is found.
LEMMA GoesUp ==
    ASSUME NEW tree \in Trees, NEW node \in 1..Len(tree), NEW token
    PROVE  /\ Goes(tree, node, token) \in 1..Len(tree)
           /\ findFamily(tree, node, token) = 0 => Goes(tree, node, token) = node
           /\ findFamily(tree, node, token) # 0 =>
                /\ Goes(tree, node, token) = tree[node].family[findFamily(tree, node, token)]
                /\ Goes(tree, node, token) > node
<1> DEFINE i == findFamily(tree, node, token)
<1>1. i \in 0..Len(tree[node].family) /\ (i # 0 => tree[node].family[i] \in 1..Len(tree))
  BY FindFamily
<1>2. \A j \in 1..Len(tree[node].family) : tree[node].family[j] \in node + 1..Len(tree)
  BY TreeFacts DEF NodeOK
<1>3. Len(tree[node].family) \in Nat /\ Len(tree) \in Nat
  BY TreeFacts
<1>4. i # 0 => i \in 1..Len(tree[node].family)
  BY <1>1, <1>3
<1>5. i # 0 => tree[node].family[i] \in node + 1..Len(tree)
  BY <1>2, <1>4
<1> HIDE DEF i
<1>6. Goes(tree, node, token) = IF i = 0 THEN node ELSE tree[node].family[i]
  BY DEF Goes, i
<1> QED
  BY <1>1, <1>3, <1>5, <1>6 DEF i

\* The way of a path exists and stays in the tree.
LEMMA WaySteps ==
    ASSUME NEW tree \in Trees, NEW path, Len(path) \in Nat
    PROVE  /\ Way(tree, path)[0] = 1
           /\ \A k \in 1..Len(path) : Way(tree, path)[k] = Goes(tree, Way(tree, path)[k - 1], path[k])
           /\ \A k \in 0..Len(path) : Way(tree, path)[k] \in 1..Len(tree)
<1> DEFINE N == Len(path)
           S == 1..Len(tree)
           G == [x \in S \X (1..N) |-> Goes(tree, x[1], path[x[2]])]
           w == Way(tree, path)
<1>1. N \in Nat /\ 1 \in S
  BY TreeFacts
<1>2. \A x \in S, k \in 1..N : Goes(tree, x, path[k]) \in S
  BY GoesUp
<1>3. G \in [S \X (1..N) -> S] /\ \A x \in S, k \in 1..N : G[<<x, k>>] = Goes(tree, x, path[k])
  <2> HIDE DEF S
  <2> QED
    BY <1>2
<1> HIDE DEF G, S, N
<1>4. PICK f : Solution(f, N, 1, G)
  BY <1>1, <1>3, RecursionOnInterval
<1>5. 0 \in 0..N /\ \A k \in 1..N : k \in 0..N /\ k # 0 /\ k - 1 \in 0..N
  BY <1>1
<1>6. f = [k \in 0..N |-> IF k = 0 THEN 1 ELSE G[<<f[k - 1], k>>]]
  BY <1>4 DEF Solution
<1>7. f[0] = 1 /\ \A k \in 1..N : f[k] = G[<<f[k - 1], k>>]
  BY ONLY <1>5, <1>6
<1>8. \A k \in 0..N : f[k] \in S
  <2>1. f[0] \in S /\ \A k \in 1..N : f[k - 1] \in S => f[k] \in S
    BY <1>1, <1>2, <1>3, <1>7
  <2> QED
    BY <1>1, <2>1, StaysIn
<1>9. \A k \in 1..N : f[k] = Goes(tree, f[k - 1], path[k])
  BY <1>3, <1>5, <1>7, <1>8
<1>10. IsWay(f, tree, path)
  <2>1. f = [k \in 0..N |-> f[k]]
    BY <1>6
  <2>2. ASSUME NEW k \in 0..N
        PROVE  f[k] = IF k = 0 THEN 1 ELSE Goes(tree, f[k - 1], path[k])
    <3>1. k = 0 \/ k \in 1..N
      BY <1>1
    <3> QED
      BY <1>5, <1>7, <1>9, <3>1
  <2> QED
    BY <2>1, <2>2 DEF IsWay, N
<1>11. IsWay(w, tree, path)
  BY <1>10 DEF Way
<1>12. w = [k \in 0..N |-> IF k = 0 THEN 1 ELSE Goes(tree, w[k - 1], path[k])]
  BY <1>11 DEF IsWay, N
<1> HIDE DEF w
<1>13. w[0] = 1 /\ \A k \in 1..N : w[k] = Goes(tree, w[k - 1], path[k])
  BY ONLY <1>5, <1>12
<1>14. \A k \in 0..N : w[k] \in S
  <2>1. w[0] \in S /\ \A k \in 1..N : w[k - 1] \in S => w[k] \in S
    BY <1>1, <1>2, <1>13
  <2> QED
    BY <1>1, <2>1, StaysIn
<1> QED
  BY <1>13, <1>14 DEF w, N, S

\* The way of the beginning of a path is the beginning of its way.
LEMMA WayOfPrefix ==
    ASSUME NEW tree \in Trees, NEW path, NEW front, Len(path) \in Nat, Len(front) \in Nat,
           Len(front) <= Len(path), \A k \in 1..Len(front) : front[k] = path[k]
    PROVE  \A k \in 0..Len(front) : Way(tree, front)[k] = Way(tree, path)[k]
<1> DEFINE f == Way(tree, front)
           g == Way(tree, path)
<1>1. f[0] = 1 /\ \A k \in 1..Len(front) : f[k] = Goes(tree, f[k - 1], front[k])
  BY WaySteps
<1>2. g[0] = 1 /\ \A k \in 1..Len(path) : g[k] = Goes(tree, g[k - 1], path[k])
  BY WaySteps
<1>3. \A k \in 1..Len(front) : k \in 1..Len(path)
  OBVIOUS
<1> HIDE DEF f, g
<1>4. \A k \in 1..Len(front) : f[k - 1] = g[k - 1] => f[k] = g[k]
  BY <1>1, <1>2, <1>3
<1> DEFINE N == Len(front)
<1>5. N \in Nat /\ f[0] = g[0] /\ \A k \in 1..N : f[k - 1] = g[k - 1] => f[k] = g[k]
  BY <1>1, <1>2, <1>4
<1> HIDE DEF N
<1>6. \A k \in 0..N : f[k] = g[k]
  BY ONLY <1>5, Agree
<1> QED
  BY <1>6 DEF f, g, N

\* A way never comes back.
LEMMA WayAscends ==
    ASSUME NEW tree \in Trees, NEW path, Len(path) \in Nat, NEW l \in 0..Len(path)
    PROVE  \A k \in l..Len(path) : Way(tree, path)[l] <= Way(tree, path)[k]
<1> DEFINE w == Way(tree, path)
           N == Len(path)
           T == {k \in 0..N : l <= k => w[l] <= w[k]}
<1>1. /\ \A k \in 1..N : w[k] = Goes(tree, w[k - 1], path[k])
      /\ \A k \in 0..N : w[k] \in 1..Len(tree)
  BY WaySteps
<1>2. Len(tree) \in Nat /\ N \in Nat
  BY TreeFacts
<1> HIDE DEF w
<1>3. \A k \in 1..N : w[k - 1] <= w[k]
  <2> TAKE k \in 1..N
  <2>1. w[k - 1] \in 1..Len(tree) /\ w[k] = Goes(tree, w[k - 1], path[k])
    BY <1>1, <1>2
  <2>2. w[k] = w[k - 1] \/ w[k] > w[k - 1]
    BY <2>1, GoesUp
  <2>3. w[k] \in 1..Len(tree)
    BY <1>1, <1>2
  <2> QED
    BY <1>2, <2>1, <2>2, <2>3
<1>4. 0 \in T
  BY <1>1, <1>2
<1>5. ASSUME NEW k \in 1..N, k - 1 \in T
      PROVE  k \in T
  <2>1. CASE l <= k - 1
    BY <1>1, <1>2, <1>3, <1>5, <2>1
  <2>2. CASE l = k
    BY <1>1, <1>2, <2>2
  <2> QED
    BY <1>2, <2>1, <2>2
<1>6. \A k \in 0..N : k \in T
  <2> HIDE DEF T
  <2> QED
    BY <1>2, <1>4, <1>5, IntervalInduction
<1> QED
  BY <1>2, <1>6 DEF w

-----------------------------------------------------------------------------
(* A tree with one inode more. *)

Hit(tree, node, token, i) == SameName(tree[tree[node].family[i]].inodeName, token)

\* findFamily finds the first child that matches.
LEMMA FindFirst ==
    ASSUME NEW tree \in Trees, NEW node \in 1..Len(tree), NEW token
    PROVE  /\ findFamily(tree, node, token) = 0
                <=> \A i \in 1..Len(tree[node].family) : ~Hit(tree, node, token, i)
           /\ findFamily(tree, node, token) # 0 =>
                /\ findFamily(tree, node, token) \in 1..Len(tree[node].family)
                /\ Hit(tree, node, token, findFamily(tree, node, token))
           /\ \A i \in 1..Len(tree[node].family) :
                Hit(tree, node, token, i) /\ (\A j \in 1..i - 1 : ~Hit(tree, node, token, j))
                  => findFamily(tree, node, token) = i
           /\ \A i \in 1..Len(tree[node].family) :
                findFamily(tree, node, token) = i => \A j \in 1..i - 1 : ~Hit(tree, node, token, j)
<1> DEFINE family == tree[node].family
           hits == {i \in 1..Len(family) : SameName(tree[family[i]].inodeName, token)}
           found == findFamily(tree, node, token)
<1>1. found = IF hits = {} THEN 0 ELSE Min(hits)
  BY DEF findFamily
<1>2. Len(family) \in Nat
  BY TreeFacts
<1>3. hits = {i \in 1..Len(family) : Hit(tree, node, token, i)}
  BY DEF Hit
<1>4. hits \subseteq Nat /\ hits \subseteq 1..Len(family)
  BY <1>2
<1> HIDE DEF hits, found, family
<1>5. hits # {} => Min(hits) \in hits /\ \A n \in hits : Min(hits) <= n
  <2> SUFFICES ASSUME hits # {}
               PROVE  Min(hits) \in hits /\ \A n \in hits : Min(hits) <= n
    OBVIOUS
  <2>1. \E m \in hits : \A n \in hits : m <= n
    BY <1>4, LeastOfNats
  <2> QED
    BY <2>1 DEF Min
<1>6. found = 0 <=> hits = {}
  BY <1>1, <1>4, <1>5
<1>7. found # 0 => found \in hits /\ \A n \in hits : found <= n
  BY <1>1, <1>5, <1>6
<1>8. ASSUME NEW i \in hits, \A j \in 1..i - 1 : j \notin hits
      PROVE  found = i
  <2>1. found \in hits /\ found <= i
    BY <1>6, <1>7
  <2>2. ~(found < i)
    BY <1>4, <1>8, <2>1
  <2> QED
    BY <1>4, <2>1, <2>2
<1>9. ASSUME NEW i \in 1..Len(family), found = i, NEW j \in 1..i - 1
      PROVE  j \notin hits
  BY <1>2, <1>7, <1>9
<1>10. \A i \in 1..Len(family) : i \in hits <=> Hit(tree, node, token, i)
  BY <1>3
<1>11. \A i \in 1..Len(family) : \A j \in 1..i - 1 : j \in 1..Len(family)
  BY <1>2
<1>12. found = 0 <=> \A i \in 1..Len(family) : ~Hit(tree, node, token, i)
  BY <1>3, <1>6
<1>13. found # 0 => found \in 1..Len(family) /\ Hit(tree, node, token, found)
  BY <1>4, <1>7, <1>10
<1>14. ASSUME NEW i \in 1..Len(family), Hit(tree, node, token, i),
              \A j \in 1..i - 1 : ~Hit(tree, node, token, j)
       PROVE  found = i
  BY <1>8, <1>10, <1>11, <1>14
<1>15. ASSUME NEW i \in 1..Len(family), found = i, NEW j \in 1..i - 1
       PROVE  ~Hit(tree, node, token, j)
  BY <1>9, <1>10, <1>11, <1>15
<1> QED
  BY <1>12, <1>13, <1>14, <1>15 DEF family, found

SameData(x, y) == /\ x.inodeName = y.inodeName /\ x.type = y.type
                  /\ x.start = y.start /\ x.end = y.end

\* appendToFamily has put an inode for a token into the family of m, where
\* there was room and the token was not found.
Grows(tree, u, m, token, member) ==
    /\ tree \in Trees /\ u \in Trees /\ m \in 1..Len(tree)
    /\ Len(u) = Len(tree) + 1
    /\ \A n \in 1..Len(tree) : SameData(u[n], tree[n])
    /\ \A n \in 1..Len(tree) : n # m => u[n].family = tree[n].family
    /\ Len(u[m].family) = Len(tree[m].family) + 1
    /\ \A i \in 1..Len(tree[m].family) : u[m].family[i] = tree[m].family[i]
    /\ u[m].family[Len(tree[m].family) + 1] = Len(tree) + 1
    /\ SameData(u[Len(tree) + 1], [member EXCEPT !.inodeName = token])
    /\ u[Len(tree) + 1].family = <<>>
    /\ findFamily(tree, m, token) = 0 /\ ~FamilyFull(tree, m)

\* appendToFamily adds one inode, the last child of the node, and changes
\* nothing else.
LEMMA AppendGrows ==
    ASSUME NEW tree \in Trees, NEW m \in 1..Len(tree), NEW token \in Names,
           NEW member \in Inode, NodeOK(member, 0, 0), member.family = <<>>,
           ~FamilyFull(tree, m), findFamily(tree, m, token) = 0
    PROVE  Grows(tree, appendToFamily(tree, m, token, member), m, token, member)
<1> DEFINE N == Len(tree)
           old == tree[m]
           fam == Append(old.family, N + 1)
           grown == [old EXCEPT !.family = fam]
           t == [tree EXCEPT ![m] = grown]
           new == [member EXCEPT !.inodeName = token]
           u == Append(t, new)
<1>1. appendToFamily(tree, m, token, member) = u
  BY DEF appendToFamily
<1>2. N \in Nat /\ tree \in Seq(Inode) /\ old \in Inode
  BY TreeFacts
<1>3. old.family \in Seq(Nat) /\ Len(old.family) \in Nat
  BY TreeFacts
<1>4. /\ fam \in Seq(Nat) /\ Len(fam) = Len(old.family) + 1
      /\ \A i \in 1..Len(old.family) : fam[i] = old.family[i]
      /\ fam[Len(old.family) + 1] = N + 1
  <2> DEFINE before == old.family
  <2>1. before \in Seq(Nat) /\ N + 1 \in Nat
    BY <1>2, <1>3
  <2> HIDE DEF before, N
  <2> SUFFICES /\ Append(before, N + 1) \in Seq(Nat)
               /\ Len(Append(before, N + 1)) = Len(before) + 1
               /\ \A i \in 1..Len(before) : Append(before, N + 1)[i] = before[i]
               /\ Append(before, N + 1)[Len(before) + 1] = N + 1
    BY DEF before
  <2> QED
    BY <2>1
<1>5. grown \in Inode /\ grown.family = fam /\ SameData(grown, old)
  <2> HIDE DEF fam, old
  <2> QED
    BY <1>2, <1>4 DEF Inode, SameData
<1> HIDE DEF grown, fam
<1>6. t \in Seq(Inode) /\ Len(t) = N /\ \A n \in 1..N : t[n] = IF n = m THEN grown ELSE tree[n]
  BY <1>2, <1>5
<1>7. new \in Inode /\ new.family = <<>>
  BY DEF Inode, Names
<1> HIDE DEF t, new
<1>8. /\ Len(u) = N + 1 /\ u[N + 1] = new
      /\ \A n \in 1..N : u[n] = IF n = m THEN grown ELSE tree[n]
  BY <1>2, <1>6, <1>7
<1>9. u \in Trees
  BY <1>1, AppendKeeps
<1> HIDE DEF u
<1>10. \A n \in 1..N : SameData(u[n], tree[n])
  BY <1>5, <1>8 DEF SameData, old
<1>11. u[m] = grown
  BY <1>8
<1>12. SameData(u[N + 1], new)
  BY <1>8 DEF SameData
<1> QED
  BY <1>1, <1>4, <1>5, <1>7, <1>8, <1>9, <1>10, <1>11, <1>12 DEF Grows, N, old, new

\* What was found before is found again, and full families stay full.
LEMMA FindAfter ==
    ASSUME NEW tree, NEW u, NEW m, NEW token, NEW member, Grows(tree, u, m, token, member),
           NEW n \in 1..Len(tree), NEW name, findFamily(tree, n, name) # 0 \/ FamilyFull(tree, n)
    PROVE  /\ findFamily(u, n, name) = findFamily(tree, n, name)
           /\ Goes(u, n, name) = Goes(tree, n, name)
           /\ FamilyFull(tree, n) => FamilyFull(u, n)
<1>1. /\ tree \in Trees /\ u \in Trees /\ Len(tree) \in Nat /\ Len(u) = Len(tree) + 1
      /\ n \in 1..Len(u) /\ m \in 1..Len(tree)
  BY TreeFacts DEF Grows
<1>2. /\ Len(tree[n].family) \in Nat /\ Len(u[n].family) \in Nat
      /\ \A i \in 1..Len(tree[n].family) : tree[n].family[i] \in 1..Len(tree)
  BY <1>1, TreeFacts DEF NodeOK
<1>3. /\ Len(u[n].family) >= Len(tree[n].family)
      /\ \A i \in 1..Len(tree[n].family) : u[n].family[i] = tree[n].family[i]
      /\ n # m => Len(u[n].family) = Len(tree[n].family)
  <2>1. CASE n = m
    BY <1>2, <2>1 DEF Grows
  <2>2. CASE n # m
    BY <1>2, <2>2 DEF Grows
  <2> QED
    BY <2>1, <2>2
<1>4. \A i \in 1..Len(tree[n].family) : Hit(u, n, name, i) <=> Hit(tree, n, name, i)
  <2> TAKE i \in 1..Len(tree[n].family)
  <2>1. u[n].family[i] = tree[n].family[i] /\ tree[n].family[i] \in 1..Len(tree)
    BY <1>2, <1>3
  <2>2. u[tree[n].family[i]].inodeName = tree[tree[n].family[i]].inodeName
    BY <2>1 DEF Grows, SameData
  <2> QED
    BY <2>1, <2>2 DEF Hit
<1>5. findFamily(u, n, name) = findFamily(tree, n, name)
  <2>1. CASE findFamily(tree, n, name) # 0
    <3> DEFINE i == findFamily(tree, n, name)
    <3>1. /\ i \in 1..Len(tree[n].family) /\ Hit(tree, n, name, i)
          /\ \A j \in 1..i - 1 : ~Hit(tree, n, name, j)
      BY <1>1, <2>1, FindFirst
    <3> HIDE DEF i
    <3>2. i \in 1..Len(u[n].family) /\ \A j \in 1..i - 1 : j \in 1..Len(tree[n].family)
      BY <1>2, <1>3, <3>1
    <3>3. Hit(u, n, name, i) /\ \A j \in 1..i - 1 : ~Hit(u, n, name, j)
      BY <1>4, <3>1, <3>2
    <3>4. findFamily(u, n, name) = i
      BY <1>1, <3>2, <3>3, FindFirst
    <3> QED
      BY <3>4 DEF i
  <2>2. CASE findFamily(tree, n, name) = 0
    <3>1. n # m
      BY <2>2 DEF Grows
    <3>2. \A i \in 1..Len(tree[n].family) : ~Hit(tree, n, name, i)
      BY <1>1, <2>2, FindFirst
    <3>3. \A i \in 1..Len(u[n].family) : ~Hit(u, n, name, i)
      BY <1>3, <1>4, <3>1, <3>2
    <3>4. findFamily(u, n, name) = 0
      BY <1>1, <3>3, FindFirst
    <3> QED
      BY <2>2, <3>4
  <2> QED
    BY <2>1, <2>2
<1>6. Goes(u, n, name) = Goes(tree, n, name)
  <2>1. findFamily(tree, n, name) # 0 => findFamily(tree, n, name) \in 1..Len(tree[n].family)
    BY <1>1, FindFirst
  <2> QED
    BY <1>3, <1>5, <2>1 DEF Goes
<1>7. FamilyFull(tree, n) => FamilyFull(u, n)
  <2>1. MAX_FAMILY \in Nat
    BY ArchiveAssumption
  <2> QED
    BY <1>2, <1>3, <2>1 DEF FamilyFull
<1> QED
  BY <1>5, <1>6, <1>7

\* The token of the new inode leads to it.
LEMMA NewIsFound ==
    ASSUME NEW tree, NEW u, NEW m, NEW token \in Names, NEW member \in Inode, Grows(tree, u, m, token, member)
    PROVE  findFamily(u, m, token) # 0 /\ Goes(u, m, token) = Len(tree) + 1
<1> DEFINE N == Len(tree)
           l == Len(tree[m].family)
<1>1. /\ tree \in Trees /\ u \in Trees /\ N \in Nat /\ Len(u) = N + 1
      /\ m \in 1..Len(u) /\ m \in 1..N /\ l \in Nat
  BY TreeFacts DEF Grows
<1>2. /\ Len(u[m].family) = l + 1 /\ u[m].family[l + 1] = N + 1
      /\ \A i \in 1..l : u[m].family[i] = tree[m].family[i]
  BY DEF Grows
<1>3. u[N + 1].inodeName = token
  <2>1. [member EXCEPT !.inodeName = token].inodeName = token
    BY DEF Inode
  <2> QED
    BY <2>1 DEF Grows, SameData
<1>4. Hit(u, m, token, l + 1)
  <2>1. SameName(token, token)
    BY DEF SameName, IsPrefix, Names
  <2> QED
    BY <1>2, <1>3, <2>1 DEF Hit
<1>5. ASSUME NEW i \in 1..l
      PROVE  ~Hit(u, m, token, i)
  <2>1. ~Hit(tree, m, token, i)
    BY <1>1, FindFirst DEF Grows
  <2>2. tree[m].family[i] \in 1..N
    BY <1>1, TreeFacts DEF NodeOK
  <2>3. u[tree[m].family[i]].inodeName = tree[tree[m].family[i]].inodeName
    BY <2>2 DEF Grows, SameData
  <2> QED
    BY <1>2, <2>1, <2>3 DEF Hit
<1>6. l + 1 \in 1..Len(u[m].family) /\ \A j \in 1..(l + 1) - 1 : ~Hit(u, m, token, j)
  BY <1>1, <1>2, <1>5
<1>7. findFamily(u, m, token) = l + 1
  BY <1>1, <1>4, <1>6, FindFirst
<1> QED
  BY <1>1, <1>2, <1>7 DEF Goes

\* At each name of a path there is a child that matches, or no room.
Settled(tree, path) ==
    \A k \in 1..Len(path) : \/ findFamily(tree, Way(tree, path)[k - 1], path[k]) # 0
                            \/ FamilyFull(tree, Way(tree, path)[k - 1])

\* The way of such a path stays as it is when the tree grows.
LEMMA SettledStays ==
    ASSUME NEW tree, NEW u, NEW m, NEW token, NEW member, Grows(tree, u, m, token, member),
           NEW path, Len(path) \in Nat, Settled(tree, path)
    PROVE  /\ Settled(u, path)
           /\ \A k \in 0..Len(path) : Way(u, path)[k] = Way(tree, path)[k]
           /\ \A k \in 1..Len(path) : findFamily(u, Way(u, path)[k - 1], path[k])
                                        = findFamily(tree, Way(tree, path)[k - 1], path[k])
<1> DEFINE f == Way(u, path)
           g == Way(tree, path)
           N == Len(path)
<1>1. tree \in Trees /\ u \in Trees /\ N \in Nat
  BY DEF Grows
<1>2. f[0] = 1 /\ \A k \in 1..N : f[k] = Goes(u, f[k - 1], path[k])
  BY <1>1, WaySteps
<1>3. /\ g[0] = 1 /\ \A k \in 1..N : g[k] = Goes(tree, g[k - 1], path[k])
      /\ \A k \in 0..N : g[k] \in 1..Len(tree)
  BY <1>1, WaySteps
<1>4. \A k \in 1..N : findFamily(tree, g[k - 1], path[k]) # 0 \/ FamilyFull(tree, g[k - 1])
  BY DEF Settled
<1> HIDE DEF f, g, N
<1>5. \A k \in 1..N : g[k - 1] \in 1..Len(tree)
  BY <1>1, <1>3
<1>6. \A k \in 1..N : /\ findFamily(u, g[k - 1], path[k]) = findFamily(tree, g[k - 1], path[k])
                      /\ Goes(u, g[k - 1], path[k]) = Goes(tree, g[k - 1], path[k])
                      /\ FamilyFull(tree, g[k - 1]) => FamilyFull(u, g[k - 1])
  <2> TAKE k \in 1..N
  <2> DEFINE n == g[k - 1]
             name == path[k]
  <2>1. n \in 1..Len(tree) /\ (findFamily(tree, n, name) # 0 \/ FamilyFull(tree, n))
    BY <1>4, <1>5
  <2> HIDE DEF n, name
  <2>2. /\ findFamily(u, n, name) = findFamily(tree, n, name)
        /\ Goes(u, n, name) = Goes(tree, n, name)
        /\ FamilyFull(tree, n) => FamilyFull(u, n)
    BY <2>1, FindAfter
  <2> QED
    BY <2>2 DEF n, name
<1>7. \A k \in 1..N : f[k - 1] = g[k - 1] => f[k] = g[k]
  BY <1>2, <1>3, <1>6
<1>8. \A k \in 0..N : f[k] = g[k]
  <2>1. f[0] = g[0]
    BY <1>2, <1>3
  <2> QED
    BY ONLY <1>1, <1>7, <2>1, Agree
<1>9. \A k \in 1..N : f[k - 1] = g[k - 1]
  BY <1>1, <1>8
<1> QED
  BY <1>4, <1>6, <1>8, <1>9 DEF Settled, f, g, N

-----------------------------------------------------------------------------
(* What InsertIntoRoot does to a tree that has the directories of a path. *)

\* A token for which there is a child or no room leaves the tree alone.
LEMMA InsertGoes ==
    ASSUME NEW tree \in Trees, NEW node \in 1..Len(tree), NEW token, NEW member,
           findFamily(tree, node, token) # 0 \/ FamilyFull(tree, node)
    PROVE  Insert([tree |-> tree, node |-> node], token, member)
             = [tree |-> tree, node |-> Goes(tree, node, token)]
<1> DEFINE at == [tree |-> tree, node |-> node]
           i == findFamily(tree, node, token)
<1>1. at.tree = tree /\ at.node = node
  OBVIOUS
<1>2. CASE i # 0
  <2> DEFINE c == tree[node].family[i]
  <2>1. Insert(at, token, member) = [at EXCEPT !.node = c]
    BY <1>1, <1>2 DEF Insert
  <2>2. Goes(tree, node, token) = c
    BY <1>2 DEF Goes
  <2> HIDE DEF c, i
  <2>3. [at EXCEPT !.node = c] = [tree |-> tree, node |-> c]
    OBVIOUS
  <2> QED
    BY <2>1, <2>2, <2>3
<1>3. CASE i = 0
  <2>1. FamilyFull(tree, node) /\ Goes(tree, node, token) = node
    BY <1>3 DEF Goes
  <2>2. Insert(at, token, member) = at
    BY <1>1, <1>3, <2>1 DEF Insert
  <2> QED
    BY <2>1, <2>2
<1> QED
  BY <1>2, <1>3

\* The directories of a path are found, or there is no room for them.
SettledFront(tree, path) ==
    \A k \in 1..Len(path) - 1 : \/ findFamily(tree, Way(tree, path)[k - 1], path[k]) # 0
                                \/ FamilyFull(tree, Way(tree, path)[k - 1])

\* Where the last name of a path goes.
Parent(tree, path) == Way(tree, path)[Len(path) - 1]

Dropped(tree, path) == \/ findFamily(tree, Parent(tree, path), Last(path)) # 0
                       \/ FamilyFull(tree, Parent(tree, path))

\* InsertIntoRoot follows the way of the path to the last directory and adds
\* one inode there, unless the last name is found or there is no room for it.
LEMMA InsertIs ==
    ASSUME NEW tree \in Trees, NEW path \in Seq(Names), path # <<>>, NEW start \in Nat, NEW end \in Nat,
           start <= end, end <= ArchiveEnd, NEW type \in {DIR, FILE}, SettledFront(tree, path)
    PROVE  LET u == InsertIntoRoot(tree, path, start, end, type)
           IN /\ Dropped(tree, path) => u = tree
              /\ ~Dropped(tree, path)
                   => Grows(tree, u, Parent(tree, path), Last(path), NewInode(start, end, type))
<1> DEFINE member == NewInode(start, end, type)
           L == Len(path)
           w == Way(tree, path)
           m == Parent(tree, path)
           At(k) == [tree |-> tree, node |-> w[k]]
           u == InsertIntoRoot(tree, path, start, end, type)
<1>1. L \in Nat /\ L > 0 /\ path[L] \in Names
  <2>1. L \in Nat /\ L > 0
    BY EmptySeq
  <2> QED
    BY <2>1
<1>2. PICK f : Inserts(f, tree, path, member) /\ u = f[L].tree
  BY InsertLoop
<1>3. f[0] = [tree |-> tree, node |-> 1] /\ \A k \in 1..L : f[k] = Insert(f[k - 1], path[k], member)
  BY <1>2 DEF Inserts
<1>4. /\ w[0] = 1 /\ \A k \in 1..L : w[k] = Goes(tree, w[k - 1], path[k])
      /\ \A k \in 0..L : w[k] \in 1..Len(tree)
  BY <1>1, WaySteps
<1>5. \A k \in 1..L - 1 : findFamily(tree, w[k - 1], path[k]) # 0 \/ FamilyFull(tree, w[k - 1])
  BY DEF SettledFront
<1>6. m = w[L - 1] /\ m \in 1..Len(tree) /\ Last(path) = path[L]
  BY <1>1, <1>4 DEF Parent, Last
<1>7. member \in Inode /\ NodeOK(member, 0, 0) /\ member.family = <<>>
  BY NewInodeOK
<1> HIDE DEF w, member, u, L, m
<1> DEFINE T == {k \in 0..L - 1 : f[k] = At(k)}
<1>8. f[L - 1] = At(L - 1)
  <2>1. 0 \in T
    BY <1>1, <1>3, <1>4
  <2>2. ASSUME NEW k \in 1..L - 1, k - 1 \in T
        PROVE  k \in T
    <3>1. /\ k \in 1..L /\ k \in 0..L - 1 /\ w[k - 1] \in 1..Len(tree)
          /\ f[k - 1] = At(k - 1)
      BY <1>1, <1>4, <2>2
    <3>2. findFamily(tree, w[k - 1], path[k]) # 0 \/ FamilyFull(tree, w[k - 1])
      BY <1>5
    <3>3. Insert(At(k - 1), path[k], member) = [tree |-> tree, node |-> Goes(tree, w[k - 1], path[k])]
      BY <3>1, <3>2, InsertGoes
    <3>4. f[k] = At(k)
      BY <1>3, <1>4, <3>1, <3>3
    <3> HIDE DEF At
    <3> QED
      BY <3>1, <3>4
  <2>3. \A k \in 0..L - 1 : k \in T
    <3> HIDE DEF T
    <3>1. L - 1 \in Nat
      BY <1>1
    <3> QED
      BY <2>1, <2>2, <3>1, IntervalInduction
  <2> QED
    BY <1>1, <2>3
<1>9. f[L] = Insert([tree |-> tree, node |-> m], path[L], member)
  BY <1>1, <1>3, <1>6, <1>8
<1>10. ASSUME Dropped(tree, path)
       PROVE  u = tree
  <2>1. findFamily(tree, m, path[L]) # 0 \/ FamilyFull(tree, m)
    BY <1>6, <1>10 DEF Dropped, m
  <2>2. f[L] = [tree |-> tree, node |-> Goes(tree, m, path[L])]
    BY <1>6, <1>9, <2>1, InsertGoes
  <2> QED
    BY <1>2, <2>2
<1>11. ASSUME ~Dropped(tree, path)
       PROVE  Grows(tree, u, m, path[L], member)
  <2>1. findFamily(tree, m, path[L]) = 0 /\ ~FamilyFull(tree, m)
    BY <1>6, <1>11 DEF Dropped, m
  <2>2. f[L] = [tree |-> appendToFamily(tree, m, path[L], member), node |-> Len(tree) + 1]
    BY <1>9, <2>1 DEF Insert
  <2>3. u = appendToFamily(tree, m, path[L], member)
    BY <1>2, <2>2
  <2> QED
    BY <1>1, <1>6, <1>7, <2>1, <2>3, AppendGrows
<1> QED
  BY <1>6, <1>10, <1>11 DEF u, member, m

-----------------------------------------------------------------------------
(* The tree after the first members of the archive. *)

Path(i) == Archive[i].name

\* The inode was made for a member.
MadeFor(node, f) == /\ node.inodeName = Last(Path(f))
                    /\ node.type = Archive[f].type
                    /\ node.start = Place[f] + HEADER
                    /\ node.end = Place[f] + HEADER + Archive[f].size

\* No member listed before f comes by an inode.
Fresh(tree, n, f) == \A j \in 1..f - 1 : \A k \in 0..Len(Path(j)) : Way(tree, Path(j))[k] # n

Owner(tree, n, f) == n \in 2..Len(tree) /\ MadeFor(tree[n], f) /\ Fresh(tree, n, f)

\* The directories of a member lead to p, the last of them and not before.
Arrives(tree, f, p) == /\ Parent(tree, Path(f)) = p
                       /\ \A k \in 0..Len(Path(f)) - 2 : Way(tree, Path(f))[k] # p

AllSettled(tree, c) == \A j \in 1..c : Settled(tree, Path(j))

Owned(tree, c) == \A n \in 2..Len(tree) : \E f \in 1..c : Owner(tree, n, f)

ChildrenArrived(tree, c) ==
    \A p \in 1..Len(tree) : \A i \in 1..Len(tree[p].family) :
      \E f \in 1..c : MadeFor(tree[tree[p].family[i]], f) /\ Arrives(tree, f, p)

DistinctNames(tree) ==
    \A p \in 1..Len(tree) : \A i, j \in 1..Len(tree[p].family) :
      tree[tree[p].family[i]].inodeName = tree[tree[p].family[j]].inodeName => i = j

AllFound(tree, path) == \A k \in 1..Len(path) : findFamily(tree, Way(tree, path)[k - 1], path[k]) # 0

VisibleFound(tree, c) ==
    \A j \in 1..c : Visible(j) => AllFound(tree, Path(j)) /\ Owner(tree, Way(tree, Path(j))[Len(Path(j))], j)

TreeInv(tree, c) ==
    /\ tree \in Trees /\ tree[1].type = DIR
    /\ AllSettled(tree, c) /\ Owned(tree, c) /\ ChildrenArrived(tree, c)
    /\ DistinctNames(tree) /\ VisibleFound(tree, c)

\* What the assumptions say of the path of a member.
LEMMA PathFacts ==
    ASSUME NEW i \in Members
    PROVE  /\ Path(i) \in Seq(Names) /\ Path(i) # <<>>
           /\ Len(Path(i)) \in Nat /\ Len(Path(i)) > 0
           /\ Last(Path(i)) = Path(i)[Len(Path(i))] /\ Last(Path(i)) \in Names
           /\ i \in Nat /\ i > 0 /\ Len(Archive) \in Nat /\ i <= Len(Archive)
<1>1. Path(i) \in Seq(Names) /\ Path(i) # <<>>
  BY MemberType DEF Path, Names
<1>2. Len(Path(i)) \in Nat /\ Len(Path(i)) > 0
  <2> DEFINE p == Path(i)
  <2>1. p \in Seq(Names) /\ p # <<>>
    BY <1>1
  <2> HIDE DEF p
  <2>2. Len(p) \in Nat /\ Len(p) > 0
    BY <2>1, EmptySeq, LenProperties
  <2> QED
    BY <2>2 DEF p
<1>3. Path(i)[Len(Path(i))] \in Names
  BY <1>1, <1>2
<1>4. i \in Nat /\ i > 0 /\ Len(Archive) \in Nat /\ i <= Len(Archive)
  BY MemberType DEF Members
<1> QED
  BY <1>1, <1>2, <1>3, <1>4 DEF Last

\* The directories of a member are members listed before it.
LEMMA DirectoryOf ==
    ASSUME NEW i \in Members, NEW k \in 1..Len(Path(i)) - 1
    PROVE  \E d \in 1..i - 1 : /\ d \in Members /\ Archive[d].type = DIR
                               /\ Path(d) = SubSeq(Path(i), 1, k)
                               /\ Len(Path(d)) = k
                               /\ \A l \in 1..k : Path(d)[l] = Path(i)[l]
<1>1. PICK d \in 1..i - 1 : Archive[d].type = DIR /\ Path(d) = SubSeq(Path(i), 1, k)
  BY ArchiveAssumption DEF Path, Members
<1>2. Path(i) \in Seq(Names) /\ Len(Path(i)) \in Nat /\ d \in Members
  BY PathFacts DEF Members
<1> DEFINE p == Path(i)
<1>3. p \in Seq(Names) /\ k \in 1..Len(p)
  BY <1>2
<1> HIDE DEF p
<1>4. Len(SubSeq(p, 1, k)) = k /\ \A l \in 1..k : SubSeq(p, 1, k)[l] = p[l]
  BY <1>3
<1> QED
  BY <1>1, <1>2, <1>4 DEF p

\* The way of a directory is the beginning of the way of what is in it.
LEMMA WayOfDirectory ==
    ASSUME NEW tree \in Trees, NEW i \in Members, NEW d \in Members, Len(Path(d)) <= Len(Path(i)),
           \A l \in 1..Len(Path(d)) : Path(d)[l] = Path(i)[l]
    PROVE  \A k \in 0..Len(Path(d)) : Way(tree, Path(d))[k] = Way(tree, Path(i))[k]
BY PathFacts, WayOfPrefix

\* The directories of the next member have been walked before.
LEMMA FrontIsSettled ==
    ASSUME NEW tree \in Trees, NEW i \in Members, AllSettled(tree, i - 1)
    PROVE  SettledFront(tree, Path(i))
<1> DEFINE L == Len(Path(i))
<1>1. L \in Nat /\ L > 0
  BY PathFacts
<1> SUFFICES ASSUME NEW k \in 1..L - 1
             PROVE  \/ findFamily(tree, Way(tree, Path(i))[k - 1], Path(i)[k]) # 0
                    \/ FamilyFull(tree, Way(tree, Path(i))[k - 1])
  BY DEF SettledFront
<1>2. PICK d \in 1..i - 1 : /\ d \in Members
                            /\ Len(Path(d)) = k /\ \A l \in 1..k : Path(d)[l] = Path(i)[l]
  BY DirectoryOf
<1>3. Settled(tree, Path(d))
  BY DEF AllSettled
<1>4. /\ k \in 1..Len(Path(d)) /\ k - 1 \in 0..Len(Path(d)) /\ Path(d)[k] = Path(i)[k]
      /\ Len(Path(d)) <= Len(Path(i))
  BY <1>1, <1>2
<1>5. Way(tree, Path(d))[k - 1] = Way(tree, Path(i))[k - 1]
  BY <1>2, <1>4, WayOfDirectory
<1> QED
  BY <1>3, <1>4, <1>5 DEF Settled

MemberInode(i) == NewInode(Place[i] + HEADER, Place[i] + HEADER + Archive[i].size, Archive[i].type)

\* The inode a member gets, before it is in the tree.
LEMMA MemberInodeOK ==
    ASSUME NEW i \in Members
    PROVE  /\ Place[i] + HEADER \in Nat /\ Place[i] + HEADER + Archive[i].size \in Nat
           /\ Place[i] + HEADER <= Place[i] + HEADER + Archive[i].size
           /\ Place[i] + HEADER + Archive[i].size <= ArchiveEnd
           /\ Archive[i].type \in {DIR, FILE}
           /\ MemberInode(i) \in Inode
           /\ MadeFor([MemberInode(i) EXCEPT !.inodeName = Last(Path(i))], i)
<1> DEFINE z == Place[Len(Archive) + 1]
<1>1. /\ Archive[i].size \in Nat /\ HEADER \in Nat /\ HEADER > 0 /\ Archive[i].type \in {DIR, FILE}
      /\ Len(Archive) \in Nat
  BY MemberType
<1>2. i \in 1..Len(Archive) + 1 /\ Len(Archive) + 1 \in 1..Len(Archive) + 1 /\ i < Len(Archive) + 1
  BY <1>1 DEF Members
<1>3. Place[i] \in Nat /\ z \in Nat /\ Place[i] + HEADER + Archive[i].size <= z
  BY <1>2, PlaceSteps, PlacesAscend
<1>4. ArchiveEnd = z + 2 * HEADER
  BY DEF ArchiveEnd
<1> DEFINE a == Place[i] + HEADER
           e == Place[i] + HEADER + Archive[i].size
<1>5. a \in Nat /\ e \in Nat /\ a <= e /\ e <= ArchiveEnd
  <2> DEFINE p == Place[i]
             size == Archive[i].size
  <2>1. p \in Nat /\ size \in Nat /\ z \in Nat /\ HEADER \in Nat /\ p + HEADER + size <= z
    BY <1>1, <1>3
  <2>2. ArchiveEnd = z + 2 * HEADER
    BY <1>4
  <2> HIDE DEF p, size, z
  <2>3. /\ p + HEADER \in Nat /\ p + HEADER + size \in Nat /\ p + HEADER <= p + HEADER + size
        /\ p + HEADER + size <= ArchiveEnd
    BY <2>1, <2>2
  <2> QED
    BY <2>3 DEF p, size
<1> HIDE DEF a, e
<1>6. NewInode(a, e, Archive[i].type) \in Inode
  BY <1>1, <1>5, NewInodeOK
<1>7. MadeFor([MemberInode(i) EXCEPT !.inodeName = Last(Path(i))], i)
  BY DEF MadeFor, MemberInode, NewInode
<1> QED
  BY <1>1, <1>5, <1>6, <1>7 DEF MemberInode, a, e

\* A member is put into the tree of those before it.
GrowStep(tree, u, i) ==
    /\ i \in Members /\ TreeInv(tree, i - 1)
    /\ Grows(tree, u, Parent(tree, Path(i)), Last(Path(i)), MemberInode(i))

\* The ways of all members stay, and that of the new one ends at its inode.
LEMMA WaysStay ==
    ASSUME NEW tree, NEW u, NEW i, GrowStep(tree, u, i)
    PROVE  /\ \A j \in 1..i - 1 :
                /\ Settled(u, Path(j))
                /\ AllFound(tree, Path(j)) => AllFound(u, Path(j))
                /\ \A k \in 0..Len(Path(j)) : /\ Way(u, Path(j))[k] = Way(tree, Path(j))[k]
                                              /\ Way(tree, Path(j))[k] \in 1..Len(tree)
           /\ \A k \in 0..Len(Path(i)) - 1 : Way(u, Path(i))[k] = Way(tree, Path(i))[k]
           /\ findFamily(u, Parent(tree, Path(i)), Last(Path(i))) # 0
           /\ Way(u, Path(i))[Len(Path(i))] = Len(tree) + 1
<1> DEFINE L == Len(Path(i))
           m == Parent(tree, Path(i))
<1>1. /\ i \in Members /\ tree \in Trees /\ u \in Trees /\ AllSettled(tree, i - 1)
      /\ Grows(tree, u, m, Last(Path(i)), MemberInode(i))
  BY DEF GrowStep, TreeInv, Grows
<1>2. /\ L \in Nat /\ L > 0 /\ Last(Path(i)) = Path(i)[L] /\ Last(Path(i)) \in Names
      /\ Path(i) \in Seq(Names) /\ i \in Nat /\ i <= Len(Archive) /\ Len(Archive) \in Nat
  BY <1>1, PathFacts
<1>3. ASSUME NEW j \in 1..i - 1
      PROVE  /\ Settled(u, Path(j))
             /\ AllFound(tree, Path(j)) => AllFound(u, Path(j))
             /\ \A k \in 0..Len(Path(j)) : /\ Way(u, Path(j))[k] = Way(tree, Path(j))[k]
                                           /\ Way(tree, Path(j))[k] \in 1..Len(tree)
  <2>1. j \in Members
    BY <1>2 DEF Members
  <2>2. Len(Path(j)) \in Nat /\ Settled(tree, Path(j))
    BY <1>1, <2>1, PathFacts DEF AllSettled
  <2>3. /\ Settled(u, Path(j))
        /\ \A k \in 0..Len(Path(j)) : Way(u, Path(j))[k] = Way(tree, Path(j))[k]
        /\ \A k \in 1..Len(Path(j)) : findFamily(u, Way(u, Path(j))[k - 1], Path(j)[k])
                                        = findFamily(tree, Way(tree, Path(j))[k - 1], Path(j)[k])
    BY <1>1, <2>2, SettledStays
  <2>4. \A k \in 0..Len(Path(j)) : Way(tree, Path(j))[k] \in 1..Len(tree)
    BY <1>1, <2>2, WaySteps
  <2> QED
    BY <2>3, <2>4 DEF AllFound
<1>4. ASSUME NEW k \in 0..L - 1
      PROVE  Way(u, Path(i))[k] = Way(tree, Path(i))[k]
  <2>1. CASE k = 0
    BY <1>1, <1>2, <2>1, WaySteps
  <2>2. CASE k # 0
    <3>1. k \in 1..L - 1
      BY <1>2, <2>2
    <3>2. PICK d \in 1..i - 1 : /\ d \in Members /\ Len(Path(d)) = k
                                /\ \A l \in 1..k : Path(d)[l] = Path(i)[l]
      BY <1>1, <3>1, DirectoryOf
    <3>3. k \in 0..Len(Path(d)) /\ Len(Path(d)) <= L
      BY <1>2, <3>1, <3>2
    <3>4. Way(tree, Path(d))[k] = Way(tree, Path(i))[k] /\ Way(u, Path(d))[k] = Way(u, Path(i))[k]
      BY <1>1, <3>2, <3>3, WayOfDirectory
    <3>5. Way(u, Path(d))[k] = Way(tree, Path(d))[k]
      BY <1>3, <3>2, <3>3
    <3> QED
      BY <3>4, <3>5
  <2> QED
    BY <2>1, <2>2
<1>5. findFamily(u, m, Last(Path(i))) # 0 /\ Goes(u, m, Last(Path(i))) = Len(tree) + 1
  BY <1>1, <1>2, NewIsFound, MemberInodeOK
<1>6. Way(u, Path(i))[L] = Goes(u, Way(u, Path(i))[L - 1], Path(i)[L])
  BY <1>1, <1>2, WaySteps
<1>7. Way(u, Path(i))[L - 1] = m
  BY <1>2, <1>4 DEF Parent
<1> QED
  BY <1>2, <1>3, <1>4, <1>5, <1>6, <1>7

\* Inodes stay those of their members, and the new one is that of member i.
LEMMA OwnersStay ==
    ASSUME NEW tree, NEW u, NEW i, GrowStep(tree, u, i)
    PROVE  /\ \A n \in 1..Len(tree) : \A f : MadeFor(tree[n], f) => MadeFor(u[n], f)
           /\ \A n : \A f \in 1..i - 1 : Owner(tree, n, f) => Owner(u, n, f)
           /\ MadeFor(u[Len(tree) + 1], i) /\ Owner(u, Len(tree) + 1, i)
<1> DEFINE N == Len(tree)
<1>1. /\ i \in Members /\ tree \in Trees /\ N \in Nat /\ N > 0 /\ Len(u) = N + 1
      /\ \A n \in 1..N : SameData(u[n], tree[n])
      /\ SameData(u[N + 1], [MemberInode(i) EXCEPT !.inodeName = Last(Path(i))])
  BY TreeFacts DEF GrowStep, TreeInv, Grows
<1>2. \A n \in 1..N : \A f : MadeFor(tree[n], f) => MadeFor(u[n], f)
  BY <1>1 DEF SameData, MadeFor
<1>3. MadeFor(u[N + 1], i)
  <2>1. MadeFor([MemberInode(i) EXCEPT !.inodeName = Last(Path(i))], i)
    BY <1>1, MemberInodeOK
  <2> QED
    BY <1>1, <2>1 DEF SameData, MadeFor
<1>4. i \in Nat
  BY <1>1, PathFacts
<1>5. ASSUME NEW n, NEW f \in 1..i - 1, Owner(tree, n, f)
      PROVE  Owner(u, n, f)
  <2>1. n \in 2..N /\ MadeFor(tree[n], f) /\ Fresh(tree, n, f)
    BY <1>5 DEF Owner
  <2>2. n \in 2..Len(u) /\ MadeFor(u[n], f)
    BY <1>1, <1>2, <2>1
  <2>3. ASSUME NEW j \in 1..f - 1, NEW k \in 0..Len(Path(j))
        PROVE  Way(u, Path(j))[k] # n
    <3>1. j \in 1..i - 1
      BY <1>4
    <3>2. Way(u, Path(j))[k] = Way(tree, Path(j))[k]
      BY <3>1, WaysStay
    <3> QED
      BY <2>1, <3>2 DEF Fresh
  <2> QED
    BY <2>2, <2>3 DEF Owner, Fresh
<1>6. Owner(u, N + 1, i)
  <2>1. ASSUME NEW j \in 1..i - 1, NEW k \in 0..Len(Path(j))
        PROVE  Way(u, Path(j))[k] # N + 1
    <3>1. Way(u, Path(j))[k] = Way(tree, Path(j))[k] /\ Way(tree, Path(j))[k] \in 1..N
      BY WaysStay
    <3> QED
      BY <1>1, <3>1
  <2>2. N + 1 \in 2..Len(u)
    BY <1>1
  <2> QED
    BY <1>3, <2>1, <2>2 DEF Owner, Fresh
<1> QED
  BY <1>2, <1>3, <1>5, <1>6

\* The new inode is put where the way of its directories arrives.
LEMMA NewArrives ==
    ASSUME NEW tree, NEW u, NEW i, GrowStep(tree, u, i)
    PROVE  Arrives(u, i, Parent(tree, Path(i)))
<1> DEFINE L == Len(Path(i))
           w == Way(tree, Path(i))
           m == Parent(tree, Path(i))
<1>1. /\ i \in Members /\ tree \in Trees /\ AllSettled(tree, i - 1) /\ ~FamilyFull(tree, m)
  BY DEF GrowStep, TreeInv, Grows
<1>2. L \in Nat /\ L > 0 /\ m = w[L - 1]
  BY <1>1, PathFacts DEF Parent
<1>3. \A k \in 0..L - 1 : Way(u, Path(i))[k] = w[k]
  BY WaysStay
<1>4. SettledFront(tree, Path(i))
  BY <1>1, FrontIsSettled
<1>5. ASSUME NEW k \in 0..L - 2, w[k] = m
      PROVE  FALSE
  <2>1. /\ k \in 0..L /\ k + 1 \in 1..L /\ k + 1 \in 0..L /\ L - 1 \in k + 1..L /\ k + 1 \in k..L
        /\ k + 1 \in 1..L - 1 /\ (k + 1) - 1 = k
    BY <1>2
  <2>2. w[k + 1] = Goes(tree, w[k], Path(i)[k + 1]) /\ w[k] \in 1..Len(tree) /\ w[k + 1] \in 1..Len(tree)
    BY <1>1, <1>2, <2>1, WaySteps
  <2>3. w[k + 1] <= w[L - 1]
    BY <1>1, <1>2, <2>1, WayAscends
  <2>4. findFamily(tree, w[k], Path(i)[k + 1]) # 0 \/ FamilyFull(tree, w[k])
    BY <1>4, <2>1 DEF SettledFront
  <2>5. findFamily(tree, w[k], Path(i)[k + 1]) # 0
    BY <1>1, <1>5, <2>4
  <2>6. w[k + 1] > w[k]
    BY <1>1, <2>2, <2>5, GoesUp
  <2>7. Len(tree) \in Nat
    BY <1>1, TreeFacts
  <2> HIDE DEF w, m
  <2> QED
    BY <1>2, <1>5, <2>2, <2>3, <2>6, <2>7
<1>6. Way(u, Path(i))[L - 1] = m
  BY <1>2, <1>3
<1>7. \A k \in 0..L - 2 : Way(u, Path(i))[k] # m
  <2> TAKE k \in 0..L - 2
  <2>1. k \in 0..L - 1
    BY <1>2
  <2> HIDE DEF w, m
  <2> QED
    BY <1>3, <1>5, <2>1
<1> QED
  BY <1>6, <1>7 DEF Arrives, Parent

\* Arrivals of earlier members stay.
LEMMA ArrivalsStay ==
    ASSUME NEW tree, NEW u, NEW i, GrowStep(tree, u, i), NEW f \in 1..i - 1, NEW p, Arrives(tree, f, p)
    PROVE  Arrives(u, f, p)
<1>1. i \in Members
  BY DEF GrowStep
<1>2. f \in Members
  BY <1>1, PathFacts DEF Members
<1>3. Len(Path(f)) \in Nat /\ Len(Path(f)) > 0
  BY <1>2, PathFacts
<1>4. \A k \in 0..Len(Path(f)) : Way(u, Path(f))[k] = Way(tree, Path(f))[k]
  BY WaysStay
<1>5. Len(Path(f)) - 1 \in 0..Len(Path(f)) /\ \A k \in 0..Len(Path(f)) - 2 : k \in 0..Len(Path(f))
  BY <1>3
<1> QED
  BY <1>4, <1>5 DEF Arrives, Parent

\* The children of an inode after the step.
LEMMA FamilyAfter ==
    ASSUME NEW tree, NEW u, NEW i, GrowStep(tree, u, i), NEW p \in 1..Len(u), NEW k \in 1..Len(u[p].family)
    PROVE  \/ /\ p \in 1..Len(tree) /\ k \in 1..Len(tree[p].family)
              /\ u[p].family[k] = tree[p].family[k] /\ tree[p].family[k] \in 1..Len(tree)
              /\ u[tree[p].family[k]].inodeName = tree[tree[p].family[k]].inodeName
           \/ /\ p = Parent(tree, Path(i)) /\ k = Len(tree[p].family) + 1
              /\ u[p].family[k] = Len(tree) + 1
<1> DEFINE N == Len(tree)
           m == Parent(tree, Path(i))
<1>1. Grows(tree, u, m, Last(Path(i)), MemberInode(i)) /\ tree \in Trees /\ u \in Trees
  BY DEF GrowStep, Grows
<1>2. N \in Nat /\ Len(u) = N + 1 /\ m \in 1..N /\ Len(u[p].family) \in Nat
  BY <1>1, TreeFacts DEF Grows
<1>3. u[N + 1].family = <<>>
  BY <1>1 DEF Grows
<1>4. p # N + 1
  <2>1. Len(<<>>) = 0
    OBVIOUS
  <2> QED
    BY <1>2, <1>3, <2>1
<1>5. p \in 1..N /\ Len(tree[p].family) \in Nat
  <2>1. p \in 1..N
    BY <1>2, <1>4
  <2> QED
    BY <1>1, <2>1, TreeFacts
<1>6. ASSUME NEW l \in 1..Len(tree[p].family)
      PROVE  /\ tree[p].family[l] \in 1..N
             /\ u[tree[p].family[l]].inodeName = tree[tree[p].family[l]].inodeName
  <2>1. tree[p].family[l] \in 1..N
    BY <1>1, <1>2, <1>5, TreeFacts DEF NodeOK
  <2> QED
    BY <1>1, <2>1 DEF Grows, SameData
<1>7. CASE p = m
  <2>1. /\ Len(u[p].family) = Len(tree[p].family) + 1
        /\ \A l \in 1..Len(tree[p].family) : u[p].family[l] = tree[p].family[l]
        /\ u[p].family[Len(tree[p].family) + 1] = N + 1
    BY <1>1, <1>7 DEF Grows
  <2>2. k \in 1..Len(tree[p].family) \/ k = Len(tree[p].family) + 1
    BY <1>5, <2>1
  <2> QED
    BY <1>5, <1>6, <1>7, <2>1, <2>2
<1>8. CASE p # m
  <2>1. u[p].family = tree[p].family
    BY <1>1, <1>5, <1>8 DEF Grows
  <2> QED
    BY <1>5, <1>6, <2>1
<1> QED
  BY <1>7, <1>8

\* The names in a directory are finitely many.
LEMMA SiblingsFinite ==
    ASSUME NEW i \in Members, NEW k
    PROVE  IsFiniteSet(Siblings(i, k))
<1> DEFINE J == {j \in 1..i - 1 : /\ Len(Archive[j].name) >= k
                                 /\ SubSeq(Archive[j].name, 1, k - 1) = SubSeq(Archive[i].name, 1, k - 1)}
           f == [j \in J |-> Archive[j].name[k]]
           S == {Archive[j].name[k] : j \in J}
<1>1. i - 1 \in Int /\ 1 \in Int
  BY PathFacts
<1>2. IsFiniteSet(1..i - 1)
  BY <1>1, FS_Interval
<1>3. J \in SUBSET (1..i - 1)
  OBVIOUS
<1>4. IsFiniteSet(J)
  <2> HIDE DEF J
  <2> QED
    BY <1>2, <1>3, FS_Subset
<1>5. f \in Surjection(J, S)
  <2> HIDE DEF J
  <2> QED
    BY DEF Surjection
<1>6. IsFiniteSet(S)
  <2> HIDE DEF J, S, f
  <2> QED
    BY <1>4, <1>5, FS_Surjection
<1> QED
  BY <1>6 DEF Siblings

\* A directory of a visible member is visible.
LEMMA VisibleParent ==
    ASSUME NEW i \in Members, NEW d \in 1..i - 1, Visible(i), d \in Members,
           Len(Path(d)) < Len(Path(i)), \A l \in 1..Len(Path(d)) : Path(d)[l] = Path(i)[l]
    PROVE  Visible(d)
<1>1. /\ Path(i) \in Seq(Names) /\ Path(d) \in Seq(Names) /\ Len(Path(i)) \in Nat /\ Len(Path(d)) \in Nat
      /\ i \in Nat /\ d \in Nat
  BY PathFacts
<1> SUFFICES ASSUME NEW k \in 1..Len(Path(d))
             PROVE  /\ Cardinality(Siblings(d, k) \ {Path(d)[k]}) < MAX_FAMILY - 1
                    /\ \A name \in Siblings(d, k) : IsPrefix(Path(d)[k], name) => name = Path(d)[k]
  BY DEF Visible, Path
<1>2. k \in 1..Len(Path(i)) /\ Path(d)[k] = Path(i)[k] /\ k \in Nat
  BY <1>1
<1>3. SubSeq(Path(d), 1, k - 1) = SubSeq(Path(i), 1, k - 1)
  <2>1. SubSeq(Path(d), 1, k - 1) = [l \in 1..k - 1 |-> Path(d)[l]]
    BY <1>1
  <2>2. SubSeq(Path(i), 1, k - 1) = [l \in 1..k - 1 |-> Path(i)[l]]
    BY <1>1
  <2>3. \A l \in 1..k - 1 : Path(d)[l] = Path(i)[l]
    BY <1>1
  <2> QED
    BY <2>1, <2>2, <2>3
<1>4. Siblings(d, k) \subseteq Siblings(i, k)
  <2>1. \A j \in 1..d - 1 : j \in 1..i - 1
    BY <1>1
  <2> QED
    BY <1>3, <2>1 DEF Siblings, Path
<1>5. /\ Cardinality(Siblings(i, k) \ {Path(i)[k]}) < MAX_FAMILY - 1
      /\ \A name \in Siblings(i, k) : IsPrefix(Path(i)[k], name) => name = Path(i)[k]
  BY <1>2 DEF Visible, Path
<1>6. Cardinality(Siblings(d, k) \ {Path(d)[k]}) <= Cardinality(Siblings(i, k) \ {Path(i)[k]})
  <2> DEFINE S == Siblings(i, k) \ {Path(i)[k]}
             T == Siblings(d, k) \ {Path(d)[k]}
  <2>1. IsFiniteSet(S)
    BY SiblingsFinite, FS_RemoveElement
  <2>2. T \in SUBSET S
    BY <1>2, <1>4
  <2> HIDE DEF S, T
  <2>3. Cardinality(T) <= Cardinality(S)
    BY <2>1, <2>2, FS_Subset
  <2> QED
    BY <2>3 DEF S, T
<1>7. /\ Cardinality(Siblings(d, k) \ {Path(d)[k]}) \in Nat
      /\ Cardinality(Siblings(i, k) \ {Path(i)[k]}) \in Nat /\ MAX_FAMILY \in Nat
  <2>1. IsFiniteSet(Siblings(d, k) \ {Path(d)[k]}) /\ IsFiniteSet(Siblings(i, k) \ {Path(i)[k]})
    BY SiblingsFinite, FS_RemoveElement
  <2> QED
    BY <2>1, FS_CardinalityType, ArchiveAssumption
<1>8. Cardinality(Siblings(d, k) \ {Path(d)[k]}) < MAX_FAMILY - 1
  <2> DEFINE a == Cardinality(Siblings(d, k) \ {Path(d)[k]})
             b == Cardinality(Siblings(i, k) \ {Path(i)[k]})
  <2>1. a \in Nat /\ b \in Nat /\ a <= b /\ b < MAX_FAMILY - 1
    BY <1>5, <1>6, <1>7
  <2> HIDE DEF a, b
  <2>2. a < MAX_FAMILY - 1
    BY <1>7, <2>1
  <2> QED
    BY <2>2 DEF a
<1> QED
  BY <1>2, <1>4, <1>5, <1>8

\* A prefix, name by name.
LEMMA PrefixIs ==
    ASSUME NEW S, NEW s \in Seq(S), NEW t \in Seq(S)
    PROVE  IsPrefix(s, t) <=> Len(s) <= Len(t) /\ \A k \in 1..Len(s) : s[k] = t[k]
<1>1. Len(s) \in Nat /\ Len(t) \in Nat
  BY LenProperties
<1>2. ASSUME Len(s) <= Len(t)
      PROVE  SubSeq(s, 1, Len(s)) = SubSeq(t, 1, Len(s)) <=> \A k \in 1..Len(s) : s[k] = t[k]
  <2>1. /\ SubSeq(s, 1, Len(s)) = [k \in 1..Len(s) |-> s[k]]
        /\ SubSeq(t, 1, Len(s)) = [k \in 1..Len(s) |-> t[k]]
    BY <1>1, <1>2
  <2> QED
    BY <2>1
<1> QED
  BY <1>2 DEF IsPrefix

\* Members of the archive have different paths.
LEMMA PathsDiffer ==
    ASSUME NEW i \in Members, NEW j \in 1..i - 1
    PROVE  Path(j) # Path(i)
BY ArchiveAssumption DEF Path, Members

\* Paths of the same length with the same names are the same.
LEMMA SamePath ==
    ASSUME NEW i \in Members, NEW j \in Members, Len(Path(i)) = Len(Path(j)),
           \A k \in 1..Len(Path(i)) : Path(i)[k] = Path(j)[k]
    PROVE  Path(i) = Path(j)
<1> DEFINE p == Path(i)
           q == Path(j)
<1>1. p \in Seq(Names) /\ q \in Seq(Names) /\ Len(p) = Len(q) /\ \A k \in 1..Len(p) : p[k] = q[k]
  BY PathFacts
<1> HIDE DEF p, q
<1>2. p = q
  BY <1>1
<1> QED
  BY <1>2 DEF p, q

\* A member whose directories arrive where those of a visible one do is in the
\* same directory: find has gone through no other between them.
LEMMA SameDirectory ==
    ASSUME NEW tree, NEW i \in Members, TreeInv(tree, i - 1), Visible(i),
           NEW f \in 1..i - 1, Arrives(tree, f, Parent(tree, Path(i)))
    PROVE  /\ Len(Path(f)) = Len(Path(i))
           /\ \A l \in 1..Len(Path(i)) - 1 : Path(f)[l] = Path(i)[l]
<1> DEFINE L == Len(Path(i))
           Lf == Len(Path(f))
           m == Parent(tree, Path(i))
<1>1. tree \in Trees /\ VisibleFound(tree, i - 1) /\ i \in Nat /\ L \in Nat /\ L > 0
  BY PathFacts DEF TreeInv
<1>2. f \in Members /\ f \in Nat
  BY <1>1, PathFacts DEF Members
<1>3. Lf \in Nat /\ Lf > 0
  BY <1>2, PathFacts
<1>4. Way(tree, Path(f))[Lf - 1] = m /\ \A k \in 0..Lf - 2 : Way(tree, Path(f))[k] # m
  BY DEF Arrives, Parent
<1>5. Way(tree, Path(i))[0] = 1 /\ Way(tree, Path(f))[0] = 1 /\ m = Way(tree, Path(i))[L - 1]
  BY <1>1, <1>3, WaySteps DEF Parent
<1> HIDE DEF m
<1>6. CASE L = 1
  <2>1. m = 1
    BY <1>5, <1>6
  <2>2. Lf = 1
    <3> SUFFICES ASSUME Lf # 1
                 PROVE  FALSE
      OBVIOUS
    <3>1. 0 \in 0..Lf - 2
      <4> HIDE DEF Lf
      <4> QED
        BY <1>3
    <3> QED
      BY <1>4, <1>5, <2>1, <3>1
  <2> QED
    BY <1>6, <2>2
<1>7. CASE L > 1
  <2>1. L - 1 \in 1..L - 1
    BY <1>1, <1>7
  <2>2. PICK d \in 1..i - 1 : /\ d \in Members
                              /\ Len(Path(d)) = L - 1 /\ \A l \in 1..L - 1 : Path(d)[l] = Path(i)[l]
    BY <2>1, DirectoryOf
  <2>3. /\ Len(Path(d)) < Len(Path(i)) /\ Len(Path(d)) <= Len(Path(i)) /\ d \in Nat
        /\ L - 1 \in 0..Len(Path(d)) /\ \A l \in 1..Len(Path(d)) : Path(d)[l] = Path(i)[l]
    BY <1>1, <1>7, <2>2
  <2>4. Visible(d)
    BY <2>2, <2>3, VisibleParent
  <2>5. Way(tree, Path(d))[L - 1] = m
    BY <1>1, <1>5, <2>2, <2>3, WayOfDirectory
  <2>6. Owner(tree, m, d)
    BY <1>1, <2>2, <2>4, <2>5 DEF VisibleFound
  <2>7. m \in 2..Len(tree) /\ \A j \in 1..d - 1 : \A k \in 0..Len(Path(j)) : Way(tree, Path(j))[k] # m
    BY <2>6 DEF Owner, Fresh
  <2>8. Lf > 1
    <3> SUFFICES ASSUME Lf = 1
                 PROVE  FALSE
      <4> HIDE DEF Lf
      <4> QED
        BY <1>3
    <3>1. m = 1
      BY <1>4, <1>5
    <3>2. Len(tree) \in Nat
      BY <1>1, TreeFacts
    <3> QED
      BY <2>7, <3>1, <3>2
  <2>9. Lf - 1 \in 1..Lf - 1
    BY <1>3, <2>8
  <2>10. PICK g \in 1..f - 1 : /\ g \in Members
                               /\ Len(Path(g)) = Lf - 1 /\ \A l \in 1..Lf - 1 : Path(g)[l] = Path(f)[l]
    BY <1>2, <2>9, DirectoryOf
  <2>11. /\ Len(Path(g)) <= Lf /\ Lf - 1 \in 0..Len(Path(g)) /\ g \in Nat
         /\ \A l \in 1..Len(Path(g)) : Path(g)[l] = Path(f)[l]
    BY <1>3, <2>9, <2>10
  <2>12. \A k \in 0..Len(Path(g)) : Way(tree, Path(g))[k] = Way(tree, Path(f))[k]
    BY <1>1, <1>2, <2>10, <2>11, WayOfDirectory
  <2>13. Way(tree, Path(g))[Lf - 1] = m
    BY <1>4, <2>11, <2>12
  <2>14. ~(g < d)
    <3> SUFFICES ASSUME g < d
                 PROVE  FALSE
      OBVIOUS
    <3>1. g \in 1..d - 1
      BY <2>3, <2>11
    <3> QED
      BY <2>7, <2>11, <2>13, <3>1
  <2>15. ~(g > d)
    <3> SUFFICES ASSUME g > d
                 PROVE  FALSE
      OBVIOUS
    <3>1. g \in d + 1..i - 1 /\ d \in 1..i - 1 /\ d \in 1..g - 1
      BY <1>1, <1>2, <2>3, <2>11
    <3>2. Path(d) \in Seq(Names) /\ Path(i) \in Seq(Names) /\ Path(g) \in Seq(Names)
      BY <2>2, <2>10, PathFacts
    <3>3. IsPrefix(Path(d), Path(i))
      BY <2>3, <3>2, PrefixIs
    <3>4. IsPrefix(Path(d), Path(g))
      BY <3>1, <3>3, FindAssumption DEF Path, Members
    <3>5. Len(Path(d)) <= Len(Path(g)) /\ \A k \in 1..Len(Path(d)) : Path(d)[k] = Path(g)[k]
      BY <3>2, <3>4, PrefixIs
    <3>6. Len(Path(d)) # Len(Path(g))
      BY <2>2, <2>10, <3>1, <3>5, SamePath, PathsDiffer
    <3>7. L - 1 \in 0..Lf - 2 /\ L - 1 \in 0..Len(Path(g))
      BY <1>1, <1>3, <2>2, <2>3, <2>10, <2>11, <3>5, <3>6
    <3>8. Way(tree, Path(d))[L - 1] = Way(tree, Path(g))[L - 1]
      BY <1>1, <2>2, <2>3, <2>10, <3>5, WayOfDirectory
    <3>9. Way(tree, Path(g))[L - 1] = Way(tree, Path(f))[L - 1]
      BY <2>12, <3>7
    <3> QED
      BY <1>4, <2>5, <3>7, <3>8, <3>9
  <2>16. g = d
    BY <2>3, <2>11, <2>14, <2>15
  <2>17. Lf = L
    <3>1. L - 1 = Lf - 1
      BY <2>2, <2>10, <2>16
    <3> HIDE DEF L, Lf
    <3> QED
      BY <1>1, <1>3, <3>1
  <2>18. \A l \in 1..L - 1 : Path(f)[l] = Path(i)[l]
    BY <2>2, <2>10, <2>16, <2>17
  <2> QED
    BY <2>17, <2>18
<1>8. L = 1 \/ L > 1
  <2> HIDE DEF L
  <2> QED
    BY <1>1
<1> QED
  BY <1>6, <1>7, <1>8

\* The children where a visible member goes are other members of its directory,
\* and none of them has a name that begins with its own.
LEMMA ChildOfParent ==
    ASSUME NEW tree, NEW i \in Members, TreeInv(tree, i - 1), Visible(i),
           NEW n \in 1..Len(tree[Parent(tree, Path(i))].family)
    PROVE  /\ tree[tree[Parent(tree, Path(i))].family[n]].inodeName
                \in Siblings(i, Len(Path(i))) \ {Path(i)[Len(Path(i))]}
           /\ ~Hit(tree, Parent(tree, Path(i)), Last(Path(i)), n)
<1> DEFINE L == Len(Path(i))
           m == Parent(tree, Path(i))
           x == tree[tree[m].family[n]].inodeName
<1>1. /\ tree \in Trees /\ ChildrenArrived(tree, i - 1) /\ i \in Nat /\ L \in Nat /\ L > 0
      /\ Last(Path(i)) = Path(i)[L] /\ Path(i) \in Seq(Names)
  BY PathFacts DEF TreeInv
<1>2. m \in 1..Len(tree)
  BY <1>1, WaySteps DEF Parent
<1>3. PICK f \in 1..i - 1 : MadeFor(tree[tree[m].family[n]], f) /\ Arrives(tree, f, m)
  BY <1>1, <1>2 DEF ChildrenArrived
<1>4. Len(Path(f)) = L /\ \A l \in 1..L - 1 : Path(f)[l] = Path(i)[l]
  BY <1>3, SameDirectory
<1>5. f \in Members
  BY <1>1, PathFacts DEF Members
<1>6. x = Path(f)[L] /\ Path(f) \in Seq(Names)
  BY <1>3, <1>4, <1>5, PathFacts DEF MadeFor
<1>7. SubSeq(Path(f), 1, L - 1) = SubSeq(Path(i), 1, L - 1)
  <2> DEFINE p == Path(f)
             q == Path(i)
             M == L
  <2>1. /\ p \in Seq(Names) /\ q \in Seq(Names) /\ M \in Nat /\ M > 0 /\ Len(p) = M /\ Len(q) = M
        /\ \A l \in 1..M - 1 : p[l] = q[l]
    BY <1>1, <1>4, <1>6
  <2> HIDE DEF p, q, M
  <2>2. SubSeq(p, 1, M - 1) = SubSeq(q, 1, M - 1)
    <3>1. SubSeq(p, 1, M - 1) = [l \in 1..M - 1 |-> p[l]]
      BY <2>1
    <3>2. SubSeq(q, 1, M - 1) = [l \in 1..M - 1 |-> q[l]]
      BY <2>1
    <3> QED
      BY <2>1, <3>1, <3>2
  <2> QED
    BY <2>2 DEF p, q, M
<1>8. x \in Siblings(i, L)
  <2>1. Len(Path(f)) >= L
    BY <1>1, <1>4
  <2> HIDE DEF L, x
  <2> QED
    BY <1>6, <1>7, <2>1 DEF Siblings, Path
<1>9. x # Path(i)[L]
  <2> SUFFICES ASSUME x = Path(i)[L]
               PROVE  FALSE
    OBVIOUS
  <2>1. \A l \in 1..L : Path(f)[l] = Path(i)[l]
    <3> TAKE l \in 1..L
    <3>1. l \in 1..L - 1 \/ l = L
      BY <1>1
    <3> QED
      BY <1>4, <1>6, <3>1
  <2> QED
    BY <1>4, <1>5, <2>1, SamePath, PathsDiffer
<1>10. ~IsPrefix(Path(i)[L], x)
  <2>1. L \in 1..L
    BY <1>1
  <2>2. \A name \in Siblings(i, L) : IsPrefix(Path(i)[L], name) => name = Path(i)[L]
    BY <2>1 DEF Visible, Path
  <2> QED
    BY <1>8, <1>9, <2>2
<1>11. ~Hit(tree, m, Last(Path(i)), n)
  BY <1>1, <1>10 DEF Hit, SameName
<1> QED
  BY <1>8, <1>9, <1>11

\* A visible member is put into the tree.
LEMMA VisibleHasRoom ==
    ASSUME NEW tree, NEW i \in Members, TreeInv(tree, i - 1), Visible(i)
    PROVE  ~Dropped(tree, Path(i))
<1> DEFINE L == Len(Path(i))
           m == Parent(tree, Path(i))
           N == Len(tree[m].family)
           S == Siblings(i, L) \ {Path(i)[L]}
           g == [n \in 1..N |-> tree[tree[m].family[n]].inodeName]
<1>1. tree \in Trees /\ DistinctNames(tree) /\ L \in Nat /\ L > 0
  BY PathFacts DEF TreeInv
<1>2. m \in 1..Len(tree)
  BY <1>1, WaySteps DEF Parent
<1>3. N \in Nat
  BY <1>1, <1>2, TreeFacts
<1>4. \A n \in 1..N : tree[tree[m].family[n]].inodeName \in S /\ ~Hit(tree, m, Last(Path(i)), n)
  BY ChildOfParent
<1>5. findFamily(tree, m, Last(Path(i))) = 0
  BY <1>1, <1>2, <1>4, FindFirst
<1>6. \A a, b \in 1..N : g[a] = g[b] => a = b
  BY <1>1, <1>2 DEF DistinctNames
<1>7. g \in [1..N -> S]
  BY <1>4
<1>8. g \in Injection(1..N, S)
  <2> HIDE DEF g, S, N
  <2> QED
    BY <1>6, <1>7 DEF Injection, IsInjective
<1>9. IsFiniteSet(S)
  BY SiblingsFinite, FS_RemoveElement
<1>10. Cardinality(S) < MAX_FAMILY - 1
  <2>1. L \in 1..L
    BY <1>1
  <2> QED
    BY <2>1 DEF Visible, Path
<1> HIDE DEF S, g, N
<1>11. Cardinality(1..N) <= Cardinality(S) /\ Cardinality(S) \in Nat
  BY <1>8, <1>9, FS_Injection, FS_CardinalityType
<1>12. Cardinality(1..N) = N
  <2>1. 1 \in Int /\ N \in Int
    BY <1>3
  <2>2. Cardinality(1..N) = IF 1 > N THEN 0 ELSE N - 1 + 1
    BY <2>1, FS_Interval
  <2> QED
    BY <1>3, <2>2
<1>13. ~(N + 1 >= MAX_FAMILY)
  <2>1. MAX_FAMILY \in Nat
    BY ArchiveAssumption
  <2> QED
    BY <1>3, <1>10, <1>11, <1>12, <2>1
<1> QED
  BY <1>5, <1>13 DEF Dropped, FamilyFull, N

\* A settled front and a child or no room for the last name.
LEMMA LastSettles ==
    ASSUME NEW tree, NEW i \in Members, SettledFront(tree, Path(i)), Dropped(tree, Path(i))
    PROVE  Settled(tree, Path(i))
<1> DEFINE L == Len(Path(i))
<1>1. L \in Nat /\ L > 0 /\ Last(Path(i)) = Path(i)[L]
  BY PathFacts
<1> SUFFICES ASSUME NEW k \in 1..L
             PROVE  \/ findFamily(tree, Way(tree, Path(i))[k - 1], Path(i)[k]) # 0
                    \/ FamilyFull(tree, Way(tree, Path(i))[k - 1])
  BY DEF Settled
<1>2. k \in 1..L - 1 \/ k = L
  BY <1>1
<1>3. CASE k \in 1..L - 1
  BY <1>3 DEF SettledFront
<1>4. CASE k = L
  BY <1>1, <1>4 DEF Dropped, Parent
<1> QED
  BY <1>2, <1>3, <1>4

\* A member that is dropped leaves a tree that is right for it, too.
LEMMA KeptKeeps ==
    ASSUME NEW tree, NEW i \in Members, TreeInv(tree, i - 1), Dropped(tree, Path(i))
    PROVE  TreeInv(tree, i)
<1>1. i \in Nat /\ \A j \in 1..i : j \in 1..i - 1 \/ j = i
  BY PathFacts
<1>2. \A j \in 1..i - 1 : j \in 1..i
  BY <1>1
<1>3. AllSettled(tree, i)
  <2>1. SettledFront(tree, Path(i))
    BY FrontIsSettled DEF TreeInv
  <2>2. Settled(tree, Path(i))
    BY <2>1, LastSettles
  <2> QED
    BY <1>1, <2>2 DEF AllSettled, TreeInv
<1>4. Owned(tree, i)
  BY <1>2 DEF TreeInv, Owned
<1>5. ChildrenArrived(tree, i)
  BY <1>2 DEF TreeInv, ChildrenArrived
<1>6. VisibleFound(tree, i)
  <2>1. ~Visible(i)
    BY VisibleHasRoom
  <2> QED
    BY <1>1, <2>1 DEF TreeInv, VisibleFound
<1> QED
  BY <1>3, <1>4, <1>5, <1>6 DEF TreeInv

\* The step keeps the way of every member settled.
LEMMA GrowSettles ==
    ASSUME NEW tree, NEW u, NEW i, GrowStep(tree, u, i)
    PROVE  AllSettled(u, i)
<1> DEFINE L == Len(Path(i))
<1>1. i \in Members /\ u \in Trees
  BY DEF GrowStep, Grows
<1>2. /\ i \in Nat /\ L \in Nat /\ L > 0 /\ L - 1 \in 0..L - 1
      /\ \A j \in 1..i : j \in 1..i - 1 \/ j = i
  BY <1>1, PathFacts
<1>3. AllSettled(u, i - 1)
  BY WaysStay DEF AllSettled
<1>4. SettledFront(u, Path(i))
  BY <1>1, <1>3, FrontIsSettled
<1>5. Parent(u, Path(i)) = Parent(tree, Path(i))
  BY <1>2, WaysStay DEF Parent
<1>6. Dropped(u, Path(i))
  BY <1>5, WaysStay DEF Dropped
<1> QED
  BY <1>1, <1>2, <1>3, <1>4, <1>6, LastSettles DEF AllSettled

\* Brothers have different names: a name that is there would have been found.
LEMMA GrowDistinct ==
    ASSUME NEW tree, NEW u, NEW i, GrowStep(tree, u, i)
    PROVE  DistinctNames(u)
<1> DEFINE N == Len(tree)
           m == Parent(tree, Path(i))
<1>1. /\ tree \in Trees /\ DistinctNames(tree) /\ i \in Members
      /\ Grows(tree, u, m, Last(Path(i)), MemberInode(i))
  BY DEF GrowStep, TreeInv
<1>2. /\ m \in 1..N /\ findFamily(tree, m, Last(Path(i))) = 0 /\ Len(tree[m].family) \in Nat
      /\ u[N + 1].inodeName = Last(Path(i))
  <2>1. m \in 1..N /\ findFamily(tree, m, Last(Path(i))) = 0
    BY <1>1 DEF Grows
  <2>2. u[N + 1].inodeName = Last(Path(i))
    BY OwnersStay DEF MadeFor
  <2> QED
    BY <1>1, <2>1, <2>2, TreeFacts
<1>3. \A k \in 1..Len(tree[m].family) : tree[tree[m].family[k]].inodeName # Last(Path(i))
  <2> TAKE k \in 1..Len(tree[m].family)
  <2>1. ~Hit(tree, m, Last(Path(i)), k)
    BY <1>1, <1>2, FindFirst
  <2>2. IsPrefix(Last(Path(i)), Last(Path(i)))
    BY <1>1, PathFacts, PrefixIs DEF Names
  <2> QED
    BY <2>1, <2>2 DEF Hit, SameName
<1> SUFFICES ASSUME NEW p \in 1..Len(u), NEW a \in 1..Len(u[p].family), NEW b \in 1..Len(u[p].family),
                    u[u[p].family[a]].inodeName = u[u[p].family[b]].inodeName
             PROVE  a = b
  BY DEF DistinctNames
<1> DEFINE Old(k) == /\ p \in 1..N /\ k \in 1..Len(tree[p].family)
                     /\ u[p].family[k] = tree[p].family[k] /\ tree[p].family[k] \in 1..N
                     /\ u[tree[p].family[k]].inodeName = tree[tree[p].family[k]].inodeName
           New(k) == p = m /\ k = Len(tree[p].family) + 1 /\ u[p].family[k] = N + 1
<1>4. (Old(a) \/ New(a)) /\ (Old(b) \/ New(b))
  BY FamilyAfter
<1>5. CASE Old(a) /\ Old(b)
  BY <1>1, <1>5 DEF DistinctNames
<1>6. CASE New(a) /\ New(b)
  BY <1>6
<1>7. CASE Old(a) /\ New(b)
  BY <1>2, <1>3, <1>7
<1>8. CASE New(a) /\ Old(b)
  BY <1>2, <1>3, <1>8
<1> QED
  BY <1>4, <1>5, <1>6, <1>7, <1>8

\* Visible members are found, the new one in directories that are visible.
LEMMA GrowFinds ==
    ASSUME NEW tree, NEW u, NEW i, GrowStep(tree, u, i)
    PROVE  VisibleFound(u, i)
<1> DEFINE L == Len(Path(i))
<1>1. i \in Members /\ tree \in Trees /\ u \in Trees /\ VisibleFound(tree, i - 1)
  BY DEF GrowStep, Grows, TreeInv
<1>2. /\ i \in Nat /\ L \in Nat /\ L > 0 /\ L - 1 \in 0..L - 1 /\ Last(Path(i)) = Path(i)[L]
      /\ \A j \in 1..i : j \in 1..i - 1 \/ j = i
  BY <1>1, PathFacts
<1>3. ASSUME NEW j \in 1..i - 1, Visible(j)
      PROVE  AllFound(u, Path(j)) /\ Owner(u, Way(u, Path(j))[Len(Path(j))], j)
  <2>1. AllFound(tree, Path(j)) /\ Owner(tree, Way(tree, Path(j))[Len(Path(j))], j)
    BY <1>1, <1>3 DEF VisibleFound
  <2>2. j \in Members
    BY <1>1, <1>2, PathFacts DEF Members
  <2>3. Len(Path(j)) \in 0..Len(Path(j))
    BY <2>2, PathFacts
  <2>4. Way(u, Path(j))[Len(Path(j))] = Way(tree, Path(j))[Len(Path(j))]
    BY <2>3, WaysStay
  <2> QED
    BY <2>1, <2>4, WaysStay, OwnersStay
<1>4. ASSUME Visible(i)
      PROVE  AllFound(u, Path(i)) /\ Owner(u, Way(u, Path(i))[L], i)
  <2>1. Owner(u, Way(u, Path(i))[L], i)
    BY WaysStay, OwnersStay
  <2>2. ASSUME NEW k \in 1..L - 1
        PROVE  findFamily(u, Way(u, Path(i))[k - 1], Path(i)[k]) # 0
    <3>1. PICK d \in 1..i - 1 : /\ d \in Members /\ Len(Path(d)) = k
                                /\ \A l \in 1..k : Path(d)[l] = Path(i)[l]
      BY <1>1, DirectoryOf
    <3>2. /\ Len(Path(d)) < L /\ Len(Path(d)) <= L /\ k \in 1..Len(Path(d)) /\ k - 1 \in 0..Len(Path(d))
          /\ \A l \in 1..Len(Path(d)) : Path(d)[l] = Path(i)[l]
      BY <1>2, <3>1
    <3>3. Visible(d)
      BY <1>1, <1>4, <3>1, <3>2, VisibleParent
    <3>4. findFamily(u, Way(u, Path(d))[k - 1], Path(d)[k]) # 0
      BY <1>3, <3>2, <3>3 DEF AllFound
    <3>5. Way(u, Path(d))[k - 1] = Way(u, Path(i))[k - 1]
      BY <1>1, <3>1, <3>2, WayOfDirectory
    <3> QED
      BY <3>2, <3>4, <3>5
  <2>3. findFamily(u, Way(u, Path(i))[L - 1], Path(i)[L]) # 0
    BY <1>2, WaysStay DEF Parent
  <2>4. \A k \in 1..L : k \in 1..L - 1 \/ k = L
    BY <1>2
  <2> QED
    BY <2>1, <2>2, <2>3, <2>4 DEF AllFound
<1> QED
  BY <1>2, <1>3, <1>4 DEF VisibleFound

\* A member that is put into the tree leaves a tree that is right for it.
LEMMA GrowKeeps ==
    ASSUME NEW tree, NEW u, NEW i, GrowStep(tree, u, i)
    PROVE  TreeInv(u, i)
<1> DEFINE N == Len(tree)
           m == Parent(tree, Path(i))
<1>1. /\ tree \in Trees /\ u \in Trees /\ i \in Members /\ tree[1].type = DIR
      /\ Owned(tree, i - 1) /\ ChildrenArrived(tree, i - 1)
      /\ N \in Nat /\ N > 0 /\ Len(u) = N + 1
      /\ \A n \in 1..N : SameData(u[n], tree[n])
  BY TreeFacts DEF GrowStep, TreeInv, Grows
<1>2. i \in Nat /\ i \in 1..i /\ \A f \in 1..i - 1 : f \in 1..i
  BY <1>1, PathFacts
<1>3. u[1].type = DIR
  BY <1>1 DEF SameData
<1>4. Owned(u, i)
  <2> SUFFICES ASSUME NEW n \in 2..Len(u)
               PROVE  \E f \in 1..i : Owner(u, n, f)
    BY DEF Owned
  <2>1. n \in 2..N \/ n = N + 1
    BY <1>1
  <2> QED
    BY <1>1, <1>2, <2>1, OwnersStay DEF Owned
<1>5. ChildrenArrived(u, i)
  <2> SUFFICES ASSUME NEW p \in 1..Len(u), NEW k \in 1..Len(u[p].family)
               PROVE  \E f \in 1..i : MadeFor(u[u[p].family[k]], f) /\ Arrives(u, f, p)
    BY DEF ChildrenArrived
  <2>1. CASE /\ p \in 1..N /\ k \in 1..Len(tree[p].family)
             /\ u[p].family[k] = tree[p].family[k] /\ tree[p].family[k] \in 1..N
    <3>1. PICK f \in 1..i - 1 : MadeFor(tree[tree[p].family[k]], f) /\ Arrives(tree, f, p)
      BY <1>1, <2>1 DEF ChildrenArrived
    <3>2. MadeFor(u[tree[p].family[k]], f)
      <4> DEFINE c == tree[p].family[k]
      <4>1. c \in 1..Len(tree) /\ MadeFor(tree[c], f)
        BY <2>1, <3>1
      <4>2. \A n \in 1..Len(tree) : \A e : MadeFor(tree[n], e) => MadeFor(u[n], e)
        BY OwnersStay
      <4> HIDE DEF c
      <4>3. MadeFor(u[c], f)
        BY <4>1, <4>2
      <4> QED
        BY <4>3 DEF c
    <3>3. Arrives(u, f, p)
      BY <3>1, ArrivalsStay
    <3> QED
      BY <1>2, <2>1, <3>2, <3>3
  <2>2. CASE p = m /\ u[p].family[k] = N + 1
    <3>1. MadeFor(u[N + 1], i)
      BY OwnersStay
    <3>2. Arrives(u, i, m)
      BY NewArrives
    <3> QED
      BY <1>2, <2>2, <3>1, <3>2
  <2> QED
    BY <2>1, <2>2, FamilyAfter
<1> QED
  BY <1>1, <1>3, <1>4, <1>5, GrowSettles, GrowDistinct, GrowFinds DEF TreeInv

-----------------------------------------------------------------------------
(* Files have no children. *)

Leaves(tree) == \A n \in 1..Len(tree) : tree[n].type = FILE => tree[n].family = <<>>

\* The beginning of a directory's path is the path of a directory that is not
\* listed after it.
LEMMA DirectoryUpTo ==
    ASSUME NEW d \in Members, Archive[d].type = DIR, NEW k \in 1..Len(Path(d))
    PROVE  \E e \in 1..d : /\ e \in Members /\ Archive[e].type = DIR /\ Len(Path(e)) = k
                           /\ \A l \in 1..k : Path(e)[l] = Path(d)[l]
<1>1. d \in Nat /\ d > 0 /\ Len(Path(d)) \in Nat
  BY PathFacts
<1>2. CASE k = Len(Path(d))
  BY <1>1, <1>2
<1>3. CASE k \in 1..Len(Path(d)) - 1
  <2>1. PICK e \in 1..d - 1 : /\ e \in Members /\ Archive[e].type = DIR /\ Len(Path(e)) = k
                              /\ \A l \in 1..k : Path(e)[l] = Path(d)[l]
    BY <1>3, DirectoryOf
  <2>2. e \in 1..d
    BY <1>1
  <2> QED
    BY <2>1, <2>2
<1> QED
  BY <1>1, <1>2, <1>3

\* The way of a directory goes through directories.
LEMMA DirectoryWay ==
    ASSUME NEW tree, NEW c \in 0..Len(Archive), TreeInv(tree, c), NoFileHides,
           NEW d \in 1..c, Archive[d].type = DIR
    PROVE  \A k \in 0..Len(Path(d)) : tree[Way(tree, Path(d))[k]].type = DIR
<1> DEFINE N == Len(Path(d))
           w == Way(tree, Path(d))
           T == {k \in 0..N : tree[w[k]].type = DIR}
<1>1. tree \in Trees /\ tree[1].type = DIR /\ Owned(tree, c) /\ Len(Archive) \in Nat
  BY MemberType DEF TreeInv
<1>2. d \in Members /\ c \in Nat /\ d \in Nat
  BY <1>1 DEF Members
<1>3. N \in Nat /\ Len(tree) \in Nat
  BY <1>1, <1>2, PathFacts, TreeFacts
<1>4. /\ w[0] = 1 /\ \A k \in 1..N : w[k] = Goes(tree, w[k - 1], Path(d)[k])
      /\ \A k \in 0..N : w[k] \in 1..Len(tree)
  BY <1>1, <1>3, WaySteps
<1>5. 0 \in T
  BY <1>1, <1>3, <1>4
<1>6. ASSUME NEW k \in 1..N, k - 1 \in T
      PROVE  k \in T
  <2> DEFINE n == w[k]
             p == w[k - 1]
             name == Path(d)[k]
             i == findFamily(tree, p, name)
  <2>1. /\ p \in 1..Len(tree) /\ n \in 1..Len(tree) /\ n = Goes(tree, p, name)
        /\ tree[p].type = DIR /\ k \in 0..N
    BY <1>3, <1>4, <1>6
  <2>2. CASE i = 0
    <3>1. n = p
      BY <1>1, <2>1, <2>2, GoesUp
    <3> QED
      BY <2>1, <3>1
  <2>3. CASE i # 0
    <3>1. n = tree[p].family[i] /\ n > p /\ i \in 1..Len(tree[p].family) /\ Hit(tree, p, name, i)
      BY <1>1, <2>1, <2>3, GoesUp, FindFirst
    <3>2. IsPrefix(name, tree[n].inodeName)
      BY <3>1 DEF Hit, SameName
    <3>3. n \in 2..Len(tree)
      <4> HIDE DEF n, p
      <4> QED
        BY <1>3, <2>1, <3>1
    <3>4. PICK f \in 1..c : MadeFor(tree[n], f) /\ Fresh(tree, n, f)
      BY <1>1, <3>3 DEF Owned, Owner
    <3>5. f \in Members /\ f \in Nat
      BY <1>1, <1>2 DEF Members
    <3>6. tree[n].inodeName = Last(Path(f)) /\ tree[n].type = Archive[f].type
      BY <3>4 DEF MadeFor
    <3>7. PICK e \in 1..d : /\ e \in Members /\ Archive[e].type = DIR /\ Len(Path(e)) = k
                            /\ \A l \in 1..k : Path(e)[l] = Path(d)[l]
      BY <1>2, DirectoryUpTo
    <3>8. /\ Len(Path(e)) <= Len(Path(d)) /\ k \in 0..Len(Path(e)) /\ k \in 1..k /\ e \in Nat
          /\ \A l \in 1..Len(Path(e)) : Path(e)[l] = Path(d)[l]
      BY <1>2, <1>3, <3>7
    <3>9. Way(tree, Path(e))[k] = n
      BY <1>1, <1>2, <3>7, <3>8, WayOfDirectory
    <3>10. Last(Path(e)) = name
      BY <3>7, <3>8, PathFacts
    <3>11. ~(e < f)
      <4> SUFFICES ASSUME e < f
                   PROVE  FALSE
        OBVIOUS
      <4>1. e \in 1..f - 1
        BY <3>5, <3>8
      <4> QED
        BY <3>4, <3>8, <3>9, <4>1 DEF Fresh
    <3>12. Archive[f].type = DIR
      <4>1. CASE e = f
        BY <3>7, <4>1
      <4>2. CASE f < e
        <5>1. f \in 1..e - 1 /\ e \in 1..Len(Archive)
          BY <3>5, <3>7, <3>8, <4>2 DEF Members
        <5>2. ~(Archive[f].type = FILE)
          BY <3>2, <3>6, <3>7, <3>10, <5>1 DEF NoFileHides, Path
        <5>3. Archive[f].type \in {DIR, FILE}
          BY <3>5, MemberInodeOK
        <5> QED
          BY <5>2, <5>3
      <4> QED
        BY <3>5, <3>8, <3>11, <4>1, <4>2
    <3> QED
      BY <2>1, <3>6, <3>12
  <2> QED
    BY <2>2, <2>3
<1>7. \A k \in 0..N : k \in T
  <2> HIDE DEF T
  <2> QED
    BY <1>3, <1>5, <1>6, IntervalInduction
<1> QED
  BY <1>7

\* A member is put into a directory: files stay without children.
LEMMA GrowLeaves ==
    ASSUME NEW tree, NEW u, NEW i, GrowStep(tree, u, i), NoFileHides, Leaves(tree)
    PROVE  Leaves(u)
<1> DEFINE N == Len(tree)
           L == Len(Path(i))
           m == Parent(tree, Path(i))
<1>1. /\ tree \in Trees /\ u \in Trees /\ i \in Members /\ TreeInv(tree, i - 1)
      /\ N \in Nat /\ Len(u) = N + 1 /\ m \in 1..N
      /\ \A n \in 1..N : SameData(u[n], tree[n])
      /\ \A n \in 1..N : n # m => u[n].family = tree[n].family
      /\ u[N + 1].family = <<>>
  BY TreeFacts DEF GrowStep, Grows, TreeInv
<1>2. L \in Nat /\ L > 0 /\ i \in Nat /\ i - 1 \in 0..Len(Archive)
  BY <1>1, PathFacts
<1>3. tree[m].type = DIR
  <2>1. CASE L = 1
    <3>1. L - 1 = 0
      BY <2>1
    <3>2. m = 1
      BY <1>1, <1>2, <3>1, WaySteps DEF Parent
    <3> QED
      BY <1>1, <3>2 DEF TreeInv
  <2>2. CASE L > 1
    <3>1. L - 1 \in 1..L - 1
      BY <1>2, <2>2
    <3>2. PICK d \in 1..i - 1 : /\ d \in Members /\ Archive[d].type = DIR /\ Len(Path(d)) = L - 1
                                /\ \A l \in 1..L - 1 : Path(d)[l] = Path(i)[l]
      BY <1>1, <3>1, DirectoryOf
    <3>3. Len(Path(d)) <= Len(Path(i)) /\ L - 1 \in 0..Len(Path(d))
      BY <1>2, <3>1, <3>2
    <3>4. Way(tree, Path(d))[L - 1] = m
      BY <1>1, <3>2, <3>3, WayOfDirectory DEF Parent
    <3>5. \A k \in 0..Len(Path(d)) : tree[Way(tree, Path(d))[k]].type = DIR
      BY <1>1, <1>2, <3>2, DirectoryWay
    <3> QED
      BY <3>3, <3>4, <3>5
  <2>3. L = 1 \/ L > 1
    <3> HIDE DEF L
    <3> QED
      BY <1>2
  <2> QED
    BY <2>1, <2>2, <2>3
<1> SUFFICES ASSUME NEW n \in 1..Len(u), u[n].type = FILE
             PROVE  u[n].family = <<>>
  BY DEF Leaves
<1>4. n \in 1..N \/ n = N + 1
  BY <1>1
<1>5. CASE n \in 1..N
  <2>1. tree[n].type = FILE
    BY <1>1, <1>5 DEF SameData
  <2>2. n # m
    BY <1>3, <2>1 DEF DIR, FILE
  <2> QED
    BY <1>1, <1>5, <2>1, <2>2 DEF Leaves
<1> QED
  BY <1>1, <1>4, <1>5

-----------------------------------------------------------------------------
(* The walk over the archive builds such a tree. *)

Ready(tree, c) == TreeInv(tree, c) /\ (NoFileHides => Leaves(tree))

\* One turn of init_tarfs at a member.
LEMMA MemberInserted ==
    ASSUME NEW tree, NEW i \in Members, Ready(tree, i - 1)
    PROVE  Ready(InsertIntoRoot(tree, Path(i), Place[i] + HEADER, Place[i] + HEADER + Archive[i].size,
                                Archive[i].type), i)
<1> DEFINE a == Place[i] + HEADER
           e == Place[i] + HEADER + Archive[i].size
           type == Archive[i].type
           u == InsertIntoRoot(tree, Path(i), a, e, type)
<1>1. TreeInv(tree, i - 1) /\ tree \in Trees /\ AllSettled(tree, i - 1) /\ (NoFileHides => Leaves(tree))
  BY DEF Ready, TreeInv
<1>2. SettledFront(tree, Path(i))
  BY <1>1, FrontIsSettled
<1>3. a \in Nat /\ e \in Nat /\ a <= e /\ e <= ArchiveEnd /\ type \in {DIR, FILE}
  BY MemberInodeOK
<1>4. Path(i) \in Seq(Names) /\ Path(i) # <<>>
  BY PathFacts
<1>5. MemberInode(i) = NewInode(a, e, type)
  BY DEF MemberInode
<1> HIDE DEF a, e, type
<1>6. /\ Dropped(tree, Path(i)) => u = tree
      /\ ~Dropped(tree, Path(i))
           => Grows(tree, u, Parent(tree, Path(i)), Last(Path(i)), NewInode(a, e, type))
  BY <1>1, <1>2, <1>3, <1>4, InsertIs
<1> HIDE DEF u
<1>7. CASE Dropped(tree, Path(i))
  BY <1>1, <1>6, <1>7, KeptKeeps DEF Ready, u, a, e, type
<1>8. CASE ~Dropped(tree, Path(i))
  <2>1. GrowStep(tree, u, i)
    BY <1>1, <1>5, <1>6, <1>8 DEF GrowStep
  <2>2. TreeInv(u, i)
    BY <2>1, GrowKeeps
  <2>3. NoFileHides => Leaves(u)
    BY <1>1, <2>1, GrowLeaves
  <2> QED
    BY <2>2, <2>3 DEF Ready, u, a, e, type
<1> QED
  BY <1>7, <1>8

\* The tree holds the members before the header that is looked at next.
TreeReady ==
    \E c \in 0..Len(Archive) : /\ Ready(inodes, c)
                               /\ \/ header = Place[c + 1]
                                  \/ c = Len(Archive) /\ header > Place[c + 1]

\* At boot there is the root and no member has been looked at.
LEMMA ReadyAtBoot == Init => TreeReady
<1> SUFFICES ASSUME Init
             PROVE  TreeReady
  OBVIOUS
<1>1. inodes \in Trees
  BY FilesInit, InvFacts
<1>2. Len(inodes) = 1 /\ inodes[1].type = DIR /\ inodes[1].family = <<>> /\ header = 0
  BY DEF Init
<1>3. Len(inodes[1].family) = 0
  BY <1>2
<1>4. \A n \in 1..Len(inodes) : inodes[n].family = <<>> /\ Len(inodes[n].family) = 0
  BY <1>2, <1>3
<1>5. AllSettled(inodes, 0) /\ VisibleFound(inodes, 0)
  BY DEF AllSettled, VisibleFound
<1>6. Owned(inodes, 0)
  BY <1>2 DEF Owned
<1>7. ChildrenArrived(inodes, 0) /\ DistinctNames(inodes)
  BY <1>4 DEF ChildrenArrived, DistinctNames
<1>8. Ready(inodes, 0)
  BY <1>1, <1>2, <1>4, <1>5, <1>6, <1>7 DEF Ready, TreeInv, Leaves
<1>9. header = Place[0 + 1] /\ 0 \in 0..Len(Archive)
  BY <1>2, PlaceSteps, MemberType
<1> QED
  BY <1>8, <1>9 DEF TreeReady

\* Each turn puts the member at the header into the tree, or passes a blank one.
LEMMA ReadyAfterTurn ==
    ASSUME FilesInv, TreeReady, init_tarfs
    PROVE  TreeReady'
<1> DEFINE N == Len(Archive)
           z == Place[N + 1]
<1>1. PICK c \in 0..N : /\ Ready(inodes, c)
                        /\ header = Place[c + 1] \/ (c = N /\ header > Place[c + 1])
  BY DEF TreeReady
<1>2. N \in Nat /\ HEADER \in Nat /\ HEADER > 0 /\ z \in Nat /\ c \in Nat /\ N + 1 \in 1..N + 1
  BY MemberType, PlaceSteps
<1>3. /\ header < ArchiveEnd /\ header' = NextHeader(header, Member(header).size)
      /\ inodes' = IF Member(header).name = <<>> THEN inodes
                   ELSE InsertIntoRoot(inodes, Member(header).name, header + HEADER,
                                       header + HEADER + Member(header).size, Member(header).type)
  BY DEF init_tarfs
<1>4. CASE c < N
  <2> DEFINE i == c + 1
  <2>1. i \in Members /\ i \in 0..N /\ i - 1 = c /\ header = Place[i] /\ i \in 1..N + 1
    BY <1>1, <1>2, <1>4 DEF Members
  <2> HIDE DEF i
  <2>2. Member(header) = Archive[i]
    BY <2>1, MemberIsRead
  <2>3. Path(i) # <<>> /\ Path(i) = Archive[i].name /\ Archive[i].size \in Nat /\ Place[i] \in Nat
    BY <2>1, PathFacts, MemberType, PlaceSteps DEF Path
  <2>4. inodes' = InsertIntoRoot(inodes, Path(i), Place[i] + HEADER,
                                 Place[i] + HEADER + Archive[i].size, Archive[i].type)
    BY <1>3, <2>1, <2>2, <2>3
  <2>5. Ready(inodes', i)
    BY <1>1, <2>1, <2>4, MemberInserted
  <2>6. header' = Place[i + 1]
    <3>1. NextHeader(Place[i], Archive[i].size) = Place[i] + Extent(i)
      BY <2>3, BlocksOfSize DEF Extent
    <3> QED
      BY <1>3, <2>1, <2>2, <3>1, PlaceSteps
  <2> QED
    BY <2>1, <2>5, <2>6 DEF TreeReady, Ready, TreeInv
<1>5. CASE c = N
  <2>1. header \in HeaderPlaces
    BY InvFacts
  <2>2. header = z \/ header > z
    BY <1>1, <1>5
  <2>3. header \in {z, z + HEADER} /\ header \in Nat
    <3>1. ArchiveEnd = z + 2 * HEADER
      BY DEF ArchiveEnd
    <3>2. \A i \in 1..N + 1 : Place[i] \in Nat /\ (Place[i] < z \/ i = N + 1)
      <4> TAKE i \in 1..N + 1
      <4>1. i = N + 1 \/ (i \in Members /\ i < N + 1)
        BY <1>2 DEF Members
      <4> QED
        BY <1>2, <4>1, PlacesAscend, PlaceSteps
    <3>3. \/ \E i \in 1..N + 1 : header = Place[i]
          \/ header = z + HEADER \/ header = ArchiveEnd
      BY <2>1 DEF HeaderPlaces
    <3>4. CASE \E i \in 1..N + 1 : header = Place[i]
      <4>1. PICK i \in 1..N + 1 : header = Place[i]
        BY <3>4
      <4>2. header \in Nat /\ (header < z \/ header = z)
        BY <3>2, <4>1
      <4> HIDE DEF z
      <4> QED
        BY <1>2, <2>2, <4>2
    <3>5. CASE header = z + HEADER
      <4> HIDE DEF z
      <4> QED
        BY <1>2, <3>5
    <3>6. header # ArchiveEnd
      <4> HIDE DEF z
      <4> QED
        BY <1>2, <1>3, <3>1
    <3> QED
      BY <3>3, <3>4, <3>5, <3>6
  <2>4. Member(header) = [name |-> <<>>, type |-> DIR, size |-> 0]
    BY <2>3, BlankIsRead
  <2>5. inodes' = inodes
    BY <1>3, <2>4
  <2>6. header' = header + HEADER
    <3>1. 0 % HEADER = 0 /\ 0 \div HEADER = 0
      BY <1>2
    <3>2. header' = NextHeader(header, 0)
      BY <1>3, <2>4
    <3> QED
      BY <1>2, <3>1, <3>2 DEF NextHeader
  <2>7. header' > z
    <3> HIDE DEF z
    <3> QED
      BY <1>2, <2>3, <2>6
  <2>8. Ready(inodes', N) /\ N \in 0..N
    BY <1>1, <1>2, <1>5, <2>5
  <2> QED
    BY <2>7, <2>8 DEF TreeReady
<1> QED
  BY <1>2, <1>4, <1>5

\* The calls come after init_tarfs.
LEMMA CallOf ==
    ASSUME NEW p \in Procs, FileCall(p) \/ DirectoryCall(p) \/ ChdirCall(p) \/ ProcessCall(p)
    PROVE  Calls(p)
<1>1. FileCall(p) => Calls(p)
  BY DEF FileCall, k_open, k_close, k_read
<1>2. DirectoryCall(p) => Calls(p)
  BY DEF DirectoryCall, k_opendir, k_readdir, k_closedir
<1>3. ChdirCall(p) => Calls(p)
  BY DEF ChdirCall, ChdirAbsolute, ChdirRelative, ChdirBack
<1>4. ProcessCall(p) => Calls(p)
  BY DEF ProcessCall, syscall_fork, syscall_exec, syscall_exit, syscall_kill
<1> QED
  BY <1>1, <1>2, <1>3, <1>4

\* A step is a turn of the loop of init_tarfs or leaves the tree alone.
LEMMA BootOrCall ==
    ASSUME FilesInv, [Next]_vars
    PROVE  init_tarfs \/ (header' = header /\ inodes' = inodes)
<1>1. ASSUME NEW p \in Procs, FileCall(p) \/ DirectoryCall(p) \/ ChdirCall(p) \/ ProcessCall(p)
      PROVE  header' = header /\ inodes' = inodes
  BY <1>1, CallOf, CallsFacts
<1>2. UNCHANGED vars => header' = header /\ inodes' = inodes
  BY DEF vars
<1> QED
  BY <1>1, <1>2 DEF Next

\* The tree is right for what has been read of the archive.
LEMMA TreeInvariant == Spec => [](FilesInv /\ TreeReady)
<1>1. FilesInv /\ TreeReady /\ [Next]_vars => TreeReady'
  <2> SUFFICES ASSUME FilesInv, TreeReady, [Next]_vars
               PROVE  TreeReady'
    OBVIOUS
  <2>1. CASE init_tarfs
    BY <2>1, ReadyAfterTurn
  <2>2. CASE header' = header /\ inodes' = inodes
    BY <2>2 DEF TreeReady, Ready
  <2> QED
    BY <2>1, <2>2, BootOrCall
<1> QED
  BY <1>1, FilesInvariant, ReadyAtBoot, PTL DEF Spec

-----------------------------------------------------------------------------
(* Entries are found. *)

\* GetInode follows the way of a path on which every name is found.
LEMMA LookupFollowsWay ==
    ASSUME inodes \in Trees, NEW path, Len(path) \in Nat, AllFound(inodes, path)
    PROVE  GetInode(path) = Way(inodes, path)[Len(path)]
<1> DEFINE N == Len(path)
           w == Way(inodes, path)
<1>1. PICK f : LooksUp(f, path) /\ GetInode(path) = f[Len(path)]
  BY GetInodeLoop
<1>2. /\ w[0] = 1 /\ \A k \in 1..N : w[k] = Goes(inodes, w[k - 1], path[k])
      /\ \A k \in 0..N : w[k] \in 1..Len(inodes)
  BY WaySteps
<1>3. /\ f[0] = 1
      /\ \A k \in 1..N : f[k] = IF f[k - 1] = 0 \/ findFamily(inodes, f[k - 1], path[k]) = 0 THEN 0
                                ELSE inodes[f[k - 1]].family[findFamily(inodes, f[k - 1], path[k])]
  BY <1>1 DEF LooksUp
<1>4. \A k \in 1..N : findFamily(inodes, w[k - 1], path[k]) # 0
  BY DEF AllFound
<1>5. \A k \in 1..N : k - 1 \in 0..N
  OBVIOUS
<1> HIDE DEF w
<1>6. \A k \in 1..N : f[k - 1] = w[k - 1] => f[k] = w[k]
  <2> TAKE k \in 1..N
  <2>1. w[k - 1] \in 1..Len(inodes)
    BY <1>2, <1>5
  <2>2. w[k - 1] # 0 /\ findFamily(inodes, w[k - 1], path[k]) # 0
    BY <1>4, <2>1, TreeFacts
  <2>3. w[k] = inodes[w[k - 1]].family[findFamily(inodes, w[k - 1], path[k])]
    BY <1>2, <2>2 DEF Goes
  <2> QED
    BY <1>3, <2>2, <2>3
<1>7. N \in Nat /\ f[0] = w[0]
  BY <1>2, <1>3
<1> HIDE DEF N
<1>8. \A k \in 0..N : f[k] = w[k]
  BY ONLY <1>6, <1>7, Agree
<1>9. f[N] = w[N]
  BY <1>7, <1>8
<1> QED
  BY <1>1, <1>9 DEF w, N

\* After boot every member that is not dropped for want of room or for a
\* longer name before it is found under its path with its type and its bytes,
\* for every archive that find and tar write (init_tarfs, InsertIntoRoot,
\* GetInode).
THEOREM EntriesAreFound == Spec => []EntriesFound
<1>1. FilesInv /\ TreeReady => EntriesFound
  <2> SUFFICES ASSUME FilesInv, TreeReady, header >= ArchiveEnd, NEW i \in VisibleMembers
               PROVE  LET node == GetInode(Archive[i].name)
                      IN /\ node # 0
                         /\ inodes[node].type = Archive[i].type
                         /\ inodes[node].start = Place[i] + HEADER
                         /\ inodes[node].end = Place[i] + HEADER + Archive[i].size
    BY DEF EntriesFound
  <2> DEFINE N == Len(Archive)
             z == Place[N + 1]
  <2>1. PICK c \in 0..N : /\ Ready(inodes, c)
                          /\ header = Place[c + 1] \/ (c = N /\ header > Place[c + 1])
    BY DEF TreeReady
  <2>2. N \in Nat /\ HEADER \in Nat /\ HEADER > 0 /\ z \in Nat /\ c \in Nat
    BY MemberType, PlaceSteps
  <2>3. c = N
    <3> SUFFICES ASSUME c # N
                 PROVE  FALSE
      OBVIOUS
    <3>1. c + 1 \in Members /\ c + 1 < N + 1 /\ N + 1 \in 1..N + 1 /\ c + 1 \in 1..N + 1
      BY <2>2 DEF Members
    <3>2. Place[c + 1] < z /\ Place[c + 1] \in Nat
      BY <3>1, PlacesAscend, PlaceSteps
    <3>3. ArchiveEnd = z + 2 * HEADER
      BY DEF ArchiveEnd
    <3>4. header = Place[c + 1]
      BY <2>1
    <3> HIDE DEF z
    <3> QED
      BY <2>2, <3>2, <3>3, <3>4
  <2>4. i \in Members /\ i \in 1..N /\ Visible(i)
    BY DEF VisibleMembers, Members
  <2>5. inodes \in Trees /\ VisibleFound(inodes, N)
    BY <2>1, <2>3 DEF Ready, TreeInv
  <2> DEFINE n == Way(inodes, Path(i))[Len(Path(i))]
  <2>6. AllFound(inodes, Path(i)) /\ Owner(inodes, n, i)
    BY <2>4, <2>5 DEF VisibleFound
  <2>7. GetInode(Path(i)) = n
    BY <2>4, <2>5, <2>6, PathFacts, LookupFollowsWay
  <2>8. n \in 2..Len(inodes) /\ MadeFor(inodes[n], i)
    BY <2>6 DEF Owner
  <2>9. n # 0
    <3> HIDE DEF n
    <3> QED
      BY <2>5, <2>8, TreeFacts
  <2> HIDE DEF n
  <2> QED
    BY <2>7, <2>8, <2>9 DEF MadeFor, Path
<1> QED
  BY <1>1, TreeInvariant, PTL

-----------------------------------------------------------------------------
(* Working directories. *)

\* Without its last name the path of a directory is that of a directory: a
\* file has no children.
LEMMA FrontIsDirectory ==
    ASSUME inodes \in Trees, Leaves(inodes), NEW path \in Seq(Names), path # <<>>,
           IsDirectory(GetInode(path))
    PROVE  IsDirectory(GetInode(Front(path)))
<1> DEFINE N == Len(path)
           front == Front(path)
<1>1. N \in Nat /\ N > 0
  BY EmptySeq, LenProperties
<1>2. Len(front) = N - 1 /\ \A k \in 1..N - 1 : front[k] = path[k]
  <2>1. front = SubSeq(path, 1, N - 1)
    BY DEF Front
  <2>2. Len(SubSeq(path, 1, N - 1)) = N - 1 /\ \A k \in 1..N - 1 : SubSeq(path, 1, N - 1)[k] = path[k]
    <3> DEFINE M == N - 1
    <3>1. M \in Nat /\ M <= Len(path)
      BY <1>1
    <3> HIDE DEF M
    <3>2. Len(SubSeq(path, 1, M)) = M /\ \A k \in 1..M : SubSeq(path, 1, M)[k] = path[k]
      <4>1. CASE M = 0
        BY <3>1, <4>1
      <4>2. CASE M \in 1..Len(path)
        BY <4>2
      <4> QED
        BY <1>1, <3>1, <4>1, <4>2
    <3> QED
      BY <3>2 DEF M
  <2> QED
    BY <2>1, <2>2
<1>3. N - 1 \in Nat /\ N \in 1..N /\ N - 1 \in 0..N /\ \A k \in 1..N - 1 : k \in 1..N
  BY <1>1
<1>4. PICK f : LooksUp(f, path) /\ GetInode(path) = f[N]
  BY <1>1, GetInodeLoop
<1>5. PICK g : LooksUp(g, front) /\ GetInode(front) = g[N - 1]
  BY <1>2, <1>3, GetInodeLoop
<1> HIDE DEF front
<1> DEFINE Step(x, k) == IF x = 0 \/ findFamily(inodes, x, path[k]) = 0 THEN 0
                         ELSE inodes[x].family[findFamily(inodes, x, path[k])]
<1>6. f[0] = 1 /\ \A k \in 1..N : f[k] = Step(f[k - 1], k)
  BY <1>4 DEF LooksUp
<1>7. g[0] = 1 /\ \A k \in 1..N - 1 : g[k] = Step(g[k - 1], k)
  BY <1>2, <1>5 DEF LooksUp
<1>8. f[N - 1] \in 0..Len(inodes)
  BY <1>3, <1>4 DEF LooksUp
<1>9. f[N - 1] = g[N - 1]
  <2> DEFINE M == N - 1
  <2>1. M \in Nat /\ f[0] = g[0] /\ \A k \in 1..M : f[k - 1] = g[k - 1] => f[k] = g[k]
    BY <1>3, <1>6, <1>7
  <2> HIDE DEF M
  <2>2. \A k \in 0..M : f[k] = g[k]
    BY ONLY <2>1, Agree
  <2>3. f[M] = g[M]
    BY <2>1, <2>2
  <2> QED
    BY <2>3 DEF M
<1> DEFINE x == f[N - 1]
           i == findFamily(inodes, x, path[N])
<1>10. f[N] # 0
  BY <1>4 DEF IsDirectory
<1>11. f[N] = Step(x, N)
  BY <1>3, <1>6
<1>12. x # 0 /\ i # 0
  BY <1>10, <1>11
<1>13. x \in 1..Len(inodes)
  <2> HIDE DEF x
  <2>1. x \in 0..Len(inodes) /\ Len(inodes) \in Nat
    BY <1>8, TreeFacts DEF x
  <2> QED
    BY <1>12, <2>1
<1> HIDE DEF x
<1>14. i \in 1..Len(inodes[x].family)
  BY <1>12, <1>13, FindFirst
<1>15. inodes[x].family # <<>>
  <2>1. Len(<<>>) = 0
    OBVIOUS
  <2> HIDE DEF i
  <2> QED
    BY <1>14, <2>1
<1>16. inodes[x].type # FILE
  BY <1>13, <1>15 DEF Leaves
<1> QED
  BY <1>5, <1>9, <1>12, <1>16 DEF IsDirectory, x, front

\* The empty path is the root.
LEMMA RootIsDirectory ==
    ASSUME inodes \in Trees, inodes[1].type = DIR
    PROVE  IsDirectory(GetInode(<<>>))
<1>1. Len(<<>>) = 0 /\ 0 \in Nat
  OBVIOUS
<1>2. PICK f : LooksUp(f, <<>>) /\ GetInode(<<>>) = f[0]
  BY <1>1, GetInodeLoop
<1>3. GetInode(<<>>) = 1
  BY <1>2 DEF LooksUp
<1> QED
  BY <1>3 DEF IsDirectory, DIR, FILE

Directories == {path \in Seq(Names) : IsDirectory(GetInode(path))}

\* The directories change with the tree only.
LEMMA DirectoriesStay ==
    ASSUME inodes' = inodes
    PROVE  Directories' = Directories
BY DEF Directories, IsDirectory, GetInode, findFamily

RootKnown == <<>> \in Directories

\* Every working directory is a directory, and the root before the first call.
CwdInv ==
    /\ \A p \in Procs : cwd[p].path \in Directories
    /\ header < ArchiveEnd => \A p \in Procs : cwd[p].path = <<>>

\* What the tree says of working directories.
LEMMA ReadyFacts ==
    ASSUME FilesInv, TreeReady, NoFileHides
    PROVE  inodes \in Trees /\ Leaves(inodes) /\ <<>> \in Directories
<1>1. inodes \in Trees /\ inodes[1].type = DIR /\ Leaves(inodes)
  BY DEF TreeReady, Ready, TreeInv
<1>2. <<>> \in Seq(Names)
  OBVIOUS
<1> QED
  BY <1>1, <1>2, RootIsDirectory DEF Directories

\* chdir only moves to directories.
LEMMA ChdirStays ==
    ASSUME FilesInv, TreeReady, NoFileHides, CwdInv, NEW p \in Procs, ChdirCall(p)
    PROVE  \A q \in Procs : cwd'[q].path \in Directories
<1>1. cwd \in [Procs -> Places] /\ \A q \in Procs : cwd[q].path \in Directories /\ cwd[q] \in Places
  BY InvFacts DEF CwdInv
<1>2. ASSUME NEW dir, SetDir(p, dir), dir.path \in Directories
      PROVE  \A q \in Procs : cwd'[q].path \in Directories
  BY <1>1, <1>2 DEF SetDir
<1>3. ASSUME NEW path \in Paths, NEW slash \in BOOLEAN, ChdirAbsolute(p, path, slash)
      PROVE  \A q \in Procs : cwd'[q].path \in Directories
  <2>1. path \in Directories
    BY <1>3, CallsAssumption DEF ChdirAbsolute, Directories, Names
  <2>2. Dir(path, slash).path \in Directories /\ SetDir(p, Dir(path, slash))
    BY <1>3, <2>1 DEF Dir, ChdirAbsolute
  <2> QED
    BY <1>2, <2>2
<1>4. ASSUME NEW path \in Paths, Len(path) = 1, ChdirRelative(p, path[1])
      PROVE  \A q \in Procs : cwd'[q].path \in Directories
  <2> DEFINE name == path[1]
             to == Relative(cwd[p], name)
  <2>1. SetDir(p, to) /\ cwd[p] # NoDir
    BY <1>4 DEF ChdirRelative
  <2>2. to.path \in Directories
    <3>1. CASE IsDirectory(GetInode(Joined(cwd[p], name)))
      <4>1. to.path = Joined(cwd[p], name)
        BY <3>1 DEF Relative, Dir
      <4>2. name \in Names
        <5>1. path \in Seq(Names) /\ 1 \in 1..Len(path)
          BY <1>4, CallsAssumption DEF Names
        <5> QED
          BY <5>1
      <4>3. Joined(cwd[p], name) \in Seq(Names)
        BY <1>1, <4>2, JoinedIsPath
      <4> QED
        BY <3>1, <4>1, <4>3 DEF Directories
    <3>2. CASE ~IsDirectory(GetInode(Joined(cwd[p], name)))
      BY <1>1, <3>2 DEF Relative
    <3> QED
      BY <3>1, <3>2
  <2> QED
    BY <1>2, <2>1, <2>2
<1>5. ASSUME ChdirBack(p)
      PROVE  \A q \in Procs : cwd'[q].path \in Directories
  <2> DEFINE path == cwd[p].path
             to == IF path = <<>> THEN cwd[p] ELSE Dir(Front(path), TRUE)
  <2>1. SetDir(p, to)
    BY <1>5 DEF ChdirBack
  <2>2. path \in Seq(Names) /\ IsDirectory(GetInode(path))
    BY <1>1 DEF Directories
  <2>3. ASSUME path # <<>>
        PROVE  Front(path) \in Directories
    <3>1. IsDirectory(GetInode(Front(path)))
      BY <2>2, <2>3, ReadyFacts, FrontIsDirectory
    <3>2. Front(path) \in Seq(Names)
      <4> HIDE DEF path
      <4>1. Len(path) \in Nat /\ Len(path) > 0
        BY <2>2, <2>3, EmptySeq, LenProperties
      <4> QED
        BY <2>2, <4>1 DEF Front
    <3> QED
      BY <3>1, <3>2 DEF Directories
  <2>4. to.path \in Directories
    BY <1>1, <2>3 DEF Dir
  <2> QED
    BY <1>2, <2>1, <2>4
<1> QED
  BY <1>3, <1>4, <1>5 DEF ChdirCall

\* No other call sets a working directory to anything but another process's.
LEMMA CwdKept ==
    ASSUME FilesInv, TreeReady, NoFileHides, CwdInv, NEW p \in Procs,
           FileCall(p) \/ DirectoryCall(p) \/ ProcessCall(p)
    PROVE  \A q \in Procs : cwd'[q].path \in Directories
<1>1. cwd \in [Procs -> Places] /\ \A q \in Procs : cwd[q].path \in Directories
  BY InvFacts DEF CwdInv
<1>2. NoDir.path \in Directories
  BY ReadyFacts DEF NoDir, Dir
<1>3. ASSUME FileCall(p) \/ DirectoryCall(p)
      PROVE  cwd' = cwd
  BY <1>3 DEF FileCall, DirectoryCall, k_open, k_close, k_read, k_opendir, k_readdir, k_closedir
<1>4. ASSUME ProcessCall(p)
      PROVE  \E q \in Procs : cwd' = [cwd EXCEPT ![q] = cwd[p]] \/ cwd' = [cwd EXCEPT ![q] = NoDir]
  BY <1>4 DEF ProcessCall, syscall_fork, syscall_exec, syscall_exit, syscall_kill
<1> QED
  BY <1>1, <1>2, <1>3, <1>4

\* In an archive in which no file hides a directory the working directory of
\* every live process is a directory: after a chdir that failed, after cd ..
\* and in the children of fork and exec (k_chdir).
THEOREM CwdStaysDirectory == NoFileHides => (Spec => []CwdIsDirectory)
<1> SUFFICES ASSUME NoFileHides
             PROVE  Spec => []CwdIsDirectory
  OBVIOUS
<1>1. Init => CwdInv
  <2> SUFFICES ASSUME Init
               PROVE  CwdInv
    OBVIOUS
  <2>1. \A p \in Procs : cwd[p].path = <<>>
    BY DEF Init, Dir, NoDir
  <2>2. <<>> \in Directories
    BY FilesInit, ReadyAtBoot, ReadyFacts
  <2> QED
    BY <2>1, <2>2 DEF CwdInv
<1>2. FilesInv /\ TreeReady => RootKnown
  BY ReadyFacts DEF RootKnown
<1>3. FilesInv /\ TreeReady /\ RootKnown' /\ CwdInv /\ [Next]_vars => CwdInv'
  <2> SUFFICES ASSUME FilesInv, TreeReady, RootKnown', CwdInv, [Next]_vars
               PROVE  CwdInv'
    OBVIOUS
  <2>1. CASE init_tarfs
    <3>1. \A p \in Procs : cwd'[p].path = <<>>
      BY <2>1 DEF init_tarfs, CwdInv
    <3>2. <<>> \in Directories'
      BY DEF RootKnown
    <3> QED
      BY <3>1, <3>2 DEF CwdInv
  <2>2. ASSUME NEW p \in Procs, FileCall(p) \/ DirectoryCall(p) \/ ChdirCall(p) \/ ProcessCall(p)
        PROVE  CwdInv'
    <3>1. \A q \in Procs : cwd'[q].path \in Directories
      BY <2>2, ChdirStays, CwdKept
    <3>2. Calls(p)
      BY <2>2, CallOf
    <3>3. header' = header /\ inodes' = inodes /\ ~(header < ArchiveEnd)
      BY <3>2, CallsFacts
    <3>4. Directories' = Directories
      BY <3>3, DirectoriesStay
    <3> QED
      BY <3>1, <3>3, <3>4 DEF CwdInv
  <2>3. CASE UNCHANGED vars
    <3>1. inodes' = inodes /\ header' = header /\ cwd' = cwd
      BY <2>3 DEF vars
    <3>2. Directories' = Directories
      BY <3>1, DirectoriesStay
    <3> QED
      BY <3>1, <3>2 DEF CwdInv
  <2> QED
    BY <2>1, <2>2, <2>3 DEF Next
<1>4. FilesInv /\ CwdInv => CwdIsDirectory
  BY InvFacts DEF CwdInv, CwdIsDirectory, Directories
<1> QED
  BY <1>1, <1>2, <1>3, <1>4, TreeInvariant, PTL DEF Spec

-----------------------------------------------------------------------------
(* The walk of scan_tarfs. *)

\* A walk up the numbers that ends at N or at a number of Stop has a result
\* for every place at which it can begin.
Walks(f, N, Stop, nx) ==
    f = [a \in Nat |-> IF a >= N THEN -1 ELSE IF a \in Stop THEN a ELSE f[nx[a]]]

\* Such a walk exists for every step that goes up.
LEMMA WalkExists ==
    ASSUME NEW N \in Nat, NEW Stop, NEW nx \in [Nat -> Nat], \A a \in Nat : nx[a] > a
    PROVE  \E f : Walks(f, N, Stop, nx)
<1> DEFINE S == [Nat -> Int]
           b == [a \in Nat |-> -1]
           Turn(g, k) == [a \in Nat |-> IF a # N - k THEN g[a]
                                        ELSE IF a \in Stop THEN a ELSE g[nx[a]]]
           G == [x \in S \X (1..N) |-> Turn(x[1], x[2])]
<1>1. b \in S
  OBVIOUS
<1>2. ASSUME NEW g \in S, NEW k \in 1..N
      PROVE  Turn(g, k) \in S
  <2>1. ASSUME NEW a \in Nat
        PROVE  (IF a # N - k THEN g[a] ELSE IF a \in Stop THEN a ELSE g[nx[a]]) \in Int
    OBVIOUS
  <2> QED
    BY <2>1
<1>3. PICK f : Solution(f, N, b, G)
  <2>1. G \in [S \X (1..N) -> S]
    <3> HIDE DEF Turn, S
    <3> QED
      BY <1>2
  <2> HIDE DEF G, S, b
  <2> QED
    BY <1>1, <2>1, RecursionOnInterval
<1>4. f[0] = b /\ \A k \in 1..N : f[k] = G[<<f[k - 1], k>>]
  <2> HIDE DEF G, b
  <2>1. f = [k \in 0..N |-> IF k = 0 THEN b ELSE G[<<f[k - 1], k>>]]
    BY <1>3 DEF Solution
  <2>2. 0 \in 0..N /\ \A k \in 1..N : k \in 0..N /\ k # 0
    OBVIOUS
  <2> QED
    BY ONLY <2>1, <2>2
<1>5. \A g \in S, k \in 1..N : G[<<g, k>>] = Turn(g, k)
  <2> HIDE DEF Turn, S
  <2> QED
    OBVIOUS
<1>6. \A k \in 0..N : f[k] \in S
  <2>1. ASSUME NEW k \in 1..N, f[k - 1] \in S
        PROVE  f[k] \in S
    <3>1. f[k] = Turn(f[k - 1], k)
      <4> HIDE DEF G, Turn, S
      <4> QED
        BY <1>4, <1>5, <2>1
    <3> HIDE DEF Turn, S
    <3> QED
      BY <1>2, <2>1, <3>1
  <2>2. f[0] \in S /\ \A k \in 1..N : f[k - 1] \in S => f[k] \in S
    <3> HIDE DEF S, b, G, Turn
    <3> QED
      BY <1>1, <1>4, <2>1
  <2> HIDE DEF S
  <2> QED
    BY <2>2, StaysIn
<1>7. \A k \in 1..N : f[k] = Turn(f[k - 1], k)
  <2> TAKE k \in 1..N
  <2>1. f[k - 1] \in S /\ f[k] = G[<<f[k - 1], k>>]
    <3> HIDE DEF G, S, b
    <3> QED
      BY <1>4, <1>6
  <2> HIDE DEF G, S, Turn
  <2> QED
    BY <1>5, <2>1
<1> HIDE DEF G
<1> DEFINE Right(g, a) == g[a] = IF a >= N THEN -1 ELSE IF a \in Stop THEN a ELSE g[nx[a]]
           T == {k \in 0..N : \A a \in Nat : a >= N - k => Right(f[k], a)}
<1>8. 0 \in T
  <2>1. \A a \in Nat : a >= N - 0 => Right(f[0], a)
    BY <1>4
  <2> QED
    BY <2>1
<1>9. ASSUME NEW k \in 1..N, k - 1 \in T
      PROVE  k \in T
  <2> SUFFICES ASSUME NEW a \in Nat, a >= N - k
               PROVE  Right(f[k], a)
    OBVIOUS
  <2>1. f[k] = Turn(f[k - 1], k)
    BY <1>7
  <2>2. ASSUME NEW c \in Nat, c # N - k
        PROVE  f[k][c] = f[k - 1][c]
    BY <2>1, <2>2
  <2>3. nx[a] \in Nat /\ nx[a] > a /\ nx[a] # N - k
    OBVIOUS
  <2>4. f[k][nx[a]] = f[k - 1][nx[a]]
    BY <2>2, <2>3
  <2>5. CASE a = N - k
    <3>1. f[k][a] = IF a \in Stop THEN a ELSE f[k - 1][nx[a]]
      BY <2>1, <2>5
    <3>2. ~(a >= N)
      BY <2>5
    <3> QED
      BY <2>4, <3>1, <3>2
  <2>6. CASE a # N - k
    <3>1. a >= N - (k - 1)
      BY <2>6
    <3>2. Right(f[k - 1], a)
      BY <1>9, <3>1
    <3>3. f[k][a] = f[k - 1][a]
      BY <2>2, <2>6
    <3> HIDE DEF Turn
    <3> QED
      BY <2>4, <3>2, <3>3
  <2> QED
    BY <2>5, <2>6
<1>10. N \in T
  <2>1. \A k \in 0..N : k \in T
    <3> HIDE DEF T
    <3> QED
      BY <1>8, <1>9, IntervalInduction
  <2> QED
    BY <2>1
<1>11. f[N] \in [Nat -> Int]
  BY <1>6
<1>12. \A a \in Nat : Right(f[N], a)
  BY <1>10
<1>13. Walks(f[N], N, Stop, nx)
  BY <1>11, <1>12 DEF Walks
<1> QED
  BY <1>13

\* What is read at an address that is not that of a header is blank.
LEMMA ReadAnywhere ==
    ASSUME NEW a \in Nat
    PROVE  /\ Member(a).size \in Nat
           /\ Member(a).type = FILE => \E i \in Members : a = Place[i] /\ Member(a) = Archive[i]
<1>1. CASE \E i \in Members : a = Place[i]
  <2>1. PICK i \in Members : a = Place[i]
    BY <1>1
  <2>2. Member(a) = Archive[i]
    BY <2>1, MemberIsRead
  <2> QED
    BY <2>1, <2>2, MemberType
<1>2. CASE ~ \E i \in Members : a = Place[i]
  <2>1. {i \in 1..Len(Archive) : Place[i] = a} = {}
    BY <1>2 DEF Members
  <2>2. Member(a) = [name |-> <<>>, type |-> DIR, size |-> 0]
    BY <2>1 DEF Member
  <2>3. Member(a).size = 0 /\ Member(a).type = DIR
    BY <2>2
  <2> QED
    BY <2>3 DEF DIR, FILE
<1> QED
  BY <1>1, <1>2

After(a) == NextHeader(a, Member(a).size)

\* The walk goes up, wherever it is.
LEMMA AfterIsLater ==
    ASSUME NEW a \in Nat
    PROVE  After(a) \in Nat /\ After(a) > a
<1>1. Member(a).size \in Nat /\ HEADER \in Nat /\ HEADER > 0
  BY ReadAnywhere, MemberType
<1> DEFINE e == HEADER * (1 + Blocks(Member(a).size))
<1>2. e \in Nat /\ HEADER + Member(a).size <= e /\ After(a) = a + e
  BY <1>1, BlocksOfSize DEF After
<1> HIDE DEF e
<1> QED
  BY <1>1, <1>2

Found(fname) == {a \in Nat : SameFile(Member(a), fname)}

\* scan_tarfs is such a walk.
Scans(f, fname) ==
    \A a \in Nat : f[a] = IF a >= ArchiveEnd THEN -1
                          ELSE IF SameFile(Member(a), fname) THEN a ELSE f[After(a)]

\* The loop of scan_tarfs is such a walk.
LEMMA ScanWalks ==
    ASSUME NEW fname
    PROVE  \E f : Scans(f, fname) /\ scan_tarfs(fname) = f[0]
<1> DEFINE nx == [a \in Nat |-> After(a)]
           Is(f) == f = [address \in Nat |->
                           IF address >= ArchiveEnd THEN -1
                           ELSE IF SameFile(Member(address), fname) THEN address
                           ELSE f[NextHeader(address, Member(address).size)]]
           from == CHOOSE f : Is(f)
<1>1. scan_tarfs(fname) = from[0]
  BY DEF scan_tarfs
<1>2. nx \in [Nat -> Nat] /\ \A a \in Nat : nx[a] > a /\ nx[a] = After(a)
  BY AfterIsLater
<1>3. PICK f : Walks(f, ArchiveEnd, Found(fname), nx)
  <2> HIDE DEF nx
  <2> QED
    BY <1>2, WalkExists, HeadersInArchive
<1>4. Is(f)
  <2>1. f = [a \in Nat |-> f[a]]
    BY <1>3 DEF Walks
  <2>2. ASSUME NEW a \in Nat
        PROVE  f[a] = IF a >= ArchiveEnd THEN -1
                      ELSE IF SameFile(Member(a), fname) THEN a
                      ELSE f[NextHeader(a, Member(a).size)]
    <3>1. f[a] = IF a >= ArchiveEnd THEN -1 ELSE IF a \in Found(fname) THEN a ELSE f[nx[a]]
      <4> HIDE DEF nx
      <4> QED
        BY <1>3 DEF Walks
    <3>2. nx[a] = NextHeader(a, Member(a).size)
      BY <1>2 DEF After
    <3>3. a \in Found(fname) <=> SameFile(Member(a), fname)
      BY DEF Found
    <3> HIDE DEF nx
    <3> QED
      BY <3>1, <3>2, <3>3
  <2> QED
    BY <2>1, <2>2
<1>5. Is(from)
  <2> HIDE DEF Is
  <2> QED
    BY <1>4
<1> HIDE DEF from
<1>6. Scans(from, fname)
  BY <1>5 DEF Scans, After
<1> QED
  BY <1>1, <1>6

Named(i, fname) == Archive[i].type = FILE /\ Archive[i].name = fname

\* What scan_tarfs returns is the header of a file with the name asked for.
LEMMA ScanResult ==
    ASSUME NEW fname, scan_tarfs(fname) # -1
    PROVE  \E i \in Members : Named(i, fname) /\ scan_tarfs(fname) = Place[i]
<1> DEFINE N == ArchiveEnd
           Good(x) == x = -1 \/ (\E i \in Members : Named(i, fname) /\ x = Place[i])
<1>1. PICK f : Scans(f, fname) /\ scan_tarfs(fname) = f[0]
  BY ScanWalks
<1>2. N \in Nat
  BY HeadersInArchive
<1> DEFINE T == {k \in 0..N : \A a \in Nat : a >= N - k => Good(f[a])}
<1>3. 0 \in T
  <2>1. ASSUME NEW a \in Nat, a >= N
        PROVE  Good(f[a])
    BY <1>1, <2>1 DEF Scans
  <2> HIDE DEF Good
  <2> QED
    BY <1>2, <2>1
<1>4. ASSUME NEW k \in 1..N, k - 1 \in T
      PROVE  k \in T
  <2> SUFFICES ASSUME NEW a \in Nat, a >= N - k
               PROVE  Good(f[a])
    BY <1>2
  <2>1. After(a) \in Nat /\ After(a) > a
    BY AfterIsLater
  <2>2. After(a) >= N - (k - 1)
    BY <1>2, <2>1
  <2>3. Good(f[After(a)])
    <3> HIDE DEF Good
    <3> QED
      BY <1>4, <2>1, <2>2
  <2>4. f[a] = IF a >= ArchiveEnd THEN -1
               ELSE IF SameFile(Member(a), fname) THEN a ELSE f[After(a)]
    BY <1>1 DEF Scans
  <2>5. SameFile(Member(a), fname) => Good(a)
    BY ReadAnywhere DEF SameFile, Named
  <2>6. Good(-1)
    OBVIOUS
  <2> HIDE DEF Good
  <2> QED
    BY <2>3, <2>4, <2>5, <2>6
<1>5. N \in T
  <2>1. \A k \in 0..N : k \in T
    <3> HIDE DEF T, N
    <3> QED
      BY <1>2, <1>3, <1>4, IntervalInduction
  <2> QED
    BY <1>2, <2>1
<1>6. Good(f[0])
  <2> HIDE DEF Good
  <2> QED
    BY <1>2, <1>5
<1> QED
  BY <1>1, <1>6

\* Every file of the archive is found by its name.
LEMMA ScanFinds ==
    ASSUME NEW t \in Members, Archive[t].type = FILE
    PROVE  scan_tarfs(Archive[t].name) = Place[t]
<1> DEFINE fname == Archive[t].name
<1>1. PICK f : Scans(f, fname) /\ scan_tarfs(fname) = f[0]
  BY ScanWalks
<1>2. t \in Nat /\ t > 0 /\ Len(Archive) \in Nat /\ t <= Len(Archive)
  BY MemberType DEF Members
<1>3. ASSUME NEW i \in Members
      PROVE  /\ Place[i] \in Nat /\ ~(Place[i] >= ArchiveEnd)
             /\ Member(Place[i]) = Archive[i]
             /\ After(Place[i]) = Place[i + 1]
  <2>1. i \in 1..Len(Archive) + 1 /\ Len(Archive) + 1 \in 1..Len(Archive) + 1 /\ i < Len(Archive) + 1
    BY MemberType DEF Members
  <2>2. /\ Place[i] \in Nat /\ Place[Len(Archive) + 1] \in Nat
        /\ Place[i] < Place[Len(Archive) + 1] /\ HEADER \in Nat
    BY <2>1, PlaceSteps, PlacesAscend, MemberType
  <2>3. ~(Place[i] >= ArchiveEnd)
    BY <2>2 DEF ArchiveEnd
  <2>4. Member(Place[i]) = Archive[i]
    BY MemberIsRead
  <2>5. After(Place[i]) = Place[i] + HEADER * (1 + Blocks(Archive[i].size))
    BY <2>2, <2>4, BlocksOfSize, MemberType DEF After
  <2> QED
    BY <2>2, <2>3, <2>4, <2>5, PlaceSteps DEF Extent
<1> DEFINE T == {k \in 0..t - 1 : f[Place[t - k]] = Place[t]}
<1>4. 0 \in T
  <2>1. SameFile(Member(Place[t]), fname)
    BY <1>3 DEF SameFile
  <2>2. f[Place[t]] = Place[t]
    BY <1>1, <1>3, <2>1 DEF Scans
  <2> QED
    BY <1>2, <2>2
<1>5. ASSUME NEW k \in 1..t - 1, k - 1 \in T
      PROVE  k \in T
  <2> DEFINE i == t - k
  <2>1. i \in Members /\ i < t /\ i + 1 = t - (k - 1)
    BY <1>2 DEF Members
  <2>2. f[Place[i + 1]] = Place[t]
    BY <1>5, <2>1
  <2>3. Archive[i].name # fname
    BY <2>1, ArchiveAssumption DEF Members
  <2>4. ~SameFile(Member(Place[i]), fname)
    BY <1>3, <2>1, <2>3 DEF SameFile
  <2>5. f[Place[i]] = f[After(Place[i])]
    BY <1>1, <1>3, <2>1, <2>4 DEF Scans
  <2>6. f[Place[i]] = Place[t]
    BY <1>3, <2>1, <2>2, <2>5
  <2> QED
    BY <1>2, <2>6
<1>6. t - 1 \in T
  <2>1. \A k \in 0..t - 1 : k \in T
    <3> HIDE DEF T
    <3>1. t - 1 \in Nat
      BY <1>2
    <3> QED
      BY <1>4, <1>5, <3>1, IntervalInduction
  <2> QED
    BY <1>2, <2>1
<1>7. t - (t - 1) = 1 /\ Place[1] = 0
  BY <1>2, PlaceSteps
<1> QED
  BY <1>1, <1>6, <1>7

-----------------------------------------------------------------------------
(* What read_elf leaves in memory. *)

SegmentHeaders == [p_vaddr : Nat, p_offset : Nat, p_filesz : Nat, p_memsz : Nat]

MemoryImages == [name : DOMAIN Headers, mem : [Addresses -> Int], heap_top : Nat]

EndOf(seg) == seg.p_vaddr + seg.p_memsz

InAddresses(seg) == seg.p_vaddr..EndOf(seg) \subseteq Addresses

\* The byte of a segment, without the one that file_map copies too many.
ByteIn(img, seg, data, i) ==
    img.mem[seg.p_vaddr + i] = IF i < seg.p_filesz THEN data + seg.p_offset + i ELSE ZERO

\* A segment of the file at an address of the archive is in memory.
SegmentIn(img, seg, data) ==
    /\ EndOf(seg) <= img.heap_top
    /\ seg.p_filesz > 0 => \A i \in (0..seg.p_memsz - 1) \ {seg.p_filesz} : ByteIn(img, seg, data, i)

LoadSegment(img, seg, elfaddr) ==
    [img EXCEPT !.mem = file_map(@, seg, elfaddr + seg.p_offset),
                !.heap_top = HeapAfter(seg.p_vaddr + seg.p_memsz)]

\* The heap begins after the segment.
LEMMA HeapIsAfter ==
    ASSUME NEW e \in Nat
    PROVE  HeapAfter(e) \in Nat /\ e <= HeapAfter(e)
<1> DEFINE q == e \div PAGE
           r == e % PAGE
<1>1. PAGE \in Nat /\ PAGE > 0
  BY LoaderAssumption
<1>2. q \in Nat /\ r \in 0..PAGE - 1 /\ e = PAGE * q + r
  BY <1>1
<1>3. HeapAfter(e) = (q + 1) * PAGE
  BY DEF HeapAfter
<1> HIDE DEF q, r
<1>4. (q + 1) * PAGE = PAGE * q + PAGE /\ PAGE * q \in Nat
  BY <1>1, <1>2
<1> QED
  BY <1>1, <1>2, <1>3, <1>4

\* The fields of an image with one more segment.
LEMMA LoadFields ==
    ASSUME NEW img \in MemoryImages, NEW seg \in SegmentHeaders, NEW elfaddr \in Nat
    PROVE  LET new == LoadSegment(img, seg, elfaddr)
           IN /\ new \in MemoryImages
              /\ new.name = img.name
              /\ new.mem = file_map(img.mem, seg, elfaddr + seg.p_offset)
              /\ new.heap_top = HeapAfter(EndOf(seg))
<1> DEFINE new == LoadSegment(img, seg, elfaddr)
           m == file_map(img.mem, seg, elfaddr + seg.p_offset)
<1>1. /\ seg.p_vaddr \in Nat /\ seg.p_offset \in Nat /\ seg.p_filesz \in Nat /\ seg.p_memsz \in Nat
      /\ img.mem \in [Addresses -> Int] /\ img.heap_top \in Nat /\ img.name \in DOMAIN Headers
  BY DEF SegmentHeaders, MemoryImages
<1>2. m \in [Addresses -> Int]
  <2>1. CASE seg.p_filesz < 1
    BY <1>1, <2>1 DEF file_map
  <2>2. CASE ~(seg.p_filesz < 1)
    <3>1. ASSUME NEW a \in Addresses
          PROVE  (IF a - seg.p_vaddr \in 0..seg.p_memsz - 1
                  THEN MappedByte(seg, elfaddr + seg.p_offset, a - seg.p_vaddr)
                  ELSE img.mem[a]) \in Int
      BY <1>1 DEF MappedByte, ZERO
    <3> QED
      BY <2>2, <3>1 DEF file_map
  <2> QED
    BY <2>1, <2>2
<1>3. HeapAfter(EndOf(seg)) \in Nat
  BY <1>1, HeapIsAfter DEF EndOf
<1>4. new = [name |-> img.name, mem |-> m, heap_top |-> HeapAfter(EndOf(seg))]
  <2>1. img = [name |-> img.name, mem |-> img.mem, heap_top |-> img.heap_top]
    BY DEF MemoryImages
  <2> HIDE DEF m
  <2>2. new = [img EXCEPT !.mem = m, !.heap_top = HeapAfter(EndOf(seg))]
    BY DEF LoadSegment, EndOf, m
  <2> HIDE DEF new
  <2> QED
    BY ONLY <2>1, <2>2
<1> HIDE DEF new, m
<1> QED
  BY <1>1, <1>2, <1>3, <1>4 DEF MemoryImages, new, m

\* A segment is in memory after it was loaded.
LEMMA LoadAdds ==
    ASSUME NEW img \in MemoryImages, NEW seg \in SegmentHeaders, NEW elfaddr \in Nat, InAddresses(seg)
    PROVE  SegmentIn(LoadSegment(img, seg, elfaddr), seg, elfaddr)
<1> DEFINE new == LoadSegment(img, seg, elfaddr)
<1>1. seg.p_vaddr \in Nat /\ seg.p_offset \in Nat /\ seg.p_filesz \in Nat /\ seg.p_memsz \in Nat
  BY DEF SegmentHeaders
<1>2. new.mem = file_map(img.mem, seg, elfaddr + seg.p_offset) /\ new.heap_top = HeapAfter(EndOf(seg))
  BY LoadFields
<1>3. EndOf(seg) \in Nat /\ EndOf(seg) <= new.heap_top
  BY <1>1, <1>2, HeapIsAfter DEF EndOf
<1> HIDE DEF new
<1>4. ASSUME NEW i \in (0..seg.p_memsz - 1) \ {seg.p_filesz}, seg.p_filesz > 0
      PROVE  ByteIn(new, seg, elfaddr, i)
  <2>1. seg.p_vaddr + i \in Addresses /\ (seg.p_vaddr + i) - seg.p_vaddr = i
    BY <1>1 DEF InAddresses, EndOf
  <2>2. ~(seg.p_filesz < 1)
    BY <1>1, <1>4
  <2>3. new.mem[seg.p_vaddr + i] = MappedByte(seg, elfaddr + seg.p_offset, i)
    BY <1>1, <1>2, <2>1, <2>2 DEF file_map
  <2> QED
    BY <1>1, <2>3 DEF MappedByte, ByteIn
<1> QED
  BY <1>3, <1>4 DEF SegmentIn, new

\* A segment below it stays.
LEMMA LoadKeeps ==
    ASSUME NEW img \in MemoryImages, NEW seg \in SegmentHeaders, NEW elfaddr \in Nat,
           NEW low \in SegmentHeaders, InAddresses(low), EndOf(low) <= seg.p_vaddr,
           SegmentIn(img, low, elfaddr)
    PROVE  SegmentIn(LoadSegment(img, seg, elfaddr), low, elfaddr)
<1> DEFINE new == LoadSegment(img, seg, elfaddr)
<1>1. /\ seg.p_vaddr \in Nat /\ seg.p_offset \in Nat /\ seg.p_filesz \in Nat /\ seg.p_memsz \in Nat
      /\ low.p_vaddr \in Nat /\ low.p_offset \in Nat /\ low.p_filesz \in Nat /\ low.p_memsz \in Nat
  BY DEF SegmentHeaders
<1>2. new.mem = file_map(img.mem, seg, elfaddr + seg.p_offset) /\ new.heap_top = HeapAfter(EndOf(seg))
  BY LoadFields
<1>3. HeapAfter(EndOf(seg)) \in Nat /\ EndOf(seg) <= HeapAfter(EndOf(seg)) /\ EndOf(seg) \in Nat
  BY <1>1, HeapIsAfter DEF EndOf
<1> HIDE DEF new
<1>4. EndOf(low) <= new.heap_top
  BY <1>1, <1>2, <1>3 DEF EndOf
<1>5. ASSUME NEW i \in (0..low.p_memsz - 1) \ {low.p_filesz}, low.p_filesz > 0
      PROVE  ByteIn(new, low, elfaddr, i)
  <2>1. low.p_vaddr + i \in Addresses /\ low.p_vaddr + i < seg.p_vaddr
    BY <1>1 DEF InAddresses, EndOf
  <2>2. (low.p_vaddr + i) - seg.p_vaddr \notin 0..seg.p_memsz - 1
    BY <1>1, <2>1
  <2>3. new.mem[low.p_vaddr + i] = img.mem[low.p_vaddr + i]
    BY <1>2, <2>1, <2>2 DEF file_map
  <2>4. ByteIn(img, low, elfaddr, i)
    BY <1>5 DEF SegmentIn
  <2> QED
    BY <2>3, <2>4 DEF ByteIn
<1> QED
  BY <1>4, <1>5 DEF SegmentIn, new

\* What the assumption says of the headers of a binary.
LEMMA HeaderFacts ==
    ASSUME NEW path \in DOMAIN Headers
    PROVE  /\ Len(Headers[path]) \in Nat /\ Len(Headers[path]) > 0
           /\ \A k \in 1..Len(Headers[path]) : Headers[path][k] \in SegmentHeaders
           /\ \A k \in 1..Len(Headers[path]) - 1 :
                /\ InAddresses(Headers[path][k])
                /\ k > 1 => EndOf(Headers[path][k - 1]) <= Headers[path][k].p_vaddr
<1> DEFINE h == Headers[path]
<1>1. h \in Seq(SegmentHeaders) /\ h # <<>>
  BY LoaderAssumption DEF SegmentHeaders
<1>2. \A k \in 1..Len(h) - 1 :
        /\ h[k].p_vaddr..h[k].p_vaddr + h[k].p_memsz \subseteq Addresses
        /\ k > 1 => h[k - 1].p_vaddr + h[k - 1].p_memsz <= h[k].p_vaddr
  BY LoaderAssumption
<1> HIDE DEF h
<1>3. Len(h) \in Nat /\ Len(h) > 0 /\ \A k \in 1..Len(h) : h[k] \in SegmentHeaders
  BY <1>1, EmptySeq, LenProperties
<1> QED
  BY <1>2, <1>3 DEF h, InAddresses, EndOf

\* An image holds all segments of a binary.
Holds(img, path, data) ==
    /\ img \in MemoryImages
    /\ img.name = path
    /\ \A k \in 1..Len(Headers[path]) - 1 : SegmentIn(img, Headers[path][k], data)

\* The loop of read_elf as a recursive function.
Loads(f, path, elfaddr) ==
    /\ f[0] = [NoImage EXCEPT !.name = path]
    /\ \A k \in 1..Len(Headers[path]) - 1 : f[k] = LoadSegment(f[k - 1], Headers[path][k], elfaddr)

\* read_elf reads the headers of the binary it was called for.
LEMMA ElfLoop ==
    ASSUME NEW path \in DOMAIN Headers, NEW t \in Members, Named(t, path)
    PROVE  \E f : /\ Loads(f, path, Place[t] + HEADER)
                  /\ read_elf(Place[t] + HEADER, path) = f[Len(Headers[path]) - 1]
<1> DEFINE elfaddr == Place[t] + HEADER
           header_of == CHOOSE i \in 1..Len(Archive) : Place[i] + HEADER = elfaddr
           Load(img, seg) == [img EXCEPT !.mem = file_map(@, seg, elfaddr + seg.p_offset),
                                         !.heap_top = HeapAfter(seg.p_vaddr + seg.p_memsz)]
           b == [NoImage EXCEPT !.name = path]
           h == Headers[path]
           N == Len(h) - 1
           G == [x \in MemoryImages \X (1..N) |-> LoadSegment(x[1], h[x[2]], elfaddr)]
           Is(f) == f = [k \in 0..N |-> IF k = 0 THEN b ELSE Load(f[k - 1], h[k])]
           loaded == CHOOSE f : Is(f)
<1>1. header_of = t
  <2>1. ASSUME NEW i \in 1..Len(Archive), Place[i] + HEADER = elfaddr
        PROVE  i = t
    <3>1. /\ i \in Members /\ i \in 1..Len(Archive) + 1 /\ t \in 1..Len(Archive) + 1
          /\ HEADER \in Nat
      BY MemberType DEF Members
    <3>2. Place[i] \in Nat /\ Place[t] \in Nat
      BY <3>1, PlaceSteps
    <3>3. ~(i < t) /\ ~(t < i)
      BY <2>1, <3>1, <3>2, PlacesAscend
    <3> QED
      BY <3>1, <3>3 DEF Members
  <2>2. t \in 1..Len(Archive) /\ Place[t] + HEADER = elfaddr
    BY DEF Members
  <2> HIDE DEF elfaddr
  <2> QED
    BY <2>1, <2>2
<1>2. read_elf(elfaddr, path) = loaded[N]
  <2>1. Headers[Archive[header_of].name] = h
    BY <1>1 DEF Named
  <2> QED
    BY <2>1 DEF read_elf
<1>3. elfaddr \in Nat
  <2>1. t \in 1..Len(Archive) + 1
    BY MemberType DEF Members
  <2> QED
    BY <2>1, PlaceSteps, MemberType
<1>4. N \in Nat /\ \A k \in 1..N : h[k] \in SegmentHeaders
  BY HeaderFacts
<1>5. b \in MemoryImages
  BY DEF NoImage, MemoryImages, FRESH
<1> HIDE DEF elfaddr, b, h, N
<1>6. ASSUME NEW img \in MemoryImages, NEW k \in 1..N
      PROVE  LoadSegment(img, h[k], elfaddr) \in MemoryImages
  BY <1>3, <1>4, LoadFields
<1>7. PICK f : Solution(f, N, b, G)
  <2>1. G \in [MemoryImages \X (1..N) -> MemoryImages]
    BY <1>6
  <2> HIDE DEF G
  <2> QED
    BY <1>4, <1>5, <2>1, RecursionOnInterval
<1>8. f[0] = b /\ \A k \in 1..N : f[k] = G[<<f[k - 1], k>>]
  <2> HIDE DEF G
  <2>1. f = [k \in 0..N |-> IF k = 0 THEN b ELSE G[<<f[k - 1], k>>]]
    BY <1>7 DEF Solution
  <2>2. 0 \in 0..N /\ \A k \in 1..N : k \in 0..N /\ k # 0
    BY <1>4
  <2> QED
    BY ONLY <2>1, <2>2
<1>9. \A x \in MemoryImages, k \in 1..N : G[<<x, k>>] = LoadSegment(x, h[k], elfaddr)
  OBVIOUS
<1> HIDE DEF G
<1>10. \A k \in 0..N : f[k] \in MemoryImages
  <2>1. ASSUME NEW k \in 1..N, f[k - 1] \in MemoryImages
        PROVE  f[k] \in MemoryImages
    BY <1>6, <1>8, <1>9, <2>1
  <2>2. f[0] \in MemoryImages /\ \A k \in 1..N : f[k - 1] \in MemoryImages => f[k] \in MemoryImages
    BY <1>5, <1>8, <2>1
  <2> QED
    BY <1>4, <2>2, StaysIn
<1>11. \A k \in 1..N : f[k] = Load(f[k - 1], h[k])
  <2> TAKE k \in 1..N
  <2>1. f[k - 1] \in MemoryImages /\ f[k] = G[<<f[k - 1], k>>]
    BY <1>4, <1>8, <1>10
  <2>2. f[k] = LoadSegment(f[k - 1], h[k], elfaddr)
    BY <1>9, <2>1
  <2> QED
    BY <2>2 DEF LoadSegment
<1>12. Is(f)
  <2>1. f = [k \in 0..N |-> f[k]]
    BY <1>7 DEF Solution
  <2>2. \A k \in 0..N : f[k] = IF k = 0 THEN b ELSE Load(f[k - 1], h[k])
    <3> HIDE DEF Load
    <3> QED
      BY <1>4, <1>8, <1>11
  <2> HIDE DEF Load
  <2> QED
    BY <2>1, <2>2
<1>13. Is(loaded)
  <2> HIDE DEF Is
  <2> QED
    BY <1>12
<1> HIDE DEF loaded
<1>14. loaded[0] = b /\ \A k \in 1..N : loaded[k] = Load(loaded[k - 1], h[k])
  <2> HIDE DEF Load
  <2>1. 0 \in 0..N /\ \A k \in 1..N : k \in 0..N /\ k # 0
    BY <1>4
  <2> QED
    BY <1>13, <2>1
<1>15. \A k \in 1..N : loaded[k] = LoadSegment(loaded[k - 1], h[k], elfaddr)
  BY <1>14 DEF LoadSegment
<1>16. Loads(loaded, path, elfaddr)
  BY <1>14, <1>15 DEF Loads, b, h, N
<1> QED
  BY <1>2, <1>16 DEF elfaddr, N, h

\* read_elf leaves every segment of the binary in memory.
LEMMA ElfIsLoaded ==
    ASSUME NEW path \in DOMAIN Headers, NEW t \in Members, Named(t, path)
    PROVE  Holds(read_elf(Place[t] + HEADER, path), path, Place[t] + HEADER)
<1> DEFINE elfaddr == Place[t] + HEADER
           h == Headers[path]
           N == Len(h) - 1
<1>1. PICK f : /\ Loads(f, path, elfaddr)
               /\ read_elf(elfaddr, path) = f[N]
  BY ElfLoop
<1>2. elfaddr \in Nat
  <2>1. t \in 1..Len(Archive) + 1
    BY MemberType DEF Members
  <2> QED
    BY <2>1, PlaceSteps, MemberType
<1>3. /\ N \in Nat
      /\ \A k \in 1..N : /\ h[k] \in SegmentHeaders /\ InAddresses(h[k])
                         /\ k > 1 => EndOf(h[k - 1]) <= h[k].p_vaddr
  BY HeaderFacts
<1>4. /\ f[0] = [NoImage EXCEPT !.name = path]
      /\ \A k \in 1..N : f[k] = LoadSegment(f[k - 1], h[k], elfaddr)
  BY <1>1 DEF Loads
<1>5. f[0] \in MemoryImages /\ f[0].name = path
  BY <1>4 DEF NoImage, MemoryImages, FRESH
<1> HIDE DEF elfaddr, h, N
<1> DEFINE Done(k) == /\ f[k] \in MemoryImages /\ f[k].name = path
                      /\ \A j \in 1..k : /\ SegmentIn(f[k], h[j], elfaddr)
                                         /\ EndOf(h[j]) <= EndOf(h[k])
           T == {k \in 0..N : Done(k)}
<1>6. 0 \in T
  <2>1. 1..0 = {}
    OBVIOUS
  <2>2. 0 \in 0..N
    BY <1>3
  <2> QED
    BY <1>5, <2>1, <2>2
<1>7. ASSUME NEW k \in 1..N, k - 1 \in T
      PROVE  k \in T
  <2>1. /\ k \in 0..N /\ k - 1 \in Nat /\ Done(k - 1)
        /\ h[k] \in SegmentHeaders /\ InAddresses(h[k])
        /\ f[k] = LoadSegment(f[k - 1], h[k], elfaddr)
    BY <1>3, <1>4, <1>7
  <2>2. f[k] \in MemoryImages /\ f[k].name = path /\ SegmentIn(f[k], h[k], elfaddr)
    BY <1>2, <2>1, LoadFields, LoadAdds
  <2>3. EndOf(h[k]) \in Nat /\ h[k].p_vaddr <= EndOf(h[k]) /\ h[k].p_vaddr \in Nat
    BY <2>1 DEF EndOf, SegmentHeaders
  <2>4. ASSUME NEW j \in 1..k - 1
        PROVE  SegmentIn(f[k], h[j], elfaddr) /\ EndOf(h[j]) <= EndOf(h[k])
    <3>1. /\ SegmentIn(f[k - 1], h[j], elfaddr) /\ EndOf(h[j]) <= EndOf(h[k - 1])
          /\ f[k - 1] \in MemoryImages
      BY <2>1
    <3>2. /\ j \in 1..N /\ k - 1 \in 1..N /\ k > 1
      BY <1>3
    <3>3. /\ h[j] \in SegmentHeaders /\ InAddresses(h[j])
          /\ h[k - 1] \in SegmentHeaders /\ EndOf(h[k - 1]) <= h[k].p_vaddr
      BY <1>3, <3>2
    <3>4. EndOf(h[j]) \in Nat /\ EndOf(h[k - 1]) \in Nat
      BY <3>3 DEF EndOf, SegmentHeaders
    <3>5. EndOf(h[j]) <= h[k].p_vaddr /\ EndOf(h[j]) <= EndOf(h[k])
      BY <2>3, <3>1, <3>3, <3>4
    <3> QED
      BY <1>2, <2>1, <3>1, <3>3, <3>5, LoadKeeps
  <2>5. \A j \in 1..k : j = k \/ j \in 1..k - 1
    OBVIOUS
  <2>6. Done(k)
    BY <2>2, <2>3, <2>4, <2>5
  <2> HIDE DEF Done
  <2> QED
    BY <2>1, <2>6
<1>8. N \in T
  <2>1. \A k \in 0..N : k \in T
    <3> HIDE DEF T
    <3> QED
      BY <1>3, <1>6, <1>7, IntervalInduction
  <2> QED
    BY <1>3, <2>1
<1> QED
  BY <1>1, <1>8 DEF Holds, N, h, elfaddr

\* No other member has the name of the binary.
LEMMA DataIsThere ==
    ASSUME NEW path \in DOMAIN Headers, NEW t \in Members, Named(t, path)
    PROVE  DataOf[path] = Place[t] + HEADER
<1>1. ASSUME NEW i \in Members, Archive[i].name = path
      PROVE  i = t
  <2>1. i \in 1..Len(Archive) /\ t \in 1..Len(Archive)
    BY DEF Members
  <2>2. \A j \in 1..i - 1 : Archive[j].name # Archive[i].name
    BY <2>1, ArchiveAssumption
  <2>3. \A j \in 1..t - 1 : Archive[j].name # Archive[t].name
    BY <2>1, ArchiveAssumption
  <2>4. Archive[t].name = Archive[i].name
    BY <1>1 DEF Named
  <2>5. ~(i < t) /\ ~(t < i)
    BY <2>1, <2>2, <2>3, <2>4
  <2> QED
    BY <2>1, <2>5
<1>2. (CHOOSE i \in 1..Len(Archive) : Archive[i].name = path) = t
  BY <1>1 DEF Members, Named
<1> QED
  BY <1>2 DEF DataOf

\* What is loaded for a path is the binary of that name.
LEMMA BinariesAreLoaded ==
    ASSUME NEW path \in DOMAIN Binaries
    PROVE  path \in DOMAIN Headers /\ Holds(Binaries[path], path, DataOf[path])
<1>1. path \in DOMAIN Headers /\ scan_tarfs(path) # -1
  BY DEF Binaries
<1>2. PICK t \in Members : Named(t, path) /\ scan_tarfs(path) = Place[t]
  BY <1>1, ScanResult
<1>3. Binaries[path] = read_elf(Place[t] + HEADER, path)
  BY <1>1, <1>2 DEF Binaries
<1> QED
  BY <1>1, <1>2, <1>3, ElfIsLoaded, DataIsThere

\* init_proc finds the shell.
LEMMA ShellIsFound == ShellPath \in DOMAIN Binaries
<1>1. PICK t \in Members : Archive[t].type = FILE /\ Archive[t].name = ShellPath
  BY ShellAssumption DEF Members
<1>2. scan_tarfs(ShellPath) = Place[t]
  BY <1>1, ScanFinds
<1>3. t \in 1..Len(Archive) + 1
  BY MemberType DEF Members
<1>4. Place[t] \in Nat
  BY <1>3, PlaceSteps
<1>5. scan_tarfs(ShellPath) # -1
  BY <1>2, <1>4
<1> QED
  BY <1>5, ShellAssumption DEF Binaries

-----------------------------------------------------------------------------
(* Whoever runs, runs what was loaded for it. *)

\* The image of the shell, or of a binary it has exec'ed.
LoadedImage(img) ==
    \/ img = Binaries[ShellPath]
    \/ \E path \in ExecPaths \cap DOMAIN Binaries : img = WithStrings(Binaries[path])

ImageInv == /\ alive \subseteq Procs
            /\ image = [p \in Procs |-> image[p]]
            /\ \A p \in alive : LoadedImage(image[p])

\* The images that a step leaves.
LEMMA ImagesMade ==
    ASSUME NEW made, alive' \subseteq Procs, image' = Images(made),
           \A p \in alive' : LoadedImage(made[p])
    PROVE  ImageInv'
<1>1. /\ \A p \in alive' : image'[p] = made[p]
      /\ image' = [p \in Procs |-> image'[p]]
  BY DEF Images
<1>2. \A p \in alive' : LoadedImage(image'[p])
  <2> HIDE DEF LoadedImage
  <2> QED
    BY <1>1
<1>3. \A img : LoadedImage(img)' <=> LoadedImage(img)
  BY DEF LoadedImage
<1> QED
  BY <1>1, <1>2, <1>3 DEF ImageInv, LoadedImage

\* At boot only the shell is there.
LEMMA ImagesAtBoot == LoaderInit => ImageInv
<1> SUFFICES ASSUME LoaderInit
             PROVE  ImageInv
  OBVIOUS
<1>1. shell \in Procs /\ alive = {shell}
  BY ArchiveAssumption DEF LoaderInit, Init
<1>2. image[shell] = Binaries[ShellPath] /\ image = [p \in Procs |-> image[p]]
  BY <1>1 DEF LoaderInit
<1> QED
  BY <1>1, <1>2 DEF ImageInv, LoadedImage

\* A new process with an image of its own, and perhaps without its maker.
LEMMA ImageAdded ==
    ASSUME ImageInv, NEW c \in Procs, NEW img, LoadedImage(img),
           alive' \subseteq alive \cup {c}, image' = Images([image EXCEPT ![c] = img])
    PROVE  ImageInv'
<1> DEFINE made == [image EXCEPT ![c] = img]
<1>1. ASSUME NEW q \in alive'
      PROVE  q \in Procs /\ LoadedImage(made[q])
  <2> HIDE DEF LoadedImage
  <2>1. q \in Procs /\ image = [p \in Procs |-> image[p]]
    BY DEF ImageInv
  <2>2. made[q] = IF q = c THEN img ELSE image[q]
    BY <2>1
  <2>3. q # c => LoadedImage(image[q])
    BY DEF ImageInv
  <2> HIDE DEF made
  <2> QED
    BY <2>1, <2>2, <2>3
<1>2. image' = Images(made) /\ alive' \subseteq Procs /\ \A p \in alive' : LoadedImage(made[p])
  <2> HIDE DEF LoadedImage
  <2> QED
    BY <1>1
<1> HIDE DEF made
<1> QED
  BY <1>2, ImagesMade

\* fork, exec, exit and kill; the other calls leave the images alone.
LEMMA ImagesKept ==
    ASSUME ImageInv, [LoaderNext]_loaderVars
    PROVE  ImageInv'
<1>1. CASE UNCHANGED <<alive, image>>
  BY <1>1 DEF ImageInv, LoadedImage
<1>2. ASSUME NEW p \in Procs, NEW c \in Procs, fork(p, c)
      PROVE  ImageInv'
  <2>1. /\ p \in alive /\ alive' = alive \cup {c}
        /\ image' = Images([image EXCEPT ![c] = image[p]])
    BY <1>2 DEF fork, syscall_fork, Calls
  <2>2. LoadedImage(image[p])
    BY <2>1 DEF ImageInv
  <2>3. alive' \subseteq alive \cup {c}
    BY <2>1
  <2> QED
    BY <2>1, <2>2, <2>3, ImageAdded
<1>3. ASSUME NEW p \in Procs, NEW c \in Procs, NEW path \in ExecPaths, exec(p, c, path)
      PROVE  ImageInv'
  <2>1. /\ path \in DOMAIN Binaries
        /\ alive' = (alive \cup {c}) \ {p}
        /\ image' = Images([image EXCEPT ![c] = WithStrings(Binaries[path])])
    BY <1>3 DEF exec, syscall_exec
  <2>2. LoadedImage(WithStrings(Binaries[path]))
    BY <2>1 DEF LoadedImage
  <2>3. alive' \subseteq alive \cup {c}
    BY <2>1
  <2> QED
    BY <2>1, <2>2, <2>3, ImageAdded
<1>4. ASSUME NEW p \in Procs, Ends(p)
      PROVE  ImageInv'
  <2>1. alive' \subseteq alive /\ image' = Images(image)
    BY <1>4 DEF Ends, syscall_exit, syscall_kill
  <2>2. alive' \subseteq Procs /\ \A q \in alive' : LoadedImage(image[q])
    BY <2>1 DEF ImageInv
  <2> QED
    BY <2>1, <2>2, ImagesMade
<1>5. CASE init_tarfs /\ UNCHANGED image
  <2>1. UNCHANGED <<alive, image>>
    BY <1>5 DEF init_tarfs
  <2> QED
    BY <1>1, <2>1
<1>6. ASSUME NEW p \in Procs, FileCall(p) \/ DirectoryCall(p) \/ ChdirCall(p), UNCHANGED image
      PROVE  ImageInv'
  <2>1. UNCHANGED alive
    BY <1>6 DEF FileCall, k_open, k_close, k_read, DirectoryCall, k_opendir, k_readdir, k_closedir,
                ChdirCall, ChdirAbsolute, ChdirRelative, ChdirBack, SetDir
  <2> QED
    BY <1>1, <1>6, <2>1
<1>7. CASE UNCHANGED loaderVars
  <2>1. UNCHANGED <<alive, image>>
    BY <1>7 DEF loaderVars, vars
  <2> QED
    BY <1>1, <2>1
<1> QED
  BY <1>2, <1>3, <1>4, <1>5, <1>6, <1>7 DEF LoaderNext

\* A segment in memory, apart from bytes that exec may have overwritten.
LEMMA StringsAfterwards ==
    ASSUME NEW img \in MemoryImages, NEW seg \in SegmentHeaders, NEW data \in Nat, InAddresses(seg),
           SegmentIn(img, seg, data)
    PROVE  /\ EndOf(seg) <= WithStrings(img).heap_top
           /\ WithStrings(img).name = img.name
           /\ seg.p_filesz > 0 =>
                \A i \in (0..seg.p_memsz - 1) \ {seg.p_filesz} :
                  \/ ByteIn(WithStrings(img), seg, data, i)
                  \/ seg.p_vaddr + i \in Strings
<1> DEFINE m == [a \in Addresses |-> IF a \in Strings THEN TEXT ELSE img.mem[a]]
<1>1. img = [name |-> img.name, mem |-> img.mem, heap_top |-> img.heap_top]
  BY DEF MemoryImages
<1>2. WithStrings(img) = [img EXCEPT !.mem = m]
  BY DEF WithStrings
<1>3. WithStrings(img) = [name |-> img.name, mem |-> m, heap_top |-> img.heap_top]
  <2> HIDE DEF m
  <2> QED
    BY ONLY <1>1, <1>2
<1>4. seg.p_vaddr \in Nat /\ seg.p_memsz \in Nat
  BY DEF SegmentHeaders
<1>5. ASSUME NEW i \in (0..seg.p_memsz - 1) \ {seg.p_filesz}, seg.p_filesz > 0,
             seg.p_vaddr + i \notin Strings
      PROVE  ByteIn(WithStrings(img), seg, data, i)
  <2>1. seg.p_vaddr + i \in Addresses
    BY <1>4 DEF InAddresses, EndOf
  <2>2. WithStrings(img).mem[seg.p_vaddr + i] = img.mem[seg.p_vaddr + i]
    BY <1>3, <1>5, <2>1
  <2>3. ByteIn(img, seg, data, i)
    BY <1>5 DEF SegmentIn
  <2> QED
    BY <2>2, <2>3 DEF ByteIn
<1> QED
  BY <1>3, <1>5 DEF SegmentIn

\* The images that are loaded are those the property asks for.
LEMMA LoadedImageIsRight ==
    ASSUME NEW img, LoadedImage(img)
    PROVE  \A k \in 1..Len(Headers[img.name]) - 1 :
             LET seg == Headers[img.name][k]
             IN /\ seg.p_vaddr + seg.p_memsz <= img.heap_top
                /\ seg.p_filesz > 0 =>
                     \A i \in (0..seg.p_memsz - 1) \ {seg.p_filesz} :
                       \/ img.mem[seg.p_vaddr + i] = Wanted(img.name, seg, i)
                       \/ seg.p_vaddr + i \in Strings /\ img.name # ShellPath
<1>1. CASE img = Binaries[ShellPath]
  <2>1. Holds(img, ShellPath, DataOf[ShellPath])
    BY <1>1, ShellIsFound, BinariesAreLoaded
  <2> QED
    BY <2>1 DEF Holds, SegmentIn, ByteIn, EndOf, Wanted
<1>2. ASSUME NEW path \in ExecPaths \cap DOMAIN Binaries, img = WithStrings(Binaries[path])
      PROVE  \A k \in 1..Len(Headers[img.name]) - 1 :
               LET seg == Headers[img.name][k]
               IN /\ seg.p_vaddr + seg.p_memsz <= img.heap_top
                  /\ seg.p_filesz > 0 =>
                       \A i \in (0..seg.p_memsz - 1) \ {seg.p_filesz} :
                         \/ img.mem[seg.p_vaddr + i] = Wanted(img.name, seg, i)
                         \/ seg.p_vaddr + i \in Strings /\ img.name # ShellPath
  <2>1. path \in DOMAIN Headers /\ path # ShellPath
    BY ShellAssumption
  <2>2. Holds(Binaries[path], path, DataOf[path])
    BY BinariesAreLoaded
  <2>3. DataOf[path] \in Nat
    <3>1. scan_tarfs(path) # -1
      BY DEF Binaries
    <3>2. PICK t \in Members : Named(t, path)
      BY <3>1, ScanResult
    <3>3. t \in 1..Len(Archive) + 1
      BY MemberType DEF Members
    <3> QED
      BY <2>1, <3>2, <3>3, DataIsThere, PlaceSteps, MemberType
  <2>4. img.name = path
    <3>1. Binaries[path] = [name |-> path, mem |-> Binaries[path].mem, heap_top |-> Binaries[path].heap_top]
      BY <2>2 DEF Holds, MemoryImages
    <3> QED
      BY <1>2, <3>1 DEF WithStrings
  <2>5. ASSUME NEW k \in 1..Len(Headers[path]) - 1
        PROVE  LET seg == Headers[path][k]
               IN /\ EndOf(seg) <= img.heap_top
                  /\ seg.p_filesz > 0 =>
                       \A i \in (0..seg.p_memsz - 1) \ {seg.p_filesz} :
                         ByteIn(img, seg, DataOf[path], i) \/ seg.p_vaddr + i \in Strings
    <3>1. Headers[path][k] \in SegmentHeaders /\ InAddresses(Headers[path][k])
      BY <2>1, HeaderFacts
    <3>2. SegmentIn(Binaries[path], Headers[path][k], DataOf[path]) /\ Binaries[path] \in MemoryImages
      BY <2>2 DEF Holds
    <3> QED
      BY <1>2, <2>3, <3>1, <3>2, StringsAfterwards
  <2> QED
    BY <2>1, <2>4, <2>5 DEF ByteIn, EndOf, Wanted
<1> QED
  BY <1>1, <1>2 DEF LoadedImage

-----------------------------------------------------------------------------
(* Theorem. *)

\* Every live process, the shell and whatever it or its children have exec'ed
\* or forked, has in its memory the segments of the binary it is named after,
\* for every archive, binaries of every layout and number of processes
\* (scan_tarfs, read_elf, file_map, syscall_exec, syscall_fork).
THEOREM ImagesAreBinaries == LoaderSpec => []ImageOfBinary
<1>1. ImageInv => ImageOfBinary
  BY LoadedImageIsRight DEF ImageInv, ImageOfBinary
<1> QED
  BY <1>1, ImagesAtBoot, ImagesKept, PTL DEF LoaderSpec
=============================================================================
