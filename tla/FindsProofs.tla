---------------------------- MODULE FindsProofs ----------------------------
(***************************************************************************)
(* For every tree, pattern and choice of options: the buffer with the path *)
(* is right whenever it is used, no file is searched twice, every file     *)
(* that can be reached and is wanted is searched and no other, every line  *)
(* printed stands in its file and matches, and none that matches is        *)
(* missed.  The parts: sequences and recursive functions; Lookup; the      *)
(* stack and the path; the bounds of mygrep and readfile; the meaning of   *)
(* patterns and what a round does about it; what is printed; what is       *)
(* searched.                                                               *)
(***************************************************************************)
EXTENDS Finds, SequenceTheorems, FiniteSetTheorems, WellFoundedInduction, TLAPS

-----------------------------------------------------------------------------
(* The length and the elements of a sequence.                              *)
LEMMA Lengths ==
  ASSUME NEW S, NEW s \in Seq(S)
  PROVE  /\ Len(s) \in Nat /\ (s = <<>> <=> Len(s) = 0) /\ DOMAIN s = 1 .. Len(s)
         /\ \A n \in 1 .. Len(s) : s[n] \in S
OBVIOUS

(* Append leaves what was there and puts the new element behind it.        *)
LEMMA Appended ==
  ASSUME NEW S, NEW s \in Seq(S), NEW x \in S
  PROVE  /\ Append(s, x) \in Seq(S) /\ Len(Append(s, x)) = Len(s) + 1
         /\ \A n \in 1 .. Len(s) : Append(s, x)[n] = s[n]
         /\ Append(s, x)[Len(s) + 1] = x
         /\ Len(s) <= Len(Append(s, x)) /\ Len(s) <= Len(s)
OBVIOUS

(* The first n elements of a sequence; all of them are the sequence.       *)
LEMMA Prefix ==
  ASSUME NEW S, NEW s \in Seq(S), NEW n \in Nat, n <= Len(s)
  PROVE  /\ SubSeq(s, 1, n) \in Seq(S) /\ Len(SubSeq(s, 1, n)) = n
         /\ \A m \in 1 .. n : SubSeq(s, 1, n)[m] = s[m]
         /\ n = Len(s) => SubSeq(s, 1, n) = s
OBVIOUS

(* A sequence without its last element.                                    *)
LEMMA Fronted ==
  ASSUME NEW S, NEW s \in Seq(S), s # <<>>
  PROVE  /\ Front(s) \in Seq(S) /\ Len(Front(s)) = Len(s) - 1
         /\ \A n \in 1 .. Len(s) - 1 : Front(s)[n] = s[n]
<1>1. Front(s) = SubSeq(s, 1, Len(s) - 1) /\ Len(s) - 1 \in Nat /\ Len(s) - 1 <= Len(s)
  BY DEF Front
<1> QED
  BY <1>1, Prefix

(* A sequence with one element replaced.                                   *)
LEMMA Replaced ==
  ASSUME NEW S, NEW s \in Seq(S), NEW n \in 1 .. Len(s), NEW x \in S
  PROVE  /\ [s EXCEPT ![n] = x] \in Seq(S) /\ Len([s EXCEPT ![n] = x]) = Len(s)
         /\ \A m \in 1 .. Len(s) : m # n => [s EXCEPT ![n] = x][m] = s[m]
         /\ [s EXCEPT ![n] = x][n] = x
OBVIOUS

(* Two sequences of one length with the same elements are the same.        *)
LEMMA EqualSequences ==
  ASSUME NEW S, NEW s \in Seq(S), NEW t \in Seq(S), Len(s) = Len(t),
         \A n \in 1 .. Len(s) : s[n] = t[n]
  PROVE  s = t
OBVIOUS

(* A pair is made of its two components.                                   *)
LEMMA Pairs ==
  ASSUME NEW A, NEW B, NEW e \in A \X B
  PROVE  e = <<e[1], e[2]>> /\ e[1] \in A /\ e[2] \in B
OBVIOUS

(* If t stands in s behind position a, it is that piece of s.              *)
LEMMA PieceIs ==
  ASSUME NEW S, NEW s \in Seq(S), NEW t \in Seq(S), NEW a \in Nat, a + Len(t) <= Len(s),
         \A k \in 1 .. Len(t) : t[k] = s[a + k]
  PROVE  SubSeq(s, a + 1, a + Len(t)) = t
<1>1. \A n \in Nat : n = Len(t) => SubSeq(s, a + 1, a + n) \in Seq(S) /\ Len(SubSeq(s, a + 1, a + n)) = n
  OBVIOUS
<1> QED
  BY <1>1

(* A set of numbers that contains 0 and with a number the next one, up to  *)
(* a bound, contains all of them.                                          *)
LEMMA UpTo ==
  ASSUME NEW n \in Nat, NEW S, 0 \in S,
         \A k \in 0 .. n - 1 : k \in S => k + 1 \in S
  PROVE  0 .. n \subseteq S
<1> DEFINE R == {ss \in Nat \X Nat : ss[1] < ss[2]}
           F == (0 .. n) \ S
<1>1. IsWellFoundedOn(R, Nat)
  BY NatLessThanWellFounded, Zenon DEF OpToRel
<1>2. CASE F # {}
  <2>1. F \subseteq Nat
    OBVIOUS
  <2> HIDE DEF F
  <2>2. PICK k \in F : \A m \in F : <<m, k>> \notin R
    <3> HIDE DEF R
    <3> QED
      BY <1>1, <1>2, <2>1, WFMin
  <2>3. k \in 0 .. n /\ k \notin S
    BY DEF F
  <2>4. k # 0 /\ k - 1 \in 0 .. n - 1
    BY <2>3
  <2>5. k - 1 \notin S
    BY <2>3, <2>4
  <2>6. k - 1 \in F /\ <<k - 1, k>> \in R
    BY <2>3, <2>4, <2>5 DEF F
  <2> QED
    BY <2>2, <2>6
<1> QED
  BY <1>2

(* The right-hand side B of a recursive definition on D: its value at a    *)
(* point depends on the values at points of lower rank.                    *)
Descends(D, V, n, rank, B) ==
  /\ n \in Nat /\ rank \in [D -> Nat] /\ \A w \in D : rank[w] < n
  /\ B \in [[D -> V] -> [D -> V]]
  /\ \A f, h \in [D -> V], w \in D :
       (\A v \in D : rank[v] < rank[w] => f[v] = h[v]) => B[f][w] = B[h][w]

(* Such a recursive function exists: applying the right-hand side once     *)
(* more makes one more rank right.                                         *)
LEMMA Recursion ==
  ASSUME NEW D, NEW V, V # {}, NEW n, NEW rank, NEW B, Descends(D, V, n, rank, B)
  PROVE  \E f \in [D -> V] : f = B[f]
<1> PICK v0 \in V : TRUE
  OBVIOUS
<1> USE DEF Descends
<1> DEFINE Right(f, m) == \A w \in D : rank[w] < m => f[w] = B[f][w]
           S == {m \in 0 .. n : \E f \in [D -> V] : Right(f, m)}
<1>1. 0 \in S
  <2>1. [w \in D |-> v0] \in [D -> V]
    OBVIOUS
  <2>2. \A f \in [D -> V] : Right(f, 0)
    OBVIOUS
  <2>3. 0 \in 0 .. n
    OBVIOUS
  <2> HIDE DEF Right
  <2> QED
    BY <2>1, <2>2, <2>3
<1>2. ASSUME NEW m \in 0 .. n - 1, m \in S PROVE m + 1 \in S
  <2>1. PICK f \in [D -> V] : Right(f, m)
    BY <1>2
  <2>2. B[f] \in [D -> V]
    OBVIOUS
  <2>3. ASSUME NEW w \in D, rank[w] < m + 1 PROVE B[f][w] = B[B[f]][w]
    <3>1. \A v \in D : rank[v] < rank[w] => f[v] = B[f][v]
      <4> SUFFICES ASSUME NEW v \in D, rank[v] < rank[w] PROVE f[v] = B[f][v]
        OBVIOUS
      <4>1. rank[v] \in Nat /\ rank[w] \in Nat
        OBVIOUS
      <4>2. rank[v] < m
        BY <2>3, <4>1
      <4> QED
        BY <2>1, <4>2
    <3> QED
      BY <2>2, <3>1
  <2> QED
    BY <2>2, <2>3
<1> HIDE DEF S
<1>3. 0 .. n \subseteq S
  BY <1>1, <1>2, UpTo
<1>4. n \in S
  BY <1>3
<1>5. PICK f \in [D -> V] : Right(f, n)
  BY <1>4 DEF S
<1>6. \A w \in D : f[w] = B[f][w]
  BY <1>5
<1>7. B[f] \in [D -> V]
  OBVIOUS
<1> QED
  BY <1>6, <1>7

-----------------------------------------------------------------------------
(* Lookup: where a path leads, step by step.                               *)
Name == DOMAIN tree.ext \cup {""}
Inode == Ino \cup {None}

InputOK ==
  /\ IsTree(tree) /\ pattern \in Seq(Letter \cup {".", "*", "?"})
  /\ opts \in [links : BOOLEAN, f : BOOLEAN, types : SUBSET {"c", "h", "S"}]

(* What one more component of a path leads to.                             *)
Into(i, name) ==
  IF Kind(Follow(i)) # "dir" THEN None
  ELSE IF name = "" THEN Follow(i) ELSE Entry(Follow(i), name)

(* What Kind, Follow and Data give for an i-node: the root is there and is *)
(* not a link, a directory is not followed any further, and only a link    *)
(* that leads nowhere is followed to no i-node.                            *)
LEMMA InodeTypes ==
  ASSUME InputOK
  PROVE  /\ tree.root \in Ino /\ None \notin Ino /\ Kind(None) = "none"
         /\ \A i \in Inode : Follow(i) \in Inode /\ Data(i) \in Inode
         /\ \A i \in Inode : (Follow(i) = None => i = None \/ Kind(i) = "link")
         /\ \A i \in Inode : Kind(i) = "dir" => Follow(i) = i /\ Data(i) = i
         /\ \A i \in Ino : Data(i) \in Ino
         /\ Data(None) = None
         /\ \A i \in Inode : Kind(Data(i)) = "dir" => Follow(i) = Data(i)
         /\ \A i \in Inode : Kind(i) # "none" => i \in Ino
BY DEF InputOK, IsTree, Inode, Ino, Follow, Data, Kind, None

(* An entry of a directory is found by its name.                           *)
LEMMA EntryFound ==
  ASSUME InputOK, NEW d \in Ino, Kind(d) = "dir"
  PROVE  /\ tree.entries[d] \in Seq((DOMAIN tree.ext \ {""}) \X Ino)
         /\ \A n \in 1 .. Len(tree.entries[d]) :
              /\ tree.entries[d][n][1] \in DOMAIN tree.ext \ {""}
              /\ tree.entries[d][n][2] \in Ino
              /\ Entry(d, tree.entries[d][n][1]) = tree.entries[d][n][2]
         /\ \A name : Entry(d, name) \in Inode
<1> DEFINE s == tree.entries[d]
           names == DOMAIN tree.ext \ {""}
<1>1. /\ s \in Seq(names \X Ino)
      /\ \A j, k \in DOMAIN s : s[j][1] = s[k][1] => j = k
  BY DEF InputOK, IsTree, Ino, Kind, None
<1> HIDE DEF s, names
<1>2. DOMAIN s = 1 .. Len(s)
  BY <1>1
<1>3. \A n \in 1 .. Len(s) : s[n] \in names \X Ino
  BY <1>1
<1>4. ToSet(s) = {s[n] : n \in 1 .. Len(s)}
  BY <1>2 DEF ToSet
<1>5. ASSUME NEW n \in 1 .. Len(s) PROVE Entry(d, s[n][1]) = s[n][2]
  <2> DEFINE hits == {e \in ToSet(s) : e[1] = s[n][1]}
  <2>1. hits = {s[n]}
    BY <1>1, <1>4, <1>2
  <2>2. (CHOOSE e \in hits : TRUE) = s[n]
    BY <2>1
  <2> QED
    BY <2>1, <2>2 DEF Entry, s
<1>6. ASSUME NEW name PROVE Entry(d, name) \in Inode
  <2> DEFINE hits == {e \in ToSet(s) : e[1] = name}
  <2>1. CASE hits = {}
    BY <2>1 DEF Entry, Inode, s
  <2>2. CASE hits # {}
    <3>1. (CHOOSE e \in hits : TRUE) \in hits
      BY <2>2
    <3>2. (CHOOSE e \in hits : TRUE) \in names \X Ino
      BY <3>1, <1>3, <1>4
    <3>3. Entry(d, name) = (CHOOSE e \in hits : TRUE)[2]
      BY <2>2 DEF Entry, s
    <3>4. (CHOOSE e \in hits : TRUE)[2] \in Ino
      BY <3>2
    <3> QED
      BY <3>3, <3>4 DEF Inode
  <2> QED
    BY <2>1, <2>2
<1>7. \A n \in 1 .. Len(s) : s[n][1] \in names /\ s[n][2] \in Ino
  BY <1>3
<1> QED
  BY <1>1, <1>5, <1>6, <1>7 DEF s, names

(* The recursive function of Lookup takes one step per component.          *)
IsWay(at, p) ==
  /\ at \in [1 .. Len(p) -> Inode]
  /\ at = [n \in 1 .. Len(p) |-> IF n = 1 THEN tree.root ELSE Into(at[n - 1], p[n])]

(* One more component leads to an i-node or to none.                       *)
LEMMA IntoType ==
  ASSUME InputOK, NEW i \in Inode, NEW name
  PROVE  Into(i, name) \in Inode
<1>1. Follow(i) \in Inode /\ (Kind(Follow(i)) # "none" => Follow(i) \in Ino)
  BY InodeTypes
<1>2. Kind(Follow(i)) = "dir" => Entry(Follow(i), name) \in Inode
  BY <1>1, EntryFound
<1> QED
  BY <1>1, <1>2 DEF Into, Inode

(* For every path there is a function that takes its steps.                *)
LEMMA WayExists ==
  ASSUME InputOK, NEW p \in Seq(Name)
  PROVE  \E at : IsWay(at, p)
<1> DEFINE D == 1 .. Len(p)
           V == Inode
           rank == [n \in D |-> n - 1]
           Next1(at) == [n \in D |-> IF n = 1 THEN tree.root ELSE Into(at[n - 1], p[n])]
           B == [at \in [D -> V] |-> Next1(at)]
<1>1. rank \in [D -> Nat] /\ \A n \in D : rank[n] < Len(p)
  OBVIOUS
<1>2. ASSUME NEW at \in [D -> V] PROVE Next1(at) \in [D -> V]
  <2>1. \A n \in D : (IF n = 1 THEN tree.root ELSE Into(at[n - 1], p[n])) \in V
    <3> SUFFICES ASSUME NEW n \in D, n # 1 PROVE Into(at[n - 1], p[n]) \in V
      BY InodeTypes DEF Inode
    <3>1. at[n - 1] \in Inode
      OBVIOUS
    <3> HIDE DEF V
    <3> QED
      BY <3>1, IntoType DEF V
  <2> QED
    BY <2>1
<1>3. B \in [[D -> V] -> [D -> V]]
  BY <1>2
<1>4. \A f, h \in [D -> V], n \in D :
        (\A m \in D : rank[m] < rank[n] => f[m] = h[m]) => B[f][n] = B[h][n]
  <2> SUFFICES ASSUME NEW f \in [D -> V], NEW h \in [D -> V], NEW n \in D,
                      \A m \in D : rank[m] < rank[n] => f[m] = h[m]
               PROVE  B[f][n] = B[h][n]
    OBVIOUS
  <2>1. n # 1 => n - 1 \in D /\ rank[n - 1] < rank[n]
    OBVIOUS
  <2>2. n # 1 => f[n - 1] = h[n - 1]
    BY <2>1
  <2> QED
    BY <2>2
<1>5. Descends(D, V, Len(p), rank, B)
  <2>1. Len(p) \in Nat
    OBVIOUS
  <2> HIDE DEF D, V, rank, B
  <2> QED
    BY <2>1, <1>1, <1>3, <1>4 DEF Descends
<1>6. V # {}
  BY DEF Inode
<1> HIDE DEF D, V, rank, B
<1>7. \E f \in [D -> V] : f = B[f]
  BY <1>6, <1>5, Recursion
<1>8. \A f \in [D -> V] : B[f] = Next1(f)
  BY DEF B
<1>9. PICK at \in [D -> V] : at = B[at]
  BY <1>7
<1>10. at = Next1(at)
  BY <1>8, <1>9
<1>11. IsWay(at, p)
  BY <1>9, <1>10 DEF IsWay, D, V
<1> QED
  BY <1>11

(* Lookup with its recursive function taken out.                           *)
Way(p) ==
  CHOOSE at : at = [n \in 1 .. Len(p) |-> IF n = 1 THEN tree.root ELSE Into(at[n - 1], p[n])]

(* Lookup is the last value of that function.                              *)
LEMMA LookupIsWay == ASSUME NEW p PROVE Lookup(p) = Way(p)[Len(p)]
BY DEF Lookup, Way, Into

(* The steps of Way: from the root, one component after the other.         *)
LEMMA WaySteps ==
  ASSUME InputOK, NEW p \in Seq(Name)
  PROVE  /\ \A n \in 1 .. Len(p) : Way(p)[n] \in Inode
         /\ Len(p) >= 1 => Way(p)[1] = tree.root
         /\ \A n \in 2 .. Len(p) : Way(p)[n] = Into(Way(p)[n - 1], p[n])
<1>1. PICK at : IsWay(at, p)
  BY WayExists
<1>2. Way(p) = [n \in 1 .. Len(p) |-> IF n = 1 THEN tree.root ELSE Into(Way(p)[n - 1], p[n])]
  <2>1. \E f : f = [n \in 1 .. Len(p) |-> IF n = 1 THEN tree.root ELSE Into(f[n - 1], p[n])]
    BY <1>1 DEF IsWay
  <2> QED
    BY <2>1 DEF Way
<1> DEFINE w == Way(p)
           S == {n \in 0 .. Len(p) : n = 0 \/ w[n] \in Inode}
<1> HIDE DEF w
<1>3. Len(p) >= 1 => w[1] = tree.root
  BY <1>2 DEF w
<1>4. \A n \in 2 .. Len(p) : w[n] = Into(w[n - 1], p[n])
  BY <1>2 DEF w
<1>5. ASSUME NEW n \in 0 .. Len(p) - 1, n \in S PROVE n + 1 \in S
  <2>1. CASE n = 0
    BY <1>3, <2>1, InodeTypes DEF Inode
  <2>2. CASE n # 0
    <3>1. n + 1 \in 2 .. Len(p) /\ w[n] \in Inode
      BY <1>5, <2>2
    <3>2. w[n + 1] = Into(w[n], p[n + 1])
      BY <1>4, <3>1
    <3> QED
      BY <3>1, <3>2, IntoType
  <2> QED
    BY <2>1, <2>2
<1>6. 0 .. Len(p) \subseteq S
  <2>1. 0 \in S /\ Len(p) \in Nat
    OBVIOUS
  <2> HIDE DEF S
  <2> QED
    BY <1>5, <2>1, UpTo
<1>7. \A n \in 1 .. Len(p) : w[n] \in Inode
  <2> TAKE n \in 1 .. Len(p)
  <2>1. n \in 0 .. Len(p) /\ n # 0
    OBVIOUS
  <2> QED
    BY <1>6, <2>1
<1> QED
  BY <1>3, <1>4, <1>7 DEF w

(* A beginning of a path leads to where the path passes.                   *)
LEMMA SamePrefix ==
  ASSUME InputOK, NEW p \in Seq(Name), NEW q \in Seq(Name), NEW m \in Nat,
         m <= Len(p), m <= Len(q), \A n \in 1 .. m : p[n] = q[n]
  PROVE  \A n \in 1 .. m : Way(p)[n] = Way(q)[n]
<1> DEFINE v == Way(p)
           w == Way(q)
           S == {n \in 0 .. m : n = 0 \/ v[n] = w[n]}
<1>1. /\ Len(p) >= 1 => v[1] = tree.root
      /\ \A n \in 2 .. Len(p) : v[n] = Into(v[n - 1], p[n])
      /\ Len(q) >= 1 => w[1] = tree.root
      /\ \A n \in 2 .. Len(q) : w[n] = Into(w[n - 1], q[n])
  BY WaySteps
<1> HIDE DEF v, w
<1>2. ASSUME NEW n \in 0 .. m - 1, n \in S PROVE n + 1 \in S
  <2>1. CASE n = 0
    BY <1>1, <2>1
  <2>2. CASE n # 0
    <3>1. n + 1 \in 2 .. Len(p) /\ n + 1 \in 2 .. Len(q) /\ v[n] = w[n] /\ p[n + 1] = q[n + 1]
      BY <1>2, <2>2
    <3>2. v[n + 1] = Into(v[n], p[n + 1]) /\ w[n + 1] = Into(w[n], q[n + 1])
      BY <1>1, <3>1
    <3> QED
      BY <3>1, <3>2
  <2> QED
    BY <2>1, <2>2
<1>3. 0 .. m \subseteq S
  <2>1. 0 \in S
    OBVIOUS
  <2> HIDE DEF S
  <2> QED
    BY <1>2, <2>1, UpTo
<1> QED
  BY <1>3 DEF v, w

LookupAt(k) == Lookup(SubSeq(path, 1, k))

(* What the properties need of Lookup: where the top is, where a longer    *)
(* path leads, and that only the components up to k count for LookupAt(k). *)
LEMMA LookupTop ==
  ASSUME InputOK, NEW p \in Seq(Name), Len(p) = 1
  PROVE  Lookup(p) = tree.root
<1>1. Way(p)[1] = tree.root
  BY WaySteps
<1> QED
  BY <1>1, LookupIsWay

(* A path that is not empty leads to an i-node or to none.                 *)
LEMMA LookupType ==
  ASSUME InputOK, NEW p \in Seq(Name), p # <<>>
  PROVE  Lookup(p) \in Inode
<1>1. Len(p) \in 1 .. Len(p)
  OBVIOUS
<1> QED
  BY <1>1, WaySteps, LookupIsWay

(* A path with one more component leads one step further.                  *)
LEMMA LookupInto ==
  ASSUME InputOK, NEW p \in Seq(Name), NEW q \in Seq(Name), Len(p) >= 1,
         Len(q) = Len(p) + 1, \A n \in 1 .. Len(p) : p[n] = q[n]
  PROVE  Lookup(q) = Into(Lookup(p), q[Len(q)])
<1>1. Len(p) \in Nat /\ Len(p) <= Len(q) /\ Len(p) \in 1 .. Len(p)
  OBVIOUS
<1>2. \A n \in 1 .. Len(p) : Way(p)[n] = Way(q)[n]
  BY <1>1, SamePrefix
<1>3. Way(p)[Len(p)] = Way(q)[Len(p)]
  BY <1>1, <1>2
<1>4. Len(q) \in 2 .. Len(q) /\ Len(q) - 1 = Len(p)
  BY <1>1
<1>5. Way(q)[Len(q)] = Into(Way(q)[Len(p)], q[Len(q)])
  BY <1>4, WaySteps
<1> QED
  BY <1>3, <1>5, LookupIsWay

(* Two paths that agree up to k lead to the same place there.              *)
LEMMA LookupPrefix ==
  ASSUME InputOK, NEW p \in Seq(Name), NEW q \in Seq(Name), NEW k \in Nat \ {0},
         k <= Len(p), k <= Len(q), \A n \in 1 .. k : p[n] = q[n]
  PROVE  Lookup(SubSeq(p, 1, k)) = Lookup(SubSeq(q, 1, k))
<1> DEFINE s == SubSeq(p, 1, k)
           t == SubSeq(q, 1, k)
<1>1. /\ s \in Seq(Name) /\ Len(s) = k /\ t \in Seq(Name) /\ Len(t) = k
      /\ \A n \in 1 .. k : s[n] = p[n] /\ t[n] = q[n]
  OBVIOUS
<1>2. s = t
  BY <1>1
<1> QED
  BY <1>2
-----------------------------------------------------------------------------
(* The tree never changes, and what is computed from it.                   *)
LookupOf(t, p) ==
  LET kind(i) == IF i = None THEN "none" ELSE t.kind[i]
      follow(i) == IF kind(i) = "link" THEN t.target[i] ELSE i
      entry(dir, name) ==
        LET hits == {e \in ToSet(t.entries[dir]) : e[1] = name}
        IN IF hits = {} THEN None ELSE (CHOOSE e \in hits : TRUE)[2]
      at[n \in 1 .. Len(p)] ==
        IF n = 1 THEN t.root
        ELSE LET dir == follow(at[n - 1])
             IN IF kind(dir) # "dir" THEN None
                ELSE IF p[n] = "" THEN dir ELSE entry(dir, p[n])
  IN at[Len(p)]

(* While the input stays, so does everything that is computed from it.     *)
LEMMA TreeKept ==
  ASSUME UNCHANGED input
  PROVE  /\ Ino' = Ino /\ Inode' = Inode /\ Name' = Name
         /\ InputOK' = InputOK
         /\ \A i : Kind(i)' = Kind(i) /\ Follow(i)' = Follow(i) /\ Data(i)' = Data(i)
         /\ \A p : Lookup(p)' = Lookup(p)
         /\ \A p : Stat(p)' = Stat(p)
<1>1. tree' = tree /\ opts' = opts /\ pattern' = pattern
  BY DEF input
<1>2. Ino' = Ino /\ Inode' = Inode /\ Name' = Name
  BY <1>1 DEF Ino, Inode, Name, None
<1>3. InputOK' = InputOK
  BY <1>1 DEF InputOK
<1>4. \A i : Kind(i)' = Kind(i) /\ Follow(i)' = Follow(i) /\ Data(i)' = Data(i)
  BY <1>1 DEF Kind, Follow, Data, None
<1>5. \A p : Lookup(p)' = Lookup(p)
  <2> SUFFICES ASSUME NEW CONSTANT p PROVE Lookup(p)' = Lookup(p)
    OBVIOUS
  <2>1. Lookup(p) = LookupOf(tree, p)
    BY DEF Lookup, LookupOf, Kind, Follow, Entry
  <2>2. Lookup(p)' = LookupOf(tree', p)
    BY DEF Lookup, LookupOf, Kind, Follow, Entry, None
  <2> QED
    BY <1>1, <2>1, <2>2
<1>6. \A p : Stat(p)' = Stat(p)
  BY <1>4, <1>5 DEF Stat
<1> QED
  BY <1>2, <1>3, <1>4, <1>5, <1>6
-----------------------------------------------------------------------------
(* What the stack and the path say about each other.                       *)
Frame == [dir : Ino, base : Nat, next : Nat]

(* dopath or what it calls works on what the entry just read names.        *)
Below == {"call", "read", "grep"}

FrameRight(k) ==
  /\ Kind(stack[k].dir) = "dir" /\ stack[k].dir \notin tree.locked
  /\ stack[k].base = k
  /\ stack[k].next \in 1 .. Len(tree.entries[stack[k].dir]) + 1
  /\ Data(LookupAt(k)) = stack[k].dir
  /\ k < Len(stack) \/ pc \in Below =>
       /\ stack[k].next > 1
       /\ tree.entries[stack[k].dir][stack[k].next - 1] = <<path[k + 1], LookupAt(k + 1)>>

StackInv ==
  /\ pc \in {"call", "read", "grep", "loop", "done", "stuck"}
  /\ stack \in Seq(Frame) /\ path \in Seq(Name)
  /\ path # <<>> /\ path[1] = tree.name /\ Len(stack) < Len(path)
  /\ pc \in Below => Len(path) = Len(stack) + 1
  /\ pc = "loop" => stack # <<>>
  /\ pc = "done" => stack = <<>>
  /\ \A k \in 1 .. Len(stack) : FrameRight(k)

(* A frame stays right as long as the path below it stays.                 *)
LEMMA FrameKept ==
  ASSUME InputOK, StackInv, UNCHANGED input,
         NEW k \in 1 .. Len(stack), stack'[k] = stack[k],
         path' \in Seq(Name), k <= Len(path'), \A n \in 1 .. k : path'[n] = path[n],
         k < Len(stack') \/ pc' \in Below =>
           /\ k < Len(stack) \/ pc \in Below
           /\ k + 1 <= Len(path') /\ path'[k + 1] = path[k + 1]
  PROVE  FrameRight(k)'
<1>1. FrameRight(k) /\ path \in Seq(Name) /\ k <= Len(path) /\ k + 1 <= Len(path)
  BY DEF StackInv
<1>2. tree' = tree
  BY DEF input
<1>3. LookupAt(k)' = LookupAt(k)
  <2>1. LookupAt(k)' = Lookup(SubSeq(path', 1, k))
    BY TreeKept DEF LookupAt
  <2>2. Lookup(SubSeq(path', 1, k)) = Lookup(SubSeq(path, 1, k))
    BY <1>1, LookupPrefix
  <2> QED
    BY <2>1, <2>2 DEF LookupAt
<1>4. ASSUME k < Len(stack') \/ pc' \in Below
      PROVE  LookupAt(k + 1)' = LookupAt(k + 1)
  <2>1. LookupAt(k + 1)' = Lookup(SubSeq(path', 1, k + 1))
    BY TreeKept DEF LookupAt
  <2>2. k + 1 \in Nat \ {0} /\ k + 1 <= Len(path') /\ \A n \in 1 .. k + 1 : path'[n] = path[n]
    BY <1>4
  <2>3. Lookup(SubSeq(path', 1, k + 1)) = Lookup(SubSeq(path, 1, k + 1))
    BY <1>1, <2>2, LookupPrefix
  <2> QED
    BY <2>1, <2>3 DEF LookupAt
<1>5. \A i : Kind(i)' = Kind(i) /\ Data(i)' = Data(i)
  BY TreeKept
<1>6. Data(LookupAt(k))' = Data(LookupAt(k))
  BY <1>3, <1>5
<1>7. Kind(stack[k].dir)' = Kind(stack[k].dir)
  BY <1>5
<1> QED
  BY <1>1, <1>2, <1>3, <1>4, <1>6, <1>7 DEF FrameRight

(* Steps that leave stack and path alone.                                  *)
LEMMA FramesKept ==
  ASSUME InputOK, StackInv, UNCHANGED input, UNCHANGED <<stack, path>>,
         pc' \in Below => pc \in Below
  PROVE  \A k \in 1 .. Len(stack') : FrameRight(k)'
<1> SUFFICES ASSUME NEW k \in 1 .. Len(stack') PROVE FrameRight(k)'
  OBVIOUS
<1>1. k \in 1 .. Len(stack) /\ path \in Seq(Name) /\ k + 1 <= Len(path)
  BY DEF StackInv
<1>2. k \in Nat /\ k <= Len(path) /\ path' = path /\ stack' = stack
  BY <1>1
<1> QED
  BY <1>1, <1>2, FrameKept

(* Steps that lengthen the path and return.                                *)
LEMMA Returned ==
  ASSUME InputOK, StackInv, UNCHANGED input, UNCHANGED stack, pc = "call", Return,
         path' \in Seq(Name), Len(path) <= Len(path'),
         \A m \in 1 .. Len(path) : path'[m] = path[m]
  PROVE  StackInv'
<1> PICK l, n : l = Len(path) /\ n = Len(stack)
  OBVIOUS
<1>1. /\ path \in Seq(Name) /\ stack \in Seq(Frame) /\ path[1] = tree.name
      /\ l \in Nat /\ n \in Nat /\ 1 <= l /\ n < l
  <2>1. /\ path \in Seq(Name) /\ path # <<>> /\ n < l /\ stack \in Seq(Frame)
        /\ path[1] = tree.name
    BY DEF StackInv
  <2>2. l # 0 /\ l \in Nat /\ n \in Nat
    BY <2>1, Lengths
  <2> QED
    BY <2>1, <2>2
<1>2. Len(path') \in Nat
  BY Lengths
<1>3. \A k \in 1 .. Len(stack') : FrameRight(k)'
  <2> SUFFICES ASSUME NEW k \in 1 .. n PROVE FrameRight(k)'
    OBVIOUS
  <2>1. k \in 1 .. Len(stack) /\ k + 1 <= l /\ k \in Nat
    BY <1>1
  <2>2. /\ k <= Len(path') /\ k + 1 <= Len(path') /\ path'[k + 1] = path[k + 1]
        /\ \A m \in 1 .. k : path'[m] = path[m]
    BY <1>1, <1>2, <2>1
  <2>3. pc' \in Below => pc \in Below
    BY DEF Below
  <2> QED
    BY <1>2, <2>1, <2>2, <2>3, FrameKept
<1>4. /\ pc' = IF stack = <<>> THEN "done" ELSE "loop"
      /\ Frame' = Frame /\ Name' = Name /\ tree' = tree
  BY TreeKept DEF Return, Frame, input
<1>5. path'[1] = path[1] /\ Len(stack') < Len(path') /\ path' # <<>>
  <2>1. path'[1] = path[1] /\ n < Len(path') /\ Len(path') # 0
    BY <1>1, <1>2
  <2> QED
    BY <1>2, <2>1, Lengths
<1> QED
  BY <1>1, <1>2, <1>3, <1>4, <1>5 DEF StackInv, Below

(* Only a slash has been put behind the path, or nothing.                  *)
LEMMA SlashLeft ==
  ASSUME StackInv, path' = path \/ path' = Append(path, "")
  PROVE  /\ path' \in Seq(Name) /\ Len(path) <= Len(path')
         /\ \A m \in 1 .. Len(path) : path'[m] = path[m]
<1>1. path \in Seq(Name) /\ "" \in Name
  BY DEF StackInv, Name
<1>2. \A s \in Seq(Name), x \in Name :
        /\ Append(s, x) \in Seq(Name) /\ Len(s) <= Len(Append(s, x)) /\ Len(s) <= Len(s)
        /\ \A m \in 1 .. Len(s) : Append(s, x)[m] = s[m]
  BY Appended
<1> QED
  BY <1>1, <1>2

(* Steps of readfile and mygrep.                                           *)
LEMMA StackKept ==
  ASSUME InputOK, StackInv, UNCHANGED <<input, stack, path>>,
         pc \in Below,
         pc' \in {"read", "grep", "stuck"} \/ Return
  PROVE  StackInv'
<1>1. \A k \in 1 .. Len(stack') : FrameRight(k)'
  BY FramesKept
<1>2. Frame' = Frame /\ Name' = Name /\ tree' = tree
  BY TreeKept DEF Frame, input
<1>3. /\ pc' \in {"read", "grep", "loop", "done", "stuck"}
      /\ pc' = "loop" => stack # <<>>
      /\ pc' = "done" => stack = <<>>
  BY DEF Return
<1> QED
  BY <1>1, <1>2, <1>3 DEF StackInv, Below

(* A directory is opened.                                                  *)
LEMMA DirPushed ==
  ASSUME InputOK, StackInv, VisitDir PROVE StackInv'
<1> PICK i, n, f : i = Stat(path) /\ n = Len(path) /\ f = [dir |-> i, base |-> n, next |-> 1]
  OBVIOUS
<1>1. /\ UNCHANGED input /\ pc = "call" /\ pc' = "loop" /\ Kind(i) = "dir" /\ i \notin tree.locked
      /\ path' = Append(path, "") /\ stack' = Append(stack, f)
  BY DEF VisitDir, Visit, Unchanging
<1>2. /\ path \in Seq(Name) /\ stack \in Seq(Frame) /\ n = Len(stack) + 1 /\ path[1] = tree.name
      /\ path # <<>> /\ n \in Nat /\ n >= 1
  <2>1. /\ path \in Seq(Name) /\ stack \in Seq(Frame) /\ n = Len(stack) + 1 /\ path[1] = tree.name
        /\ path # <<>>
    BY <1>1 DEF StackInv, Below
  <2>2. Len(stack) \in Nat
    BY <2>1, Lengths
  <2> QED
    BY <2>1, <2>2
<1>3. Lookup(path) \in Inode /\ i \in Ino
  <2>1. Lookup(path) \in Inode
    BY <1>2, LookupType
  <2> QED
    BY <1>1, <2>1, InodeTypes DEF Stat
<1>4. f \in Frame
  BY <1>2, <1>3 DEF Frame
<1>5. /\ path' \in Seq(Name) /\ Len(path') = n + 1 /\ \A m \in 1 .. n : path'[m] = path[m]
  <2>1. "" \in Name
    BY DEF Name
  <2>2. /\ Append(path, "") \in Seq(Name) /\ Len(Append(path, "")) = Len(path) + 1
        /\ \A m \in 1 .. Len(path) : Append(path, "")[m] = path[m]
    BY <1>2, <2>1, Appended
  <2> QED
    BY <1>1, <2>2
<1>6. /\ stack' \in Seq(Frame) /\ Len(stack') = n /\ \A m \in 1 .. n - 1 : stack'[m] = stack[m]
      /\ stack'[n] = f
  <2>1. n - 1 = Len(stack)
    BY <1>2, Lengths
  <2>2. /\ Append(stack, f) \in Seq(Frame) /\ Len(Append(stack, f)) = Len(stack) + 1
        /\ \A m \in 1 .. Len(stack) : Append(stack, f)[m] = stack[m]
        /\ Append(stack, f)[Len(stack) + 1] = f
    BY <1>2, <1>4, Appended
  <2> QED
    BY <1>1, <1>2, <2>1, <2>2
<1>7. ASSUME NEW k \in 1 .. n - 1 PROVE FrameRight(k)'
  <2>1. k \in 1 .. Len(stack) /\ k <= Len(path') /\ stack'[k] = stack[k]
    <3>1. Len(stack) = n - 1
      BY <1>2, Lengths
    <3> QED
      BY <1>2, <1>5, <1>6, <3>1
  <2>5. k + 1 \in 1 .. n /\ k + 1 <= n + 1 /\ \A m \in 1 .. k : m \in 1 .. n
    BY <1>2
  <2>2. \A m \in 1 .. k : path'[m] = path[m]
    BY <1>5, <2>5
  <2>3. k + 1 <= Len(path') /\ path'[k + 1] = path[k + 1]
    BY <1>5, <2>5
  <2>4. pc \in Below
    BY <1>1 DEF Below
  <2> QED
    BY <1>1, <1>5, <2>1, <2>2, <2>3, <2>4, FrameKept
<1>8. FrameRight(n)'
  <2>1. LookupAt(n)' = Lookup(SubSeq(path', 1, n))
    BY <1>1, TreeKept DEF LookupAt
  <2>2. SubSeq(path', 1, n) = path
    <3>1. n <= Len(path')
      BY <1>2, <1>5
    <3>2. /\ SubSeq(path', 1, n) \in Seq(Name) /\ Len(SubSeq(path', 1, n)) = n
          /\ \A m \in 1 .. n : SubSeq(path', 1, n)[m] = path'[m]
      BY <1>2, <1>5, <3>1, Prefix
    <3> PICK q : q = SubSeq(path', 1, n)
      OBVIOUS
    <3>3. q \in Seq(Name) /\ Len(q) = Len(path) /\ \A m \in 1 .. Len(path) : q[m] = path[m]
      BY <1>5, <3>2
    <3>4. q = path
      BY <1>2, <3>3, EqualSequences
    <3> QED
      BY <3>4
  <2>3. Data(LookupAt(n))' = i
    <3>1. \A j : Data(j)' = Data(j)
      BY <1>1, TreeKept
    <3> QED
      BY <2>1, <2>2, <3>1 DEF Stat
  <2>4. Kind(i)' = Kind(i)
    BY <1>1, TreeKept
  <2>5. tree' = tree
    BY <1>1 DEF input
  <2>6. Len(tree.entries[i]) \in Nat
    <3>1. tree.entries[i] \in Seq((DOMAIN tree.ext \ {""}) \X Ino)
      BY <1>1, <1>3, EntryFound
    <3> QED
      BY <3>1, Lengths
  <2>7. ~(n < Len(stack')) /\ pc' \notin Below
    <3>1. pc' \notin Below
      BY <1>1 DEF Below
    <3> QED
      BY <1>2, <1>6, <3>1
  <2>8. stack'[n].dir = i /\ stack'[n].base = n /\ stack'[n].next = 1
    BY <1>6
  <2>9. 1 \in 1 .. Len(tree.entries[i]) + 1
    BY <2>6
  <2> QED
    BY <1>1, <2>3, <2>4, <2>5, <2>7, <2>8, <2>9 DEF FrameRight
<1>9. \A k \in 1 .. Len(stack') : FrameRight(k)'
  <2> SUFFICES ASSUME NEW k \in 1 .. n PROVE FrameRight(k)'
    BY <1>6
  <2>1. k \in 1 .. n - 1 \/ k = n
    BY <1>2
  <2> QED
    BY <1>7, <1>8, <2>1
<1>10. Frame' = Frame /\ Name' = Name /\ tree' = tree
  BY <1>1, TreeKept DEF Frame, input
<1>11. path'[1] = tree.name /\ path' # <<>> /\ stack' # <<>> /\ Len(stack') < Len(path')
  <2>1. path'[1] = tree.name /\ Len(path') # 0 /\ Len(stack') # 0 /\ Len(stack') < Len(path')
    BY <1>2, <1>5, <1>6
  <2> QED
    BY <1>5, <1>6, <2>1, Lengths
<1> QED
  BY <1>1, <1>5, <1>6, <1>9, <1>10, <1>11 DEF StackInv, Below

(* The directory at the end of the path, between two entries.              *)
LEMMA TopRight ==
  ASSUME InputOK, StackInv, pc = "loop", NEW n, n = Len(stack)
  PROVE  /\ path \in Seq(Name) /\ stack \in Seq(Frame) /\ n \in Nat /\ 1 <= n /\ n < Len(path)
         /\ path[1] = tree.name /\ stack[n] \in Frame /\ stack[n].dir \in Ino
         /\ Kind(stack[n].dir) = "dir" /\ stack[n].dir \notin tree.locked
         /\ stack[n].base = n /\ Data(LookupAt(n)) = stack[n].dir
         /\ stack[n].next \in 1 .. Len(tree.entries[stack[n].dir]) + 1
<1>1. /\ path \in Seq(Name) /\ stack \in Seq(Frame) /\ stack # <<>> /\ Len(stack) < Len(path)
      /\ path[1] = tree.name
  BY DEF StackInv
<1>2. n \in Nat /\ n # 0 /\ n \in 1 .. Len(stack)
  <2>1. n \in Nat /\ n # 0
    BY <1>1, Lengths
  <2> QED
    BY <2>1
<1>3. stack[n] \in Frame
  BY <1>1, <1>2, Lengths
<1>4. FrameRight(n)
  BY <1>2 DEF StackInv
<1> QED
  BY <1>1, <1>2, <1>3, <1>4 DEF FrameRight, Frame

(* The entry read next, and where the new path leads.                      *)
LEMMA EntryNamed ==
  ASSUME InputOK, StackInv, NextEntry, NEW n, n = Len(stack), NEW d, d = stack[n].dir,
         NEW e, e = tree.entries[d][stack[n].next]
  PROVE  /\ UNCHANGED input /\ pc = "loop" /\ pc' = "call"
         /\ stack[n].next \in 1 .. Len(tree.entries[d])
         /\ d \in Ino /\ e[1] \in Name /\ e[1] # "" /\ e[2] \in Ino /\ e = <<e[1], e[2]>>
         /\ path' \in Seq(Name) /\ Len(path') = n + 1 /\ \A m \in 1 .. n : path'[m] = path[m]
         /\ path'[n + 1] = e[1]
         /\ stack' \in Seq(Frame) /\ Len(stack') = n /\ \A m \in 1 .. n - 1 : stack'[m] = stack[m]
         /\ stack'[n] = [stack[n] EXCEPT !.next = @ + 1]
         /\ LookupAt(n)' = LookupAt(n) /\ LookupAt(n + 1)' = e[2]
<1>1. /\ UNCHANGED input /\ pc = "loop" /\ pc' = "call" /\ stack[n].next <= Len(tree.entries[d])
      /\ path' = Append(SubSeq(path, 1, stack[n].base), e[1])
      /\ stack' = [stack EXCEPT ![n] = [stack[n] EXCEPT !.next = @ + 1]]
  BY DEF NextEntry, Top, Unchanging
<1>2. /\ path \in Seq(Name) /\ stack \in Seq(Frame) /\ n \in Nat /\ 1 <= n /\ n < Len(path)
      /\ path[1] = tree.name /\ stack[n] \in Frame /\ d \in Ino
      /\ Kind(d) = "dir" /\ stack[n].base = n /\ Data(LookupAt(n)) = d
      /\ stack[n].next \in 1 .. Len(tree.entries[d]) + 1
  BY <1>1, TopRight
<1>3. tree.entries[d] \in Seq((DOMAIN tree.ext \ {""}) \X Ino)
  BY <1>2, EntryFound
<1>4. stack[n].next \in 1 .. Len(tree.entries[d])
  <2>1. Len(tree.entries[d]) \in Nat
    BY <1>3, Lengths
  <2> QED
    BY <1>1, <1>2, <2>1
<1>5. /\ e[1] \in Name /\ e[1] # "" /\ e[2] \in Ino /\ Entry(d, e[1]) = e[2]
      /\ e = <<e[1], e[2]>>
  <2>1. e[1] \in DOMAIN tree.ext \ {""} /\ e[2] \in Ino /\ Entry(d, e[1]) = e[2]
    BY <1>2, <1>4, EntryFound
  <2>2. e \in (DOMAIN tree.ext \ {""}) \X Ino
    <3>1. \A k \in 1 .. Len(tree.entries[d]) :
            tree.entries[d][k] \in (DOMAIN tree.ext \ {""}) \X Ino
      BY <1>3, Lengths
    <3> QED
      BY <1>4, <3>1
  <2>3. e = <<e[1], e[2]>>
    <3> DEFINE A == DOMAIN tree.ext \ {""}
    <3> HIDE DEF A
    <3>1. \A x \in A \X Ino : x = <<x[1], x[2]>>
      BY Pairs
    <3> QED
      BY <2>2, <3>1 DEF A
  <2> QED
    BY <2>1, <2>3 DEF Name
<1> PICK q : q = SubSeq(path, 1, n)
  OBVIOUS
<1>6. q \in Seq(Name) /\ Len(q) = n /\ \A m \in 1 .. n : q[m] = path[m]
  BY <1>2, Prefix
<1>7. path' = Append(q, e[1])
  BY <1>1, <1>2
<1>8. /\ path' \in Seq(Name) /\ Len(path') = n + 1 /\ \A m \in 1 .. n : path'[m] = q[m]
      /\ path'[n + 1] = e[1]
  <2>1. /\ Append(q, e[1]) \in Seq(Name) /\ Len(Append(q, e[1])) = Len(q) + 1
        /\ \A m \in 1 .. Len(q) : Append(q, e[1])[m] = q[m]
        /\ Append(q, e[1])[Len(q) + 1] = e[1]
    <3>1. \A s \in Seq(Name), x \in Name :
            /\ Append(s, x) \in Seq(Name) /\ Len(Append(s, x)) = Len(s) + 1
            /\ \A m \in 1 .. Len(s) : Append(s, x)[m] = s[m]
            /\ Append(s, x)[Len(s) + 1] = x
      BY Appended
    <3> QED
      BY <1>5, <1>6, <3>1
  <2> QED
    BY <1>6, <1>7, <2>1
<1> PICK f : f = [stack[n] EXCEPT !.next = @ + 1]
  OBVIOUS
<1>9. f \in Frame
  <2>1. stack[n] \in [dir : Ino, base : Nat, next : Nat]
    BY <1>2 DEF Frame
  <2> QED
    BY <2>1 DEF Frame
<1>10. /\ stack' \in Seq(Frame) /\ Len(stack') = n /\ \A m \in 1 .. n - 1 : stack'[m] = stack[m]
       /\ stack'[n] = [stack[n] EXCEPT !.next = @ + 1]
  <2>1. n \in 1 .. Len(stack) /\ \A m \in 1 .. n - 1 : m \in 1 .. Len(stack) /\ m # n
    <3>1. n \in Nat /\ 1 <= n /\ n = Len(stack)
      BY <1>2
    <3> QED
      BY <3>1
  <2>2. stack' = [stack EXCEPT ![n] = f]
    BY <1>1
  <2>3. /\ [stack EXCEPT ![n] = f] \in Seq(Frame) /\ Len([stack EXCEPT ![n] = f]) = Len(stack)
        /\ \A m \in 1 .. Len(stack) : m # n => [stack EXCEPT ![n] = f][m] = stack[m]
        /\ [stack EXCEPT ![n] = f][n] = f
    BY <1>2, <1>9, <2>1, Replaced
  <2>4. /\ stack' \in Seq(Frame) /\ Len(stack') = Len(stack) /\ stack'[n] = f
        /\ \A m \in 1 .. Len(stack) : m # n => stack'[m] = stack[m]
    BY <2>2, <2>3
  <2> QED
    BY <2>1, <2>4
<1>11. \A k : LookupAt(k)' = Lookup(SubSeq(path', 1, k))
  BY <1>1, TreeKept DEF LookupAt
<1>12. LookupAt(n)' = LookupAt(n)
  <2>1. n \in Nat \ {0} /\ n <= Len(path') /\ n <= Len(path)
    BY <1>2, <1>8
  <2>2. \A m \in 1 .. n : path'[m] = path[m]
    BY <1>6, <1>8
  <2>3. Lookup(SubSeq(path', 1, n)) = Lookup(SubSeq(path, 1, n))
    BY <1>2, <1>8, <2>1, <2>2, LookupPrefix
  <2> QED
    BY <1>11, <2>3 DEF LookupAt
<1>13. LookupAt(n + 1)' = e[2]
  <2>1. SubSeq(path', 1, n + 1) = path'
    <3>1. n + 1 \in Nat /\ n + 1 <= Len(path')
      BY <1>2, <1>8
    <3> QED
      BY <1>8, <3>1, Prefix
  <2>2. Lookup(path') = Into(Lookup(q), path'[Len(path')])
    <3>1. Len(q) >= 1 /\ Len(path') = Len(q) + 1 /\ \A m \in 1 .. Len(q) : q[m] = path'[m]
      BY <1>2, <1>6, <1>8
    <3> QED
      BY <1>6, <1>8, <3>1, LookupInto
  <2>3. Lookup(q) \in Inode
    <3>1. q # <<>>
      BY <1>2, <1>6, Lengths
    <3> QED
      BY <1>6, <3>1, LookupType
  <2>4. Lookup(q) = LookupAt(n)
    BY DEF LookupAt
  <2>5. Follow(Lookup(q)) = d
    BY <1>2, <2>3, <2>4, InodeTypes
  <2>6. Into(Lookup(q), e[1]) = e[2]
    BY <1>2, <1>5, <2>5 DEF Into
  <2> QED
    BY <1>8, <1>11, <2>1, <2>2, <2>6
<1> QED
  BY <1>1, <1>2, <1>4, <1>5, <1>6, <1>8, <1>10, <1>12, <1>13

(* NextEntry keeps what stack and path say about each other: the new end   *)
(* of the path is the entry that the top frame has just passed.            *)
LEMMA EntryRead ==
  ASSUME InputOK, StackInv, NextEntry PROVE StackInv'
<1> PICK n : n = Len(stack)
  OBVIOUS
<1> PICK d : d = stack[n].dir
  OBVIOUS
<1> PICK e : e = tree.entries[d][stack[n].next]
  OBVIOUS
<1>1. /\ UNCHANGED input /\ pc = "loop" /\ pc' = "call"
      /\ stack[n].next \in 1 .. Len(tree.entries[d])
      /\ d \in Ino /\ e[1] \in Name /\ e[2] \in Ino /\ e = <<e[1], e[2]>>
  BY EntryNamed
<1>2. /\ path' \in Seq(Name) /\ Len(path') = n + 1 /\ \A m \in 1 .. n : path'[m] = path[m]
      /\ path'[n + 1] = e[1]
  BY EntryNamed
<1>3. /\ stack' \in Seq(Frame) /\ Len(stack') = n /\ \A m \in 1 .. n - 1 : stack'[m] = stack[m]
      /\ stack'[n] = [stack[n] EXCEPT !.next = @ + 1]
  BY EntryNamed
<1>4. LookupAt(n)' = LookupAt(n) /\ LookupAt(n + 1)' = e[2]
  BY EntryNamed
<1>5. /\ n \in Nat /\ 1 <= n /\ path[1] = tree.name /\ stack[n] \in Frame
      /\ Kind(d) = "dir" /\ d \notin tree.locked /\ stack[n].base = n /\ Data(LookupAt(n)) = d
  BY <1>1, TopRight
<1>6. Len(tree.entries[d]) \in Nat
  <2>1. tree.entries[d] \in Seq((DOMAIN tree.ext \ {""}) \X Ino)
    BY <1>1, <1>5, EntryFound
  <2> QED
    BY <2>1, Lengths
<1>7. ASSUME NEW k \in 1 .. n - 1 PROVE FrameRight(k)'
  <2>1. k \in 1 .. Len(stack) /\ k <= Len(path') /\ stack'[k] = stack[k]
    BY <1>2, <1>3, <1>5
  <2>2. \A m \in 1 .. k : path'[m] = path[m]
    BY <1>2, <1>5
  <2>3. k + 1 <= Len(path') /\ path'[k + 1] = path[k + 1] /\ k < Len(stack)
    BY <1>2, <1>5
  <2> QED
    BY <1>1, <1>2, <2>1, <2>2, <2>3, FrameKept
<1>8. FrameRight(n)'
  <2>1. \A j : Data(j)' = Data(j) /\ Kind(j)' = Kind(j)
    BY <1>1, TreeKept
  <2>2. tree' = tree
    BY <1>1 DEF input
  <2>3. stack'[n].dir = d /\ stack'[n].base = n /\ stack'[n].next = stack[n].next + 1
    BY <1>3, <1>5 DEF Frame
  <2>4. Data(LookupAt(n))' = d /\ Kind(stack[n].dir)' = "dir"
    BY <1>4, <1>5, <2>1, <2>3
  <2>5. /\ stack'[n].next - 1 = stack[n].next /\ stack'[n].next > 1
        /\ stack'[n].next \in 1 .. Len(tree.entries[d]) + 1
    BY <1>1, <1>6, <2>3
  <2>6. tree.entries[d][stack'[n].next - 1] = <<path'[n + 1], LookupAt(n + 1)'>>
    BY <1>1, <1>2, <1>4, <2>5
  <2> QED
    BY <1>5, <2>2, <2>3, <2>4, <2>5, <2>6 DEF FrameRight
<1>9. \A k \in 1 .. Len(stack') : FrameRight(k)'
  <2> SUFFICES ASSUME NEW k \in 1 .. n PROVE FrameRight(k)'
    BY <1>3
  <2>1. k \in 1 .. n - 1 \/ k = n
    BY <1>5
  <2> QED
    BY <1>7, <1>8, <2>1
<1>10. Frame' = Frame /\ Name' = Name /\ tree' = tree
  BY <1>1, TreeKept DEF Frame, input
<1>11. path'[1] = tree.name /\ path' # <<>> /\ stack' # <<>> /\ Len(stack') < Len(path')
  <2>1. path'[1] = tree.name /\ Len(path') # 0 /\ Len(stack') # 0 /\ Len(stack') < Len(path')
    BY <1>2, <1>3, <1>5
  <2> QED
    BY <1>2, <1>3, <2>1, Lengths
<1>12. Len(path') = Len(stack') + 1
  BY <1>2, <1>3
<1> QED
  BY <1>1, <1>2, <1>3, <1>9, <1>10, <1>11, <1>12 DEF StackInv, Below

(* A directory is closed.                                                  *)
LEMMA DirClosed ==
  ASSUME InputOK, StackInv, CloseDir PROVE StackInv'
<1> PICK n : n = Len(stack)
  OBVIOUS
<1>1. /\ UNCHANGED input /\ pc = "loop" /\ pc' = (IF n = 1 THEN "done" ELSE "loop")
      /\ path' = SubSeq(path, 1, stack[n].base) /\ stack' = Front(stack)
  BY DEF CloseDir, Top, Unchanging
<1>2. /\ path \in Seq(Name) /\ stack \in Seq(Frame) /\ n \in Nat /\ 1 <= n /\ n < Len(path)
      /\ path[1] = tree.name /\ stack[n].base = n
  BY <1>1, TopRight
<1>3. /\ path' \in Seq(Name) /\ Len(path') = n /\ \A m \in 1 .. n : path'[m] = path[m]
  <2>1. n <= Len(path)
    BY <1>2, Lengths
  <2> QED
    BY <1>1, <1>2, <2>1, Prefix
<1>4. /\ stack' \in Seq(Frame) /\ Len(stack') = n - 1 /\ \A m \in 1 .. n - 1 : stack'[m] = stack[m]
  <2>1. stack # <<>>
    BY <1>2, Lengths
  <2> QED
    BY <1>1, <1>2, <2>1, Fronted
<1>5. \A k \in 1 .. Len(stack') : FrameRight(k)'
  <2> SUFFICES ASSUME NEW k \in 1 .. n - 1 PROVE FrameRight(k)'
    BY <1>4
  <2>1. k \in 1 .. Len(stack) /\ k <= Len(path') /\ stack'[k] = stack[k]
    BY <1>2, <1>3, <1>4
  <2>2. \A m \in 1 .. k : path'[m] = path[m]
    BY <1>2, <1>3, <2>1
  <2>3. k + 1 <= Len(path') /\ path'[k + 1] = path[k + 1] /\ k < Len(stack)
    BY <1>2, <1>3, <1>4
  <2> QED
    BY <1>1, <1>3, <2>1, <2>2, <2>3, FrameKept
<1>6. Frame' = Frame /\ Name' = Name /\ tree' = tree
  BY <1>1, TreeKept DEF Frame, input
<1>7. path'[1] = tree.name /\ path' # <<>> /\ (stack' = <<>> <=> n = 1) /\ Len(stack') < Len(path')
  <2>1. path'[1] = tree.name /\ Len(path') # 0 /\ (Len(stack') = 0 <=> n = 1)
        /\ Len(stack') < Len(path')
    BY <1>2, <1>3, <1>4
  <2> QED
    BY <1>3, <1>4, <2>1, Lengths
<1> QED
  BY <1>1, <1>3, <1>4, <1>5, <1>6, <1>7 DEF StackInv, Below

(* Every step keeps what stack and path say about each other.              *)
LEMMA StackStep ==
  ASSUME InputOK, StackInv, [Next]_vars PROVE StackInv'
<1>1. CASE Skip
  BY <1>1, StackKept DEF Skip, Unchanging, Below
<1>2. CASE VisitFile
  <2>1. /\ UNCHANGED <<input, stack, path>> /\ pc = "call"
        /\ pc' \in {"read", "grep", "stuck"}
    BY <1>2 DEF VisitFile, Visit, Unchanging
  <2> QED
    BY <2>1, StackKept DEF Below
<1>3. CASE VisitDir
  BY <1>3, DirPushed
<1>4. CASE VisitUnreadable
  <2>1. path' = Append(path, "")
    BY <1>4 DEF VisitUnreadable
  <2>2. /\ path' \in Seq(Name) /\ Len(path) <= Len(path')
        /\ \A m \in 1 .. Len(path) : path'[m] = path[m]
    BY <2>1, SlashLeft
  <2> QED
    BY <1>4, <2>2, Returned DEF VisitUnreadable, Visit, Unchanging
<1>5. CASE LstatFails
  <2>1. path' = path \/ path' = Append(path, "")
    BY <1>5 DEF LstatFails
  <2>2. /\ path' \in Seq(Name) /\ Len(path) <= Len(path')
        /\ \A m \in 1 .. Len(path) : path'[m] = path[m]
    BY <2>1, SlashLeft
  <2>3. UNCHANGED input /\ UNCHANGED stack /\ pc = "call" /\ Return
    BY <1>5 DEF LstatFails, Unchanging
  <2> QED
    BY <2>2, <2>3, Returned
<1>6. CASE NextEntry
  BY <1>6, EntryRead
<1>7. CASE CloseDir
  BY <1>7, DirClosed
<1>8. CASE Store \/ SearchLine \/ CloseFile \/ GrepRound \/ GrepEnds
  <2>1. /\ UNCHANGED <<input, stack, path>> /\ pc \in Below
        /\ pc' \in {"read", "grep", "stuck"} \/ Return
    BY <1>8 DEF Store, SearchLine, CloseFile, GrepRound, GrepEnds, ReadByte, Grep, Unchanging, Below
  <2> QED
    BY <2>1, StackKept
<1>9. CASE UNCHANGED vars
  <2>1. UNCHANGED input /\ UNCHANGED <<stack, path>> /\ pc' = pc
    BY <1>9 DEF vars
  <2>2. \A k \in 1 .. Len(stack') : FrameRight(k)'
    BY <2>1, FramesKept
  <2>3. Frame' = Frame /\ Name' = Name /\ tree' = tree
    BY <2>1, TreeKept DEF Frame, input
  <2> QED
    BY <2>1, <2>2, <2>3 DEF StackInv, Below
<1> QED
  BY <1>1, <1>2, <1>3, <1>4, <1>5, <1>6, <1>7, <1>8, <1>9 DEF Next
-----------------------------------------------------------------------------
(* mygrep: what a round does, by cases.                                    *)
Outcome(p, line, h, r) ==
  LET s == At(p, h.sspos)
      next == At(p, h.sspos + 1)
      c == At(line, h.i)
  IN \/ /\ c \notin Letter \/ (s \in Letter /\ next \notin {"*", "?"} /\ s # c)
        /\ r = Restart(h)
     \/ c \in Letter /\ s = "." /\ r = Advance(h, 1, 1)
     \/ c \in Letter /\ s \in Letter /\ next = "*" /\ r = Advance(h, 2, RunLength(line, h.i, s))
     \/ c \in Letter /\ s \in Letter /\ next = "?" /\ s = c /\ r = Advance(h, 2, 1)
     \/ c \in Letter /\ s \in Letter /\ next = "?" /\ s # c /\ r = Advance(h, 2, 0)
     \/ c \in Letter /\ s = c /\ next \notin {"*", "?"} /\ r = Advance(h, 1, 1)
     \/ c \in Letter /\ s \notin Letter \cup {"."} /\ r = h

(* Every round of mygrep is one of the cases of Outcome.                   *)
LEMMA RoundCases ==
  ASSUME NEW p, NEW line, NEW h
  PROVE  Outcome(p, line, h, Round(p, line, h))
<1> DEFINE s == At(p, h.sspos)
           next == At(p, h.sspos + 1)
           c == At(line, h.i)
           r == Round(p, line, h)
<1>1. "." \notin Letter
  BY LetterAssumption
<1>2. CASE c \notin Letter
  <2>1. r = Restart(h)
    BY <1>2 DEF Round
  <2> QED
    BY <1>2, <2>1 DEF Outcome
<1>3. CASE c \in Letter /\ s = "."
  <2>1. r = Advance(h, 1, 1)
    BY <1>1, <1>3 DEF Round
  <2> QED
    BY <1>3, <2>1 DEF Outcome
<1>4. CASE c \in Letter /\ s \in Letter /\ next = "*"
  <2>1. r = Advance(h, 2, RunLength(line, h.i, s))
    BY <1>1, <1>4 DEF Round
  <2> QED
    BY <1>4, <2>1 DEF Outcome
<1>5. CASE c \in Letter /\ s \in Letter /\ next = "?"
  <2>1. r = Advance(h, 2, IF s = c THEN 1 ELSE 0)
    BY <1>1, <1>5 DEF Round
  <2> QED
    BY <1>5, <2>1 DEF Outcome
<1>6. CASE c \in Letter /\ s \in Letter /\ next \notin {"*", "?"}
  <2>1. r = IF s = c THEN Advance(h, 1, 1) ELSE Restart(h)
    BY <1>1, <1>6 DEF Round
  <2> QED
    BY <1>6, <2>1 DEF Outcome
<1>7. CASE c \in Letter /\ s \notin Letter \cup {"."}
  <2>1. r = h
    BY <1>7 DEF Round
  <2> QED
    BY <1>7, <2>1 DEF Outcome
<1> QED
  BY <1>2, <1>3, <1>4, <1>5, <1>6, <1>7

(* A run of a letter ends within the line.                                 *)
LEMMA RunEnds ==
  ASSUME NEW line, Len(line) \in Nat, NEW i \in 0 .. Len(line), NEW c \in Letter
  PROVE  /\ RunLength(line, i, c) \in 0 .. Len(line) - i
         /\ At(line, i + RunLength(line, i, c)) # c
         /\ \A k \in i .. i + RunLength(line, i, c) - 1 : At(line, k) = c
<1> DEFINE Ends(n) == At(line, i + n) # c /\ \A k \in i .. i + n - 1 : At(line, k) = c
           S == {n \in 0 .. Len(line) - i : \A k \in i .. i + n - 1 : At(line, k) = c}
<1>1. \A k \in Nat : k >= Len(line) => At(line, k) # c
  BY LetterAssumption DEF At
<1>2. \E n \in 0 .. Len(line) : Ends(n)
  <2> SUFFICES ASSUME \A n \in 0 .. Len(line) : ~Ends(n) PROVE FALSE
    OBVIOUS
  <2>1. 0 \in S
    OBVIOUS
  <2>2. ASSUME NEW n \in 0 .. (Len(line) - i) - 1, n \in S PROVE n + 1 \in S
    <3>1. At(line, i + n) = c
      BY <2>2
    <3>2. ASSUME NEW k \in i .. i + (n + 1) - 1 PROVE At(line, k) = c
      <4>1. k \in i .. i + n - 1 \/ k = i + n
        OBVIOUS
      <4> QED
        BY <2>2, <3>1, <4>1
    <3> QED
      BY <3>2
  <2>3. Len(line) - i \in Nat
    OBVIOUS
  <2> HIDE DEF S
  <2>4. 0 .. (Len(line) - i) \subseteq S
    BY <2>1, <2>2, <2>3, UpTo
  <2>5. Len(line) - i \in S
    BY <2>3, <2>4
  <2>6. \A k \in i .. i + (Len(line) - i) - 1 : At(line, k) = c
    BY <2>5 DEF S
  <2>7. At(line, i + (Len(line) - i)) # c
    BY <1>1
  <2>8. Len(line) - i \in 0 .. Len(line)
    OBVIOUS
  <2> QED
    BY <2>6, <2>7, <2>8
<1> DEFINE n == RunLength(line, i, c)
<1>3. n \in 0 .. Len(line) /\ Ends(n)
  BY <1>2 DEF RunLength
<1> HIDE DEF n
<1>4. n <= Len(line) - i
  <2> SUFFICES ASSUME n > Len(line) - i PROVE FALSE
    BY <1>3
  <2>1. Len(line) \in i .. i + n - 1
    BY <1>3
  <2>2. At(line, Len(line)) = c
    BY <1>3, <2>1
  <2> QED
    BY <1>1, <2>2
<1> QED
  BY <1>3, <1>4 DEF n

(* The string in a buffer is what stands before the first NUL.             *)
LEMMA CStringIs ==
  ASSUME NEW S, NEW s \in Seq(S)
  PROVE  /\ CString(s) \in Seq(S) /\ Len(CString(s)) \in 0 .. Len(s) /\ Len(s) \in Nat
         /\ \A k \in 1 .. Len(CString(s)) : CString(s)[k] = s[k]
<1> DEFINE Ends(n) == At(s, n) = NUL /\ \A k \in 0 .. n - 1 : At(s, k) # NUL
           T == {n \in 0 .. Len(s) : \A k \in 0 .. n - 1 : At(s, k) # NUL}
<1>1. Len(s) \in Nat
  BY Lengths
<1>2. \E n \in 0 .. Len(s) : Ends(n)
  <2> SUFFICES ASSUME \A n \in 0 .. Len(s) : ~Ends(n) PROVE FALSE
    OBVIOUS
  <2>1. 0 \in T
    BY <1>1
  <2>2. ASSUME NEW n \in 0 .. Len(s) - 1, n \in T PROVE n + 1 \in T
    <3>1. At(s, n) # NUL
      BY <1>1, <2>2
    <3>2. ASSUME NEW k \in 0 .. (n + 1) - 1 PROVE At(s, k) # NUL
      <4>1. k \in 0 .. n - 1 \/ k = n
        BY <1>1
      <4> QED
        BY <2>2, <3>1, <4>1
    <3> QED
      BY <1>1, <3>2
  <2> HIDE DEF T
  <2>3. 0 .. Len(s) \subseteq T
    BY <1>1, <2>1, <2>2, UpTo
  <2>4. Len(s) \in T /\ Len(s) \in 0 .. Len(s)
    BY <1>1, <2>3
  <2>5. At(s, Len(s)) = NUL
    BY <1>1 DEF At
  <2> QED
    BY <2>4, <2>5 DEF T
<1>3. StrLen(s) \in 0 .. Len(s)
  BY <1>2 DEF StrLen
<1>4. StrLen(s) \in Nat /\ StrLen(s) <= Len(s)
  BY <1>1, <1>3
<1>5. CString(s) = SubSeq(s, 1, StrLen(s))
  BY DEF CString
<1>6. /\ CString(s) \in Seq(S) /\ Len(CString(s)) = StrLen(s)
      /\ \A k \in 1 .. StrLen(s) : CString(s)[k] = s[k]
  BY <1>4, <1>5, Prefix
<1> QED
  BY <1>1, <1>3, <1>6

Place == [sspos : Nat, linepos : Nat, i : Nat]

(* A round stays within the pattern and the line, and begins a new attempt *)
(* only by Restart.                                                        *)
LEMMA RoundBounds ==
  ASSUME NEW p, NEW line, Len(p) \in Nat, Len(line) \in Nat, NEW h \in Place,
         h.sspos <= Len(p), h.linepos <= h.i, h.i <= Len(line), h.linepos < Len(line),
         NEW r, r = Round(p, line, h)
  PROVE  /\ r \in Place /\ r.sspos <= Len(p) /\ r.linepos <= r.i /\ r.i <= Len(line)
         /\ r.linepos = h.linepos \/ r = Restart(h)
<1> DEFINE s == At(p, h.sspos)
           next == At(p, h.sspos + 1)
           c == At(line, h.i)
<1>1. /\ h.sspos \in Nat /\ h.linepos \in Nat /\ h.i \in Nat
      /\ h = [sspos |-> h.sspos, linepos |-> h.linepos, i |-> h.i]
  BY DEF Place
<1>2. /\ c \in Letter => h.i < Len(line)
      /\ s \in Letter \cup {"."} => h.sspos < Len(p)
      /\ next \in {"*", "?"} => h.sspos + 1 < Len(p)
  BY <1>1, LetterAssumption DEF At, NUL
<1>3. \A ds, di \in Nat :
        /\ Advance(h, ds, di) \in Place
        /\ Advance(h, ds, di).sspos = h.sspos + ds /\ Advance(h, ds, di).i = h.i + di
        /\ Advance(h, ds, di).linepos = h.linepos
  <2> SUFFICES ASSUME NEW ds \in Nat, NEW di \in Nat
               PROVE  /\ Advance(h, ds, di) \in Place
                      /\ Advance(h, ds, di).sspos = h.sspos + ds
                      /\ Advance(h, ds, di).i = h.i + di
                      /\ Advance(h, ds, di).linepos = h.linepos
    OBVIOUS
  <2>1. Advance(h, ds, di) = [sspos |-> h.sspos + ds, linepos |-> h.linepos, i |-> h.i + di]
    BY DEF Advance
  <2>2. h.sspos + ds \in Nat /\ h.i + di \in Nat
    BY <1>1
  <2> QED
    BY <1>1, <2>1, <2>2 DEF Place
<1>4. CASE r = Restart(h)
  BY <1>1, <1>4 DEF Restart, Place
<1>5. ASSUME NEW ds \in Nat, NEW di \in Nat, r = Advance(h, ds, di),
             h.sspos + ds <= Len(p), h.i + di <= Len(line)
      PROVE  /\ r \in Place /\ r.sspos <= Len(p) /\ r.linepos <= r.i /\ r.i <= Len(line)
             /\ r.linepos = h.linepos
  BY <1>1, <1>3, <1>5
<1>6. CASE c \in Letter /\ (s = "." \/ s \in Letter) /\ r = Advance(h, 1, 1)
  <2>1. h.sspos + 1 <= Len(p) /\ h.i + 1 <= Len(line)
    BY <1>1, <1>2, <1>6
  <2> QED
    BY <1>5, <1>6, <2>1
<1>7. CASE c \in Letter /\ s \in Letter /\ next = "*" /\ r = Advance(h, 2, RunLength(line, h.i, s))
  <2>1. RunLength(line, h.i, s) \in 0 .. Len(line) - h.i
    BY <1>1, <1>7, RunEnds
  <2>2. RunLength(line, h.i, s) \in Nat /\ h.i + RunLength(line, h.i, s) <= Len(line)
    BY <1>1, <2>1
  <2>3. h.sspos + 2 <= Len(p)
    BY <1>1, <1>2, <1>7
  <2> QED
    BY <1>5, <1>7, <2>2, <2>3
<1>8. CASE c \in Letter /\ next = "?" /\ (r = Advance(h, 2, 1) \/ r = Advance(h, 2, 0))
  <2>1. h.sspos + 2 <= Len(p) /\ h.i + 1 <= Len(line) /\ h.i + 0 <= Len(line)
    BY <1>1, <1>2, <1>8
  <2> QED
    BY <1>5, <1>8, <2>1
<1>9. CASE r = h
  BY <1>9
<1>10. Outcome(p, line, h, r)
  BY RoundCases
<1> QED
  BY <1>4, <1>6, <1>7, <1>8, <1>9, <1>10 DEF Outcome
-----------------------------------------------------------------------------
(* readfile: linebuf is the part of the file in front of pos, or, when it  *)
(* is searched, a part of the file before the byte that ended it.          *)
ReadRight ==
  /\ file \in Inode /\ linebuf \in Seq(Char \ {"newline"}) /\ Len(linebuf) < LineMax
  /\ pos \in 0 .. Len(Content)
  /\ pc \in {"read", "grep"} => file \in {None, Stat(path)}
  /\ pc = "read" =>
       /\ Len(linebuf) <= pos
       /\ \A k \in 1 .. Len(linebuf) : linebuf[k] = Content[(pos - Len(linebuf)) + k]
  /\ pc = "grep" =>
       /\ Len(linebuf) < pos
       /\ \E a \in 0 .. pos - 1 - Len(linebuf) :
            \A k \in 1 .. Len(linebuf) : linebuf[k] = Content[a + k]
  /\ g \in Place /\ g.sspos <= Len(pattern) /\ g.linepos <= g.i /\ g.i < LineMax
  /\ pc = "grep" => g.i <= Len(linebuf)

(* The i-nodes whose numbers are in the list.                              *)
Numbers == {tree.num[i] : i \in Ino}
Marked == {i \in Ino : tree.num[i] \in visited}

Once == searched \in Seq(Marked) /\ IsInjective(searched) /\ visited \subseteq Numbers

(* The numbers in the list grow, and with them what is marked.             *)
LEMMA MarkedSteps ==
  ASSUME InputOK, UNCHANGED input
  PROVE  /\ Marked \subseteq Ino /\ Marked' \subseteq Ino /\ None \notin Marked
         /\ Ino' = Ino /\ Numbers' = Numbers
         /\ visited \subseteq visited' => Marked \subseteq Marked'
         /\ visited' = visited => Marked' = Marked
<1>1. Ino' = Ino /\ tree' = tree /\ None \notin Ino
  BY TreeKept, InodeTypes DEF input
<1> QED
  BY <1>1 DEF Marked, Numbers

(* What dopath goes on with was not marked and now is; within one file     *)
(* system nothing else gets its mark.                                      *)
LEMMA MarkedOne ==
  ASSUME InputOK, UNCHANGED input, NEW i \in Ino, Visit(i)
  PROVE  /\ i \notin Marked /\ Marked \cup {i} \subseteq Marked' /\ tree.num[i] \in Numbers
         /\ visited' = visited \cup {tree.num[i]}
         /\ OneFileSystem => Marked' = Marked \cup {i}
<1>1. Ino' = Ino /\ tree' = tree
  BY TreeKept DEF input
<1>2. tree.num[i] \notin visited /\ visited' = visited \cup {tree.num[i]}
  BY DEF Visit
<1>3. Marked' = {j \in Ino : tree.num[j] \in visited \cup {tree.num[i]}}
  BY <1>1, <1>2 DEF Marked
<1>4. OneFileSystem => \A j \in Ino : tree.num[j] = tree.num[i] => j = i
  BY DEF OneFileSystem
<1> QED
  BY <1>2, <1>3, <1>4 DEF Marked, Numbers

(* What is read is a sequence of bytes.                                    *)
LEMMA ContentType ==
  ASSUME InputOK, file \in Inode
  PROVE  Content \in Seq(Char) /\ Len(Content) \in Nat
<1>1. Content \in Seq(Char)
  <2>1. CASE Kind(file) = "reg"
    <3>1. file \in Ino /\ tree.kind[file] = "reg"
      BY <2>1 DEF Inode, Kind, None
    <3>2. tree.content[file] \in Seq(Char)
      BY <3>1 DEF InputOK, IsTree, Ino
    <3> QED
      BY <2>1, <3>2 DEF Content
  <2>2. CASE Kind(file) # "reg"
    BY <2>2 DEF Content
  <2> QED
    BY <2>1, <2>2
<1> QED
  BY <1>1, Lengths

(* Steps that neither read nor search leave what readfile has behind.      *)
LEMMA ReadKept ==
  ASSUME ReadRight, UNCHANGED <<input, reading>>, pc' \notin {"read", "grep"}
  PROVE  ReadRight'
<1>1. Content' = Content /\ Inode' = Inode /\ pattern' = pattern
  BY TreeKept DEF Content, input, reading, Kind, None
<1> QED
  BY <1>1 DEF ReadRight, reading

(* VisitFile opens the file that the path leads to, at its beginning.      *)
LEMMA FileOpened ==
  ASSUME InputOK, StackInv, ReadRight, VisitFile PROVE ReadRight'
<1>1. /\ UNCHANGED input /\ path' = path /\ file' \in {None, Stat(path)} /\ pos' = 0
      /\ linebuf' = <<>> /\ g' = g /\ pc' \in {"read", "stuck"}
  BY DEF VisitFile, Unchanging
<1>2. Stat(path) \in Inode
  <2>1. Lookup(path) \in Inode
    BY LookupType DEF StackInv
  <2> QED
    BY <2>1, InodeTypes DEF Stat
<1>3. file' \in Inode'
  BY <1>1, <1>2, TreeKept DEF Inode
<1>4. Stat(path)' = Stat(path)
  BY <1>1, TreeKept
<1>5. Len(Content') \in Nat
  <2>1. InputOK'
    BY <1>1, TreeKept
  <2>2. (InputOK /\ file \in Inode => Len(Content) \in Nat)'
    BY ContentType, PTL
  <2> QED
    BY <1>3, <2>1, <2>2
<1>6. /\ linebuf' \in Seq(Char \ {"newline"}) /\ Len(linebuf') = 0 /\ 0 < LineMax
      /\ pos' \in 0 .. Len(Content') /\ pattern' = pattern
  BY <1>1, <1>5, LineMaxAssumption DEF input
<1>7. g \in Place /\ g.sspos <= Len(pattern) /\ g.linepos <= g.i /\ g.i < LineMax
  BY DEF ReadRight
<1> QED
  BY <1>1, <1>3, <1>4, <1>6, <1>7 DEF ReadRight

(* One byte more: what it is and where linebuf stands.                     *)
LEMMA ByteRead ==
  ASSUME InputOK, ReadRight, ReadByte
  PROVE  /\ UNCHANGED <<input, path, file>> /\ pc = "read" /\ pos' = pos + 1
         /\ pos' \in 0 .. Len(Content) /\ Content' = Content
         /\ Byte \in Char /\ Byte = Content[pos + 1] /\ ASCII(Byte)
         /\ pos \in Nat /\ Len(linebuf) \in Nat /\ Len(linebuf) <= pos
         /\ Stat(path)' = Stat(path) /\ Inode' = Inode /\ pattern' = pattern
<1>1. UNCHANGED <<input, path, file>> /\ pc = "read" /\ pos' = pos + 1 /\ pos < Len(Content)
      /\ ASCII(Byte) /\ UNCHANGED input
  BY DEF ReadByte
<1>2. Content \in Seq(Char) /\ Len(Content) \in Nat
  BY ContentType DEF ReadRight
<1>3. pos \in Nat /\ pos + 1 \in 1 .. Len(Content) /\ pos + 1 \in 0 .. Len(Content)
  BY <1>1, <1>2 DEF ReadRight
<1>4. Byte \in Char /\ Byte = Content[pos + 1]
  BY <1>2, <1>3, Lengths DEF Byte
<1>5. Content' = Content /\ pattern' = pattern
  BY <1>1 DEF Content, input, Kind, None
<1>6. Len(linebuf) <= pos /\ Len(linebuf) \in Nat
  <2>1. linebuf \in Seq(Char \ {"newline"}) /\ Len(linebuf) <= pos
    BY <1>1 DEF ReadRight
  <2> QED
    BY <2>1, Lengths
<1>7. Inode' = Inode /\ \A p : Stat(p)' = Stat(p)
  BY <1>1, TreeKept
<1> QED
  BY <1>1, <1>3, <1>4, <1>5, <1>6, <1>7

(* Store makes linebuf longer by the byte that has been read.              *)
LEMMA ByteStored ==
  ASSUME InputOK, ReadRight, Store PROVE ReadRight'
<1> PICK l, b, x : l = Len(linebuf) /\ b = Byte /\ x = linebuf
  OBVIOUS
<1>1. /\ ReadByte /\ b # "newline" /\ l < LineMax - 1 /\ linebuf' = Append(x, b)
      /\ pc' = "read" /\ g' = g
  <2>1. ReadByte /\ ~LineEnds /\ linebuf' = Append(x, b) /\ pc' = pc /\ g' = g /\ pc = "read"
    BY DEF Store, ReadByte
  <2>2. b # "newline" /\ ~(l >= LineMax - 1)
    BY <2>1 DEF LineEnds
  <2>3. l \in Nat
    BY Lengths DEF ReadRight
  <2> QED
    BY <2>1, <2>2, <2>3, LineMaxAssumption
<1>2. /\ UNCHANGED <<input, path, file>> /\ pc = "read" /\ pos' = pos + 1
      /\ pos' \in 0 .. Len(Content) /\ Content' = Content
      /\ b \in Char /\ b = Content[pos + 1]
      /\ pos \in Nat /\ l \in Nat /\ l <= pos
      /\ Stat(path)' = Stat(path) /\ Inode' = Inode /\ pattern' = pattern
  BY <1>1, ByteRead
<1>3. /\ x \in Seq(Char \ {"newline"}) /\ file \in {None, Stat(path)} /\ file \in Inode
      /\ \A k \in 1 .. l : x[k] = Content[(pos - l) + k]
      /\ g \in Place /\ g.sspos <= Len(pattern) /\ g.linepos <= g.i /\ g.i < LineMax
  BY <1>2 DEF ReadRight
<1>4. /\ linebuf' \in Seq(Char \ {"newline"}) /\ Len(linebuf') = l + 1
      /\ \A k \in 1 .. l : linebuf'[k] = x[k]
      /\ linebuf'[l + 1] = b
  <2> DEFINE T == Char \ {"newline"}
  <2>1. b \in T /\ x \in Seq(T)
    BY <1>1, <1>2, <1>3
  <2> HIDE DEF T
  <2>2. /\ Append(x, b) \in Seq(T) /\ Len(Append(x, b)) = Len(x) + 1
        /\ \A k \in 1 .. Len(x) : Append(x, b)[k] = x[k]
        /\ Append(x, b)[Len(x) + 1] = b
    BY <2>1, Appended
  <2> QED
    BY <1>1, <2>2 DEF T
<1>5. l + 1 < LineMax /\ l + 1 <= pos + 1
  BY <1>1, <1>2, LineMaxAssumption
<1>6. \A k \in 1 .. l + 1 : linebuf'[k] = Content[(pos + 1 - (l + 1)) + k]
  <2> SUFFICES ASSUME NEW k \in 1 .. l + 1
               PROVE  linebuf'[k] = Content[(pos + 1 - (l + 1)) + k]
    OBVIOUS
  <2>1. (pos + 1 - (l + 1)) + k = (pos - l) + k /\ (k \in 1 .. l \/ k = l + 1)
    BY <1>2
  <2>2. CASE k \in 1 .. l
    <3>1. linebuf'[k] = x[k] /\ x[k] = Content[(pos - l) + k]
      BY <1>3, <1>4, <2>2
    <3> QED
      BY <2>1, <3>1
  <2>3. CASE k = l + 1
    <3>1. (pos - l) + k = pos + 1
      BY <1>2, <2>3
    <3> QED
      BY <1>2, <1>4, <2>1, <2>3, <3>1
  <2> QED
    BY <2>1, <2>2, <2>3
<1>7. pc' # "grep"
  BY <1>1
<1> QED
  BY <1>1, <1>2, <1>3, <1>4, <1>5, <1>6, <1>7 DEF ReadRight

(* SearchLine leaves in linebuf what stands before the first NUL.          *)
LEMMA LineTaken ==
  ASSUME InputOK, ReadRight, SearchLine PROVE ReadRight'
<1> PICK l, x : l = Len(linebuf) /\ x = CString(linebuf)
  OBVIOUS
<1> PICK n : n = Len(x)
  OBVIOUS
<1>1. ReadByte /\ pc' = "grep" /\ g' = Start /\ linebuf' = x
  BY DEF SearchLine
<1>2. /\ UNCHANGED <<input, path, file>> /\ pc = "read" /\ pos' = pos + 1
      /\ pos' \in 0 .. Len(Content) /\ Content' = Content
      /\ pos \in Nat /\ l \in Nat /\ l <= pos
      /\ Stat(path)' = Stat(path) /\ Inode' = Inode /\ pattern' = pattern
  BY <1>1, ByteRead
<1>3. /\ linebuf \in Seq(Char \ {"newline"}) /\ file \in {None, Stat(path)} /\ file \in Inode
      /\ l < LineMax
      /\ \A k \in 1 .. l : linebuf[k] = Content[(pos - l) + k]
  BY <1>2 DEF ReadRight
<1>4. /\ x \in Seq(Char \ {"newline"}) /\ n \in Nat /\ n <= l
      /\ \A k \in 1 .. n : x[k] = linebuf[k]
  <2> DEFINE T == Char \ {"newline"}
  <2>1. linebuf \in Seq(T)
    BY <1>3
  <2> HIDE DEF T
  <2>2. /\ CString(linebuf) \in Seq(T) /\ Len(CString(linebuf)) \in 0 .. Len(linebuf)
        /\ \A k \in 1 .. Len(CString(linebuf)) : CString(linebuf)[k] = linebuf[k]
    BY <2>1, CStringIs
  <2> QED
    BY <1>2, <2>2 DEF T
<1>5. n < LineMax /\ n < pos + 1
  BY <1>2, <1>3, <1>4, LineMaxAssumption
<1>6. \E a \in 0 .. (pos + 1) - 1 - n : \A k \in 1 .. n : x[k] = Content[a + k]
  <2>1. pos - l \in 0 .. (pos + 1) - 1 - n
    BY <1>2, <1>4
  <2>2. \A k \in 1 .. n : k \in 1 .. l
    BY <1>2, <1>4
  <2>3. \A k \in 1 .. n : x[k] = Content[(pos - l) + k]
    BY <1>3, <1>4, <2>2
  <2> QED
    BY <2>1, <2>3
<1>7. /\ Start \in Place /\ Start.sspos <= Len(pattern) /\ Start.linepos <= Start.i
      /\ Start.i < LineMax /\ Start.i <= n
  <2>1. Len(pattern) \in Nat
    BY Lengths DEF InputOK
  <2> QED
    BY <1>4, <2>1, LineMaxAssumption DEF Start, Place
<1> QED
  BY <1>1, <1>2, <1>3, <1>4, <1>5, <1>6, <1>7 DEF ReadRight

(* The rounds of mygrep stay in linebuf, and its end empties it.           *)
LEMMA LineSearched ==
  ASSUME InputOK, ReadRight, GrepRound \/ GrepEnds PROVE ReadRight'
<1>1. /\ UNCHANGED <<input, path, file, pos>> /\ pc = "grep" /\ UNCHANGED input
  BY DEF GrepRound, GrepEnds, Grep
<1>2. /\ Content' = Content /\ pattern' = pattern
      /\ Stat(path)' = Stat(path) /\ Inode' = Inode
  <2>1. Inode' = Inode /\ \A p : Stat(p)' = Stat(p)
    BY <1>1, TreeKept
  <2> QED
    BY <1>1, <2>1 DEF Content, input, Kind, None
<1>3. /\ linebuf \in Seq(Char \ {"newline"}) /\ file \in {None, Stat(path)} /\ file \in Inode
      /\ pos \in 0 .. Len(Content) /\ Len(linebuf) < LineMax
      /\ g \in Place /\ g.sspos <= Len(pattern) /\ g.linepos <= g.i /\ g.i < LineMax
      /\ g.i <= Len(linebuf)
  BY <1>1 DEF ReadRight
<1>4. Len(linebuf) \in Nat /\ Len(pattern) \in Nat /\ Len(Content) \in Nat
  BY <1>3, Lengths, ContentType DEF InputOK
<1>5. CASE GrepRound
  <2>1. /\ pc' = pc /\ linebuf' = linebuf /\ g' = Round(pattern, linebuf, g)
        /\ ~(g.linepos >= Len(linebuf))
    BY <1>5 DEF GrepRound, NotFound
  <2>2. g.linepos < Len(linebuf)
    BY <1>3, <1>4, <2>1 DEF Place
  <2>3. /\ g' \in Place /\ g'.sspos <= Len(pattern) /\ g'.linepos <= g'.i /\ g'.i <= Len(linebuf)
    BY <1>3, <1>4, <2>1, <2>2, RoundBounds
  <2>4. g'.i < LineMax
    BY <1>3, <1>4, <2>3, LineMaxAssumption DEF Place
  <2> QED
    BY <1>1, <1>2, <1>3, <2>1, <2>3, <2>4 DEF ReadRight
<1>6. CASE GrepEnds
  <2>1. pc' = "read" /\ linebuf' = <<>> /\ g' = g
    BY <1>6 DEF GrepEnds
  <2>2. linebuf' \in Seq(Char \ {"newline"}) /\ Len(linebuf') = 0 /\ 0 < LineMax
    BY <2>1, LineMaxAssumption
  <2>3. pos \in Nat
    BY <1>3, <1>4
  <2> QED
    BY <1>1, <1>2, <1>3, <2>1, <2>2, <2>3 DEF ReadRight
<1> QED
  BY <1>5, <1>6

(* Every step keeps linebuf a part of the file that the path leads to.     *)
LEMMA ReadStep ==
  ASSUME InputOK, StackInv, ReadRight, [Next]_vars PROVE ReadRight'
<1>1. CASE Skip \/ VisitDir \/ VisitUnreadable \/ LstatFails \/ NextEntry \/ CloseDir \/ CloseFile
  <2>1. UNCHANGED <<input, reading>> /\ pc' \notin {"read", "grep"}
    BY <1>1 DEF Skip, VisitDir, VisitUnreadable, LstatFails, NextEntry, CloseDir, CloseFile,
                Return, Visit, Unchanging
  <2> QED
    BY <2>1, ReadKept
<1>2. CASE VisitFile
  BY <1>2, FileOpened
<1>3. CASE Store
  BY <1>3, ByteStored
<1>4. CASE SearchLine
  BY <1>4, LineTaken
<1>5. CASE GrepRound \/ GrepEnds
  BY <1>5, LineSearched
<1>6. CASE UNCHANGED vars
  <2>1. UNCHANGED <<input, reading, path, pc>> /\ UNCHANGED input
    BY <1>6 DEF vars
  <2>2. Content' = Content /\ Inode' = Inode /\ pattern' = pattern /\ \A p : Stat(p)' = Stat(p)
    BY <2>1, TreeKept DEF Content, input, reading, Kind, None
  <2>3. Stat(path)' = Stat(path)
    BY <2>1, <2>2
  <2> QED
    BY <2>1, <2>2, <2>3 DEF ReadRight, reading
<1> QED
  BY <1>1, <1>2, <1>3, <1>4, <1>5, <1>6 DEF Next

(* Each i-node is marked before its file is read.                          *)
LEMMA OnceStep ==
  ASSUME InputOK, StackInv, Once, [Next]_vars PROVE Once'
<1>1. UNCHANGED input /\ Ino' = Ino /\ Numbers' = Numbers
  <2>1. UNCHANGED input
    BY DEF Next, vars, Skip, VisitFile, VisitDir, VisitUnreadable, LstatFails, NextEntry, CloseDir,
           Store, SearchLine, CloseFile, GrepRound, GrepEnds, ReadByte, Grep, Unchanging
  <2> QED
    BY <2>1, MarkedSteps
<1>2. ASSUME searched' = searched, visited \subseteq visited', visited' \subseteq Numbers
      PROVE  Once'
  <2>1. searched \in Seq(Marked')
    <3>1. \A n \in 1 .. Len(searched) : searched[n] \in Marked'
      BY <1>1, <1>2, Lengths, MarkedSteps DEF Once
    <3>2. searched \in [1 .. Len(searched) -> Marked'] /\ Len(searched) \in Nat
      BY <3>1, Lengths DEF Once
    <3> QED
      BY <3>2
  <2> QED
    BY <1>1, <1>2, <2>1 DEF Once
<1>3. Stat(path) \in Inode /\ (Stat(path) # None => Stat(path) \in Ino)
  <2>1. Lookup(path) \in Inode
    BY LookupType DEF StackInv
  <2> QED
    BY <2>1, InodeTypes DEF Stat, Inode
<1>4. CASE Skip \/ NextEntry \/ CloseDir \/ CloseFile \/ Store \/ SearchLine \/ GrepRound \/ GrepEnds
           \/ UNCHANGED vars
  <2>1. UNCHANGED <<searched, visited>>
    BY <1>4 DEF Skip, NextEntry, CloseDir, CloseFile, Store, SearchLine, GrepRound, GrepEnds,
                ReadByte, Grep, Unchanging, history, vars
  <2> QED
    BY <1>2, <2>1 DEF Once
<1>5. CASE VisitDir \/ VisitUnreadable \/ LstatFails
  <2>1. searched' = searched
    BY <1>5 DEF VisitDir, VisitUnreadable, LstatFails, Unchanging, history
  <2>2. CASE VisitDir \/ VisitUnreadable
    <3>1. Visit(Stat(path)) /\ Stat(path) # None
      BY <2>2 DEF VisitDir, VisitUnreadable, Visit
    <3>2. visited' \subseteq visited \cup Numbers /\ visited \subseteq visited'
      BY <1>1, <1>3, <3>1, MarkedOne
    <3> QED
      BY <1>2, <2>1, <3>2 DEF Once
  <2>3. CASE LstatFails
    <3>1. visited' = visited \/ \E x \in Numbers : visited' = visited \cup {x}
      BY <2>3 DEF LstatFails, Numbers
    <3> QED
      BY <1>2, <2>1, <3>1 DEF Once
  <2> QED
    BY <1>5, <2>2, <2>3
<1>6. CASE VisitFile
  <2> PICK i : i = Stat(path)
    OBVIOUS
  <2>1. Visit(i) /\ searched' = Append(searched, i) /\ i \in Ino
    BY <1>3, <1>6 DEF VisitFile, Visit
  <2>2. i \notin Marked /\ Marked \cup {i} \subseteq Marked' /\ visited' \subseteq visited \cup Numbers
    BY <1>1, <2>1, MarkedOne
  <2>10. searched \in Seq(Marked) /\ searched \in Seq(Marked')
    <3>1. searched \in [1 .. Len(searched) -> Marked'] /\ Len(searched) \in Nat
      BY <2>2, Lengths DEF Once
    <3> QED
      BY <3>1 DEF Once
  <2>3. /\ Append(searched, i) \in Seq(Marked') /\ Len(Append(searched, i)) = Len(searched) + 1
        /\ \A n \in 1 .. Len(searched) : Append(searched, i)[n] = searched[n]
        /\ Append(searched, i)[Len(searched) + 1] = i
    BY <2>2, <2>10, Appended
  <2>4. /\ Len(searched) \in Nat /\ DOMAIN searched = 1 .. Len(searched)
        /\ \A n \in 1 .. Len(searched) : searched[n] \in Marked
    BY <2>10, Lengths
  <2>5. \A m, n \in 1 .. Len(searched) : searched[m] = searched[n] => m = n
    BY <2>4 DEF Once, IsInjective
  <2>6. DOMAIN searched' = 1 .. Len(searched) + 1
    BY <2>1, <2>3, Lengths
  <2>7. ASSUME NEW m \in 1 .. Len(searched) + 1, NEW n \in 1 .. Len(searched) + 1,
               searched'[m] = searched'[n]
        PROVE  m = n
    <3>1. /\ m \in 1 .. Len(searched) \/ m = Len(searched) + 1
          /\ n \in 1 .. Len(searched) \/ n = Len(searched) + 1
      BY <2>4
    <3>2. \A k \in 1 .. Len(searched) : searched'[k] # i
      BY <2>1, <2>2, <2>3, <2>4
    <3> QED
      BY <2>1, <2>3, <2>5, <2>7, <3>1, <3>2
  <2>8. IsInjective(searched')
    BY <2>6, <2>7 DEF IsInjective
  <2>9. visited' \subseteq Numbers
    BY <2>2 DEF Once
  <2> QED
    BY <1>1, <2>1, <2>3, <2>8, <2>9 DEF Once
<1> QED
  BY <1>4, <1>5, <1>6 DEF Next
-----------------------------------------------------------------------------
CoreInv == InputOK /\ StackInv /\ ReadRight /\ Once

(* CoreInv holds at the beginning, by what is assumed of Inputs.           *)
LEMMA CoreInit == Init => CoreInv
<1> SUFFICES ASSUME Init PROVE CoreInv
  OBVIOUS
<1>1. InputOK
  <2>1. PICK in \in Inputs : tree = in.tree /\ pattern = in.pattern /\ opts = in.opts
    BY DEF Init
  <2>2. /\ IsTree(in.tree) /\ in.pattern \in Seq(Letter \cup {".", "*", "?"})
        /\ in.opts \in [links : BOOLEAN, f : BOOLEAN, types : SUBSET {"c", "h", "S"}]
    BY InputsAssumption
  <2> QED
    BY <2>1, <2>2 DEF InputOK
<1>2. StackInv
  <2>1. tree.name \in Name
    BY <1>1 DEF InputOK, IsTree, Name
  <2>2. /\ path \in Seq(Name) /\ Len(path) = 1 /\ path # <<>> /\ path[1] = tree.name
        /\ stack \in Seq(Frame) /\ Len(stack) = 0
    BY <2>1 DEF Init
  <2>3. pc = "call" /\ stack = <<>>
    BY DEF Init
  <2> QED
    BY <2>2, <2>3 DEF StackInv
<1>3. ReadRight
  <2>1. /\ pc = "call" /\ file = None /\ linebuf = <<>> /\ pos = 0 /\ g = Start
    BY DEF Init
  <2>2. None \in Inode
    BY DEF Inode
  <2>3. Content = <<>> /\ Len(Content) = 0
    BY <2>1 DEF Content, Kind
  <2>4. linebuf \in Seq(Char \ {"newline"}) /\ Len(linebuf) = 0 /\ 0 < LineMax
    BY <2>1, LineMaxAssumption
  <2>5. Start \in Place /\ Start.sspos <= Len(pattern) /\ Start.linepos <= Start.i /\ Start.i < LineMax
    <3>1. Len(pattern) \in Nat
      BY <1>1, Lengths DEF InputOK
    <3> QED
      BY <3>1, LineMaxAssumption DEF Start, Place
  <2> QED
    BY <2>1, <2>2, <2>3, <2>4, <2>5 DEF ReadRight
<1>4. Once
  BY DEF Init, Once, IsInjective
<1> QED
  BY <1>1, <1>2, <1>3, <1>4 DEF CoreInv

(* No step changes the tree, the pattern or the options.                   *)
LEMMA InputKept == [Next]_vars => UNCHANGED input
BY DEF Next, vars, Skip, VisitFile, VisitDir, VisitUnreadable, LstatFails, NextEntry, CloseDir,
       Store, SearchLine, CloseFile, GrepRound, GrepEnds, ReadByte, Grep, Unchanging

(* Every step keeps CoreInv.                                               *)
LEMMA CoreStep == CoreInv /\ [Next]_vars => CoreInv'
<1> SUFFICES ASSUME CoreInv, [Next]_vars PROVE CoreInv'
  OBVIOUS
<1>1. InputOK'
  BY InputKept, TreeKept DEF CoreInv
<1> QED
  BY <1>1, StackStep, ReadStep, OnceStep DEF CoreInv

(* CoreInv holds in every behaviour.                                       *)
LEMMA CoreAlways == Spec => []CoreInv
BY CoreInit, CoreStep, PTL DEF Spec

(* TypeOK of Finds: base and next of every frame stay within the path and  *)
(* the directory, and the search within the pattern and the line buffer    *)
(* (finds.c:222-234, 255-348).                                             *)
THEOREM TypeCorrect == Spec => []TypeOK
<1>1. CoreInv => TypeOK
  <2> SUFFICES ASSUME CoreInv PROVE TypeOK
    OBVIOUS
  <2>1. ASSUME NEW k \in DOMAIN stack
        PROVE  /\ stack[k].dir \in Ino
               /\ stack[k].base \in 1 .. Len(path) - 1
               /\ stack[k].next \in 1 .. Len(tree.entries[stack[k].dir]) + 1
    <3>1. /\ stack \in Seq(Frame) /\ path \in Seq(Name) /\ Len(stack) < Len(path)
          /\ \A n \in 1 .. Len(stack) : FrameRight(n)
      BY DEF CoreInv, StackInv
    <3>2. k \in 1 .. Len(stack) /\ stack[k] \in Frame /\ Len(stack) \in Nat /\ Len(path) \in Nat
      BY <3>1, Lengths
    <3>3. FrameRight(k)
      BY <3>1, <3>2
    <3>4. k \in 1 .. Len(path) - 1
      BY <3>1, <3>2
    <3> QED
      BY <3>2, <3>3, <3>4 DEF FrameRight, Frame
  <2>2. /\ file \in Ino \cup {None} /\ pos \in 0 .. Len(Content) /\ Len(linebuf) < LineMax
        /\ visited \subseteq {tree.num[i] : i \in Ino}
    BY DEF CoreInv, ReadRight, Once, Inode, Numbers
  <2>3. g.sspos \in 0 .. Len(pattern) /\ g.i \in g.linepos .. LineMax
    <3>1. Len(pattern) \in Nat
      BY Lengths DEF CoreInv, InputOK
    <3>2. g \in Place /\ g.sspos <= Len(pattern) /\ g.linepos <= g.i /\ g.i < LineMax
      BY DEF CoreInv, ReadRight
    <3> QED
      BY <3>1, <3>2, LineMaxAssumption DEF Place
  <2>4. pc \in {"call", "read", "grep", "loop", "done", "stuck"}
    BY DEF CoreInv, StackInv
  <2> QED
    BY <2>1, <2>2, <2>3, <2>4 DEF TypeOK
<1> QED
  BY <1>1, CoreAlways, PTL

(* What the path leads to when dopath is called.                           *)
LEMMA Called ==
  ASSUME CoreInv, pc \in Below
  PROVE  /\ Lookup(path) \in Ino /\ Stat(path) \in Ino
         /\ stack = <<>> => path = <<tree.name>> /\ Lookup(path) = tree.root
         /\ stack # <<>> =>
              LET f == stack[Len(stack)]
              IN /\ Len(stack) \in 1 .. Len(stack) /\ f \in Frame
                 /\ f.next > 1 /\ f.next \in 1 .. Len(tree.entries[f.dir]) + 1
                 /\ tree.entries[f.dir][f.next - 1] = <<path[Len(path)], Lookup(path)>>
<1> PICK n : n = Len(stack)
  OBVIOUS
<1>1. /\ InputOK /\ path \in Seq(Name) /\ stack \in Seq(Frame) /\ Len(path) = n + 1
      /\ path[1] = tree.name
  BY DEF CoreInv, StackInv
<1>2. n \in Nat /\ (n = 0 <=> stack = <<>>)
  BY <1>1, Lengths
<1>3. CASE n = 0
  <2>1. Len(path) = 1
    BY <1>1, <1>3
  <2>2. Lookup(path) = tree.root
    BY <1>1, <2>1, LookupTop
  <2>3. Lookup(path) \in Ino
    BY <1>1, <2>2, InodeTypes
  <2>4. path = <<tree.name>>
    BY <1>1, <2>1
  <2> QED
    BY <1>1, <1>2, <1>3, <2>2, <2>3, <2>4, InodeTypes DEF Stat
<1>4. CASE n # 0
  <2> PICK f : f = stack[n]
    OBVIOUS
  <2>1. n \in 1 .. Len(stack)
    BY <1>2, <1>4
  <2>2. FrameRight(n) /\ f \in Frame
    BY <1>1, <2>1, Lengths DEF CoreInv, StackInv
  <2>3. SubSeq(path, 1, n + 1) = path
    <3>1. n + 1 \in Nat /\ n + 1 <= Len(path)
      BY <1>1, <1>2
    <3> QED
      BY <1>1, <3>1, Prefix
  <2>4. /\ f.next > 1 /\ f.next \in 1 .. Len(tree.entries[f.dir]) + 1
        /\ tree.entries[f.dir][f.next - 1] = <<path[n + 1], Lookup(path)>>
        /\ Kind(f.dir) = "dir"
    BY <2>2, <2>3 DEF FrameRight, LookupAt
  <2>5. Lookup(path) \in Ino
    <3>1. f.dir \in Ino
      BY <2>2 DEF Frame
    <3>2. tree.entries[f.dir] \in Seq((DOMAIN tree.ext \ {""}) \X Ino)
      BY <1>1, <2>4, <3>1, EntryFound
    <3>3. Len(tree.entries[f.dir]) \in Nat
      BY <3>2, Lengths
    <3>4. f.next - 1 \in 1 .. Len(tree.entries[f.dir])
      BY <2>4, <3>3
    <3>5. tree.entries[f.dir][f.next - 1][2] \in Ino
      BY <1>1, <2>4, <3>1, <3>4, EntryFound
    <3> QED
      BY <2>4, <3>5
  <2>6. Stat(path) \in Ino
    BY <1>1, <2>5, InodeTypes DEF Stat
  <2> QED
    BY <1>1, <1>2, <1>4, <2>1, <2>2, <2>4, <2>5, <2>6
<1> QED
  BY <1>3, <1>4

(* PathRight of Finds: the one buffer fullpath always holds what its user  *)
(* needs, although failed calls of lstat and opendir leave a slash behind  *)
(* (finds.c:215-231).                                                      *)
THEOREM PathKept == Spec => []PathRight
<1>1. CoreInv => PathRight
  <2> SUFFICES ASSUME CoreInv PROVE PathRight
    OBVIOUS
  <2>1. pc = "call" => Lookup(path) # None
    BY Called, InodeTypes DEF Below, CoreInv
  <2>2. pc \in {"read", "grep"} => file \in {None, Stat(path)}
    BY DEF CoreInv, ReadRight
  <2>3. ASSUME NEW k \in DOMAIN stack
        PROVE  Follow(Lookup(SubSeq(path, 1, stack[k].base))) = stack[k].dir
    <3>1. /\ InputOK /\ stack \in Seq(Frame) /\ path \in Seq(Name) /\ Len(stack) < Len(path)
          /\ \A n \in 1 .. Len(stack) : FrameRight(n)
      BY DEF CoreInv, StackInv
    <3>2. k \in 1 .. Len(stack) /\ Len(stack) \in Nat /\ Len(path) \in Nat
      BY <3>1, Lengths
    <3>3. /\ stack[k].base = k /\ Data(LookupAt(k)) = stack[k].dir
          /\ Kind(stack[k].dir) = "dir"
      BY <3>1, <3>2 DEF FrameRight
    <3>4. k \in Nat /\ k <= Len(path) /\ k # 0
      BY <3>1, <3>2
    <3> PICK q : q = SubSeq(path, 1, k)
      OBVIOUS
    <3>5. q \in Seq(Name) /\ Len(q) = k
      BY <3>1, <3>4, Prefix
    <3>6. q # <<>>
      BY <3>4, <3>5, Lengths
    <3>7. LookupAt(k) \in Inode
      BY <3>1, <3>5, <3>6, LookupType DEF LookupAt
    <3> QED
      BY <3>1, <3>3, <3>7, InodeTypes DEF LookupAt
  <2> QED
    BY <2>1, <2>2, <2>3 DEF PathRight
<1> QED
  BY <1>1, CoreAlways, PTL

(* OnceEach of Finds: no i-node is given to readfile twice.                *)
THEOREM SearchedOnce == Spec => []OnceEach
<1>1. CoreInv => OnceEach
  BY DEF CoreInv, Once, OnceEach
<1> QED
  BY <1>1, CoreAlways, PTL
-----------------------------------------------------------------------------
(* The meaning of patterns: MatchesFrom with its recursive function taken  *)
(* out.                                                                    *)
Fits(p, line, k, i) == At(line, i) \in (IF At(p, k) = "." THEN Letter ELSE {At(p, k)})

MatchBody(p, line, f, k, i) ==
  \/ k = Len(p)
  \/ At(p, k + 1) = "*"
       /\ (f[<<k + 2, i>>] \/ (Fits(p, line, k, i) /\ f[<<k, i + 1>>]))
  \/ At(p, k + 1) = "?"
       /\ (f[<<k + 2, i>>] \/ (Fits(p, line, k, i) /\ f[<<k + 2, i + 1>>]))
  \/ k < Len(p) /\ ~Repeated(p, k) /\ Fits(p, line, k, i) /\ f[<<k + 1, i + 1>>]

Places(p, line) == (0 .. Len(p)) \X (0 .. Len(line))

Matches(p, line) ==
  CHOOSE f : f = [w \in Places(p, line) |-> MatchBody(p, line, f, w[1], w[2])]

(* MatchesFrom is that function.                                           *)
LEMMA MatchesFromIs == ASSUME NEW p, NEW line PROVE MatchesFrom(p, line) = Matches(p, line)
BY DEF MatchesFrom, Matches, MatchBody, Fits, Places

(* Nothing else than a "." or the character itself stands for a character, *)
(* and only where there is one.                                            *)
LEMMA FitsWithin ==
  ASSUME NEW p \in Seq(Letter \cup {".", "*", "?"}), NEW line, Len(line) \in Nat,
         NEW k \in Nat, NEW i \in 0 .. Len(line), k < Len(p), Fits(p, line, k, i)
  PROVE  i + 1 \in 0 .. Len(line)
<1>1. p[k + 1] \in Letter \cup {".", "*", "?"} /\ At(p, k) = p[k + 1]
  <2>1. Len(p) \in Nat /\ \A n \in 1 .. Len(p) : p[n] \in Letter \cup {".", "*", "?"}
    BY Lengths
  <2>2. k + 1 \in 1 .. Len(p)
    BY <2>1
  <2> QED
    BY <2>1, <2>2 DEF At
<1>2. At(p, k) # NUL
  BY <1>1, LetterAssumption DEF NUL
<1>3. At(line, i) # NUL
  BY <1>2, LetterAssumption DEF Fits
<1>4. i < Len(line)
  BY <1>3 DEF At
<1> QED
  BY <1>4

(* A "*" or "?" stands within the pattern.                                 *)
LEMMA Signs ==
  ASSUME NEW p, Len(p) \in Nat, NEW k \in Nat, At(p, k) \in {"*", "?"}
  PROVE  k < Len(p)
BY DEF At, NUL

(* The function exists: a value of it depends on values further on in the  *)
(* pattern or in the line only.                                            *)
LEMMA MatchesExist ==
  ASSUME NEW p \in Seq(Letter \cup {".", "*", "?"}), NEW line, Len(line) \in Nat
  PROVE  \E f \in [Places(p, line) -> BOOLEAN] :
           f = [w \in Places(p, line) |-> MatchBody(p, line, f, w[1], w[2])]
<1> PICK l, n : l = Len(p) /\ n = Len(line)
  OBVIOUS
<1>1. l \in Nat /\ n \in Nat
  BY Lengths
<1> DEFINE D == Places(p, line)
           V == BOOLEAN
           rank == [w \in D |-> (l - w[1]) + (n - w[2])]
           Next1(f) == [w \in D |-> MatchBody(p, line, f, w[1], w[2])]
           B == [f \in [D -> V] |-> Next1(f)]
<1>2. \A k \in 0 .. l, i \in 0 .. n : <<k, i>> \in D /\ rank[<<k, i>>] = (l - k) + (n - i)
  BY <1>1 DEF Places
<1>3. \A w \in D : /\ w[1] \in 0 .. l /\ w[2] \in 0 .. n /\ w = <<w[1], w[2]>>
                   /\ rank[w] \in Nat /\ rank[w] < l + n + 1
  BY <1>1 DEF Places
<1>4. rank \in [D -> Nat] /\ \A w \in D : rank[w] < l + n + 1
  BY <1>3
<1>5. B \in [[D -> V] -> [D -> V]]
  <2>1. \A f, k, i : MatchBody(p, line, f, k, i) \in BOOLEAN
    BY DEF MatchBody
  <2> QED
    BY <2>1
<1>6. \A f, h \in [D -> V], w \in D :
        (\A v \in D : rank[v] < rank[w] => f[v] = h[v]) => B[f][w] = B[h][w]
  <2> SUFFICES ASSUME NEW f \in [D -> V], NEW h \in [D -> V], NEW w \in D,
                      \A v \in D : rank[v] < rank[w] => f[v] = h[v]
               PROVE  B[f][w] = B[h][w]
    OBVIOUS
  <2> PICK k, i : k = w[1] /\ i = w[2]
    OBVIOUS
  <2>1. k \in 0 .. l /\ i \in 0 .. n /\ w = <<k, i>> /\ rank[w] = (l - k) + (n - i)
    BY <1>2, <1>3
  <2>2. B[f][w] = MatchBody(p, line, f, k, i) /\ B[h][w] = MatchBody(p, line, h, k, i)
    OBVIOUS
  <2> HIDE DEF D, V, rank, B, Next1
  <2>3. ASSUME NEW kk \in 0 .. l, NEW ii \in 0 .. n, k <= kk, i <= ii, k < kk \/ i < ii
        PROVE  f[<<kk, ii>>] = h[<<kk, ii>>]
    <3>1. (l - kk) + (n - ii) < (l - k) + (n - i)
      <4>1. l \in Nat /\ n \in Nat /\ k \in Nat /\ i \in Nat /\ kk \in Nat /\ ii \in Nat
        BY <1>1, <2>1
      <4> QED
        BY <2>3, <4>1
    <3>2. <<kk, ii>> \in D /\ rank[<<kk, ii>>] < rank[w]
      BY <1>2, <2>1, <3>1
    <3> QED
      BY <3>2
  <2>4. ASSUME Fits(p, line, k, i), k < l PROVE i + 1 \in 0 .. n
    <3>1. /\ k \in Nat /\ i \in 0 .. Len(line) /\ k < Len(p) /\ Fits(p, line, k, i)
          /\ Len(line) \in Nat
      BY <1>1, <2>1, <2>4
    <3>2. i + 1 \in 0 .. Len(line)
      BY <3>1, FitsWithin
    <3> QED
      BY <3>2
  <2>5. At(p, k + 1) \in {"*", "?"} => k + 2 \in 0 .. l /\ k < l
    BY <1>1, <2>1, Signs
  <2>6. ASSUME At(p, k + 1) \in {"*", "?"} PROVE f[<<k + 2, i>>] = h[<<k + 2, i>>]
    <3>1. k + 2 \in 0 .. l /\ k <= k + 2 /\ i <= i /\ k < k + 2
      BY <1>1, <2>1, <2>5, <2>6
    <3> QED
      BY <2>1, <2>3, <3>1
  <2>7. ASSUME At(p, k + 1) \in {"*", "?"}, Fits(p, line, k, i)
        PROVE  f[<<k, i + 1>>] = h[<<k, i + 1>>] /\ f[<<k + 2, i + 1>>] = h[<<k + 2, i + 1>>]
    <3>1. k + 2 \in 0 .. l /\ k <= k + 2 /\ k <= k /\ k < l
      BY <1>1, <2>1, <2>5, <2>7
    <3>2. i + 1 \in 0 .. n /\ i <= i + 1 /\ i < i + 1
      BY <1>1, <2>1, <2>4, <2>7, <3>1
    <3> QED
      BY <2>1, <2>3, <3>1, <3>2
  <2>8. ASSUME k < l, Fits(p, line, k, i) PROVE f[<<k + 1, i + 1>>] = h[<<k + 1, i + 1>>]
    <3>1. k + 1 \in 0 .. l /\ k <= k + 1 /\ k < k + 1
      BY <1>1, <2>1, <2>8
    <3>2. i + 1 \in 0 .. n /\ i <= i + 1
      BY <1>1, <2>1, <2>4, <2>8
    <3> QED
      BY <2>3, <3>1, <3>2
  <2>9. MatchBody(p, line, f, k, i) <=> MatchBody(p, line, h, k, i)
    BY <2>6, <2>7, <2>8 DEF MatchBody
  <2>10. MatchBody(p, line, f, k, i) \in BOOLEAN /\ MatchBody(p, line, h, k, i) \in BOOLEAN
    BY DEF MatchBody
  <2>11. MatchBody(p, line, f, k, i) = MatchBody(p, line, h, k, i)
    BY <2>9, <2>10
  <2> QED
    BY <2>2, <2>11
<1>7. Descends(D, V, l + n + 1, rank, B)
  <2>1. l + n + 1 \in Nat
    BY <1>1
  <2> HIDE DEF D, V, rank, B
  <2> QED
    BY <2>1, <1>4, <1>5, <1>6 DEF Descends
<1>8. V # {}
  OBVIOUS
<1>9. \E f \in [D -> V] : f = B[f]
  <2> HIDE DEF D, V, rank, B
  <2> QED
    BY <1>7, <1>8, Recursion
<1>10. \A f \in [D -> V] : B[f] = Next1(f)
  OBVIOUS
<1> QED
  BY <1>9, <1>10

(* What the pattern from position k on matches.                            *)
LEMMA MatchSteps ==
  ASSUME NEW p \in Seq(Letter \cup {".", "*", "?"}), NEW line, Len(line) \in Nat,
         NEW m, m = MatchesFrom(p, line)
  PROVE  /\ \A k \in 0 .. Len(p), i \in 0 .. Len(line) : m[<<k, i>>] \in BOOLEAN
         /\ \A i \in 0 .. Len(line) : m[<<Len(p), i>>]
         /\ \A k \in 0 .. Len(p), i \in 0 .. Len(line) : m[<<k, i>>] <=> MatchBody(p, line, m, k, i)
<1>1. PICK f \in [Places(p, line) -> BOOLEAN] :
        f = [w \in Places(p, line) |-> MatchBody(p, line, f, w[1], w[2])]
  BY MatchesExist
<1>2. m = [w \in Places(p, line) |-> MatchBody(p, line, m, w[1], w[2])]
  BY <1>1, MatchesFromIs DEF Matches
<1>3. \A k \in 0 .. Len(p), i \in 0 .. Len(line) : <<k, i>> \in Places(p, line)
  BY DEF Places
<1>4. ASSUME NEW k \in 0 .. Len(p), NEW i \in 0 .. Len(line)
      PROVE  m[<<k, i>>] = MatchBody(p, line, m, k, i)
  <2> DEFINE e(w) == MatchBody(p, line, m, w[1], w[2])
  <2>1. e(<<k, i>>) = MatchBody(p, line, m, k, i)
    OBVIOUS
  <2>2. m = [w \in Places(p, line) |-> e(w)]
    BY <1>2
  <2> HIDE DEF e
  <2>3. m[<<k, i>>] = e(<<k, i>>)
    BY <1>3, <2>2
  <2> QED
    BY <2>1, <2>3
<1>5. \A k, i : MatchBody(p, line, m, k, i) \in BOOLEAN
  BY DEF MatchBody
<1>6. Len(p) \in 0 .. Len(p)
  BY Lengths
<1>7. \A i : MatchBody(p, line, m, Len(p), i)
  BY DEF MatchBody
<1> QED
  BY <1>4, <1>5, <1>6, <1>7
-----------------------------------------------------------------------------
(* An attempt of mygrep, seen from the meaning of the pattern.             *)
Pattern == Seq(Letter \cup {".", "*", "?"})
Line == Seq(Char)

(* If the rest of the pattern matches the rest of the line, the whole      *)
(* matches from where the attempt began.                                   *)
Sound(p, line, h) ==
  LET m == MatchesFrom(p, line) IN m[<<h.sspos, h.i>>] => m[<<0, h.linepos>>]

(* The other way round; nothing matches from an earlier place; and the     *)
(* position in the pattern is not between a letter and its sign.           *)
Complete(p, line, h) ==
  LET m == MatchesFrom(p, line)
  IN /\ m[<<0, h.linepos>>] => m[<<h.sspos, h.i>>]
     /\ \A l \in 0 .. h.linepos - 1 : ~m[<<0, l>>]
     /\ At(p, h.sspos) \notin {"*", "?"}

Attempt(p, line, h) ==
  /\ h \in Place /\ h.sspos <= Len(p) /\ h.linepos <= h.i /\ h.i <= Len(line)
  /\ h.linepos < Len(line)

(* What stands at a position of a pattern.                                 *)
LEMMA Standing ==
  ASSUME NEW p \in Pattern, NEW k \in Nat
  PROVE  /\ Len(p) \in Nat
         /\ k < Len(p) => At(p, k) \in Letter \cup {".", "*", "?"}
         /\ k >= Len(p) => At(p, k) = NUL
         /\ At(p, k) \in Letter \cup {".", "*", "?"} => k < Len(p)
<1>1. Len(p) \in Nat /\ \A n \in 1 .. Len(p) : p[n] \in Letter \cup {".", "*", "?"}
  BY Lengths DEF Pattern
<1>2. k < Len(p) => At(p, k) \in Letter \cup {".", "*", "?"}
  <2> SUFFICES ASSUME k < Len(p) PROVE At(p, k) \in Letter \cup {".", "*", "?"}
    OBVIOUS
  <2>1. k + 1 \in 1 .. Len(p)
    BY <1>1
  <2> QED
    BY <1>1, <2>1 DEF At
<1>3. k >= Len(p) => At(p, k) = NUL
  BY <1>1 DEF At
<1>4. NUL \notin Letter \cup {".", "*", "?"}
  BY LetterAssumption DEF NUL
<1> QED
  BY <1>1, <1>2, <1>3, <1>4

(* A sign stands behind a letter, and no sign behind a sign.               *)
LEMMA SignBehind ==
  ASSUME NEW p \in Pattern, WellFormed(p), NEW k \in Nat
  PROVE  /\ Repeated(p, k) => At(p, k) \in Letter /\ k + 2 <= Len(p)
         /\ Repeated(p, k) => At(p, k + 2) \notin {"*", "?"}
         /\ At(p, 0) \notin {"*", "?"}
<1>1. \A j \in Nat : At(p, j) \in {"*", "?"} => j > 0 /\ At(p, j - 1) \in Letter /\ j < Len(p)
  <2> SUFFICES ASSUME NEW j \in Nat, At(p, j) \in {"*", "?"}
               PROVE  j > 0 /\ At(p, j - 1) \in Letter /\ j < Len(p)
    OBVIOUS
  <2>1. Len(p) \in Nat /\ j < Len(p)
    BY Standing
  <2>2. j \in 0 .. Len(p) - 1
    BY <2>1
  <2> QED
    BY <2>1, <2>2 DEF WellFormed
<1>2. k + 1 \in Nat /\ k + 2 \in Nat /\ (k + 1) - 1 = k /\ (k + 2) - 1 = k + 1
  OBVIOUS
<1>3. Repeated(p, k) => At(p, k) \in Letter /\ k + 1 < Len(p)
  BY <1>1, <1>2 DEF Repeated
<1>4. Len(p) \in Nat
  BY Standing
<1>5. {"*", "?"} \cap Letter = {}
  BY LetterAssumption
<1>6. Repeated(p, k) => At(p, k + 2) \notin {"*", "?"}
  BY <1>1, <1>2, <1>5 DEF Repeated
<1>7. At(p, 0) \notin {"*", "?"}
  <2>1. 0 \in Nat /\ ~(0 > 0)
    OBVIOUS
  <2> QED
    BY <1>1, <2>1
<1> QED
  BY <1>3, <1>4, <1>6, <1>7

(* Where no later element fits, the rest of the pattern does not match:    *)
(* it does not end in a repetition.                                        *)
LEMMA NoneFits ==
  ASSUME NEW p \in Pattern, OneWay(p), NEW line, Len(line) \in Nat,
         NEW m, m = MatchesFrom(p, line), NEW i \in 0 .. Len(line),
         NEW k \in Nat, k < Len(p), At(p, k) \notin {"*", "?"},
         \A j \in k .. Len(p) - 1 : At(p, j) \notin {"*", "?"} => ~Fits(p, line, j, i)
  PROVE  ~m[<<k, i>>]
<1> PICK l : l = Len(p)
  OBVIOUS
<1>1. l \in Nat /\ WellFormed(p)
  BY Standing DEF OneWay
<1> DEFINE S == {n \in 0 .. l : \A j \in k .. l - 1 :
                   l - j <= n /\ At(p, j) \notin {"*", "?"} => ~m[<<j, i>>]}
<1>2. 0 \in S
  BY <1>1
<1>3. ASSUME NEW n \in 0 .. l - 1, n \in S PROVE n + 1 \in S
  <2> SUFFICES ASSUME NEW j \in k .. l - 1, l - j <= n + 1, At(p, j) \notin {"*", "?"}
               PROVE  ~m[<<j, i>>]
    BY <1>1
  <2>1. j \in Nat /\ j \in 0 .. l /\ j \in 0 .. l - 1 /\ j < l /\ j # l
    BY <1>1
  <2>2. ~Fits(p, line, j, i)
    OBVIOUS
  <2>3. m[<<j, i>>] <=> MatchBody(p, line, m, j, i)
    BY <2>1, MatchSteps DEF Pattern
  <2>4. CASE Repeated(p, j)
    <3>1. j + 2 < l
      BY <2>1, <2>4 DEF OneWay
    <3>2. At(p, j + 2) \notin {"*", "?"}
      BY <1>1, <2>1, <2>4, SignBehind
    <3>3. j + 2 \in k .. l - 1 /\ l - (j + 2) <= n
      BY <1>1, <2>1, <3>1
    <3>4. ~m[<<j + 2, i>>]
      BY <1>3, <3>2, <3>3
    <3> QED
      BY <2>1, <2>2, <2>3, <2>4, <3>4 DEF MatchBody
  <2>5. CASE ~Repeated(p, j)
    BY <2>1, <2>2, <2>3, <2>5 DEF MatchBody, Repeated
  <2> QED
    BY <2>4, <2>5
<1>4. l \in S
  <2> HIDE DEF S
  <2>1. 0 .. l \subseteq S
    BY <1>1, <1>2, <1>3, UpTo
  <2> QED
    BY <1>1, <2>1
<1>5. k \in k .. l - 1 /\ l - k <= l
  BY <1>1
<1> QED
  BY <1>4, <1>5

(* At the end of the line, or at a character that is not a letter.         *)
LEMMA NoLetter ==
  ASSUME NEW p \in Pattern, OneWay(p), NEW line, Len(line) \in Nat,
         NEW m, m = MatchesFrom(p, line), NEW i \in 0 .. Len(line), At(line, i) \notin Letter,
         NEW k \in Nat, k < Len(p), At(p, k) \notin {"*", "?"}
  PROVE  ~m[<<k, i>>]
<1>1. ASSUME NEW j \in k .. Len(p) - 1, At(p, j) \notin {"*", "?"} PROVE ~Fits(p, line, j, i)
  <2>1. Len(p) \in Nat
    BY Standing
  <2>2. j \in Nat /\ j < Len(p)
    BY <2>1
  <2>3. At(p, j) \in Letter \cup {"."}
    BY <1>1, <2>2, Standing
  <2> QED
    BY <2>3 DEF Fits
<1> QED
  BY <1>1, NoneFits

(* At a letter that nothing from here on in the pattern stands for.        *)
LEMMA OtherLetter ==
  ASSUME NEW p \in Pattern, OneWay(p), NEW line, Len(line) \in Nat,
         NEW m, m = MatchesFrom(p, line), NEW i \in 0 .. Len(line),
         NEW k \in Nat, Repeated(p, k), k < Len(p), At(line, i) = At(p, k)
  PROVE  ~m[<<k + 2, i>>]
<1>1. Len(p) \in Nat /\ k \in 0 .. Len(p) - 1
  <2>1. Len(p) \in Nat
    BY Standing
  <2> QED
    BY <2>1
<1>2. k + 2 < Len(p) /\ \A j \in k + 2 .. Len(p) - 1 : At(p, j) \notin {At(p, k), "."}
  BY <1>1 DEF OneWay
<1>3. At(p, k + 2) \notin {"*", "?"}
  BY SignBehind DEF OneWay
<1>4. \A j \in k + 2 .. Len(p) - 1 : At(p, j) \notin {"*", "?"} => ~Fits(p, line, j, i)
  BY <1>2 DEF Fits
<1>5. k + 2 \in Nat
  OBVIOUS
<1> QED
  BY <1>2, <1>3, <1>4, <1>5, NoneFits

(* A run of a repeated letter, taken as a whole.                           *)
LEMMA RunMatched ==
  ASSUME NEW p \in Pattern, NEW line, Len(line) \in Nat,
         NEW m, m = MatchesFrom(p, line), NEW k \in Nat, At(p, k + 1) = "*", At(p, k) \in Letter,
         NEW i \in 0 .. Len(line), NEW n, n = RunLength(line, i, At(p, k))
  PROVE  /\ n \in 0 .. Len(line) - i
         /\ m[<<k + 2, i + n>>] => m[<<k, i>>]
         /\ OneWay(p) => (m[<<k, i>>] => m[<<k + 2, i + n>>])
<1> PICK c, l : c = At(p, k) /\ l = Len(line)
  OBVIOUS
<1>1. /\ n \in 0 .. l - i /\ At(line, i + n) # c
      /\ \A j \in i .. i + n - 1 : At(line, j) = c
  BY RunEnds
<1>2. k \in 0 .. Len(p) /\ k < Len(p) /\ k # Len(p) /\ k + 2 \in 0 .. Len(p) /\ Repeated(p, k)
      /\ Len(p) \in Nat
  <2>1. Len(p) \in Nat /\ k + 1 < Len(p)
    BY Standing
  <2> QED
    BY <2>1 DEF Repeated
<1>3. c # "." /\ ~("*" = "?")
  BY LetterAssumption
<1>4. ASSUME NEW t \in 0 .. n
      PROVE  /\ i + t \in 0 .. l
             /\ m[<<k, i + t>>] <=>
                  \/ m[<<k + 2, i + t>>]
                  \/ At(line, i + t) = c /\ m[<<k, i + t + 1>>]
  <2>1. i + t \in 0 .. l
    BY <1>1
  <2>2. m[<<k, i + t>>] <=> MatchBody(p, line, m, k, i + t)
    BY <1>2, <2>1, MatchSteps DEF Pattern
  <2>3. Fits(p, line, k, i + t) <=> At(line, i + t) = c
    BY <1>3 DEF Fits
  <2> QED
    BY <1>2, <1>3, <2>1, <2>2, <2>3 DEF MatchBody
<1>5. \A t \in 0 .. n - 1 : t \in 0 .. n /\ At(line, i + t) = c /\ (t < n => i + t + 1 = i + (t + 1))
  BY <1>1
<1>6. ASSUME m[<<k + 2, i + n>>] PROVE m[<<k, i>>]
  <2> DEFINE S == {t \in 0 .. n : m[<<k, i + (n - t)>>]}
  <2>1. 0 \in S
    <3>1. n \in Nat /\ n \in 0 .. n /\ 0 \in 0 .. n /\ i + (n - 0) = i + n
      BY <1>1
    <3>2. m[<<k, i + n>>]
      BY <1>4, <1>6, <3>1
    <3>3. m[<<k, i + (n - 0)>>]
      BY <3>1, <3>2
    <3> QED
      BY <3>1, <3>3
  <2>2. ASSUME NEW t \in 0 .. n - 1, t \in S PROVE t + 1 \in S
    <3> PICK u : u = n - (t + 1)
      OBVIOUS
    <3>1. u \in 0 .. n - 1 /\ u \in 0 .. n /\ i + u + 1 = i + (n - t) /\ t + 1 \in 0 .. n
      <4>1. n \in Nat /\ i \in Nat /\ t \in Nat /\ t <= n - 1
        BY <1>1
      <4> QED
        BY <4>1
    <3>2. m[<<k, i + (n - t)>>]
      BY <2>2
    <3>3. m[<<k, i + u>>]
      BY <1>4, <1>5, <3>1, <3>2
    <3> QED
      BY <3>1, <3>3
  <2>3. n \in Nat
    BY <1>1
  <2> HIDE DEF S
  <2>4. 0 .. n \subseteq S
    BY <2>1, <2>2, <2>3, UpTo
  <2>5. n \in S
    BY <2>3, <2>4
  <2>6. m[<<k, i + (n - n)>>]
    BY <2>5 DEF S
  <2>7. i + (n - n) = i
    BY <2>3
  <2> QED
    BY <2>6, <2>7
<1>7. ASSUME OneWay(p), m[<<k, i>>] PROVE m[<<k + 2, i + n>>]
  <2> DEFINE S == {t \in 0 .. n : m[<<k, i + t>>]}
  <2>1. 0 \in S
    <3>1. i + 0 = i /\ 0 \in 0 .. n
      BY <1>1
    <3> QED
      BY <1>7, <3>1
  <2>2. ASSUME NEW t \in 0 .. n - 1, t \in S PROVE t + 1 \in S
    <3>1. t \in 0 .. n /\ t + 1 \in 0 .. n /\ i + t + 1 = i + (t + 1)
      BY <1>1
    <3>2. m[<<k, i + t>>] /\ At(line, i + t) = c /\ i + t \in 0 .. l
      BY <1>4, <1>5, <2>2, <3>1
    <3>3. ~m[<<k + 2, i + t>>]
      BY <1>2, <1>7, <3>2, OtherLetter
    <3>4. m[<<k, i + t + 1>>]
      BY <1>4, <3>1, <3>2, <3>3
    <3> QED
      BY <3>1, <3>4
  <2>3. n \in Nat /\ n \in 0 .. n
    BY <1>1
  <2> HIDE DEF S
  <2>4. 0 .. n \subseteq S
    BY <2>1, <2>2, <2>3, UpTo
  <2>5. n \in S
    BY <2>3, <2>4
  <2>6. m[<<k, i + n>>]
    BY <2>5 DEF S
  <2> QED
    BY <1>1, <1>4, <2>3, <2>6
<1> QED
  BY <1>1, <1>6, <1>7
(* One element of the pattern against one character.                       *)
LEMMA PlainMatched ==
  ASSUME NEW p \in Pattern, NEW line, Len(line) \in Nat, NEW m, m = MatchesFrom(p, line),
         NEW k \in Nat, k < Len(p), ~Repeated(p, k), NEW i \in 0 .. Len(line)
  PROVE  m[<<k, i>>] <=> Fits(p, line, k, i) /\ m[<<k + 1, i + 1>>]
<1>1. k \in 0 .. Len(p) /\ k # Len(p)
  BY Standing
<1>2. m[<<k, i>>] <=> MatchBody(p, line, m, k, i)
  BY <1>1, MatchSteps DEF Pattern
<1> QED
  BY <1>1, <1>2 DEF MatchBody, Repeated

(* A letter with "?" matches with the letter or without it.                *)
LEMMA OptionMatched ==
  ASSUME NEW p \in Pattern, NEW line, Len(line) \in Nat, NEW m, m = MatchesFrom(p, line),
         NEW k \in Nat, At(p, k + 1) = "?", NEW i \in 0 .. Len(line)
  PROVE  m[<<k, i>>] <=> m[<<k + 2, i>>] \/ (Fits(p, line, k, i) /\ m[<<k + 2, i + 1>>])
<1>1. k \in 0 .. Len(p) /\ k # Len(p) /\ ~("?" = "*")
  <2>1. Len(p) \in Nat /\ k + 1 < Len(p)
    BY Standing
  <2> QED
    BY <2>1
<1>2. m[<<k, i>>] <=> MatchBody(p, line, m, k, i)
  BY <1>1, MatchSteps DEF Pattern
<1> QED
  BY <1>1, <1>2 DEF MatchBody, Repeated

(* A round keeps an attempt sound and, if the pattern says one thing only, *)
(* complete.                                                               *)
LEMMA RoundRight ==
  ASSUME NEW p \in Pattern, WellFormed(p), NEW line, Len(line) \in Nat,
         NEW h, Attempt(p, line, h), h.sspos < Len(p), NEW r, r = Round(p, line, h)
  PROVE  /\ Sound(p, line, h) => Sound(p, line, r)
         /\ OneWay(p) /\ Complete(p, line, h) => Complete(p, line, r)
<1> PICK k, i, l, m : k = h.sspos /\ i = h.i /\ l = h.linepos /\ m = MatchesFrom(p, line)
  OBVIOUS
<1> PICK s, next, c : s = At(p, k) /\ next = At(p, k + 1) /\ c = At(line, i)
  OBVIOUS
<1>1. /\ k \in Nat /\ k < Len(p) /\ i \in 0 .. Len(line) /\ l \in Nat /\ l < Len(line)
      /\ i \in Nat /\ Len(p) \in Nat
  <2>1. h \in Place /\ Len(p) \in Nat /\ h.i <= Len(line) /\ h.linepos < Len(line)
    BY Standing DEF Attempt
  <2> QED
    BY <2>1 DEF Place
<1>2. l \in 0 .. Len(line)
  BY <1>1
(* On: the attempt goes on, dk further in the pattern and di in the line.  *)
<1>3. ASSUME NEW dk \in Nat, NEW di \in Nat, r = Advance(h, dk, di)
      PROVE  /\ (m[<<k + dk, i + di>>] => m[<<k, i>>]) /\ Sound(p, line, h) => Sound(p, line, r)
             /\ (m[<<k, i>>] => m[<<k + dk, i + di>>]) /\ At(p, k + dk) \notin {"*", "?"}
                  /\ Complete(p, line, h) => Complete(p, line, r)
  <2>1. r.sspos = k + dk /\ r.i = i + di /\ r.linepos = l
    BY <1>3 DEF Advance
  <2> QED
    BY <2>1 DEF Sound, Complete
(* Again: nothing matches here, the attempt starts at the next place.      *)
<1>4. CASE r = Restart(h)
  <2>1. r.sspos = 0 /\ r.i = l + 1 /\ r.linepos = l + 1
    BY <1>4 DEF Restart
  <2>2. Sound(p, line, r)
    BY <2>1 DEF Sound
  <2>3. ASSUME ~m[<<k, i>>], Complete(p, line, h) PROVE Complete(p, line, r)
    <3>1. ~m[<<0, l>>] /\ \A j \in 0 .. l - 1 : ~m[<<0, j>>]
      BY <2>3 DEF Complete
    <3>2. \A j \in 0 .. (l + 1) - 1 : j \in 0 .. l - 1 \/ j = l
      BY <1>1
    <3>3. At(p, 0) \notin {"*", "?"}
      BY <1>1, SignBehind
    <3> QED
      BY <2>1, <3>1, <3>2, <3>3 DEF Complete
  <2>4. ASSUME OneWay(p), Complete(p, line, h) PROVE ~m[<<k, i>>]
    <3>1. s \notin {"*", "?"}
      BY <2>4 DEF Complete
    <3>2. CASE c \notin Letter
      BY <1>1, <2>4, <3>1, <3>2, NoLetter
    <3>3. CASE s \in Letter /\ next \notin {"*", "?"} /\ s # c
      <4>1. ~Fits(p, line, k, i)
        BY <3>3, LetterAssumption DEF Fits
      <4>2. ~Repeated(p, k)
        BY <3>3 DEF Repeated
      <4> QED
        BY <1>1, <4>1, <4>2, PlainMatched
    <3>4. CASE c \in Letter /\ ~(s \in Letter /\ next \notin {"*", "?"} /\ s # c)
      <4>1. Outcome(p, line, h, r)
        BY RoundCases
      <4>2. \A dk, di : r.linepos = l + 1 /\ Advance(h, dk, di).linepos = l /\ l # l + 1 /\ h.linepos = l
        BY <1>1, <2>1 DEF Advance
      <4> QED
        BY <3>4, <4>1, <4>2 DEF Outcome
    <3> QED
      BY <3>2, <3>3, <3>4
  <2> QED
    BY <2>2, <2>3, <2>4
<1>5. CASE c \in Letter /\ (s = "." \/ (s = c /\ next \notin {"*", "?"})) /\ r = Advance(h, 1, 1)
  <2>1. Fits(p, line, k, i)
    BY <1>5, LetterAssumption DEF Fits
  <2>2. ~Repeated(p, k)
    <3>1. CASE s = "."
      <4>1. s \notin Letter
        BY <3>1, LetterAssumption
      <4> QED
        BY <1>1, <4>1, SignBehind
    <3>2. CASE next \notin {"*", "?"}
      BY <3>2 DEF Repeated
    <3> QED
      BY <1>5, <3>1, <3>2
  <2>3. m[<<k, i>>] <=> m[<<k + 1, i + 1>>]
    BY <1>1, <2>1, <2>2, PlainMatched
  <2>4. At(p, k + 1) \notin {"*", "?"}
    BY <2>2 DEF Repeated
  <2> QED
    BY <1>3, <1>5, <2>3, <2>4
<1>6. CASE c \in Letter /\ s \in Letter /\ next = "*" /\ r = Advance(h, 2, RunLength(line, i, s))
  <2> PICK n : n = RunLength(line, i, s)
    OBVIOUS
  <2>1. /\ n \in 0 .. Len(line) - i
        /\ m[<<k + 2, i + n>>] => m[<<k, i>>]
        /\ OneWay(p) => (m[<<k, i>>] => m[<<k + 2, i + n>>])
    BY <1>1, <1>6, RunMatched
  <2>2. n \in Nat
    BY <1>1, <2>1
  <2>3. At(p, k + 2) \notin {"*", "?"}
    BY <1>1, <1>6, SignBehind DEF Repeated
  <2> QED
    BY <1>3, <1>6, <2>1, <2>2, <2>3
<1>7. CASE c \in Letter /\ s \in Letter /\ next = "?" /\ s = c /\ r = Advance(h, 2, 1)
  <2>1. Fits(p, line, k, i) /\ Repeated(p, k)
    BY <1>7, LetterAssumption DEF Fits, Repeated
  <2>2. m[<<k, i>>] <=> m[<<k + 2, i>>] \/ m[<<k + 2, i + 1>>]
    BY <1>1, <1>7, <2>1, OptionMatched
  <2>3. OneWay(p) => ~m[<<k + 2, i>>]
    BY <1>1, <1>7, <2>1, OtherLetter
  <2>4. At(p, k + 2) \notin {"*", "?"}
    BY <1>1, <2>1, SignBehind
  <2> QED
    BY <1>3, <1>7, <2>2, <2>3, <2>4
<1>8. CASE c \in Letter /\ s \in Letter /\ next = "?" /\ s # c /\ r = Advance(h, 2, 0)
  <2>1. ~Fits(p, line, k, i) /\ Repeated(p, k)
    BY <1>8, LetterAssumption DEF Fits, Repeated
  <2>2. m[<<k, i>>] <=> m[<<k + 2, i>>]
    BY <1>1, <1>8, <2>1, OptionMatched
  <2>3. i + 0 = i
    BY <1>1
  <2>4. At(p, k + 2) \notin {"*", "?"}
    BY <1>1, <2>1, SignBehind
  <2> QED
    BY <1>3, <1>8, <2>2, <2>3, <2>4
<1>9. CASE r = h
  BY <1>9
<1>10. Outcome(p, line, h, r)
  BY RoundCases
<1> QED
  BY <1>4, <1>5, <1>6, <1>7, <1>8, <1>9, <1>10 DEF Outcome

(* What mygrep says of a line at last.                                     *)
LEMMA Decided ==
  ASSUME NEW p \in Pattern, NEW line, Len(line) \in Nat,
         NEW h \in Place, h.sspos <= Len(p), h.linepos <= h.i, h.i <= Len(line)
  PROVE  /\ WellFormed(p) /\ Sound(p, line, h) /\ Found(p, line, h) => RegexMatches(p, line)
         /\ OneWay(p) /\ Complete(p, line, h) /\ NotFound(line, h) => ~RegexMatches(p, line)
<1> PICK m : m = MatchesFrom(p, line)
  OBVIOUS
<1>1. h.sspos \in Nat /\ h.linepos \in Nat /\ h.i \in 0 .. Len(line) /\ Len(p) \in Nat
      /\ h.linepos \in 0 .. Len(line)
  BY Standing DEF Place
<1>2. ASSUME Sound(p, line, h), Found(p, line, h) PROVE RegexMatches(p, line)
  <2>1. m[<<h.sspos, h.i>>]
    BY <1>1, <1>2, MatchSteps DEF Found, Pattern
  <2>2. m[<<0, h.linepos>>]
    BY <1>2, <2>1 DEF Sound
  <2> QED
    BY <1>1, <2>2 DEF RegexMatches
<1>3. ASSUME OneWay(p), Complete(p, line, h), NotFound(line, h) PROVE ~RegexMatches(p, line)
  <2>1. h.linepos = Len(line)
    BY <1>1, <1>3 DEF NotFound
  <2>2. \A i \in 0 .. Len(line) - 1 : ~m[<<0, i>>]
    BY <1>3, <2>1 DEF Complete
  <2>3. ~m[<<0, Len(line)>>]
    <3>1. 0 < Len(p)
      BY <1>1, <1>3, Lengths DEF OneWay, Pattern
    <3>2. At(p, 0) \notin {"*", "?"}
      BY <1>3, SignBehind DEF OneWay
    <3>3. At(line, Len(line)) \notin Letter
      BY LetterAssumption DEF At
    <3>4. Len(line) \in 0 .. Len(line) /\ 0 \in Nat
      OBVIOUS
    <3> QED
      BY <1>3, <3>1, <3>2, <3>3, <3>4, NoLetter
  <2>4. \A i \in 0 .. Len(line) : i \in 0 .. Len(line) - 1 \/ i = Len(line)
    OBVIOUS
  <2> QED
    BY <2>2, <2>3, <2>4 DEF RegexMatches
<1> QED
  BY <1>2, <1>3
-----------------------------------------------------------------------------
(* What is printed.                                                        *)
MatchRight ==
  pc = "grep" =>
    /\ WellFormed(pattern) => Sound(pattern, linebuf, g)
    /\ OneWay(pattern) => Complete(pattern, linebuf, g)

(* Types of what is searched for and of what is read.                      *)
LEMMA LineType ==
  ASSUME CoreInv
  PROVE  /\ pattern \in Pattern /\ linebuf \in Line /\ Len(linebuf) \in Nat /\ Len(pattern) \in Nat
         /\ Content \in Line /\ Len(Content) \in Nat /\ pos \in Nat
         /\ \A k \in 1 .. Len(linebuf) : linebuf[k] # "newline"
<1>1. /\ pattern \in Pattern /\ linebuf \in Seq(Char \ {"newline"}) /\ file \in Inode
      /\ pos \in 0 .. Len(Content) /\ InputOK
  BY DEF CoreInv, InputOK, ReadRight, Pattern
<1>2. /\ Len(linebuf) \in Nat /\ \A k \in 1 .. Len(linebuf) : linebuf[k] \in Char \ {"newline"}
  BY <1>1, Lengths
<1>3. linebuf \in Line
  BY <1>1 DEF Line
<1>4. Content \in Line /\ Len(Content) \in Nat
  BY <1>1, ContentType DEF Line
<1>5. pos \in Nat
  BY <1>1, <1>4
<1>6. Len(pattern) \in Nat
  BY <1>1, Lengths DEF Pattern
<1> QED
  BY <1>1, <1>2, <1>3, <1>4, <1>5, <1>6

(* Every step of mygrep keeps the search sound and complete.               *)
LEMMA MatchStep ==
  ASSUME CoreInv, MatchRight, [Next]_vars PROVE MatchRight'
<1>1. pattern' = pattern
  BY InputKept DEF input
<1>2. pattern \in Pattern /\ Len(linebuf) \in Nat
  BY LineType
<1>3. CASE SearchLine
  <2> PICK s : s = CString(linebuf)
    OBVIOUS
  <2>1. g' = Start /\ linebuf' = s
    BY <1>3 DEF SearchLine
  <2>2. WellFormed(pattern) => At(pattern, 0) \notin {"*", "?"}
    BY <1>2, SignBehind
  <2>3. Start.sspos = 0 /\ Start.linepos = 0 /\ Start.i = 0
    BY DEF Start
  <2>4. Sound(pattern, s, Start)
    BY <2>3 DEF Sound
  <2>5. OneWay(pattern) => Complete(pattern, s, Start)
    <3>1. \A l \in 0 .. 0 - 1 : FALSE
      OBVIOUS
    <3> QED
      BY <2>2, <2>3, <3>1 DEF Complete, OneWay
  <2> QED
    BY <1>1, <2>1, <2>4, <2>5 DEF MatchRight
<1>4. CASE GrepRound
  <2>1. /\ pc = "grep" /\ linebuf' = linebuf /\ g' = Round(pattern, linebuf, g)
        /\ ~Found(pattern, linebuf, g) /\ ~NotFound(linebuf, g)
    BY <1>4 DEF GrepRound, Grep
  <2>2. /\ g \in Place /\ g.sspos <= Len(pattern) /\ g.linepos <= g.i /\ g.i <= Len(linebuf)
    BY <2>1 DEF CoreInv, ReadRight
  <2>3. g.linepos < Len(linebuf) /\ g.sspos < Len(pattern)
    BY <1>2, <2>1, <2>2, LineType DEF Found, NotFound, Place
  <2>4. Attempt(pattern, linebuf, g)
    BY <2>2, <2>3 DEF Attempt
  <2>5. WellFormed(pattern) =>
          /\ Sound(pattern, linebuf, g) => Sound(pattern, linebuf, g')
          /\ OneWay(pattern) /\ Complete(pattern, linebuf, g) => Complete(pattern, linebuf, g')
    BY <1>2, <2>1, <2>3, <2>4, RoundRight
  <2>6. OneWay(pattern) => WellFormed(pattern)
    BY DEF OneWay
  <2> QED
    BY <1>1, <2>1, <2>5, <2>6 DEF MatchRight
<1>5. CASE GrepEnds
  BY <1>5 DEF GrepEnds, MatchRight
<1>6. CASE Skip \/ VisitFile \/ VisitDir \/ VisitUnreadable \/ LstatFails \/ NextEntry \/ CloseDir
           \/ Store \/ CloseFile
  <2>1. pc' # "grep"
    BY <1>6 DEF Skip, VisitFile, VisitDir, VisitUnreadable, LstatFails, NextEntry, CloseDir, Store,
                CloseFile, ReadByte, Return
  <2> QED
    BY <2>1 DEF MatchRight
<1>7. CASE UNCHANGED vars
  BY <1>7 DEF MatchRight, vars, input, reading
<1> QED
  BY <1>3, <1>4, <1>5, <1>6, <1>7 DEF Next

Output == Seq(Seq(Name) \X Line)

(* The end of a search: what is printed, and what the line is then.        *)
LEMMA SearchEnds ==
  ASSUME CoreInv, MatchRight, GrepEnds
  PROVE  /\ out' = IF Found(pattern, linebuf, g) THEN Append(out, <<path, linebuf>>) ELSE out
         /\ <<path, linebuf>> \in Seq(Name) \X Line
         /\ WellFormed(pattern) /\ Found(pattern, linebuf, g) => RegexMatches(pattern, linebuf)
         /\ OneWay(pattern) /\ RegexMatches(pattern, linebuf) => Found(pattern, linebuf, g)
         /\ Found(pattern, linebuf, g) =>
              /\ Stat(path) = file
              /\ Content = tree.content[Stat(path)]
<1>1. /\ pc = "grep"
      /\ Found(pattern, linebuf, g) \/ NotFound(linebuf, g)
      /\ out' = IF Found(pattern, linebuf, g) THEN Append(out, <<path, linebuf>>) ELSE out
  BY DEF GrepEnds, Grep
<1>2. path \in Seq(Name) /\ linebuf \in Line /\ pattern \in Pattern /\ Len(linebuf) \in Nat
  BY LineType DEF CoreInv, StackInv
<1>3. /\ g \in Place /\ g.sspos <= Len(pattern) /\ g.linepos <= g.i /\ g.i <= Len(linebuf)
      /\ file \in {None, Stat(path)} /\ Len(linebuf) < pos /\ pos \in 0 .. Len(Content)
  BY <1>1 DEF CoreInv, ReadRight
<1>4. /\ WellFormed(pattern) => Sound(pattern, linebuf, g)
      /\ OneWay(pattern) => Complete(pattern, linebuf, g)
  BY <1>1 DEF MatchRight
<1>5. /\ WellFormed(pattern) /\ Found(pattern, linebuf, g) => RegexMatches(pattern, linebuf)
      /\ OneWay(pattern) /\ RegexMatches(pattern, linebuf) => Found(pattern, linebuf, g)
  BY <1>1, <1>2, <1>3, <1>4, Decided
<1>6. Kind(file) = "reg"
  <2>1. Len(Content) # 0
    BY <1>2, <1>3, LineType
  <2> QED
    BY <2>1 DEF Content
<1>7. Stat(path) = file /\ Content = tree.content[Stat(path)]
  BY <1>3, <1>6 DEF Kind, Content
<1> QED
  BY <1>1, <1>2, <1>5, <1>7

(* Only the end of a search prints.                                        *)
LEMMA OutputKept ==
  ASSUME [Next]_vars, ~GrepEnds PROVE out' = out
BY DEF Next, vars, Skip, VisitFile, VisitDir, VisitUnreadable, LstatFails, NextEntry, CloseDir,
       Store, SearchLine, CloseFile, GrepRound, GrepEnds, ReadByte, Grep, Unchanging, history

(* Every line printed stands in its file and matches.                      *)
RightLine(o) ==
  /\ \E a \in 0 .. Len(tree.content[Stat(o[1])]) - Len(o[2]) :
       SubSeq(tree.content[Stat(o[1])], a + 1, a + Len(o[2])) = o[2]
  /\ WellFormed(pattern) => RegexMatches(pattern, o[2])

OutInv == out \in Output /\ \A k \in 1 .. Len(out) : RightLine(out[k])

(* A line is printed with the path of the file it stands in, and matches.  *)
LEMMA OutStep ==
  ASSUME CoreInv, MatchRight, OutInv, [Next]_vars PROVE OutInv'
<1>1. tree' = tree /\ pattern' = pattern /\ Output' = Output
  BY InputKept, TreeKept DEF input, Output
<1>2. ASSUME NEW o, RightLine(o) PROVE RightLine(o)'
  <2>1. Stat(o[1])' = Stat(o[1])
    BY InputKept, TreeKept
  <2> QED
    BY <1>1, <1>2, <2>1 DEF RightLine
<1>3. CASE out' = out
  BY <1>1, <1>2, <1>3 DEF OutInv
<1>4. CASE GrepEnds /\ Found(pattern, linebuf, g)
  <2> PICK o : o = <<path, linebuf>>
    OBVIOUS
  <2>1. /\ out' = Append(out, o) /\ o \in Seq(Name) \X Line
        /\ WellFormed(pattern) => RegexMatches(pattern, linebuf)
        /\ Stat(path) = file /\ Content = tree.content[Stat(path)]
    BY <1>4, SearchEnds
  <2>2. /\ Len(linebuf) < pos /\ pos \in 0 .. Len(Content)
        /\ \E x \in 0 .. pos - 1 - Len(linebuf) :
             \A k \in 1 .. Len(linebuf) : linebuf[k] = Content[x + k]
    BY <1>4 DEF GrepEnds, Grep, CoreInv, ReadRight
  <2>3. /\ Content \in Line /\ linebuf \in Line /\ Len(Content) \in Nat /\ Len(linebuf) \in Nat
        /\ pos \in Nat
    BY LineType
  <2>10. PICK a \in 0 .. pos - 1 - Len(linebuf) :
           \A k \in 1 .. Len(linebuf) : linebuf[k] = Content[a + k]
    BY <2>2
  <2>4. /\ a \in 0 .. Len(Content) - Len(linebuf) /\ a \in Nat
        /\ a + Len(linebuf) <= Len(Content)
    BY <2>2, <2>3
  <2>5. SubSeq(Content, a + 1, a + Len(linebuf)) = linebuf
    BY <2>3, <2>4, <2>10, PieceIs DEF Line
  <2>6. RightLine(o)
    <3>1. o[1] = path /\ o[2] = linebuf
      OBVIOUS
    <3> QED
      BY <2>1, <2>4, <2>5, <3>1 DEF RightLine
  <2>7. /\ Append(out, o) \in Output /\ Len(Append(out, o)) = Len(out) + 1
        /\ \A k \in 1 .. Len(out) : Append(out, o)[k] = out[k]
        /\ Append(out, o)[Len(out) + 1] = o
    BY <2>1, Appended DEF OutInv, Output
  <2>8. Len(out) \in Nat
    BY Lengths DEF OutInv, Output
  <2>9. ASSUME NEW k \in 1 .. Len(out') PROVE RightLine(out[k])'
    <3>1. k \in 1 .. Len(out) \/ k = Len(out) + 1
      BY <2>1, <2>7, <2>8
    <3>2. RightLine(out'[k])
      BY <2>1, <2>6, <2>7, <3>1 DEF OutInv
    <3> PICK x : x = out'[k]
      OBVIOUS
    <3>3. RightLine(x)'
      BY <1>2, <3>2
    <3>4. Stat(x[1])' = Stat(x[1])
      BY InputKept, TreeKept
    <3> QED
      BY <3>3 DEF RightLine
  <2> QED
    BY <1>1, <2>1, <2>7, <2>9 DEF OutInv
<1>5. CASE GrepEnds /\ ~Found(pattern, linebuf, g)
  BY <1>3, <1>5, SearchEnds
<1> QED
  BY <1>3, <1>4, <1>5, OutputKept
-----------------------------------------------------------------------------
(* No line is missed.                                                      *)
LEMMA AppendedSet ==
  ASSUME NEW S, NEW s \in Seq(S), NEW x \in S
  PROVE  ToSet(Append(s, x)) = ToSet(s) \cup {x} /\ ToSet(s) \subseteq S
<1> PICK t, n : t = Append(s, x) /\ n = Len(s)
  OBVIOUS
<1>1. /\ t \in Seq(S) /\ Len(t) = n + 1 /\ t[n + 1] = x /\ \A k \in 1 .. n : t[k] = s[k]
  BY Appended
<1>2. n \in Nat /\ DOMAIN s = 1 .. n /\ DOMAIN t = 1 .. n + 1 /\ \A k \in 1 .. n : s[k] \in S
  BY <1>1, Lengths
<1>3. 1 .. n + 1 = 1 .. n \cup {n + 1}
  BY <1>2
<1>4. ToSet(s) = {s[k] : k \in 1 .. n} /\ ToSet(t) = {t[k] : k \in 1 .. n + 1}
  BY <1>2 DEF ToSet
<1> QED
  BY <1>1, <1>2, <1>3, <1>4

ShortLines(i) ==
  \A a \in 0 .. Len(tree.content[i]), b \in 1 .. Len(tree.content[i]) :
    IsLine(tree.content[i], a, b) => b - 1 - a < LineMax

Healthy(i) == i \notin tree.locked \cup tree.unstable /\ Kind(i) = "reg" /\ ShortLines(i)

Printed(i, l) == RegexMatches(pattern, l) => \E o \in ToSet(out) : Stat(o[1]) = i /\ o[2] = l

(* The line l after the byte a of the file i, with its newline at b: the   *)
(* string in it has been printed if it should be, or it is in linebuf, or it lies ahead *)
(* of what has been read, or it is the one that linebuf begins with.       *)
Now(i) == pc \in {"read", "grep"} /\ file = i
Ahead(a) == a >= pos \/ (pc = "read" /\ a = pos - Len(linebuf))
LineRight(i, l, a, b) ==
  /\ ~Now(i) \/ b < pos \/ (b = pos /\ pc = "read") => Printed(i, CString(l))
  /\ Now(i) /\ b = pos /\ pc = "grep" => linebuf = CString(l)
  /\ Now(i) /\ b > pos => Ahead(a)

LinesRight ==
  OneWay(pattern) =>
    \A i \in ToSet(searched) : Healthy(i) =>
      \A a \in 0 .. Len(tree.content[i]), b \in 1 .. Len(tree.content[i]) :
        IsLine(tree.content[i], a, b) =>
          LineRight(i, SubSeq(tree.content[i], a + 1, b - 1), a, b)

(* A line of a healthy file that is being followed.                        *)
Stands(i, l, a, b) ==
  /\ i \in Ino /\ Healthy(i) /\ tree.content[i] \in Line
  /\ a \in 0 .. Len(tree.content[i]) /\ b \in 1 .. Len(tree.content[i])
  /\ IsLine(tree.content[i], a, b)
  /\ l \in Line /\ Len(l) = b - 1 - a /\ \A k \in 1 .. b - 1 - a : l[k] = tree.content[i][a + k]

(* The elements of a piece of a sequence.                                  *)
LEMMA PieceSteps ==
  ASSUME NEW S, NEW s \in Seq(S), NEW a \in Nat, NEW b \in Nat, a < b, b <= Len(s)
  PROVE  /\ SubSeq(s, a + 1, b - 1) \in Seq(S) /\ Len(SubSeq(s, a + 1, b - 1)) = b - 1 - a
         /\ \A k \in 1 .. b - 1 - a : SubSeq(s, a + 1, b - 1)[k] = s[a + k]
OBVIOUS

(* A line of a healthy file, cut out of it, stands there.                  *)
LEMMA StandsIs ==
  ASSUME CoreInv, NEW i \in Ino, Healthy(i),
         NEW a \in 0 .. Len(tree.content[i]), NEW b \in 1 .. Len(tree.content[i]),
         IsLine(tree.content[i], a, b)
  PROVE  Stands(i, SubSeq(tree.content[i], a + 1, b - 1), a, b)
<1>1. tree.content[i] \in Line
  BY DEF CoreInv, InputOK, IsTree, Healthy, Kind, Ino, Line, None
<1>2. a < b /\ a \in Nat /\ b \in Nat /\ b <= Len(tree.content[i])
  <2>1. a < b
    BY DEF IsLine
  <2>2. Len(tree.content[i]) \in Nat
    BY <1>1, Lengths DEF Line
  <2> QED
    BY <2>1, <2>2
<1> QED
  BY <1>1, <1>2, PieceSteps DEF Stands, Line

(* A printed line stays printed.                                           *)
LEMMA PrintedKept ==
  ASSUME CoreInv, OutInv, MatchRight, [Next]_vars, NEW i, NEW l, Printed(i, l)
  PROVE  Printed(i, l)'
<1>1. pattern' = pattern /\ \A p : Stat(p)' = Stat(p)
  BY InputKept, TreeKept DEF input
<1>2. ToSet(out) \subseteq ToSet(out')
  <2>1. CASE out' = out
    BY <2>1
  <2>2. CASE GrepEnds
    <3> PICK o : o = <<path, linebuf>>
      OBVIOUS
    <3>1. o \in Seq(Name) \X Line /\ out \in Output /\ out' \in {out, Append(out, o)}
      BY <2>2, SearchEnds DEF OutInv
    <3>2. ToSet(Append(out, o)) = ToSet(out) \cup {o}
      <4> DEFINE T == Seq(Name) \X Line
      <4>1. o \in T /\ out \in Seq(T)
        BY <3>1 DEF Output
      <4> HIDE DEF T
      <4> QED
        BY <4>1, AppendedSet
    <3> QED
      BY <3>1, <3>2
  <2> QED
    BY <2>1, <2>2, OutputKept
<1>3. ASSUME RegexMatches(pattern, l) PROVE \E o \in ToSet(out') : Stat(o[1])' = i /\ o[2] = l
  <2>1. PICK o \in ToSet(out) : Stat(o[1]) = i /\ o[2] = l
    BY <1>3 DEF Printed
  <2> QED
    BY <1>1, <1>2, <2>1
<1> QED
  BY <1>1, <1>3 DEF Printed
(* When reading stands where a line begins, linebuf is empty.              *)
LEMMA LineBegins ==
  ASSUME CoreInv, pc = "read", NEW a, a = pos, a = 0 \/ Content[a] = "newline"
  PROVE  Len(linebuf) = 0
<1> PICK n : n = Len(linebuf)
  OBVIOUS
<1>1. /\ n \in Nat /\ \A k \in 1 .. n : linebuf[k] # "newline"
      /\ pos \in Nat
  BY LineType
<1>2. n <= pos /\ \A k \in 1 .. n : linebuf[k] = Content[(pos - n) + k]
  BY DEF CoreInv, ReadRight
<1>3. CASE n > 0
  <2>1. n \in 1 .. n /\ (pos - n) + n = pos
    BY <1>1, <1>3
  <2>2. linebuf[n] = Content[pos]
    BY <1>2, <2>1
  <2> QED
    BY <1>1, <1>2, <2>1, <2>2
<1> QED
  BY <1>1, <1>3

(* What the steps that read do to a line of the file being read.           *)
LEMMA LineStored ==
  ASSUME CoreInv, MatchRight, OutInv, NEW i, NEW l, NEW a, NEW b,
         Stands(i, l, a, b), LineRight(i, l, a, b), Store
  PROVE  LineRight(i, l, a, b)'
<1> PICK n, p : n = Len(linebuf) /\ p = pos
  OBVIOUS
<1>1. /\ pc = "read" /\ pc' = "read" /\ file' = file /\ p \in Nat /\ n \in Nat
      /\ pos' = p + 1 /\ Byte = Content[p + 1] /\ Byte # "newline"
  BY ByteRead DEF Store, CoreInv, ReadByte, LineEnds
<1>2. Len(linebuf') = n + 1
  BY LineType, <1>1 DEF Store, Line
<1>3. CASE ~Now(i)
  <2>1. ~Now(i)' /\ Printed(i, CString(l))
    BY <1>1, <1>3 DEF Now, LineRight
  <2> QED
    BY <2>1, PrintedKept DEF LineRight, Next
<1>4. CASE Now(i)
  <2>1. Content = tree.content[i] /\ file = i
    BY <1>4 DEF Now, Content, Stands, Healthy
  <2>2. /\ a < b /\ a \in Nat /\ b \in Nat /\ tree.content[i][b] = "newline"
        /\ a = 0 \/ tree.content[i][a] = "newline"
    BY LineType, <2>1 DEF Stands, IsLine
  <2>3. b # p + 1
    BY <1>1, <2>1, <2>2
  <2>4. CASE b <= p
    <3>1. Printed(i, CString(l))'
      BY <1>1, <2>2, <2>4, PrintedKept DEF LineRight, Next
    <3> QED
      BY <1>1, <2>2, <2>4, <3>1 DEF LineRight
  <2>5. CASE b > p + 1
    <3>1. a >= p \/ a = p - n
      BY <1>1, <1>4, <2>2, <2>5 DEF LineRight, Ahead
    <3>2. a = p => n = 0
      BY <1>1, <2>1, <2>2, LineBegins
    <3>3. a >= p + 1 \/ a = p + 1 - (n + 1)
      BY <1>1, <2>2, <3>1, <3>2
    <3> QED
      BY <1>1, <1>2, <1>4, <2>2, <2>5, <3>3 DEF LineRight, Ahead, Now
  <2> QED
    BY <1>1, <2>2, <2>3, <2>4, <2>5
<1> QED
  BY <1>3, <1>4

(* SearchLine gives to mygrep exactly the line that ends with the byte     *)
(* just read; a line that is ahead is not cut, since linebuf can hold it.  *)
LEMMA LineSent ==
  ASSUME CoreInv, MatchRight, OutInv, NEW i, NEW l, NEW a, NEW b,
         Stands(i, l, a, b), LineRight(i, l, a, b), SearchLine
  PROVE  LineRight(i, l, a, b)'
<1> PICK n, p : n = Len(linebuf) /\ p = pos
  OBVIOUS
<1>1. /\ pc = "read" /\ pc' = "grep" /\ file' = file /\ p \in Nat /\ n \in Nat
      /\ pos' = p + 1 /\ Byte = Content[p + 1] /\ linebuf' = CString(linebuf)
      /\ Byte = "newline" \/ n >= LineMax - 1
  BY ByteRead DEF SearchLine, CoreInv, ReadByte, LineEnds
<1>2. CASE ~Now(i)
  <2>1. ~Now(i)' /\ Printed(i, CString(l))
    BY <1>1, <1>2 DEF Now, LineRight
  <2> QED
    BY <2>1, PrintedKept DEF LineRight, Next
<1>3. CASE Now(i)
  <2>1. Content = tree.content[i] /\ file = i
    BY <1>3 DEF Now, Content, Stands, Healthy
  <2>2. /\ a < b /\ a \in Nat /\ b \in Nat /\ tree.content[i][b] = "newline"
        /\ a = 0 \/ tree.content[i][a] = "newline"
        /\ \A k \in a + 1 .. b - 1 : tree.content[i][k] # "newline"
        /\ l \in Line /\ Len(l) = b - 1 - a /\ \A k \in 1 .. b - 1 - a : l[k] = tree.content[i][a + k]
    BY LineType, <2>1 DEF Stands, IsLine
  <2>3. b - 1 - a < LineMax
    BY DEF Stands, Healthy, ShortLines
  <2>4. CASE b <= p
    <3>1. Printed(i, CString(l))'
      BY <1>1, <2>2, <2>4, PrintedKept DEF LineRight, Next
    <3> QED
      BY <1>1, <2>2, <2>4, <3>1 DEF LineRight
  <2>5. b > p => a >= p + 1 \/ a = p - n
    <3>1. b > p => a >= p \/ a = p - n
      BY <1>1, <1>3, <2>2 DEF LineRight, Ahead
    <3>2. a = p => n = 0
      BY <1>1, <2>1, <2>2, LineBegins
    <3> QED
      BY <1>1, <2>2, <3>1, <3>2
  <2>6. CASE b = p + 1
    <3>1. a = p - n /\ b - 1 - a = n
      BY <1>1, <2>2, <2>5, <2>6
    <3>2. \A k \in 1 .. n : linebuf[k] = Content[(p - n) + k]
      BY <1>1 DEF CoreInv, ReadRight
    <3>3. linebuf \in Seq(Char) /\ l \in Seq(Char) /\ Len(linebuf) = Len(l)
          /\ \A k \in 1 .. Len(linebuf) : linebuf[k] = l[k]
      BY <2>1, <2>2, <3>1, <3>2, LineType DEF Line
    <3>4. linebuf' = CString(l)
      BY <1>1, <3>3, EqualSequences
    <3> QED
      BY <1>1, <2>2, <2>6, <3>4, <1>3 DEF LineRight, Now
  <2>7. CASE b > p + 1
    <3>1. a >= p + 1
      <4> SUFFICES ASSUME a = p - n PROVE FALSE
        BY <1>1, <2>2, <2>5, <2>7
      <4>1. p + 1 \in a + 1 .. b - 1
        BY <1>1, <2>2, <2>7
      <4>2. Byte # "newline"
        BY <1>1, <2>1, <2>2, <4>1
      <4>3. n >= LineMax - 1
        BY <1>1, <4>2
      <4> QED
        BY <1>1, <2>2, <2>3, <2>7, <4>3, LineMaxAssumption
    <3> QED
      BY <1>1, <1>3, <2>2, <2>7, <3>1 DEF LineRight, Ahead, Now
  <2> QED
    BY <1>1, <2>2, <2>4, <2>6, <2>7
<1> QED
  BY <1>2, <1>3

(* When readfile stops, no line is ahead.                                  *)
LEMMA FileClosed ==
  ASSUME CoreInv, MatchRight, OutInv, NEW i, NEW l, NEW a, NEW b,
         Stands(i, l, a, b), LineRight(i, l, a, b), CloseFile
  PROVE  LineRight(i, l, a, b)'
<1>1. pc = "read" /\ pc' \notin {"read", "grep"}
  BY DEF CloseFile, Return
<1>2. Printed(i, CString(l))
  <2>1. CASE ~Now(i) \/ b < pos \/ b = pos
    BY <1>1, <2>1 DEF LineRight
  <2>2. CASE Now(i) /\ ~(b < pos \/ b = pos)
    <3>1. Content = tree.content[i] /\ file = i
      BY <2>2 DEF Now, Content, Stands, Healthy
    <3>2. /\ b \in Nat /\ b <= Len(Content) /\ \A k \in 1 .. b : ASCII(tree.content[i][k])
          /\ pos \in Nat /\ Len(Content) \in Nat
      BY LineType, <3>1 DEF Stands, IsLine
    <3>3. pos < Len(Content) /\ pos + 1 \in 1 .. b
      BY <2>2, <3>2
    <3>4. ~ASCII(Content[pos + 1])
      BY <3>3 DEF CloseFile, Byte
    <3> QED
      BY <3>1, <3>2, <3>3, <3>4
  <2> QED
    BY <2>1, <2>2
<1>3. Printed(i, CString(l))'
  BY <1>2, PrintedKept DEF Next
<1> QED
  BY <1>1, <1>3 DEF LineRight, Now

(* The end of a search prints the line in linebuf if it should be.         *)
LEMMA LineDecided ==
  ASSUME CoreInv, MatchRight, OutInv, OneWay(pattern), NEW i, NEW l, NEW a, NEW b,
         Stands(i, l, a, b), LineRight(i, l, a, b), GrepEnds
  PROVE  LineRight(i, l, a, b)'
<1>1. pc = "grep" /\ pc' = "read" /\ file' = file /\ pos' = pos
  BY DEF GrepEnds, Grep
<1>2. b \in Nat /\ pos \in Nat /\ a \in Nat
  BY LineType, Lengths DEF Stands, Line
<1>3. ASSUME Printed(i, CString(l)) PROVE Printed(i, CString(l))'
  BY <1>3, PrintedKept DEF Next
<1>4. ~Now(i) \/ b < pos => Printed(i, CString(l))'
  BY <1>3 DEF LineRight
<1>5. Now(i)' = Now(i)
  BY <1>1 DEF Now
<1>6. Now(i) /\ b = pos => Printed(i, CString(l))'
  <2> PICK t : t = CString(l)
    OBVIOUS
  <2> SUFFICES ASSUME Now(i), b = pos, RegexMatches(pattern, t)
               PROVE  \E o \in ToSet(out') : Stat(o[1])' = i /\ o[2] = t
    <3>1. pattern' = pattern
      BY InputKept DEF input, Next
    <3> QED
      BY <3>1 DEF Printed
  <2> PICK o : o = <<path, t>>
    OBVIOUS
  <2>1. linebuf = t /\ file = i
    BY <1>1 DEF LineRight, Now
  <2>2. out' = Append(out, o) /\ o \in Seq(Name) \X Line /\ Stat(path) = i
    BY <2>1, SearchEnds
  <2>3. ToSet(Append(out, o)) = ToSet(out) \cup {o}
    <3> DEFINE T == Seq(Name) \X Line
    <3>1. o \in T /\ out \in Seq(T)
      BY <2>2 DEF OutInv, Output
    <3> HIDE DEF T
    <3> QED
      BY <3>1, AppendedSet
  <2>4. \A p : Stat(p)' = Stat(p)
    BY InputKept, TreeKept DEF Next
  <2>5. o[1] = path /\ o[2] = t
    OBVIOUS
  <2>6. Stat(o[1])' = i /\ o[2] = t
    BY <2>2, <2>4, <2>5
  <2> QED
    BY <2>2, <2>3, <2>6
<1>7. Now(i) /\ b > pos => a >= pos
  BY <1>1 DEF LineRight, Ahead
<1> QED
  BY <1>1, <1>2, <1>4, <1>5, <1>6, <1>7 DEF LineRight, Ahead
(* The steps that do not read.                                             *)
LEMMA LineLeft ==
  ASSUME CoreInv, MatchRight, OutInv, NEW i \in ToSet(searched), NEW l, NEW a, NEW b,
         LineRight(i, l, a, b),
         Skip \/ VisitFile \/ VisitDir \/ VisitUnreadable \/ LstatFails \/ NextEntry \/ CloseDir
  PROVE  LineRight(i, l, a, b)'
<1>1. pc \in {"call", "loop"}
  BY DEF Skip, VisitFile, VisitDir, VisitUnreadable, LstatFails, NextEntry, CloseDir, Visit
<1>2. Printed(i, CString(l))
  BY <1>1 DEF LineRight, Now
<1>3. Printed(i, CString(l))'
  BY <1>2, PrintedKept DEF Next
<1>4. ~Now(i)'
  <2>1. CASE VisitFile
    <3>1. Stat(path) \notin Marked /\ file' \in {None, Stat(path)} /\ None \notin Marked
      <4>1. UNCHANGED input /\ Visit(Stat(path)) /\ pc \in Below /\ file' \in {None, Stat(path)}
        BY <2>1 DEF VisitFile, Visit, Unchanging, Below
      <4> QED
        BY <4>1, Called, MarkedOne, MarkedSteps DEF CoreInv
    <3>2. i \in Marked
      <4>1. searched \in Seq(Marked)
        BY DEF CoreInv, Once
      <4> QED
        BY <4>1, Lengths DEF ToSet
    <3> QED
      BY <3>1, <3>2 DEF Now
  <2>2. CASE ~VisitFile
    <3>1. pc' \notin {"read", "grep"}
      BY <2>2 DEF Skip, VisitDir, VisitUnreadable, LstatFails, NextEntry, CloseDir, Return
    <3> QED
      BY <3>1 DEF Now
  <2> QED
    BY <2>1, <2>2
<1> QED
  BY <1>3, <1>4 DEF LineRight

(* Every step keeps a line right, in a file that has been searched.        *)
LEMMA LineStep ==
  ASSUME CoreInv, MatchRight, OutInv, OneWay(pattern), [Next]_vars,
         NEW i \in ToSet(searched), NEW l, NEW a, NEW b, Stands(i, l, a, b), LineRight(i, l, a, b)
  PROVE  LineRight(i, l, a, b)'
<1>1. CASE Skip \/ VisitFile \/ VisitDir \/ VisitUnreadable \/ LstatFails \/ NextEntry \/ CloseDir
  BY <1>1, LineLeft
<1>2. CASE Store
  BY <1>2, LineStored
<1>3. CASE SearchLine
  BY <1>3, LineSent
<1>4. CASE CloseFile
  BY <1>4, FileClosed
<1>5. CASE GrepEnds
  BY <1>5, LineDecided
<1>6. CASE GrepRound \/ UNCHANGED vars
  <2>1. /\ pc' = pc /\ file' = file /\ pos' = pos /\ linebuf' = linebuf
    BY <1>6 DEF GrepRound, Grep, vars, reading
  <2>2. Printed(i, CString(l)) => Printed(i, CString(l))'
    BY PrintedKept
  <2> QED
    BY <2>1, <2>2 DEF LineRight, Now, Ahead
<1> QED
  BY <1>1, <1>2, <1>3, <1>4, <1>5, <1>6 DEF Next

(* A file that has just been opened lies ahead as a whole.                 *)
LEMMA FileAhead ==
  ASSUME CoreInv, VisitFile, NEW i, i = Stat(path), Healthy(i), NEW l, NEW a, NEW b,
         Stands(i, l, a, b)
  PROVE  LineRight(i, l, a, b)'
<1>1. pos' = 0 /\ file' = i /\ pc' = "read"
  <2>1. i \notin tree.locked \cup tree.unstable /\ Kind(i) = "reg"
    BY DEF Healthy
  <2>2. file' = i /\ pos' = 0 /\ pc' = IF Kind(file') = "fifo" THEN "stuck" ELSE "read"
    BY <2>1 DEF VisitFile, MayFail
  <2>3. Kind(file') = "reg"
    BY <2>1, <2>2
  <2> QED
    BY <2>2, <2>3
<1>2. a \in Nat /\ b \in Nat /\ b > 0
  <2>1. Len(tree.content[i]) \in Nat
    BY Lengths DEF Stands, Line
  <2> QED
    BY <2>1 DEF Stands
<1> QED
  BY <1>1, <1>2 DEF LineRight, Now, Ahead

(* Every step keeps LinesRight, VisitFile for one file more.               *)
LEMMA LinesStep ==
  ASSUME CoreInv, MatchRight, OutInv, LinesRight, [Next]_vars PROVE LinesRight'
<1> SUFFICES ASSUME OneWay(pattern)', NEW i \in ToSet(searched'), Healthy(i)',
                    NEW a \in 0 .. Len(tree'.content[i]), NEW b \in 1 .. Len(tree'.content[i]),
                    IsLine(tree'.content[i], a, b)
             PROVE  LineRight(i, SubSeq(tree.content[i], a + 1, b - 1), a, b)'
  BY DEF LinesRight
<1>1. tree' = tree /\ pattern' = pattern /\ OneWay(pattern)
  BY InputKept DEF input
<1>2. Healthy(i)
  <2>1. Kind(i)' = Kind(i)
    BY InputKept, TreeKept
  <2> QED
    BY <1>1, <2>1 DEF Healthy, ShortLines, IsLine, ASCII
<1> PICK l : l = SubSeq(tree.content[i], a + 1, b - 1)
  OBVIOUS
<1>3. i \in Ino /\ Stands(i, l, a, b)
  <2>1. i \in Ino
    <3>1. searched' \in Seq(Marked') /\ Marked' \subseteq Ino
      BY OnceStep, InputKept, MarkedSteps DEF CoreInv, Once
    <3>2. i \in Marked'
      BY <3>1, Lengths DEF ToSet
    <3> QED
      BY <3>1, <3>2
  <2> QED
    BY <1>1, <1>2, <2>1, StandsIs
<1>4. CASE i \in ToSet(searched)
  <2>1. LineRight(i, l, a, b)
    BY <1>1, <1>2, <1>4 DEF LinesRight
  <2>2. LineRight(i, l, a, b)'
    BY <1>1, <1>3, <1>4, <2>1, LineStep
  <2> QED
    BY <1>1, <2>2 DEF LineRight, Printed
<1>5. CASE i \notin ToSet(searched)
  <2>1. VisitFile /\ i = Stat(path)
    <3>1. searched' # searched
      BY <1>5
    <3>2. VisitFile
      BY <3>1 DEF Next, vars, Skip, VisitDir, VisitUnreadable, LstatFails, NextEntry, CloseDir,
                  Store, SearchLine, CloseFile, GrepRound, GrepEnds, ReadByte, Grep, Unchanging,
                  history
    <3> PICK x : x = Stat(path)
      OBVIOUS
    <3>3. searched' = Append(searched, x)
      BY <3>2 DEF VisitFile
    <3>4. searched \in Seq(Marked \cup {x}) /\ x \in Marked \cup {x}
      BY DEF CoreInv, Once
    <3>5. ToSet(Append(searched, x)) = ToSet(searched) \cup {x}
      <4> DEFINE T == Marked \cup {x}
      <4> HIDE DEF T
      <4> QED
        BY <3>4, AppendedSet DEF T
    <3> QED
      BY <1>5, <3>2, <3>3, <3>5
  <2>2. LineRight(i, l, a, b)'
    BY <1>2, <1>3, <2>1, FileAhead
  <2> QED
    BY <1>1, <2>2 DEF LineRight, Printed
<1> QED
  BY <1>4, <1>5
OutAll == CoreInv /\ MatchRight /\ OutInv /\ LinesRight

(* OutAll holds at the beginning.                                          *)
LEMMA OutInit == Init => OutAll
<1> SUFFICES ASSUME Init PROVE OutAll
  OBVIOUS
<1>1. CoreInv
  BY CoreInit
<1>2. pc = "call" /\ out = <<>> /\ searched = <<>>
  BY DEF Init
<1>3. MatchRight
  BY <1>2 DEF MatchRight
<1>4. OutInv
  <2>1. out \in Output /\ Len(out) = 0
    BY <1>2 DEF Output
  <2> QED
    BY <2>1 DEF OutInv
<1>5. LinesRight
  <2>1. ToSet(searched) = {}
    BY <1>2 DEF ToSet
  <2> QED
    BY <2>1 DEF LinesRight
<1> QED
  BY <1>1, <1>3, <1>4, <1>5 DEF OutAll

(* OutAll holds in every behaviour.                                        *)
LEMMA OutAlways == Spec => []OutAll
<1>1. OutAll /\ [Next]_vars => OutAll'
  BY CoreStep, MatchStep, OutStep, LinesStep DEF OutAll
<1> QED
  BY <1>1, OutInit, PTL DEF Spec

(* When no file is being read, every line that matches is printed.         *)
LEMMA LinesPrinted == OutAll => LinesFound
<1> SUFFICES ASSUME OutAll, pc \in {"loop", "done"}, OneWay(pattern),
                    NEW i \in ToSet(searched) \ (tree.locked \cup tree.unstable),
                    Kind(i) = "reg",
                    \A l \in Lines(tree.content[i]) : Len(l) < LineMax,
                    NEW l \in Lines(tree.content[i])
             PROVE  Printed(i, CString(l))
  BY DEF LinesFound, Printed
<1> PICK text : text = tree.content[i]
  OBVIOUS
<1>1. i \in Ino /\ text \in Line
  <2>1. searched \in Seq(Marked) /\ Marked \subseteq Ino
    BY DEF OutAll, CoreInv, Once, Marked
  <2>2. i \in Ino
    BY <2>1, Lengths DEF ToSet
  <2> QED
    BY <2>2 DEF OutAll, CoreInv, InputOK, IsTree, Kind, Ino, Line, None
<1> DEFINE A == 0 .. Len(text)
           B == 1 .. Len(text)
           P == A \X B
<1>2. Lines(text) = {SubSeq(text, ab[1] + 1, ab[2] - 1) : ab \in {x \in P : IsLine(text, x[1], x[2])}}
  BY DEF Lines
<1> HIDE DEF A, B
<1>3. ASSUME NEW a \in A, NEW b \in B, IsLine(text, a, b)
      PROVE  SubSeq(text, a + 1, b - 1) \in Lines(text)
  <2> PICK x : x = <<a, b>>
    OBVIOUS
  <2>1. x \in P /\ x[1] = a /\ x[2] = b
    OBVIOUS
  <2> QED
    BY <1>2, <1>3, <2>1
<1>4. PICK a \in A, b \in B : IsLine(text, a, b) /\ l = SubSeq(text, a + 1, b - 1)
  <2>1. PICK ab \in P : IsLine(text, ab[1], ab[2]) /\ l = SubSeq(text, ab[1] + 1, ab[2] - 1)
    BY <1>2
  <2>2. ab[1] \in A /\ ab[2] \in B
    BY Pairs
  <2> QED
    BY <2>1, <2>2
<1>5. ShortLines(i)
  <2> SUFFICES ASSUME NEW x \in 0 .. Len(text), NEW y \in 1 .. Len(text), IsLine(text, x, y)
               PROVE  y - 1 - x < LineMax
    BY DEF ShortLines
  <2>1. SubSeq(text, x + 1, y - 1) \in Lines(text)
    BY <1>3 DEF A, B
  <2>2. Len(SubSeq(text, x + 1, y - 1)) < LineMax
    BY <2>1
  <2>3. x < y /\ x \in Nat /\ y \in Nat /\ y <= Len(text)
    <3>1. Len(text) \in Nat
      BY <1>1, Lengths DEF Line
    <3> QED
      BY <3>1 DEF IsLine
  <2>4. Len(SubSeq(text, x + 1, y - 1)) = y - 1 - x
    BY <1>1, <2>3, PieceSteps DEF Line
  <2> QED
    BY <2>2, <2>4
<1>6. LineRight(i, l, a, b)
  BY <1>4, <1>5 DEF OutAll, LinesRight, Healthy, A, B
<1> QED
  BY <1>6 DEF LineRight, Now

(* OutputExact of Finds: every line printed stands in the file of its path *)
(* and matches the pattern, and no line that matches is missed; of a line  *)
(* with a NUL that is the string before it (finds.c:255-278 with mygrep).  *)
THEOREM PrintedRight == Spec => []OutputExact
<1>1. OutAll => OutputTrue
  <2> SUFFICES ASSUME OutAll, NEW k \in DOMAIN out
               PROVE  RightLine(out[k])
    BY DEF OutputTrue, RightLine
  <2>1. out \in Seq(Seq(Name) \X Line) /\ \A n \in 1 .. Len(out) : RightLine(out[n])
    BY DEF OutAll, OutInv, Output
  <2> QED
    BY <2>1, Lengths
<1>2. OutAll => OutputExact
  BY <1>1, LinesPrinted DEF OutputExact
<1> QED
  BY <1>2, OutAlways, PTL
-----------------------------------------------------------------------------
(* ReachedDirs is the least set of directories that is closed under what   *)
(* its own entries name.                                                   *)
Beyond(S) == {e[2] : e \in Named(S)} \cap OpenDirs
Closed(S) == Beyond(S) \subseteq S

(* More directories name more, and only directories of the tree.           *)
LEMMA BeyondGrows ==
  /\ \A S, T : S \subseteq T => Named(S) \subseteq Named(T) /\ Beyond(S) \subseteq Beyond(T)
  /\ \A S : Beyond(S) \in SUBSET Ino
<1>1. ASSUME NEW S, NEW T, S \subseteq T PROVE Named(S) \subseteq Named(T)
  <2>1. UNION {ToSet(tree.entries[d]) : d \in S} \subseteq UNION {ToSet(tree.entries[d]) : d \in T}
    BY <1>1
  <2> PICK U, V : /\ U = UNION {ToSet(tree.entries[d]) : d \in S}
                  /\ V = UNION {ToSet(tree.entries[d]) : d \in T}
    OBVIOUS
  <2>2. {<<e[1], Data(e[2])>> : e \in U} \subseteq {<<e[1], Data(e[2])>> : e \in V}
    BY <2>1
  <2> QED
    BY <2>2 DEF Named
<1>2. \A S, T : S \subseteq T => Beyond(S) \subseteq Beyond(T)
  BY <1>1 DEF Beyond
<1>3. \A S : Beyond(S) \in SUBSET Ino
  BY DEF Beyond, OpenDirs
<1> QED
  BY <1>1, <1>2, <1>3

Within ==
  CHOOSE w : w = [n \in 0 .. Cardinality(Ino) |-> IF n = 0 THEN {} ELSE Beyond(w[n - 1])]

(* ReachedDirs is the last value of Within.                                *)
LEMMA ReachedIsWithin == ReachedDirs = Within[Cardinality(Ino)]
BY DEF ReachedDirs, Within, Beyond

(* Within exists, and takes one step after the other.                      *)
LEMMA WithinSteps ==
  ASSUME InputOK, NEW N, N = Cardinality(Ino)
  PROVE  /\ N \in Nat
         /\ Within[0] = {}
         /\ \A n \in 0 .. N - 1 : Within[n + 1] = Beyond(Within[n])
<1> DEFINE D == 0 .. N
           V == SUBSET Ino
           rank == [n \in D |-> n]
           Next1(w) == [n \in D |-> IF n = 0 THEN {} ELSE Beyond(w[n - 1])]
           B == [w \in [D -> V] |-> Next1(w)]
<1>1. N \in Nat
  BY FS_CardinalityType DEF InputOK, IsTree, Ino
<1>2. rank \in [D -> Nat] /\ \A n \in D : rank[n] < N + 1
  BY <1>1
<1>3. B \in [[D -> V] -> [D -> V]]
  <2>1. ASSUME NEW w \in [D -> V] PROVE Next1(w) \in [D -> V]
    <3>1. \A n \in D : (IF n = 0 THEN {} ELSE Beyond(w[n - 1])) \in V
      BY BeyondGrows
    <3> QED
      BY <3>1
  <2> QED
    BY <2>1
<1>4. \A f, h \in [D -> V], n \in D :
        (\A m \in D : rank[m] < rank[n] => f[m] = h[m]) => B[f][n] = B[h][n]
  <2> SUFFICES ASSUME NEW f \in [D -> V], NEW h \in [D -> V], NEW n \in D,
                      \A m \in D : rank[m] < rank[n] => f[m] = h[m]
               PROVE  B[f][n] = B[h][n]
    OBVIOUS
  <2>1. n # 0 => n - 1 \in D /\ rank[n - 1] < rank[n]
    BY <1>1
  <2>2. n # 0 => f[n - 1] = h[n - 1]
    BY <2>1
  <2> QED
    BY <2>2
<1>5. Descends(D, V, N + 1, rank, B)
  <2>1. N + 1 \in Nat
    BY <1>1
  <2> HIDE DEF D, V, rank, B
  <2> QED
    BY <2>1, <1>2, <1>3, <1>4 DEF Descends
<1>6. V # {}
  OBVIOUS
<1>7. \E f \in [D -> V] : f = B[f]
  <2> HIDE DEF D, V, rank, B
  <2> QED
    BY <1>5, <1>6, Recursion
<1>8. \E f : f = Next1(f)
  <2>1. PICK f \in [D -> V] : f = B[f]
    BY <1>7
  <2>2. B[f] = Next1(f)
    OBVIOUS
  <2> QED
    BY <2>1, <2>2
<1>9. Within = [n \in 0 .. N |-> IF n = 0 THEN {} ELSE Beyond(Within[n - 1])]
  BY <1>8 DEF Within
<1> PICK w : w = Within
  OBVIOUS
<1>10. w = [n \in 0 .. N |-> IF n = 0 THEN {} ELSE Beyond(w[n - 1])]
  BY <1>9
<1>11. w[0] = {}
  BY <1>1, <1>10
<1>12. ASSUME NEW n \in 0 .. N - 1 PROVE w[n + 1] = Beyond(w[n])
  <2>1. n + 1 \in 0 .. N /\ n + 1 # 0 /\ (n + 1) - 1 = n
    BY <1>1
  <2> QED
    BY <1>10, <2>1
<1> QED
  BY <1>1, <1>11, <1>12

(* ReachedDirs is closed, because a set that is not grows by one directory *)
(* in each of as many steps as there are i-nodes; and every closed set     *)
(* contains it.                                                            *)
LEMMA ReachedLeast ==
  ASSUME InputOK
  PROVE  /\ Closed(ReachedDirs)
         /\ \A S : Closed(S) => ReachedDirs \subseteq S
<1> PICK w, N : w = Within /\ N = Cardinality(Ino)
  OBVIOUS
<1>1. /\ N \in Nat /\ w[0] = {} /\ \A n \in 0 .. N - 1 : w[n + 1] = Beyond(w[n])
      /\ ReachedDirs = w[N]
  BY WithinSteps, ReachedIsWithin
<1>2. ASSUME NEW S, Closed(S) PROVE w[N] \subseteq S
  <2> DEFINE T == {n \in 0 .. N : w[n] \subseteq S}
  <2>1. 0 \in T
    BY <1>1
  <2>2. ASSUME NEW n \in 0 .. N - 1, n \in T PROVE n + 1 \in T
    <3>1. Beyond(w[n]) \subseteq Beyond(S)
      BY <2>2, BeyondGrows
    <3>2. w[n + 1] \subseteq S
      BY <1>1, <1>2, <3>1 DEF Closed
    <3> QED
      BY <1>1, <3>2
  <2> HIDE DEF T
  <2>3. 0 .. N \subseteq T
    BY <1>1, <2>1, <2>2, UpTo
  <2> QED
    BY <1>1, <2>3 DEF T
<1>3. Closed(w[N])
  <2> DEFINE Grown(n) == /\ w[n] \in SUBSET Ino /\ w[n] \subseteq Beyond(w[n])
                         /\ Closed(w[n]) \/ Cardinality(w[n]) >= n
             T == {n \in 0 .. N : Grown(n)}
  <2>1. IsFiniteSet(Ino)
    BY DEF InputOK, IsTree, Ino
  <2>2. 0 \in T
    <3>1. Cardinality(w[0]) = 0
      BY <1>1, FS_EmptySet
    <3> QED
      BY <1>1, <3>1
  <2>3. ASSUME NEW n \in 0 .. N - 1, n \in T PROVE n + 1 \in T
    <3> PICK u, v : u = w[n] /\ v = w[n + 1]
      OBVIOUS
    <3>1. v = Beyond(u) /\ u \in SUBSET Ino /\ u \subseteq v /\ n \in Nat
      BY <1>1, <2>3
    <3>2. v \in SUBSET Ino /\ v \subseteq Beyond(v)
      BY <3>1, BeyondGrows
    <3>3. Closed(u) => Closed(v)
      BY <3>1, BeyondGrows DEF Closed
    <3>4. ASSUME ~Closed(u) PROVE Cardinality(v) >= n + 1
      <4>1. u # v
        BY <3>1, <3>4 DEF Closed
      <4>2. IsFiniteSet(v)
        BY <2>1, <3>2, FS_Subset
      <4>3. Cardinality(u) <= Cardinality(v) /\ Cardinality(u) # Cardinality(v)
        BY <3>1, <4>1, <4>2, FS_Subset
      <4>4. Cardinality(u) \in Nat /\ Cardinality(v) \in Nat
        BY <3>1, <2>1, <4>2, FS_Subset, FS_CardinalityType
      <4>5. Cardinality(u) >= n
        BY <2>3, <3>4
      <4> QED
        BY <3>1, <4>3, <4>4, <4>5
    <3>5. n + 1 \in 0 .. N
      BY <1>1
    <3> QED
      BY <3>1, <3>2, <3>3, <3>4, <3>5
  <2>4. 0 .. N \subseteq T
    <3> HIDE DEF T
    <3> QED
      BY <1>1, <2>2, <2>3, UpTo
  <2>5. Grown(N)
    BY <1>1, <2>4
  <2>6. CASE Cardinality(w[N]) >= N
    <3>1. Cardinality(w[N]) <= N /\ (Cardinality(w[N]) = N => w[N] = Ino)
      BY <2>1, <2>5, FS_Subset
    <3>2. Cardinality(w[N]) \in Nat
      BY <2>1, <2>5, FS_Subset, FS_CardinalityType
    <3>3. w[N] = Ino
      BY <1>1, <2>6, <3>1, <3>2
    <3> QED
      BY <3>3, BeyondGrows DEF Closed
  <2> QED
    BY <2>5, <2>6
<1> QED
  BY <1>1, <1>2, <1>3
-----------------------------------------------------------------------------
(* Nothing else is searched, and nothing is left out, where numbers are    *)
(* unique and the first dot of a path is the one before the type.          *)
Plain == OneFileSystem /\ (opts.f => DotlessDirs /\ OneDot)

(* What can be reached and is wanted does not change.                      *)
LEMMA ReachedKept ==
  ASSUME InputOK, UNCHANGED input
  PROVE  /\ ReachedDirs' = ReachedDirs /\ OpenDirs' = OpenDirs
         /\ \A S : Named(S)' = Named(S)
         /\ Plain' = Plain
         /\ \A e : Wanted(e)' = Wanted(e)
<1>1. /\ tree' = tree /\ opts' = opts
      /\ Ino' = Ino /\ \A i : Kind(i)' = Kind(i) /\ Data(i)' = Data(i)
  BY TreeKept DEF input
<1>2. OpenDirs' = OpenDirs
  BY <1>1 DEF OpenDirs
<1>3. \A S : Named(S)' = Named(S)
  BY <1>1 DEF Named
<1>4. \A S : Beyond(S)' = Beyond(S)
  BY <1>2, <1>3 DEF Beyond
<1>5. \A S : Closed(S)' = Closed(S)
  BY <1>4 DEF Closed
<1>6. (InputOK => Closed(ReachedDirs) /\ \A S : Closed(S) => ReachedDirs \subseteq S)'
  BY ReachedLeast, PTL
<1> PICK R, Q : R = ReachedDirs /\ Q = ReachedDirs'
  OBVIOUS
<1>7. Closed(R) /\ \A S : Closed(S) => R \subseteq S
  BY ReachedLeast
<1>8. Beyond(Q)' \subseteq Q /\ \A S : Closed(S)' => Q \subseteq S
  <2>1. InputOK'
    BY TreeKept
  <2> QED
    BY <1>6, <2>1 DEF Closed
<1>9. R = Q
  <2>1. Closed(Q)
    BY <1>4, <1>8 DEF Closed
  <2>2. Closed(R)'
    BY <1>5, <1>7
  <2> QED
    BY <1>7, <1>8, <2>1, <2>2
<1>10. Plain' = Plain
  <2>1. DotlessDirs' = DotlessDirs
    BY <1>1, <1>3 DEF DotlessDirs
  <2>2. OneFileSystem' = OneFileSystem
    BY <1>1 DEF OneFileSystem
  <2>3. OneDot' = OneDot
    BY <1>1 DEF OneDot
  <2> QED
    BY <1>1, <2>1, <2>2, <2>3 DEF Plain
<1>11. \A e : Wanted(e)' = Wanted(e)
  BY <1>1 DEF Wanted
<1> QED
  BY <1>2, <1>3, <1>9, <1>10, <1>11

(* What the n-th entry of a directory names; it has been dealt with; or it *)
(* lies ahead of a directory stream, or dopath has just been called on it. *)
EntryOf(d, n) == <<tree.entries[d][n][1], Data(tree.entries[d][n][2])>>
Settled(e) == e[2] \in Marked \/ (Kind(e[2]) # "dir" /\ ~Wanted(e))
Pending(d, n) ==
  \E k \in 1 .. Len(stack) :
    /\ stack[k].dir = d
    /\ n >= stack[k].next \/ (pc = "call" /\ k = Len(stack) /\ n = stack[k].next - 1)

NoneElse ==
  /\ \A k \in 1 .. Len(stack) : stack[k].dir \in ReachedDirs
  /\ \A i \in ToSet(searched) : \E e \in Named(ReachedDirs) : e[2] = i /\ Wanted(e)

NoneLeft ==
  ~failed /\ Plain =>
    /\ \A i \in Marked : Kind(i) # "dir" => i \in ToSet(searched)
    /\ (pc = "call" /\ stack = <<>>) \/ Settled(<<tree.name, tree.root>>)
    /\ \A d \in Marked \cap OpenDirs : \A n \in 1 .. Len(tree.entries[d]) :
         Settled(EntryOf(d, n)) \/ Pending(d, n)

(* An entry of a directory of a set is what the set names.                 *)
LEMMA EntryNames ==
  ASSUME InputOK, NEW S, NEW d \in S, d \in Ino, Kind(d) = "dir", NEW n \in 1 .. Len(tree.entries[d])
  PROVE  EntryOf(d, n) \in Named(S)
<1>1. tree.entries[d][n] \in ToSet(tree.entries[d])
  <2>1. tree.entries[d] \in Seq((DOMAIN tree.ext \ {""}) \X Ino)
    BY EntryFound
  <2>2. DOMAIN tree.entries[d] = 1 .. Len(tree.entries[d])
    BY <2>1, Lengths
  <2> QED
    BY <2>2 DEF ToSet
<1> PICK U : U = UNION {ToSet(tree.entries[c]) : c \in S}
  OBVIOUS
<1>2. tree.entries[d][n] \in U
  BY <1>1
<1>3. EntryOf(d, n) \in {<<e[1], Data(e[2])>> : e \in U}
  BY <1>2 DEF EntryOf
<1> QED
  BY <1>3 DEF Named

(* What a set of directories names is the top or one of their entries.     *)
LEMMA NamedCases ==
  ASSUME InputOK, NEW S, S \subseteq {i \in Ino : Kind(i) = "dir"}, NEW e \in Named(S)
  PROVE  \/ e = <<tree.name, tree.root>>
         \/ \E d \in S : \E n \in 1 .. Len(tree.entries[d]) : e = EntryOf(d, n)
<1> SUFFICES ASSUME e # <<tree.name, tree.root>>
             PROVE  \E d \in S : \E n \in 1 .. Len(tree.entries[d]) : e = EntryOf(d, n)
  OBVIOUS
<1> PICK U : U = UNION {ToSet(tree.entries[c]) : c \in S}
  OBVIOUS
<1>1. PICK x \in U : e = <<x[1], Data(x[2])>>
  BY DEF Named
<1>2. PICK d \in S : x \in ToSet(tree.entries[d])
  BY <1>1
<1>3. tree.entries[d] \in Seq((DOMAIN tree.ext \ {""}) \X Ino)
  BY EntryFound
<1>4. PICK n \in 1 .. Len(tree.entries[d]) : x = tree.entries[d][n]
  <2>1. DOMAIN tree.entries[d] = 1 .. Len(tree.entries[d])
    BY <1>3, Lengths
  <2> QED
    BY <1>2, <2>1 DEF ToSet
<1> QED
  BY <1>1, <1>4 DEF EntryOf

(* What dopath has been called on.                                         *)
LEMMA Arrived ==
  ASSUME CoreInv, pc \in Below, NEW e, e = <<path[Len(path)], Stat(path)>>
  PROVE  /\ e[1] \in DOMAIN tree.ext \ {""} /\ e[2] \in Ino
         /\ NoneElse => e \in Named(ReachedDirs)
         /\ stack = <<>> => e = <<tree.name, tree.root>>
         /\ stack # <<>> =>
              /\ Len(stack) \in 1 .. Len(stack) /\ stack[Len(stack)] \in Frame
              /\ stack[Len(stack)].next - 1 \in 1 .. Len(tree.entries[stack[Len(stack)].dir])
              /\ e = EntryOf(stack[Len(stack)].dir, stack[Len(stack)].next - 1)
<1>1. Stat(path) \in Ino /\ InputOK
  BY Called DEF CoreInv
<1>2. e[1] = path[Len(path)] /\ e[2] = Stat(path)
  OBVIOUS
<1>3. CASE stack = <<>>
  <2>1. path = <<tree.name>> /\ Lookup(path) = tree.root
    BY <1>3, Called
  <2>2. Data(tree.root) = tree.root
    BY <1>1 DEF InputOK, IsTree, Data, Follow, Kind
  <2>3. e = <<tree.name, tree.root>>
    BY <2>1, <2>2 DEF Stat
  <2>4. tree.name \in DOMAIN tree.ext \ {""}
    BY <1>1 DEF InputOK, IsTree
  <2>5. <<tree.name, tree.root>> \in Named(ReachedDirs)
    BY DEF Named
  <2>6. e[1] = tree.name
    BY <2>3
  <2> QED
    BY <1>1, <1>3, <1>2, <2>3, <2>4, <2>5, <2>6
<1>4. CASE stack # <<>>
  <2> PICK m : m = Len(stack)
    OBVIOUS
  <2> PICK d, n : d = stack[m].dir /\ n = stack[m].next - 1
    OBVIOUS
  <2>1. /\ m \in 1 .. m /\ stack[m] \in Frame /\ stack[m].next > 1
        /\ stack[m].next \in 1 .. Len(tree.entries[d]) + 1
        /\ tree.entries[d][n] = <<path[Len(path)], Lookup(path)>>
    BY <1>4, Called
  <2>2. d \in Ino /\ Kind(d) = "dir"
    <3>1. FrameRight(m)
      BY <2>1 DEF CoreInv, StackInv
    <3> QED
      BY <2>1, <3>1 DEF Frame, FrameRight
  <2>3. tree.entries[d] \in Seq((DOMAIN tree.ext \ {""}) \X Ino)
    BY <1>1, <2>2, EntryFound
  <2>4. n \in 1 .. Len(tree.entries[d])
    <3>1. Len(tree.entries[d]) \in Nat
      BY <2>3, Lengths
    <3> QED
      BY <2>1, <3>1
  <2>5. e = EntryOf(d, n)
    BY <2>1 DEF EntryOf, Stat
  <2>6. NoneElse => e \in Named(ReachedDirs)
    BY <1>1, <2>1, <2>2, <2>4, <2>5, EntryNames DEF NoneElse
  <2>7. e[1] \in DOMAIN tree.ext \ {""}
    <3>1. tree.entries[d][n][1] \in DOMAIN tree.ext \ {""}
      BY <1>1, <2>2, <2>4, EntryFound
    <3>2. EntryOf(d, n)[1] = tree.entries[d][n][1]
      BY DEF EntryOf
    <3> QED
      BY <2>5, <3>1, <3>2
  <2> QED
    BY <1>1, <1>4, <1>2, <2>1, <2>4, <2>5, <2>6, <2>7
<1> QED
  BY <1>3, <1>4

(* With directories whose names have no dot the name at the end decides.   *)
LEMMA DirsDotless ==
  ASSUME CoreInv, pc \in Below, DotlessDirs, NEW j \in 1 .. Len(path) - 1
  PROVE  Ending(path[j]) = "none"
<1> PICK S, m : S = {i \in Ino : Kind(i) = "dir"} /\ m = Len(stack)
  OBVIOUS
<1>1. /\ InputOK /\ path \in Seq(Name) /\ stack \in Seq(Frame) /\ Len(path) = m + 1
      /\ path[1] = tree.name
      /\ \A k \in 1 .. m : FrameRight(k)
  BY DEF CoreInv, StackInv
<1>2. m \in Nat /\ j \in 1 .. m
  <2>1. m \in Nat
    BY <1>1, Lengths
  <2> QED
    BY <1>1, <2>1
<1>3. \A k \in 1 .. m : stack[k] \in Frame /\ stack[k].dir \in S
  <2> SUFFICES ASSUME NEW k \in 1 .. m PROVE stack[k] \in Frame /\ stack[k].dir \in S
    OBVIOUS
  <2>1. stack[k] \in Frame
    BY <1>1, Lengths
  <2>2. Kind(stack[k].dir) = "dir"
    BY <1>1 DEF FrameRight
  <2> QED
    BY <2>1, <2>2 DEF Frame
<1>4. \A x \in Named(S) : Kind(x[2]) = "dir" => tree.ext[x[1]] = "none"
  BY DEF DotlessDirs
<1>5. CASE j = 1
  <2>1. Data(LookupAt(1)) = stack[1].dir
    BY <1>1, <1>2, <1>5 DEF FrameRight
  <2>2. LookupAt(1) = tree.root
    <3>1. 1 <= Len(path) /\ 1 \in Nat
      BY <1>1, <1>2
    <3>2. SubSeq(path, 1, 1) \in Seq(Name) /\ Len(SubSeq(path, 1, 1)) = 1
      BY <1>1, <3>1, Prefix
    <3> QED
      BY <1>1, <3>2, LookupTop DEF LookupAt
  <2>3. Data(tree.root) = tree.root
    BY <1>1 DEF InputOK, IsTree, Data, Follow, Kind
  <2>4. Kind(tree.root) = "dir"
    BY <1>2, <1>3, <1>5, <2>1, <2>2, <2>3
  <2> PICK x : x = <<tree.name, tree.root>>
    OBVIOUS
  <2>5. x \in Named(S)
    BY DEF Named
  <2>6. tree.ext[tree.name] = "none"
    BY <1>4, <2>4, <2>5
  <2> QED
    BY <1>1, <1>5, <2>6 DEF Ending
<1>6. CASE j # 1
  <2> PICK k : k = j - 1
    OBVIOUS
  <2> PICK d, n : d = stack[k].dir /\ n = stack[k].next - 1
    OBVIOUS
  <2>1. k \in 1 .. m /\ k + 1 = j /\ j \in 1 .. m /\ k < m
    BY <1>2, <1>6
  <2>2. /\ stack[k].next > 1 /\ stack[k].next \in 1 .. Len(tree.entries[d]) + 1
        /\ tree.entries[d][n] = <<path[j], LookupAt(j)>>
        /\ Kind(d) = "dir" /\ d \in Ino /\ d \in S /\ stack[k].next \in Nat
    BY <1>1, <1>3, <2>1 DEF FrameRight, Frame
  <2>3. Kind(Data(LookupAt(j))) = "dir"
    BY <1>1, <2>1 DEF FrameRight
  <2>4. tree.entries[d] \in Seq((DOMAIN tree.ext \ {""}) \X Ino)
    BY <1>1, <2>2, EntryFound
  <2>5. n \in 1 .. Len(tree.entries[d])
    <3>1. Len(tree.entries[d]) \in Nat
      BY <2>4, Lengths
    <3>2. stack[k].next > 1 /\ stack[k].next \in 1 .. Len(tree.entries[d]) + 1
      BY <2>2
    <3> QED
      BY <3>1, <3>2
  <2> PICK x : x = EntryOf(d, n)
    OBVIOUS
  <2>6. x \in Named(S) /\ x[1] = path[j] /\ x[2] = Data(LookupAt(j))
    <3>1. x \in Named(S)
      BY <1>1, <2>2, <2>5, EntryNames
    <3>2. x = <<path[j], Data(LookupAt(j))>>
      BY <2>2 DEF EntryOf
    <3> QED
      BY <3>1, <3>2
  <2>7. tree.ext[path[j]] = "none"
    BY <1>4, <2>3, <2>6
  <2> QED
    BY <2>7 DEF Ending
<1> QED
  BY <1>5, <1>6

(* SkippedByType by the name at the end: what it lets through is of a type *)
(* asked for, and what it skips is not, if no directory has a dot in its   *)
(* name and no name has two.                                               *)
LEMMA TypeDecided ==
  ASSUME CoreInv, pc \in Below, NEW e, e = <<path[Len(path)], Stat(path)>>
  PROVE  /\ ~SkippedByType(path) => (opts.f => tree.type[e[1]] \in opts.types)
         /\ SkippedByType(path) => opts.f
         /\ SkippedByType(path) /\ DotlessDirs /\ OneDot => tree.type[e[1]] \notin opts.types
<1>1. e[1] = path[Len(path)] /\ e[1] \in DOMAIN tree.ext \ {""}
  BY Arrived
<1>2. Ending(path[Len(path)]) = tree.ext[e[1]]
  BY <1>1 DEF Ending
<1>3. /\ opts.types \subseteq {"c", "h", "S"}
      /\ tree.ext[e[1]] \in {"c", "h", "S"} => tree.type[e[1]] = tree.ext[e[1]]
  BY <1>1 DEF CoreInv, InputOK, IsTree
<1>4. ~SkippedByType(path) => (opts.f => tree.type[e[1]] \in opts.types)
  BY <1>2, <1>3 DEF SkippedByType, CheckEnding
<1>5. DotlessDirs => \A c : CheckEnding(c, path) <=> tree.ext[e[1]] = c
  BY <1>2, DirsDotless DEF CheckEnding
<1>6. OneDot => tree.type[e[1]] = tree.ext[e[1]]
  BY <1>1 DEF OneDot
<1>7. SkippedByType(path) /\ DotlessDirs /\ OneDot => tree.type[e[1]] \notin opts.types
  BY <1>3, <1>5, <1>6 DEF SkippedByType
<1> QED
  BY <1>4, <1>7 DEF SkippedByType
(* A directory that is opened or closed comes to or leaves the stack.      *)
LEMMA DirEntered ==
  ASSUME CoreInv, VisitDir
  PROVE  /\ Len(stack') = Len(stack) + 1 /\ Len(stack) \in Nat
         /\ \A k \in 1 .. Len(stack) : stack'[k] = stack[k]
         /\ stack'[Len(stack) + 1].dir = Stat(path) /\ stack'[Len(stack) + 1].next = 1
<1> PICK f : f = [dir |-> Stat(path), base |-> Len(path), next |-> 1]
  OBVIOUS
<1>1. stack' = Append(stack, f) /\ stack \in Seq(Frame) /\ path \in Seq(Name)
  BY DEF VisitDir, CoreInv, StackInv
<1>2. f \in Frame
  <2>1. pc \in Below
    BY DEF VisitDir, Visit, Below
  <2>2. Stat(path) \in Ino
    BY <2>1, Called
  <2>3. Len(path) \in Nat
    BY <1>1, Lengths
  <2> QED
    BY <2>2, <2>3 DEF Frame
<1>3. /\ Len(Append(stack, f)) = Len(stack) + 1 /\ Append(stack, f)[Len(stack) + 1] = f
      /\ \A k \in 1 .. Len(stack) : Append(stack, f)[k] = stack[k]
  BY <1>1, <1>2, Appended
<1>4. Len(stack) \in Nat
  BY <1>1, Lengths
<1>5. f.dir = Stat(path) /\ f.next = 1
  OBVIOUS
<1> QED
  BY <1>1, <1>3, <1>4, <1>5

(* CloseDir takes the top frame from the stack.                            *)
LEMMA DirLeft ==
  ASSUME CoreInv, CloseDir
  PROVE  /\ Len(stack') = Len(stack) - 1 /\ Len(stack) \in Nat \ {0}
         /\ \A k \in 1 .. Len(stack) - 1 : stack'[k] = stack[k]
<1>1. stack' = Front(stack) /\ stack \in Seq(Frame) /\ stack # <<>>
  BY DEF CloseDir, CoreInv, StackInv
<1>2. Len(stack) \in Nat \ {0}
  BY <1>1, Lengths
<1> QED
  BY <1>1, <1>2, Fronted

(* NextEntry moves the top frame to the next entry.                        *)
LEMMA EntryTaken ==
  ASSUME CoreInv, NextEntry, NEW m, m = Len(stack)
  PROVE  /\ Len(stack') = m /\ m \in Nat \ {0} /\ pc' = "call"
         /\ \A k \in 1 .. m - 1 : stack'[k] = stack[k]
         /\ stack'[m].dir = stack[m].dir /\ stack'[m].next = stack[m].next + 1
         /\ stack[m].next \in Nat
<1> PICK d : d = stack[m].dir
  OBVIOUS
<1> PICK e : e = tree.entries[d][stack[m].next]
  OBVIOUS
<1>1. /\ Len(stack') = m /\ pc = "loop" /\ pc' = "call"
      /\ \A k \in 1 .. m - 1 : stack'[k] = stack[k]
      /\ stack'[m] = [stack[m] EXCEPT !.next = @ + 1]
  BY EntryNamed DEF CoreInv
<1>2. stack[m] \in Frame /\ m \in Nat /\ 1 <= m
  BY <1>1, TopRight DEF CoreInv
<1>3. stack'[m].dir = stack[m].dir /\ stack'[m].next = stack[m].next + 1
  BY <1>1, <1>2 DEF Frame
<1> QED
  BY <1>1, <1>2, <1>3 DEF Frame

(* Every step keeps NoneElse.                                              *)
LEMMA ElseStep ==
  ASSUME CoreInv, NoneElse, [Next]_vars PROVE NoneElse'
<1> PICK R, m, e, i : /\ R = ReachedDirs /\ m = Len(stack) /\ i = Stat(path)
                      /\ e = <<path[Len(path)], Stat(path)>>
  OBVIOUS
<1>1. /\ ReachedDirs' = R /\ Named(R)' = Named(R) /\ \A x : Wanted(x)' = Wanted(x)
      /\ ReachedDirs = R
  BY InputKept, ReachedKept DEF CoreInv
<1>2. /\ \A k \in 1 .. m : stack[k].dir \in R
      /\ \A j \in ToSet(searched) : \E x \in Named(R) : x[2] = j /\ Wanted(x)
  BY DEF NoneElse
<1>3. SUFFICES /\ \A k \in 1 .. Len(stack') : stack'[k].dir \in R
               /\ \A j \in ToSet(searched') : \E x \in Named(R) : x[2] = j /\ Wanted(x)
  <2>1. Named(ReachedDirs)' = Named(R)
    BY <1>1 DEF Named
  <2> QED
    BY <1>1, <2>1 DEF NoneElse
<1>4. CASE VisitFile
  <2>1. /\ stack' = stack /\ searched' = Append(searched, i) /\ pc \in Below
        /\ Kind(i) # "dir" /\ (Kind(i) = "link" => opts.links) /\ ~SkippedByType(path)
    BY <1>4 DEF VisitFile, Visit, Unchanging, Below
  <2>2. ToSet(Append(searched, i)) = ToSet(searched) \cup {i}
    <3>1. searched \in Seq(Marked \cup {i}) /\ i \in Marked \cup {i}
      BY DEF CoreInv, Once
    <3> DEFINE T == Marked \cup {i}
    <3> HIDE DEF T
    <3> QED
      BY <3>1, AppendedSet DEF T
  <2>3. e \in Named(R) /\ e[2] = i
    BY <1>1, <2>1, Arrived
  <2>4. Wanted(e)
    BY <2>1, <2>3, TypeDecided DEF Wanted
  <2> QED
    BY <1>2, <2>1, <2>2, <2>3, <2>4
<1>5. CASE VisitDir
  <2>1. pc \in Below /\ Kind(i) = "dir" /\ i \notin tree.locked /\ searched' = searched
    BY <1>5 DEF VisitDir, Visit, Unchanging, history, Below
  <2>2. e \in Named(R) /\ e[2] = i /\ i \in Ino
    <3>1. e \in Named(R) /\ e[2] = i
      BY <1>1, <2>1, Arrived
    <3>2. Stat(path) \in Ino
      BY <2>1, Called
    <3> QED
      BY <3>1, <3>2
  <2>3. i \in R
    <3>1. i \in Beyond(R)
      BY <2>1, <2>2 DEF Beyond, OpenDirs
    <3> QED
      BY <1>1, <3>1, ReachedLeast DEF Closed, CoreInv
  <2>4. \A k \in 1 .. m + 1 : k \in 1 .. m \/ k = m + 1
    BY <1>5, DirEntered
  <2>5. \A k \in 1 .. Len(stack') : stack'[k].dir \in R
    BY <1>2, <1>5, <2>3, <2>4, DirEntered
  <2> QED
    BY <1>2, <2>1, <2>5
<1>6. CASE NextEntry
  <2>1. searched' = searched
    BY <1>6 DEF NextEntry, Unchanging, history
  <2>2. Len(stack') = m /\ \A k \in 1 .. m : stack'[k].dir = stack[k].dir
    <3>1. /\ Len(stack') = m /\ m \in Nat \ {0}
          /\ \A k \in 1 .. m - 1 : stack'[k] = stack[k]
          /\ stack'[m].dir = stack[m].dir
      BY <1>6, EntryTaken
    <3>2. \A k \in 1 .. m : k \in 1 .. m - 1 \/ k = m
      BY <3>1
    <3> QED
      BY <3>1, <3>2
  <2> QED
    BY <1>2, <2>1, <2>2
<1>7. CASE CloseDir
  <2>1. searched' = searched
    BY <1>7 DEF CloseDir, Unchanging, history
  <2>2. /\ Len(stack') = m - 1 /\ \A k \in 1 .. m - 1 : stack'[k] = stack[k]
        /\ \A k \in 1 .. m - 1 : k \in 1 .. m
    BY <1>7, DirLeft
  <2> QED
    BY <1>2, <2>1, <2>2
<1>8. CASE UNCHANGED <<stack, searched>>
  BY <1>2, <1>8
<1>9. [Next]_vars => VisitFile \/ VisitDir \/ NextEntry \/ CloseDir \/ UNCHANGED <<stack, searched>>
  BY DEF Next, vars, Skip, VisitUnreadable, LstatFails, Store, SearchLine, CloseFile, GrepRound,
         GrepEnds, ReadByte, Grep, Unchanging, history
<1> QED
  BY <1>4, <1>5, <1>6, <1>7, <1>8, <1>9
(* What has been dealt with stays so, and what names what does not change. *)
LEMMA SettledKept ==
  ASSUME InputOK, UNCHANGED input, visited \subseteq visited'
  PROVE  /\ \A e : Settled(e) => Settled(e)'
         /\ \A d, n : EntryOf(d, n)' = EntryOf(d, n)
<1>1. tree' = tree /\ \A i : Kind(i)' = Kind(i) /\ Data(i)' = Data(i)
  BY TreeKept DEF input
<1>2. \A e : Wanted(e)' = Wanted(e)
  BY ReachedKept
<1>3. \A d, n : EntryOf(d, n)' = EntryOf(d, n)
  BY <1>1 DEF EntryOf
<1>4. \A e : Settled(e) => Settled(e)'
  <2>1. Marked \subseteq Marked'
    BY MarkedSteps
  <2> QED
    BY <1>1, <1>2, <2>1 DEF Settled
<1> QED
  BY <1>3, <1>4

(* dopath deals with what it has been called on.                           *)
LEMMA Dealt ==
  ASSUME CoreInv, NEW e, e = <<path[Len(path)], Stat(path)>>, Plain,
         Skip \/ VisitFile \/ VisitDir \/ VisitUnreadable
  PROVE  Settled(e)'
<1> PICK i : i = Stat(path)
  OBVIOUS
<1>1. /\ UNCHANGED input /\ pc \in Below /\ e[2] = i /\ visited \subseteq visited'
      /\ i \in Ino /\ InputOK
      /\ \A j : Kind(j)' = Kind(j)
  <2>1. UNCHANGED input /\ pc = "call" /\ visited \subseteq visited'
    BY DEF Skip, VisitFile, VisitDir, VisitUnreadable, Visit, Unchanging
  <2> QED
    BY <2>1, TreeKept, Called DEF Below, CoreInv
<1>2. CASE VisitFile \/ VisitDir \/ VisitUnreadable
  <2>1. Visit(i)
    BY <1>2 DEF VisitFile, VisitDir, VisitUnreadable
  <2>2. i \in Marked'
    BY <1>1, <2>1, MarkedOne
  <2> QED
    BY <1>1, <2>2 DEF Settled
<1>3. CASE Skip
  <2>1. Settled(e)
    <3>1. CASE tree.num[i] \in visited
      BY <1>1, <3>1 DEF Settled, Marked
    <3>2. CASE Kind(i) = "link" /\ ~opts.links
      BY <1>1, <3>2 DEF Settled, Wanted
    <3>3. CASE Kind(i) # "dir" /\ SkippedByType(path)
      BY <1>1, <3>3, TypeDecided DEF Settled, Wanted, Plain
    <3> QED
      BY <1>3, <3>1, <3>2, <3>3 DEF Skip
  <2> QED
    BY <1>1, <2>1, SettledKept DEF CoreInv
<1> QED
  BY <1>2, <1>3

(* A call of dopath that finds its file keeps NoneLeft: what it has been   *)
(* called on is dealt with, and the entries of a directory opened lie      *)
(* ahead.                                                                  *)
LEMMA CallLeft ==
  ASSUME CoreInv, NoneLeft, Skip \/ VisitFile \/ VisitDir \/ VisitUnreadable
  PROVE  NoneLeft'
<1> SUFFICES ASSUME ~failed', Plain'
             PROVE  /\ \A j \in Marked' : Kind(j)' # "dir" => j \in ToSet(searched')
                    /\ Settled(<<tree.name, tree.root>>)'
                    /\ \A d \in Marked' \cap OpenDirs' : \A n \in 1 .. Len(tree'.entries[d]) :
                         Settled(EntryOf(d, n))' \/ Pending(d, n)'
  BY DEF NoneLeft
<1> PICK i, e, m : i = Stat(path) /\ e = <<path[Len(path)], Stat(path)>> /\ m = Len(stack)
  OBVIOUS
<1>1. /\ UNCHANGED input /\ pc = "call" /\ pc \in Below /\ visited \subseteq visited' /\ InputOK
  BY DEF Skip, VisitFile, VisitDir, VisitUnreadable, Visit, Unchanging, history, CoreInv, Below
<1>2. ~failed
  <2>1. CASE VisitFile
    BY <2>1, Zenon DEF VisitFile
  <2>2. CASE VisitUnreadable
    BY <2>2, Zenon DEF VisitUnreadable
  <2>3. CASE Skip \/ VisitDir
    BY <2>3 DEF Skip, VisitDir, Unchanging, history
  <2> QED
    BY <2>1, <2>2, <2>3
<1>3. /\ tree' = tree /\ opts' = opts /\ OpenDirs' = OpenDirs /\ Plain' = Plain
      /\ \A j : Kind(j)' = Kind(j)
  BY <1>1, TreeKept, ReachedKept DEF input
<1>4. Plain /\ OneFileSystem
  BY <1>3 DEF Plain
<1>11. /\ i \in Ino /\ (Skip => Marked' = Marked)
       /\ VisitFile \/ VisitDir \/ VisitUnreadable => Marked' = Marked \cup {i}
       /\ Marked \subseteq Marked'
  <2>1. i \in Ino
    BY <1>1, Called
  <2>2. VisitFile \/ VisitDir \/ VisitUnreadable => Visit(i)
    BY DEF VisitFile, VisitDir, VisitUnreadable
  <2>3. Skip => visited' = visited
    BY DEF Skip, Unchanging
  <2> QED
    BY <1>1, <1>4, <2>1, <2>2, <2>3, MarkedOne, MarkedSteps
<1>5. /\ \A j \in Marked : Kind(j) # "dir" => j \in ToSet(searched)
      /\ stack = <<>> \/ Settled(<<tree.name, tree.root>>)
      /\ \A d \in Marked \cap OpenDirs : \A n \in 1 .. Len(tree.entries[d]) :
           Settled(EntryOf(d, n)) \/ Pending(d, n)
  BY <1>1, <1>4, <1>2 DEF NoneLeft
<1>6. Settled(e)'
  BY <1>4, Dealt
<1>7. /\ \A x : Settled(x) => Settled(x)'
      /\ \A d, n : EntryOf(d, n)' = EntryOf(d, n)
  BY <1>1, SettledKept
<1>8. \A j \in Marked' : Kind(j)' # "dir" => j \in ToSet(searched')
  <2>1. CASE VisitFile
    <3>1. Marked' = Marked \cup {i} /\ searched' = Append(searched, i)
      BY <1>11, <2>1 DEF VisitFile
    <3>2. ToSet(Append(searched, i)) = ToSet(searched) \cup {i}
      <4>1. searched \in Seq(Marked \cup {i}) /\ i \in Marked \cup {i}
        BY DEF CoreInv, Once
      <4> DEFINE T == Marked \cup {i}
      <4> HIDE DEF T
      <4> QED
        BY <4>1, AppendedSet DEF T
    <3> QED
      BY <1>3, <1>5, <3>1, <3>2
  <2>2. CASE Skip \/ VisitDir \/ VisitUnreadable
    <3>1. searched' = searched /\ Marked' \subseteq Marked \cup {i}
      BY <1>11, <2>2 DEF Skip, VisitDir, VisitUnreadable, Unchanging, history
    <3>2. Marked' = Marked \/ Kind(i) = "dir"
      BY <1>11, <2>2 DEF VisitDir, VisitUnreadable
    <3> QED
      BY <1>3, <1>5, <3>1, <3>2
  <2> QED
    BY <2>1, <2>2
<1>9. Settled(<<tree.name, tree.root>>)'
  <2> PICK x : x = <<tree.name, tree.root>>
    OBVIOUS
  <2>1. stack = <<>> => e = x
    <3>1. stack = <<>> => e = <<tree.name, tree.root>>
      <4>1. e = <<path[Len(path)], Stat(path)>>
        OBVIOUS
      <4> QED
        BY <1>1, <4>1, Arrived, ZenonT(30)
    <3> QED
      BY <3>1
  <2>2. Settled(x)'
    BY <1>5, <1>6, <1>7, <2>1
  <2> QED
    BY <1>3, <2>2 DEF Settled, Wanted
<1>10. ASSUME NEW d \in Marked' \cap OpenDirs', NEW n \in 1 .. Len(tree'.entries[d])
      PROVE  Settled(EntryOf(d, n))' \/ Pending(d, n)'
  <2> PICK x : x = EntryOf(d, n)
    OBVIOUS
  <2>1. Settled(x)' => Settled(EntryOf(d, n))'
    BY <1>7 DEF Settled
  <2>2. d \in OpenDirs /\ n \in 1 .. Len(tree.entries[d])
    BY <1>3
  <2>3. \A k \in 1 .. m : k \in 1 .. Len(stack') /\ stack'[k] = stack[k]
    <3>1. CASE VisitDir
      BY <3>1, DirEntered
    <3>2. CASE ~VisitDir
      BY <3>2 DEF Skip, VisitFile, VisitUnreadable, Unchanging
    <3> QED
      BY <3>1, <3>2
  <2>4. CASE d \in Marked
    <3>1. CASE Settled(x)
      BY <1>7, <2>1, <3>1
    <3>2. CASE Pending(d, n)
      <4>1. PICK k \in 1 .. m : /\ stack[k].dir = d
                                /\ n >= stack[k].next \/ (k = m /\ n = stack[k].next - 1)
        BY <3>2 DEF Pending
      <4>2. CASE n >= stack[k].next
        BY <2>3, <4>1, <4>2 DEF Pending
      <4>3. CASE k = m /\ n = stack[k].next - 1
        <5>1. stack # <<>>
          BY <4>1
        <5>2. e = EntryOf(d, n)
          BY <1>1, <4>1, <4>3, <5>1, Arrived
        <5> QED
          BY <1>6, <2>1, <5>2
      <4> QED
        BY <4>1, <4>2, <4>3
    <3> QED
      BY <1>5, <2>2, <2>4, <3>1, <3>2
  <2>5. CASE d \notin Marked
    <3>1. d = i
      BY <1>11, <2>5
    <3>2. Kind(d) = "dir" /\ d \notin tree.locked
      BY <2>2 DEF OpenDirs
    <3>3. VisitDir
      <4>1. ~Skip /\ ~VisitFile
        BY <1>11, <2>5, <3>1, <3>2 DEF VisitFile
      <4>2. ~VisitUnreadable
        BY <3>1, <3>2 DEF VisitUnreadable, MayFail
      <4> QED
        BY <4>1, <4>2
    <3>4. /\ m + 1 \in 1 .. Len(stack') /\ stack'[m + 1].dir = d /\ stack'[m + 1].next = 1
      BY <3>1, <3>3, DirEntered
    <3>5. n >= 1
      <4>1. tree.entries[d] \in Seq((DOMAIN tree.ext \ {""}) \X Ino)
        BY <1>1, <2>2, <3>2, EntryFound DEF OpenDirs
      <4>2. Len(tree.entries[d]) \in Nat
        BY <4>1, Lengths
      <4> QED
        BY <2>2, <4>2
    <3> QED
      BY <3>4, <3>5 DEF Pending
  <2> QED
    BY <2>4, <2>5
<1> QED
  BY <1>8, <1>9, <1>10
(* The steps between and below the calls of dopath.                        *)
LEMMA LeftKept ==
  ASSUME CoreInv, NoneLeft, UNCHANGED <<input, visited, searched, failed>>,
         pc = "call" /\ stack = <<>> => pc' = pc /\ stack' = stack,
         \A d, n : n \in Int /\ Pending(d, n) =>
                     Pending(d, n)' \/ (d \in Ino /\ Kind(d) = "dir" /\ n \notin 1 .. Len(tree.entries[d]))
  PROVE  NoneLeft'
<1> SUFFICES ASSUME ~failed', Plain'
             PROVE  /\ \A j \in Marked' : Kind(j)' # "dir" => j \in ToSet(searched')
                    /\ (pc = "call" /\ stack = <<>>)' \/ Settled(<<tree.name, tree.root>>)'
                    /\ \A d \in Marked' \cap OpenDirs' : \A n \in 1 .. Len(tree'.entries[d]) :
                         Settled(EntryOf(d, n))' \/ Pending(d, n)'
  BY DEF NoneLeft
<1>1. /\ UNCHANGED input /\ visited' = visited /\ searched' = searched /\ failed' = failed
      /\ InputOK /\ Marked' = Marked
  BY MarkedSteps DEF CoreInv
<1>2. /\ tree' = tree /\ opts' = opts /\ OpenDirs' = OpenDirs /\ Plain' = Plain
      /\ \A j : Kind(j)' = Kind(j)
  BY <1>1, TreeKept, ReachedKept DEF input
<1>3. /\ \A j \in Marked : Kind(j) # "dir" => j \in ToSet(searched)
      /\ (pc = "call" /\ stack = <<>>) \/ Settled(<<tree.name, tree.root>>)
      /\ \A d \in Marked \cap OpenDirs : \A n \in 1 .. Len(tree.entries[d]) :
           Settled(EntryOf(d, n)) \/ Pending(d, n)
  BY <1>1, <1>2 DEF NoneLeft
<1>4. /\ \A x : Settled(x) => Settled(x)'
      /\ \A d, n : EntryOf(d, n)' = EntryOf(d, n)
  BY <1>1, SettledKept
<1>5. \A j \in Marked' : Kind(j)' # "dir" => j \in ToSet(searched')
  BY <1>1, <1>2, <1>3
<1>6. (pc = "call" /\ stack = <<>>)' \/ Settled(<<tree.name, tree.root>>)'
  <2>1. CASE pc = "call" /\ stack = <<>>
    BY <2>1
  <2>2. CASE Settled(<<tree.name, tree.root>>)
    <3> PICK x : x = <<tree.name, tree.root>>
      OBVIOUS
    <3>1. Settled(x)'
      BY <1>4, <2>2
    <3> QED
      BY <1>2, <3>1 DEF Settled, Wanted
  <2> QED
    BY <1>3, <2>1, <2>2
<1>7. ASSUME NEW d \in Marked' \cap OpenDirs', NEW n \in 1 .. Len(tree'.entries[d])
      PROVE  Settled(EntryOf(d, n))' \/ Pending(d, n)'
  <2> PICK x : x = EntryOf(d, n)
    OBVIOUS
  <2>1. Settled(x)' => Settled(EntryOf(d, n))'
    BY <1>4 DEF Settled
  <2>2. d \in Marked /\ d \in OpenDirs /\ n \in 1 .. Len(tree.entries[d])
    BY <1>1, <1>2
  <2>3. n \in Int
    OBVIOUS
  <2>4. Settled(x) \/ Pending(d, n)
    BY <1>3, <2>2
  <2> QED
    BY <1>4, <2>1, <2>2, <2>3, <2>4
<1> QED
  BY <1>5, <1>6, <1>7

(* Every step keeps NoneLeft.                                              *)
LEMMA LeftStep ==
  ASSUME CoreInv, NoneLeft, [Next]_vars PROVE NoneLeft'
<1> PICK m : m = Len(stack)
  OBVIOUS
<1>1. CASE Skip \/ VisitFile \/ VisitDir \/ VisitUnreadable
  BY <1>1, CallLeft
<1>2. CASE LstatFails
  BY <1>2 DEF LstatFails, NoneLeft
<1>3. CASE NextEntry
  <2>1. /\ UNCHANGED <<input, visited, searched, failed>> /\ pc = "loop"
    BY <1>3 DEF NextEntry, Unchanging, history
  <2>2. ASSUME NEW d, NEW n \in Int, Pending(d, n) PROVE Pending(d, n)'
    <3>1. PICK k \in 1 .. m : stack[k].dir = d /\ n >= stack[k].next
      BY <2>1, <2>2 DEF Pending
    <3>2. /\ Len(stack') = m /\ m \in Nat \ {0} /\ pc' = "call"
          /\ \A j \in 1 .. m - 1 : stack'[j] = stack[j]
          /\ stack'[m].dir = stack[m].dir /\ stack'[m].next = stack[m].next + 1
          /\ stack[m].next \in Nat
      BY <1>3, EntryTaken
    <3>3. CASE k = m
      <4>1. n >= stack'[m].next \/ n = stack'[m].next - 1
        BY <3>1, <3>2, <3>3
      <4>2. m \in 1 .. Len(stack') /\ stack'[m].dir = d
        BY <3>1, <3>2, <3>3
      <4> QED
        BY <3>2, <4>1, <4>2 DEF Pending
    <3>4. CASE k # m
      <4>1. k \in 1 .. m - 1 /\ k \in 1 .. Len(stack')
        BY <3>2, <3>4
      <4> QED
        BY <3>1, <3>2, <4>1 DEF Pending
    <3> QED
      BY <3>3, <3>4
  <2> QED
    BY <2>1, <2>2, LeftKept
<1>4. CASE CloseDir
  <2>1. /\ UNCHANGED <<input, visited, searched, failed>> /\ pc = "loop"
    BY <1>4 DEF CloseDir, Unchanging, history
  <2>2. /\ stack[m].next > Len(tree.entries[stack[m].dir])
        /\ stack[m].dir \in Ino /\ Kind(stack[m].dir) = "dir" /\ stack[m] \in Frame
    BY <1>4, TopRight DEF CloseDir, Top, CoreInv
  <2>3. ASSUME NEW d, NEW n \in Int, Pending(d, n)
        PROVE  Pending(d, n)' \/ (d \in Ino /\ Kind(d) = "dir" /\ n \notin 1 .. Len(tree.entries[d]))
    <3>1. PICK k \in 1 .. m : stack[k].dir = d /\ n >= stack[k].next
      BY <2>1, <2>3 DEF Pending
    <3>2. CASE k = m
      <4>1. tree.entries[d] \in Seq((DOMAIN tree.ext \ {""}) \X Ino)
        BY <2>2, <3>1, <3>2, EntryFound DEF CoreInv
      <4>2. Len(tree.entries[d]) \in Nat
        BY <4>1, Lengths
      <4>3. stack[m].next \in Nat
        BY <2>2 DEF Frame
      <4>4. n > Len(tree.entries[d])
        BY <2>2, <3>1, <3>2, <4>2, <4>3
      <4> QED
        BY <2>2, <3>1, <3>2, <4>2, <4>4
    <3>3. CASE k # m
      <4>1. k \in 1 .. m - 1 /\ k \in 1 .. Len(stack') /\ stack'[k] = stack[k]
        BY <1>4, <3>3, DirLeft
      <4> QED
        BY <3>1, <4>1 DEF Pending
    <3> QED
      BY <3>2, <3>3
  <2> QED
    BY <2>1, <2>3, LeftKept
<1>5. CASE Store \/ SearchLine \/ CloseFile \/ GrepRound \/ GrepEnds \/ UNCHANGED vars
  <2>1. /\ UNCHANGED <<input, visited, searched, failed>> /\ stack' = stack
        /\ pc' = pc \/ pc # "call"
    BY <1>5 DEF Store, SearchLine, CloseFile, GrepRound, GrepEnds, ReadByte, Grep, Unchanging,
                vars, history
  <2>2. \A d, n : Pending(d, n) => Pending(d, n)'
    BY <2>1 DEF Pending
  <2> QED
    BY <2>1, <2>2, LeftKept
<1> QED
  BY <1>1, <1>2, <1>3, <1>4, <1>5 DEF Next

SearchAll == CoreInv /\ NoneElse /\ NoneLeft

(* The invariants of the search hold at the beginning.                     *)
LEMMA SearchInit == Init => SearchAll
<1> SUFFICES ASSUME Init PROVE SearchAll
  OBVIOUS
<1>1. CoreInv /\ pc = "call" /\ stack = <<>> /\ visited = {} /\ searched = <<>>
  BY CoreInit DEF Init
<1>2. ToSet(searched) = {} /\ Len(stack) = 0 /\ Marked = {}
  BY <1>1 DEF ToSet, Marked
<1> QED
  BY <1>1, <1>2 DEF SearchAll, NoneElse, NoneLeft

(* At the end the directories gone through are closed under what they name,*)
(* so that everything that can be reached has been.                        *)
LEMMA AllReached ==
  ASSUME CoreInv, NoneLeft, pc = "done", ~failed, Plain
  PROVE  ReachedDirs \subseteq Marked /\ \A e \in Named(ReachedDirs) : Settled(e)
<1> PICK S : S = Marked \cap OpenDirs
  OBVIOUS
<1>1. InputOK /\ stack = <<>> /\ Len(stack) = 0
  BY DEF CoreInv, StackInv
<1>2. /\ Settled(<<tree.name, tree.root>>)
      /\ \A d \in S : \A n \in 1 .. Len(tree.entries[d]) : Settled(EntryOf(d, n))
  BY <1>1 DEF NoneLeft, Pending
<1>3. S \subseteq {i \in Ino : Kind(i) = "dir"}
  BY DEF OpenDirs
<1>4. \A e \in Named(S) : Settled(e)
  BY <1>1, <1>2, <1>3, NamedCases
<1>5. Closed(S)
  BY <1>4 DEF Closed, Beyond, Settled, OpenDirs
<1>6. ReachedDirs \subseteq S
  BY <1>1, <1>5, ReachedLeast
<1>7. Named(ReachedDirs) \subseteq Named(S)
  BY <1>6, BeyondGrows
<1> QED
  BY <1>4, <1>6, <1>7

(* AllSearched of Finds: no file is searched but those that can be reached *)
(* and are wanted; and at the end, where nothing failed, all of them have  *)
(* been, within one file system and, with -f, where the first dot of every *)
(* path is the one before the type (finds.c:178-230).                      *)
THEOREM SearchedAll == Spec => []AllSearched
<1>1. SearchAll /\ [Next]_vars => SearchAll'
  BY CoreStep, ElseStep, LeftStep DEF SearchAll
<1>2. SearchAll => AllSearched
  <2>1. SearchAll => ToSet(searched) \subseteq WantedFiles
    BY DEF SearchAll, NoneElse, WantedFiles
  <2>2. SearchAll /\ pc = "done" /\ ~failed /\ Plain => WantedFiles \subseteq ToSet(searched)
    <3> SUFFICES ASSUME SearchAll, pc = "done", ~failed, Plain,
                        NEW e \in Named(ReachedDirs), Wanted(e)
                 PROVE  e[2] \in ToSet(searched)
      BY DEF WantedFiles
    <3>1. Settled(e) /\ Kind(e[2]) # "dir"
      BY AllReached DEF SearchAll, Wanted
    <3>2. e[2] \in Marked
      BY <3>1 DEF Settled
    <3> QED
      BY <3>1, <3>2 DEF SearchAll, NoneLeft
  <2> QED
    BY <2>1, <2>2 DEF AllSearched, Plain
<1> QED
  BY <1>1, <1>2, SearchInit, PTL DEF Spec
=============================================================================
