---------------------------- MODULE TspTextProofs ---------------------------
(***************************************************************************)
(* Proofs about the text the solvers read and the text tspsort makes of    *)
(* theirs, two programs of one pipeline that share no state.               *)
(*   - process_matrix_input reads a square matrix right, whatever its size *)
(*     and its numbers, and with a blank at every end of line it reads one *)
(*     node more.  As long as all lines have as many tokens as the first,  *)
(*     entry (i, j) is token j of line i.                                  *)
(*   - tspsort writes its input sorted, stably and completely, for every   *)
(*     input of ordinary distances.  The argument is the one for selection *)
(*     sort; the point of it is that the doubled first round and the bounds*)
(*     of alreadyprinted fit each other.                                   *)
(***************************************************************************)
EXTENDS MatrixInput, TspSort, SequenceTheorems, FiniteSetTheorems,
        WellFoundedInduction, TLAPS

(* The entries a token can become.                                         *)
Value == Numbers \cup {0}

Even == \A k \in 1 .. Len(typed) : Len(Tokens(typed[k])) = nsize

EntriesPlaced ==
  /\ pos = Len(typed) * nsize
  /\ \A i \in 0 .. Len(typed) - 1, j \in 0 .. nsize - 1 :
       mtx[Entry(i, j) + 1] = Tokens(typed[i + 1])[j + 1]

ReadInv ==
  /\ InputTypeOK
  /\ IF typed = <<>> THEN phase = "first" ELSE nsize = Len(Tokens(typed[1]))
  /\ Even => EntriesPlaced

(* What a line is made into.                                               *)
LEMMA TokensType ==
  ASSUME NEW row \in Row
  PROVE  /\ row.nums \in Seq(Numbers) /\ Len(row.nums) \in 1 .. MaxSize
         /\ Tokens(row) \in Seq(Value)
         /\ Len(Tokens(row)) = (IF row.blank THEN Len(row.nums) + 1 ELSE Len(row.nums))
         /\ \A j \in 1 .. Len(row.nums) : Tokens(row)[j] = row.nums[j]
         /\ row.blank => Tokens(row)[Len(row.nums) + 1] = 0
<1>1. PICK n \in 1 .. MaxSize : row.nums \in [1 .. n -> Numbers]
  BY DEF Row
<1>2. row.nums \in Seq(Numbers) /\ Len(row.nums) = n
  BY <1>1, SizeAssumption
<1>3. row.nums \in Seq(Value)
  BY <1>2 DEF Value
<1> QED
  BY <1>2, <1>3, SizeAssumption DEF Tokens, Value

(* Entry (i, j) lies before the end of line i, in front of all later ones. *)
LEMMA EntryBefore ==
  ASSUME NEW i \in Nat, NEW j \in Nat, NEW rows \in Nat, NEW width \in Nat,
         i < rows, j < width
  PROVE  i * width + j + 1 \in 1 .. rows * width
<1>1. PICK d \in Nat : rows = i + 1 + d
  BY rows - i - 1 \in Nat
<1>2. rows * width = i * width + width + d * width
  BY <1>1
<1>3. d * width \in Nat /\ i * width \in Nat
  OBVIOUS
<1> QED
  BY <1>2, <1>3

LEMMA ReadTypes == ReadInv /\ [InputNext]_inputVars => InputTypeOK'
<1> SUFFICES ASSUME ReadInv, [InputNext]_inputVars PROVE InputTypeOK'
  OBVIOUS
<1>1. ASSUME NEW row \in Row, FirstLine(row) PROVE InputTypeOK'
  BY <1>1, TokensType, SizeAssumption DEF FirstLine, InputTypeOK, Value
<1>2. ASSUME NEW row \in Row, NextLine(row) PROVE InputTypeOK'
  <2>1. mtx' \in Seq(Value)
    BY <1>2, TokensType DEF NextLine, ReadInv, InputTypeOK, Value
  <2>2. typed' \in Seq(Row) /\ Len(typed') <= MaxSize
    BY <1>2, SizeAssumption DEF NextLine, ReadInv, InputTypeOK
  <2> QED
    BY <1>2, <2>1, <2>2 DEF NextLine, ReadInv, InputTypeOK, Value
<1>3. CASE EndOfMatrix
  BY <1>3 DEF EndOfMatrix, ReadInv, InputTypeOK
<1>4. CASE UNCHANGED inputVars
  BY <1>4 DEF inputVars, ReadInv, InputTypeOK
<1> QED
  BY <1>1, <1>2, <1>3, <1>4 DEF InputNext

(* A further line: its tokens follow the entries there are.                *)
LEMMA NextLinePlaced ==
  ASSUME ReadInv, NEW row \in Row, NextLine(row), Even'
  PROVE  EntriesPlaced'
<1> DEFINE rows == Len(typed)
           new == Tokens(row)
<1>1. /\ typed \in Seq(Row) /\ mtx \in Seq(Value) /\ rows \in Nat
      /\ nsize \in Nat /\ nsize' = nsize
      /\ typed' = Append(typed, row) /\ mtx' = mtx \o new
  BY SizeAssumption DEF ReadInv, InputTypeOK, NextLine, Value
<1>2. new \in Seq(Value)
  BY TokensType
<1>3. /\ Len(typed') = rows + 1 /\ typed'[rows + 1] = row
      /\ \A k \in 1 .. rows : typed'[k] = typed[k]
  BY <1>1
<1>4. Len(new) = nsize /\ Even
  BY <1>1, <1>3 DEF Even
<1>5. Len(mtx) = rows * nsize
  BY <1>4 DEF ReadInv, EntriesPlaced, pos
<1>6. Len(mtx') = (rows + 1) * nsize
  <2>1. Len(mtx') = Len(mtx) + Len(new)
    BY <1>1, <1>2
  <2>2. (rows + 1) * nsize = rows * nsize + nsize
    BY <1>1
  <2> QED
    BY <1>4, <1>5, <2>1, <2>2
<1>7. ASSUME NEW i \in 0 .. rows - 1, NEW j \in 0 .. nsize - 1
      PROVE  mtx'[i * nsize + j + 1] = Tokens(typed'[i + 1])[j + 1]
  <2>1. i * nsize + j + 1 \in 1 .. Len(mtx)
    <3>1. i \in Nat /\ j \in Nat /\ i < rows /\ j < nsize
      BY <1>1
    <3> QED
      BY <1>1, <1>5, <3>1, EntryBefore
  <2>2. mtx'[i * nsize + j + 1] = mtx[i * nsize + j + 1]
    BY <1>1, <1>2, <2>1
  <2>3. mtx[i * nsize + j + 1] = Tokens(typed[i + 1])[j + 1]
    BY <1>4 DEF ReadInv, EntriesPlaced, Entry
  <2> QED
    BY <1>1, <1>3, <2>2, <2>3
<1>8. ASSUME NEW j \in 0 .. nsize - 1
      PROVE  mtx'[rows * nsize + j + 1] = Tokens(typed'[rows + 1])[j + 1]
  BY <1>1, <1>2, <1>3, <1>4, <1>5
<1>9. ASSUME NEW i \in 0 .. Len(typed') - 1, NEW j \in 0 .. nsize' - 1
      PROVE  mtx'[i * nsize' + j + 1] = Tokens(typed'[i + 1])[j + 1]
  <2>1. i = rows \/ i \in 0 .. rows - 1
    BY <1>1, <1>3
  <2> QED
    BY <1>1, <1>7, <1>8, <2>1
<1>10. Len(mtx') = Len(typed') * nsize'
  BY <1>1, <1>3, <1>6
<1> QED
  BY <1>9, <1>10 DEF EntriesPlaced, pos, Entry

LEMMA ReadStep == ReadInv /\ [InputNext]_inputVars => ReadInv'
<1> SUFFICES ASSUME ReadInv, [InputNext]_inputVars PROVE ReadInv'
  OBVIOUS
<1>1. InputTypeOK'
  BY ReadTypes
<1>2. ASSUME NEW row \in Row, FirstLine(row) PROVE ReadInv'
  <2>1. Tokens(row) \in Seq(Value) /\ mtx' = Tokens(row) /\ nsize' = Len(Tokens(row))
    BY <1>2, TokensType DEF FirstLine
  <2>2. typed' = <<row>> /\ Len(typed') = 1 /\ typed'[1] = row
    BY <1>2 DEF FirstLine
  <2>3. Len(mtx') = Len(typed') * nsize'
    BY <2>1, <2>2
  <2>4. ASSUME NEW i \in 0 .. Len(typed') - 1, NEW j \in 0 .. nsize' - 1
        PROVE  mtx'[i * nsize' + j + 1] = Tokens(typed'[i + 1])[j + 1]
    BY <2>1, <2>2
  <2>5. EntriesPlaced'
    BY <2>3, <2>4 DEF EntriesPlaced, pos, Entry
  <2>6. typed' # <<>> /\ nsize' = Len(Tokens(typed'[1]))
    BY <2>1, <2>2
  <2> QED
    BY <1>1, <2>5, <2>6 DEF ReadInv
<1>3. ASSUME NEW row \in Row, NextLine(row) PROVE ReadInv'
  <2>1. typed # <<>> /\ typed' # <<>> /\ typed'[1] = typed[1] /\ nsize' = nsize
    BY <1>3 DEF NextLine, ReadInv, InputTypeOK
  <2> QED
    BY <1>1, <1>3, <2>1, NextLinePlaced DEF ReadInv
<1>4. CASE EndOfMatrix
  BY <1>1, <1>4 DEF EndOfMatrix, ReadInv, Even, EntriesPlaced, pos, Entry
<1>5. CASE UNCHANGED inputVars
  BY <1>1, <1>5 DEF inputVars, ReadInv, Even, EntriesPlaced, pos, Entry
<1> QED
  BY <1>2, <1>3, <1>4, <1>5 DEF InputNext

LEMMA ReadInvariant == InputSpec => []ReadInv
<1>1. InputInit => ReadInv
  BY SizeAssumption DEF InputInit, ReadInv, InputTypeOK, Even, EntriesPlaced, pos
<1> QED
  BY <1>1, ReadStep, PTL DEF InputSpec

(* Type correctness of the reader, for any numbers and sizes.              *)
THEOREM InputTypeCorrect == InputSpec => []InputTypeOK
<1>1. ReadInv => InputTypeOK
  BY DEF ReadInv
<1> QED
  BY <1>1, ReadInvariant, PTL

(* process_matrix_input: a square matrix of any size is read as it was     *)
(* typed, or with one node more if a blank ends every line.                *)
THEOREM SquaresReadRight == InputSpec => []SquareReadRight
<1>1. ReadInv => SquareReadRight
  <2> SUFFICES ASSUME ReadInv, NEW blank \in BOOLEAN, phase = "done", Lined(blank)
               PROVE  LET size == Len(typed) IN
                      /\ nsize = (IF blank THEN size + 1 ELSE size) /\ pos = Entry(size, 0)
                      /\ \A i \in 0 .. size - 1 :
                           /\ \A j \in 0 .. size - 1 :
                                mtx[Entry(i, j) + 1] = typed[i + 1].nums[j + 1]
                           /\ blank => mtx[Entry(i, size) + 1] = 0
    BY DEF SquareReadRight
  <2> DEFINE size == Len(typed)
             width == IF blank THEN size + 1 ELSE size
  <2>1. typed \in Seq(Row) /\ size \in Nat \ {0} /\ nsize \in Nat
    BY SizeAssumption DEF ReadInv, InputTypeOK
  <2>2. \A k \in 1 .. size : typed[k] \in Row
    BY <2>1
  <2>3. \A k \in 1 .. size : Len(typed[k].nums) = size /\ typed[k].blank = blank
    BY DEF Lined
  <2>4. \A k \in 1 .. size : Len(Tokens(typed[k])) = width
    BY <2>2, <2>3, TokensType
  <2>5. nsize = width /\ Even
    BY <2>1, <2>4 DEF ReadInv, Even
  <2>6. EntriesPlaced
    BY <2>5 DEF ReadInv
  <2>7. Len(mtx) = Entry(size, 0)
    BY <2>1, <2>6 DEF EntriesPlaced, pos, Entry
  <2>8. ASSUME NEW i \in 0 .. size - 1
        PROVE  /\ \A j \in 0 .. size - 1 :
                    mtx[Entry(i, j) + 1] = typed[i + 1].nums[j + 1]
               /\ blank => mtx[Entry(i, size) + 1] = 0
    <3>1. typed[i + 1] \in Row /\ Len(typed[i + 1].nums) = size /\ typed[i + 1].blank = blank
      BY <2>1, <2>2, <2>3
    <3>2. \A j \in 0 .. width - 1 : mtx[Entry(i, j) + 1] = Tokens(typed[i + 1])[j + 1]
      BY <2>5, <2>6 DEF EntriesPlaced
    <3>3. \A j \in 0 .. size - 1 : Tokens(typed[i + 1])[j + 1] = typed[i + 1].nums[j + 1]
      BY <2>1, <3>1, TokensType
    <3>4. blank => Tokens(typed[i + 1])[size + 1] = 0
      BY <3>1, TokensType
    <3> QED
      BY <2>1, <3>2, <3>3, <3>4
  <2> QED
    BY <2>5, <2>7, <2>8 DEF pos
<1> QED
  BY <1>1, ReadInvariant, PTL

-----------------------------------------------------------------------------
(* printed[1 .. m] holds the first m lines of the sorted output.           *)
Placed(m) ==
  /\ \A a \in 1 .. m : printed[a] \in Index
  /\ \A a \in 1 .. m, i \in Index :
       (\E b \in 1 .. a : printed[b] = i) \/ Before(printed[a], i)
  /\ \A a, b \in 1 .. m : a < b => Before(printed[a], printed[b])

Copied(m) == Len(out) = m /\ \A a \in 1 .. m : out[a] = printed[a]

SortInv ==
  /\ TypeOK
  /\ pc = "read" => count = 0
  /\ pc \in {"read", "select"} =>
       /\ out = <<>>
       /\ \A z \in 0 .. numlines : z >= count => printed[z] = 0
  /\ pc = "select" /\ Ordinary => Placed(count - 1)
  /\ pc \in {"print", "done"} =>
       /\ Ordinary => Placed(numlines)
       /\ count <= numlines /\ Copied(count)
  /\ pc = "done" => count = numlines

(* The lines read and the indices of the distance array.                   *)
LEMMA NumlinesType ==
  ASSUME distance \in Seq(Distances)
  PROVE  /\ numlines \in Nat /\ DOMAIN distance = Index
         /\ \A i \in Index : /\ distance[i] \in Distances /\ distance[i] \in Int
                             /\ distance[i] <= IntMax /\ distance[i] >= IntMin
<1>1. numlines \in Nat /\ DOMAIN distance = Index
  BY LenProperties DEF numlines, Index
<1>2. \A i \in Index : distance[i] \in Distances
  BY <1>1, ElementOfSeq DEF numlines, Index
<1>3. \A d \in Distances : d \in Int /\ d <= IntMax /\ d >= IntMin
  BY DistancesAssumption, BoundsAssumption
<1> QED
  BY <1>1, <1>2, <1>3

(* A set of numbers that are not negative has a least one.                 *)
LEMMA Least ==
  ASSUME NEW F \in SUBSET Nat, F # {}
  PROVE  \E k \in F : \A n \in F : k <= n
<1> DEFINE R == {ss \in Nat \X Nat : ss[1] < ss[2]}
<1>1. IsWellFoundedOn(R, Nat)
  BY NatLessThanWellFounded, Zenon DEF OpToRel
<1>2. PICK k \in F : \A n \in F : <<n, k>> \notin R
  <2> HIDE DEF R
  <2> QED
    BY <1>1, WFMin
<1>3. ASSUME NEW n \in F PROVE k <= n
  <2>1. ~(n < k)
    BY <1>2
  <2> QED
    BY <2>1
<1> QED
  BY <1>3

(* The inner loop finds the line that comes before all others left.        *)
LEMMA SmallestIsFirst ==
  ASSUME distance \in Seq(Distances), Candidates # {}
  PROVE  /\ Smallest \in Candidates
         /\ \A k \in Candidates \ {Smallest} : Before(Smallest, k)
<1>1. Candidates \subseteq Index /\ Index \subseteq Nat
  BY NumlinesType DEF Candidates, Index
<1> DEFINE D == {distance[i] - IntMin : i \in Candidates}
<1>2. D \in SUBSET Nat /\ D # {}
  <2>1. \A i \in Candidates : distance[i] \in Int /\ distance[i] >= IntMin
    BY <1>1, NumlinesType
  <2>2. \A i \in Candidates : distance[i] - IntMin \in Nat
    BY <2>1, BoundsAssumption
  <2> QED
    BY <2>2
<1>3. PICK d \in D : \A e \in D : d <= e
  BY <1>2, Least
<1> DEFINE E == {i \in Candidates : distance[i] - IntMin = d}
<1>4. E \in SUBSET Nat /\ E # {}
  BY <1>1, <1>3
<1>5. PICK k \in E : \A n \in E : k <= n
  BY <1>4, Least
<1>6. ASSUME NEW n \in Candidates \ {k} PROVE Before(k, n)
  <2>1. k \in Candidates /\ distance[k] - IntMin = d /\ k \in Nat /\ n \in Nat
    BY <1>1, <1>4
  <2>2. distance[k] \in Int /\ distance[n] \in Int
    BY <1>1, <2>1, NumlinesType
  <2>3. distance[k] - IntMin <= distance[n] - IntMin
    BY <1>3, <2>1
  <2>4. distance[k] <= distance[n]
    BY <2>2, <2>3, BoundsAssumption
  <2>5. CASE distance[n] = distance[k]
    <3>1. n \in E
      BY <2>1, <2>5
    <3>2. k <= n /\ k # n
      BY <1>5, <3>1
    <3> QED
      BY <2>1, <2>5, <3>2 DEF Before
  <2> QED
    BY <2>2, <2>4, <2>5 DEF Before
<1>7. k \in Candidates
  OBVIOUS
<1> HIDE DEF D, E
<1> QED
  BY <1>6, <1>7 DEF Smallest

(* After c - 1 of n rounds some line is left, and it is one of those that  *)
(* alreadyprinted does not see.                                            *)
LEMMA SomethingLeft ==
  ASSUME SortInv, pc = "select", Ordinary, count \in 1 .. numlines
  PROVE  /\ Candidates = {i \in Index : \A z \in 1 .. count - 1 : printed[z] # i}
         /\ Candidates # {}
<1>1. /\ numlines \in Nat /\ count \in Nat /\ distance \in Seq(Distances)
      /\ \A z \in 0 .. numlines : z >= count => printed[z] = 0
      /\ Placed(count - 1)
  BY NumlinesType DEF SortInv, TypeOK
<1>2. Candidates = {i \in Index : \A z \in 1 .. count - 1 : printed[z] # i}
  <2>1. ASSUME NEW i \in Index
        PROVE  alreadyprinted(i) <=> \E z \in 1 .. count - 1 : printed[z] = i
    BY <1>1 DEF alreadyprinted, Index
  <2> QED
    BY <2>1 DEF Candidates, Ordinary
<1>3. Candidates # {}
  <2>1. SUFFICES ASSUME Candidates = {} PROVE FALSE
    OBVIOUS
  <2> DEFINE at == [i \in Index |-> CHOOSE z \in 1 .. count - 1 : printed[z] = i]
  <2>2. \A i \in Index : at[i] \in 1 .. count - 1 /\ printed[at[i]] = i
    BY <1>2, <2>1
  <2>3. at \in [Index -> 1 .. count - 1]
    BY <2>2
  <2>4. /\ IsFiniteSet(Index) /\ Cardinality(Index) = numlines
        /\ IsFiniteSet(1 .. count - 1) /\ Cardinality(1 .. count - 1) = count - 1
    <3>1. count - 1 \in Nat
      BY <1>1
    <3> HIDE DEF at
    <3>2. ASSUME NEW n \in Nat
          PROVE  IsFiniteSet(1 .. n) /\ Cardinality(1 .. n) = n
      BY FS_Interval
    <3> QED
      BY <1>1, <3>1, <3>2 DEF Index
  <2>5. Cardinality(1 .. count - 1) < Cardinality(Index)
    BY <1>1, <2>4
  <2> HIDE DEF at
  <2>6. PICK i, k \in Index : i # k /\ at[i] = at[k]
    BY <2>3, <2>4, <2>5, FS_PigeonHole
  <2> QED
    BY <2>2, <2>6
<1> QED
  BY <1>2, <1>3

(* A round of the selection places one more line.                          *)
LEMMA SelectPlaces ==
  ASSUME SortInv, Select, Ordinary
  PROVE  Placed(count - 1)'
<1>1. /\ pc = "select" /\ count \in Nat /\ count < numlines + 1 /\ numlines \in Nat
      /\ printed' = [printed EXCEPT ![count] = Smallest] /\ count' = count + 1
      /\ distance' = distance /\ DOMAIN printed = 0 .. numlines
      /\ distance \in Seq(Distances) /\ Placed(count - 1)
  BY NumlinesType DEF SortInv, TypeOK, Select
<1>2. Index' = Index /\ \A i, k : Before(i, k)' <=> Before(i, k)
  BY <1>1 DEF Index, numlines, Before
<1>3. CASE count = 0
  BY <1>1, <1>3 DEF Placed
<1>4. CASE count > 0
  <2>1. count \in 1 .. numlines
    BY <1>1, <1>4
  <2>2. /\ Candidates = {i \in Index : \A z \in 1 .. count - 1 : printed[z] # i}
        /\ Smallest \in Candidates
        /\ \A k \in Candidates \ {Smallest} : Before(Smallest, k)
    BY <1>1, <2>1, SomethingLeft, SmallestIsFirst
  <2>3. /\ printed'[count] = Smallest
        /\ \A a \in 1 .. count - 1 : printed'[a] = printed[a]
    BY <1>1, <2>1
  <2> DEFINE m == count
  <2>4. \A a \in 1 .. m : printed'[a] \in Index
    BY <1>1, <2>1, <2>2, <2>3 DEF Placed
  <2>5. ASSUME NEW a \in 1 .. m, NEW i \in Index
        PROVE  (\E b \in 1 .. a : printed'[b] = i) \/ Before(printed'[a], i)
    <3>1. CASE a < count
      <4>1. \A b \in 1 .. a : b \in 1 .. count - 1
        BY <1>1, <3>1
      <4> QED
        BY <1>1, <2>3, <3>1, <4>1 DEF Placed
    <3>2. CASE a = count
      <4>1. CASE i = Smallest
        BY <2>1, <2>3, <3>2, <4>1
      <4>2. CASE i \in Candidates \ {Smallest}
        BY <2>2, <2>3, <3>2, <4>2
      <4>3. CASE i \notin Candidates
        <5>1. PICK z \in 1 .. count - 1 : printed[z] = i
          BY <2>2, <4>3
        <5> QED
          BY <1>1, <2>3, <3>2, <5>1
      <4> QED
        BY <4>1, <4>2, <4>3
    <3> QED
      BY <1>1, <3>1, <3>2
  <2>6. ASSUME NEW a \in 1 .. m, NEW b \in 1 .. m, a < b
        PROVE  Before(printed'[a], printed'[b])
    <3>1. a \in 1 .. count - 1
      BY <1>1, <2>6
    <3>2. CASE b < count
      BY <1>1, <2>3, <2>6, <3>1, <3>2 DEF Placed
    <3>3. CASE b = count
      <4>1. \A z \in 1 .. a : printed[z] # Smallest
        BY <1>1, <2>2, <3>1
      <4> QED
        BY <1>1, <2>2, <2>3, <3>1, <3>3, <4>1 DEF Placed, Candidates
    <3> QED
      BY <1>1, <3>2, <3>3
  <2>7. count' - 1 = m
    BY <1>1
  <2> HIDE DEF m
  <2> QED
    BY <1>2, <2>4, <2>5, <2>6, <2>7 DEF Placed
<1> QED
  BY <1>1, <1>3, <1>4

LEMMA SortStep == SortInv /\ [Next]_vars => SortInv'
<1> SUFFICES ASSUME SortInv, [Next]_vars PROVE SortInv'
  OBVIOUS
<1>t. /\ TypeOK /\ distance \in Seq(Distances) /\ numlines \in Nat
      /\ DOMAIN distance = Index /\ \A i \in Index : distance[i] \in Distances
  BY NumlinesType DEF SortInv, TypeOK
<1>1. ASSUME NEW d \in Distances, ReadLine(d) PROVE SortInv'
  <2>1. /\ distance' \in Seq(Distances) /\ numlines' = numlines + 1
    BY <1>1, <1>t, AppendProperties DEF ReadLine, numlines
  <2> QED
    BY <1>1, <1>t, <2>1, BoundsAssumption
       DEF ReadLine, SortInv, TypeOK, Index
<1>2. CASE EndOfInput
  BY <1>2, <1>t DEF EndOfInput, SortInv, TypeOK, Placed, numlines, Index, Ordinary,
                    Before
<1>3. CASE Select
  <2>1. Smallest \in {-1, 0} \cup Index
    <3>1. Candidates # {} => Smallest \in Index
      BY <1>t, SmallestIsFirst DEF Candidates
    <3> QED
      BY <3>1 DEF Smallest
  <2>2. Ordinary' <=> Ordinary
    BY <1>3 DEF Select, Ordinary, Index, numlines
  <2>3. Ordinary => Placed(count - 1)'
    BY <1>3, SelectPlaces
  <2>4. (pc = "select" /\ Ordinary => Placed(count - 1))'
    BY <1>3, <2>2, <2>3 DEF Select
  <2>5. TypeOK'
    BY <1>3, <1>t, <2>1 DEF Select, TypeOK, numlines, Index
  <2>6. /\ pc' = "select" /\ out' = <<>>
        /\ \A z \in 0 .. numlines' : z >= count' => printed'[z] = 0
    BY <1>3, <1>t DEF Select, SortInv, TypeOK, numlines
  <2> QED
    BY <2>4, <2>5, <2>6 DEF SortInv
<1>4. CASE EndSelect
  <2>1. Ordinary => Placed(numlines)
    BY <1>4, <1>t DEF EndSelect, SortInv
  <2>2. Ordinary' => Placed(numlines)'
    BY <1>4, <2>1 DEF EndSelect, Ordinary, Placed, Index, numlines, Before
  <2>3. Copied(0)'
    BY <1>4, EmptySeq DEF EndSelect, SortInv, Copied
  <2> QED
    BY <1>4, <1>t, <2>2, <2>3 DEF EndSelect, SortInv, TypeOK, numlines, Index
<1>5. CASE PrintLine
  <2>1. /\ pc = "print" /\ count \in Nat /\ count < numlines
        /\ out \in Seq({-1, 0} \cup Index) /\ Copied(count)
        /\ printed[count + 1] \in {-1, 0} \cup Index
        /\ out' = Append(out, printed[count + 1]) /\ count' = count + 1
        /\ UNCHANGED <<pc, distance, printed>>
    BY <1>5, <1>t DEF PrintLine, SortInv, TypeOK
  <2>2. /\ out' \in Seq({-1, 0} \cup Index) /\ Len(out') = count + 1
        /\ \A a \in 1 .. count : out'[a] = out[a]
        /\ out'[count + 1] = printed[count + 1]
    BY <2>1, AppendProperties DEF Copied
  <2>3. Copied(count)'
    BY <2>1, <2>2 DEF Copied
  <2>4. Ordinary' => Placed(numlines)'
    BY <2>1 DEF SortInv, Ordinary, Placed, Index, numlines, Before
  <2> QED
    BY <1>t, <2>1, <2>2, <2>3, <2>4 DEF SortInv, TypeOK, numlines, Index
<1>6. CASE EndPrint
  <2>1. Ordinary' => Placed(numlines)'
    BY <1>6 DEF EndPrint, SortInv, Ordinary, Placed, Index, numlines, Before
  <2>2. Copied(count)'
    BY <1>6 DEF EndPrint, SortInv, Copied
  <2> QED
    BY <1>6, <1>t, <2>1, <2>2 DEF EndPrint, SortInv, TypeOK, numlines, Index
<1>7. CASE UNCHANGED vars
  BY <1>7 DEF vars, SortInv, TypeOK, Placed, Copied, numlines, Index, Ordinary, Before
<1> QED
  BY <1>1, <1>2, <1>3, <1>4, <1>5, <1>6, <1>7 DEF Next

LEMMA SortInit == Init => SortInv
<1> SUFFICES ASSUME Init PROVE SortInv
  OBVIOUS
<1>1. distance = <<>> /\ numlines = 0 /\ Index = {}
  BY EmptySeq DEF Init, numlines, Index
<1> QED
  BY <1>1, BoundsAssumption DEF Init, SortInv, TypeOK

(* The types of tspsort's arrays and of what it writes.                    *)
THEOREM TypeCorrect == Spec => []TypeOK
<1>1. SortInv => TypeOK
  BY DEF SortInv
<1> QED
  BY <1>1, SortInit, SortStep, PTL DEF Spec

(* tspsort.c:55-70: whatever was read, as long as no distance is INT_MAX,  *)
(* the output is the input in the order of a stable sort by distance.      *)
THEOREM SortsStably == Spec => []SortedOutput
<1>1. SortInv => SortedOutput
  <2> SUFFICES ASSUME SortInv, pc = "done", Ordinary
               PROVE  /\ Len(out) = numlines
                      /\ \A a \in DOMAIN out : out[a] \in Index
                      /\ \A a, b \in DOMAIN out : a < b => Before(out[a], out[b])
    BY DEF SortedOutput
  <2>1. /\ numlines \in Nat /\ Len(out) = numlines /\ Placed(numlines)
        /\ \A a \in 1 .. numlines : out[a] = printed[a]
    BY NumlinesType DEF SortInv, TypeOK, Copied
  <2>2. DOMAIN out = 1 .. numlines
    BY <2>1, LenProperties DEF SortInv, TypeOK
  <2> QED
    BY <2>1, <2>2 DEF Placed
<1> QED
  BY <1>1, SortInit, SortStep, PTL DEF Spec
=============================================================================
