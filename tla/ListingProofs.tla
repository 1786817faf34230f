--------------------------- MODULE ListingProofs ----------------------------
(***************************************************************************)
(* Proofs about Listing, for a table of any size, any page and any writers *)
(* between two pages: an export that ends well is complete, what it lists  *)
(* can be got, a count is the length of its list, and a panel keeps its    *)
(* selection.                                                              *)
(***************************************************************************)
EXTENDS Listing, FiniteSetTheorems, TLAPS

-----------------------------------------------------------------------------
(* Sets in order                                                             *)

Below(S, i) == {j \in S : j <= i}
Rank(S, i) == Cardinality(Below(S, i))

(* A rank is a place, and no two elements have the same.                     *)
LEMMA Ranks ==
    ASSUME NEW S \in SUBSET Nat, IsFiniteSet(S)
    PROVE  /\ Cardinality(S) \in Nat
           /\ \A i \in S : Rank(S, i) \in 1..Cardinality(S)
           /\ \A i, j \in S : Rank(S, i) = Rank(S, j) => i = j
           /\ \A i, j \in S : i < j => Rank(S, i) < Rank(S, j)
<1>1. Cardinality(S) \in Nat
  BY FS_CardinalityType
<1>2. ASSUME NEW i \in S
      PROVE  IsFiniteSet(Below(S, i)) /\ Rank(S, i) \in 1..Cardinality(S)
  <2>1. Below(S, i) \subseteq S /\ i \in Below(S, i)
    BY DEF Below
  <2>2. /\ IsFiniteSet(Below(S, i)) /\ Rank(S, i) \in Nat
        /\ Rank(S, i) <= Cardinality(S)
    BY <2>1, FS_Subset, FS_CardinalityType DEF Rank
  <2>3. Rank(S, i) # 0
    BY <2>1, <2>2, FS_EmptySet DEF Rank
  <2> QED
    BY <1>1, <2>2, <2>3
<1>3. ASSUME NEW i \in S, NEW j \in S, i < j
      PROVE  Rank(S, i) < Rank(S, j)
  <2>1. i \in Nat /\ j \in Nat /\ \A k \in S : k \in Nat
    OBVIOUS
  <2>2. Below(S, i) \subseteq Below(S, j)
    <3> SUFFICES ASSUME NEW k \in S, k <= i PROVE k <= j
      BY DEF Below
    <3> QED
      BY <1>3, <2>1
  <2>3. j \in Below(S, j) /\ j \notin Below(S, i)
    <3>1. j \in Below(S, j)
      BY <2>1 DEF Below
    <3>2. j \notin Below(S, i)
      BY <1>3, <2>1 DEF Below
    <3> QED
      BY <3>1, <3>2
  <2>4. Below(S, i) # Below(S, j)
    BY <2>3
  <2> QED
    BY <1>2, <2>2, <2>4, FS_Subset DEF Rank
<1>4. ASSUME NEW i \in S, NEW j \in S, Rank(S, i) = Rank(S, j)
      PROVE  i = j
  <2>1. ~(i < j) /\ ~(j < i)
    BY <1>2, <1>3, <1>4
  <2> QED
    BY <2>1
<1> QED
  BY <1>1, <1>2, <1>3, <1>4

(* In order, every place is taken by the element of that rank.               *)
LEMMA Places ==
    ASSUME NEW S \in SUBSET Nat, IsFiniteSet(S)
    PROVE  /\ DOMAIN InOrder(S) = 1..Cardinality(S) /\ Len(InOrder(S)) = Cardinality(S)
           /\ InOrder(S) \in Seq(S) /\ InOrder(S) \in Seq(Nat)
           /\ \A n \in 1..Cardinality(S) : InOrder(S)[n] \in S /\ Rank(S, InOrder(S)[n]) = n
           /\ \A i \in S : InOrder(S)[Rank(S, i)] = i
<1> DEFINE c == Cardinality(S)
           f == [i \in S |-> Rank(S, i)]
<1>1. c \in Nat
  BY Ranks
<1>2. f \in Injection(S, 1..c)
  BY Ranks DEF Injection, IsInjective
<1>3. IsFiniteSet(1..c) /\ Cardinality(1..c) = c
  BY <1>1, FS_Interval
<1>4. f \in Surjection(S, 1..c)
  BY <1>2, <1>3, FS_Injection
<1>5. ASSUME NEW n \in 1..c
      PROVE  InOrder(S)[n] \in S /\ Rank(S, InOrder(S)[n]) = n
  <2>1. \E i \in S : Rank(S, i) = n
    BY <1>4 DEF Surjection
  <2>2. InOrder(S)[n] = CHOOSE i \in S : Rank(S, i) = n
    BY DEF InOrder, Rank, Below
  <2> QED
    BY <2>1, <2>2
<1>6. ASSUME NEW i \in S PROVE InOrder(S)[Rank(S, i)] = i
  <2>1. PICK n \in 1..c : n = Rank(S, i)
    BY Ranks
  <2>2. PICK k \in S : k = InOrder(S)[n] /\ Rank(S, k) = n
    BY <1>5
  <2>3. k = i
    BY <2>1, <2>2, Ranks
  <2> QED
    BY <2>1, <2>2, <2>3
<1>7. InOrder(S) \in [1..c -> S]
  <2>1. ASSUME NEW n \in 1..c
        PROVE  (CHOOSE i \in S : Cardinality({j \in S : j <= i}) = n) \in S
    BY <1>5 DEF InOrder
  <2> QED
    BY <2>1 DEF InOrder
<1> HIDE DEF c
<1>8. InOrder(S) \in Seq(S) /\ Len(InOrder(S)) = c /\ DOMAIN InOrder(S) = 1..c
  BY <1>1, <1>7
<1>9. InOrder(S) \in Seq(Nat)
  <2>1. InOrder(S) \in [1..c -> Nat]
    BY <1>7
  <2> QED
    BY <1>1, <2>1
<1> QED
  BY <1>5, <1>6, <1>8, <1>9 DEF c

(* What is added behind a set moves nothing of it.                           *)
LEMMA PlacesStay ==
    ASSUME NEW S \in SUBSET Nat, NEW T \in SUBSET Nat, IsFiniteSet(T), S \subseteq T,
           \A i \in S, j \in T \ S : i < j
    PROVE  /\ IsFiniteSet(S) /\ Cardinality(S) <= Cardinality(T)
           /\ Cardinality(S) \in Nat /\ Cardinality(T) \in Nat
           /\ \A n \in 1..Cardinality(S) : InOrder(T)[n] = InOrder(S)[n]
<1>1. IsFiniteSet(S) /\ Cardinality(S) <= Cardinality(T)
  BY FS_Subset
<1>2. Cardinality(S) \in Nat /\ Cardinality(T) \in Nat
  BY <1>1, FS_CardinalityType
<1>3. ASSUME NEW n \in 1..Cardinality(S) PROVE InOrder(T)[n] = InOrder(S)[n]
  <2>1. PICK i \in S : i = InOrder(S)[n] /\ Rank(S, i) = n
    BY <1>1, Places
  <2>2. Below(T, i) = Below(S, i)
    <3> SUFFICES ASSUME NEW j \in T, j <= i PROVE j \in S
      BY DEF Below
    <3>1. j \in Nat /\ i \in Nat
      OBVIOUS
    <3> QED
      BY <3>1
  <2>3. Rank(T, i) = n
    BY <2>1, <2>2 DEF Rank
  <2>4. InOrder(T)[Rank(T, i)] = i
    BY Places
  <2> QED
    BY <2>1, <2>3, <2>4
<1> QED
  BY <1>1, <1>2, <1>3

(* A piece of a sequence: k elements behind the first b, or what there is.  *)
Piece(s, b, k) == SubSeq(s, b + 1, IF Len(s) < b + k THEN Len(s) ELSE b + k)

LEMMA PieceIs ==
    ASSUME NEW s \in Seq(Nat), NEW b \in Nat, NEW k \in Nat
    PROVE  /\ Piece(s, b, k) \in Seq(Nat) /\ Len(Piece(s, b, k)) \in Nat
           /\ \A m \in 1..Len(Piece(s, b, k)) :
                 b + m \in 1..Len(s) /\ Piece(s, b, k)[m] = s[b + m]
           /\ Len(Piece(s, b, k)) <= k
           /\ Len(Piece(s, b, k)) = k \/ b + Len(Piece(s, b, k)) >= Len(s)
<1>1. PICK d \in Nat, e \in Nat :
         d = b + 1 /\ e = IF Len(s) < b + k THEN Len(s) ELSE b + k
  OBVIOUS
<1>2. PICK p : p = SubSeq(s, d, e) /\ p = Piece(s, b, k)
  BY <1>1 DEF Piece
<1>3. Len(s) \in Nat /\ e <= Len(s) /\ e <= b + k
  BY <1>1
<1>4. CASE d <= e
  <2>1. d \in 1..Len(s) /\ e \in d..Len(s)
    BY <1>1, <1>3, <1>4
  <2>2. SubSeq(s, d, e) \in Seq(Nat) /\ Len(SubSeq(s, d, e)) = e - d + 1
    BY <2>1
  <2>3. PICK n \in Nat : n = e - b /\ n = Len(p)
    <3>1. Len(p) = e - d + 1
      BY <1>2, <2>2
    <3>2. e - d + 1 = e - b /\ e - b \in Nat
      BY <1>1, <1>4
    <3> QED
      BY <3>1, <3>2
  <2>4. ASSUME NEW m \in 1..n PROVE b + m \in 1..Len(s) /\ p[m] = s[b + m]
    <3>1. p[m] = s[d + m - 1]
      BY <1>1, <1>2, <2>1, <2>3
    <3>2. d + m - 1 = b + m /\ b + m \in 1..Len(s)
      BY <1>1, <1>3, <2>3
    <3> QED
      BY <3>1, <3>2
  <2>5. n <= k /\ (n = k \/ b + n >= Len(s))
    BY <1>1, <1>3, <1>4, <2>3
  <2> QED
    BY <1>2, <2>2, <2>3, <2>4, <2>5
<1>5. CASE ~(d <= e)
  <2>1. p = <<>>
    BY <1>1, <1>2, <1>3, <1>5
  <2>2. k = 0 \/ b >= Len(s)
    BY <1>1, <1>3, <1>5
  <2> QED
    BY <1>2, <1>3, <2>1, <2>2
<1> QED
  BY <1>4, <1>5

-----------------------------------------------------------------------------
(* What the nine listers, counters and getters have in common                *)

(* The rows that arguments mean.                                             *)
WithDeleted(a) == a.trash \/ entity \in {"log", "skill_revision"}
Means(a, i) == /\ WithDeleted(a) \/ Live(i)
               /\ Everything(a) \/ table[i].group = a.group
Meant(a) == {i \in Ids : Means(a, i)}

LEMMA ListedIsMeant ==
    ASSUME entity \in Entity, NEW a \in Args, Given(a)
    PROVE  Listed(a) = Meant(a) /\ Counted(a) = Meant(a)
<1>1. \A g \in Group : g # Zero /\ g # Absent
  BY ListingAssumption
<1>2. ASSUME NEW i
      PROVE  (i \in Listed(a) <=> i \in Meant(a)) /\ (i \in Counted(a) <=> i \in Meant(a))
  <2> USE DEF Given, Meant, Means, WithDeleted, Everything, Query, In, Has, HasTrash, Live,
              Listed, Counted, Trees, Revisions
  <2>1. CASE entity = "model"
    BY <2>1 DEF ModelList, ModelRows, ModelCount, ModelCounted
  <2>2. CASE entity = "skill"
    BY <2>2 DEF SkillList, SkillRows, SkillCount, SkillCounted, SkillFolderOf
  <2>3. CASE entity = "model_folder"
    BY <2>3 DEF ModelFolderList, ModelFolderRows, ModelFolderCount, ModelFolderCounted
  <2>4. CASE entity = "skill_folder"
    BY <2>4 DEF SkillFolderList, SkillFolderRows, SkillFolderCount, SkillFolderCounted
  <2>5. CASE entity = "context"
    BY <2>5 DEF ContextList, ContextRows, ContextCount, ContextCounted
  <2>6. CASE entity = "exec"
    BY <2>6 DEF ExecList, ExecRows, ExecCount, ExecCounted
  <2>7. CASE entity = "log"
    BY <1>1, <2>7 DEF LogList, LogRows, LogCount, LogCounted
  <2>8. CASE entity = "model_revision"
    BY <1>1, <2>8 DEF ModelRevisionList, ModelRevisionRows, ModelRevisionCount,
                      ModelRevisionCounted
  <2>9. CASE entity = "skill_revision"
    BY <1>1, <2>9 DEF SkillRevisionList, SkillRevisionRows, SkillRevisionCount,
                      SkillRevisionCounted
  <2> QED
    BY <2>1, <2>2, <2>3, <2>4, <2>5, <2>6, <2>7, <2>8, <2>9 DEF Entity
<1>3. \A i : i \in Listed(a) => i \in Meant(a)
  BY <1>2
<1>4. \A i : i \in Counted(a) <=> i \in Meant(a)
  BY <1>2
<1>5. \A i : i \in Listed(a) <=> i \in Meant(a)
  BY <1>2
<1> QED
  BY <1>4, <1>5

-----------------------------------------------------------------------------
(* Types                                                                     *)

Row == [dead : BOOLEAN, group : Group \cup {Zero}]
Idles == [at : {"idle"}]
Readers == [at : {"paging", "done", "failed"}, args : Args, out : Seq(Nat), cut : BOOLEAN,
            once : BOOLEAN]
Counters == [at : {"counted"}, args : Args, n : Int]
Panels == [at : {"panel", "asking", "reload"}, shown : SUBSET Nat, sel : Nat, trash : BOOLEAN]

ListTypes ==
    /\ entity \in Entity
    /\ table \in Seq(Row) /\ Len(table) <= MaxRow
    /\ born \in Nat /\ born <= Len(table)
    /\ client \in Idles \cup Readers \cup Counters \cup Panels
    /\ client \in Readers \cup Counters => Given(client.args)
    /\ client \in Panels => entity \in {"model", "skill", "context", "exec"}

Ordinary == \/ Insert \/ \E i \in Ids : Trash(i)
            \/ \E i \in Ids, g \in Group \cup {Zero} : Regroup(i, g)

(* Others only add rows, behind; and change no row that arguments whose rows
   keep their places could lose or gain by it.                               *)
LEMMA Writes ==
    ASSUME ListTypes, Ordinary
    PROVE  /\ UNCHANGED <<entity, client, born>> /\ quiet' = FALSE
           /\ table' \in Seq(Row) /\ Len(table) <= Len(table') /\ Len(table') <= MaxRow
           /\ \A a \in Args : Given(a) /\ Fixed(a)
                 => \A i \in Ids : (Means(a, i))' <=> Means(a, i)
<1>1. /\ Len(table) \in Nat /\ Ids = 1..Len(table) /\ table \in Seq(Row)
      /\ \A i \in Ids : table[i] \in Row
  BY DEF ListTypes, Ids
<1>2. CASE Insert
  <2>1. PICK r \in RowOf(entity) : Written(Append(table, r)) /\ Len(table) < MaxRow
    BY <1>2 DEF Insert
  <2>2. r \in Row
    BY DEF RowOf, GroupsOf, Row
  <2>3. /\ table' \in Seq(Row) /\ Len(table') = Len(table) + 1
        /\ \A i \in Ids : table'[i] = table[i]
    BY <1>1, <2>1, <2>2 DEF Written
  <2>4. \A a \in Args : \A i \in Ids : (Means(a, i))' <=> Means(a, i)
    BY <2>1, <2>3 DEF Written, Means, WithDeleted, Live, Everything
  <2>5. Len(table) <= Len(table') /\ Len(table') <= MaxRow
    BY <1>1, <2>1, <2>3, ListingAssumption
  <2> QED
    BY <2>1, <2>3, <2>4, <2>5 DEF Written
<1>3. ASSUME NEW k \in Ids, Trash(k)
      PROVE  /\ UNCHANGED <<entity, client, born>> /\ quiet' = FALSE
             /\ table' \in Seq(Row) /\ Len(table') = Len(table)
             /\ \A a \in Args : Given(a) /\ Fixed(a)
                   => \A i \in Ids : (Means(a, i))' <=> Means(a, i)
  <2>1. PICK r \in Row : r = [table[k] EXCEPT !.dead = ~@]
    BY <1>1 DEF Row
  <2>2. /\ table' = [table EXCEPT ![k] = r] /\ UNCHANGED <<entity, client, born>>
        /\ quiet' = FALSE /\ entity \notin Revisions \cup {"log"}
    BY <1>3, <2>1 DEF Trash, Written
  <2>3. /\ table' \in Seq(Row) /\ Len(table') = Len(table)
        /\ \A i \in Ids : table'[i] = IF i = k THEN r ELSE table[i]
    BY <1>1, <2>2
  <2>4. \A i \in Ids : table'[i].group = table[i].group
    BY <1>1, <2>1, <2>3 DEF Row
  <2>5. ASSUME NEW a \in Args, Fixed(a), NEW i \in Ids
        PROVE  (Means(a, i))' <=> Means(a, i)
    <3>1. WithDeleted(a) /\ (WithDeleted(a))'
      BY <2>2, <2>5 DEF Fixed, WithDeleted
    <3> QED
      BY <2>2, <2>4, <3>1 DEF Means, Everything
  <2> QED
    BY <2>2, <2>3, <2>5
<1>4. ASSUME NEW k \in Ids, NEW g \in Group \cup {Zero}, Regroup(k, g)
      PROVE  /\ UNCHANGED <<entity, client, born>> /\ quiet' = FALSE
             /\ table' \in Seq(Row) /\ Len(table') = Len(table)
             /\ \A a \in Args : Given(a) /\ Fixed(a)
                   => \A i \in Ids : (Means(a, i))' <=> Means(a, i)
  <2>1. PICK r \in Row : r = [table[k] EXCEPT !.group = g]
    BY <1>1 DEF Row
  <2>2. /\ table' = [table EXCEPT ![k] = r] /\ UNCHANGED <<entity, client, born>>
        /\ quiet' = FALSE /\ entity \in Trees \cup {"exec"}
    BY <1>4, <2>1 DEF Regroup, Written
  <2>3. /\ table' \in Seq(Row) /\ Len(table') = Len(table)
        /\ \A i \in Ids : table'[i] = IF i = k THEN r ELSE table[i]
    BY <1>1, <2>2
  <2>4. \A i \in Ids : table'[i].dead = table[i].dead
    BY <1>1, <2>1, <2>3 DEF Row
  <2>5. ASSUME NEW a \in Args, Fixed(a), NEW i \in Ids
        PROVE  (Means(a, i))' <=> Means(a, i)
    <3>1. Everything(a) /\ (Everything(a))'
      BY <2>2, <2>5 DEF Fixed, Everything, Trees, Revisions
    <3> QED
      BY <2>2, <2>4, <3>1 DEF Means, WithDeleted, Live
  <2> QED
    BY <2>2, <2>3, <2>5
<1>5. Len(table) <= MaxRow
  BY DEF ListTypes
<1>6. CASE \E i \in Ids : Trash(i)
  <2>1. Len(table') = Len(table) => Len(table) <= Len(table') /\ Len(table') <= MaxRow
    BY <1>1, <1>5
  <2>2. PICK k \in Ids : Trash(k)
    BY <1>6
  <2> QED
    BY <2>1, <2>2, <1>3
<1>7. CASE \E i \in Ids, g \in Group \cup {Zero} : Regroup(i, g)
  <2>1. Len(table') = Len(table) => Len(table) <= Len(table') /\ Len(table') <= MaxRow
    BY <1>1, <1>5
  <2>2. PICK k \in Ids, g \in Group \cup {Zero} : Regroup(k, g)
    BY <1>7
  <2> QED
    BY <2>1, <2>2, <1>4
<1> QED
  BY <1>2, <1>6, <1>7 DEF Ordinary

(* The page a reader gets: the rows that follow those it has, as they are
   now, and fewer than it asked for only if there are no more.               *)
LEMMA PageIs ==
    ASSUME ListTypes, client \in Readers, NEW a \in Args, a = client.args, Given(a),
           a.limit > 0 => Asked(client) > 0
    PROVE  /\ Meant(a) \in SUBSET Nat /\ IsFiniteSet(Meant(a)) /\ Cardinality(Meant(a)) \in Nat
           /\ Cardinality(Meant(a)) <= Len(table)
           /\ Asked(client) \in Nat /\ Clamp(Asked(client)) \in Nat
           /\ PageOf(client) \in Seq(Nat) /\ Len(PageOf(client)) \in Nat
           /\ \A m \in 1..Len(PageOf(client)) :
                 /\ a.offset + Len(client.out) + m \in 1..Cardinality(Meant(a))
                 /\ PageOf(client)[m] = InOrder(Meant(a))[a.offset + Len(client.out) + m]
           /\ Len(PageOf(client)) <= Clamp(Asked(client))
           /\ \/ Len(PageOf(client)) = Clamp(Asked(client))
              \/ a.offset + Len(client.out) + Len(PageOf(client)) >= Cardinality(Meant(a))
<1> DEFINE M == Meant(a)
<1>1. Len(table) \in Nat /\ Ids = 1..Len(table) /\ entity \in Entity
  BY DEF ListTypes, Ids
<1>2. /\ M \in SUBSET Nat /\ IsFiniteSet(M) /\ Cardinality(M) \in Nat
      /\ Cardinality(M) <= Len(table)
  <2>1. M \in SUBSET (1..Len(table))
    BY <1>1 DEF Meant
  <2>2. IsFiniteSet(1..Len(table)) /\ Cardinality(1..Len(table)) = Len(table)
    <3>1. PICK n \in Nat : n = Len(table)
      BY <1>1
    <3>2. IsFiniteSet(1..n) /\ Cardinality(1..n) = n
      BY FS_Interval
    <3> QED
      BY <3>1, <3>2
  <2>3. IsFiniteSet(M) /\ Cardinality(M) <= Len(table)
    BY <2>1, <2>2, FS_Subset
  <2> QED
    BY <2>1, <2>3, FS_CardinalityType
<1>3. Listed(client.args) = M
  BY <1>1, ListedIsMeant
<1>4. a.offset \in Nat /\ a.limit \in Nat /\ Len(client.out) \in Nat /\ client.once \in BOOLEAN
  <2>1. a.offset \in Offsets /\ a.limit \in Limits
    <3>1. a \in Args
      BY DEF Readers
    <3> QED
      BY <3>1 DEF Args
  <2>2. client.out \in Seq(Nat) /\ client.once \in BOOLEAN
    BY DEF Readers
  <2>3. Len(client.out) \in Nat
    BY <2>2
  <2>4. a.offset \in Nat /\ a.limit \in Nat
    BY <2>1, ListingAssumption
  <2> QED
    BY <2>2, <2>3, <2>4
<1>5. PICK b \in Nat : b = From(client) /\ b = a.offset + Len(client.out)
  BY <1>4 DEF From, Emitted
<1>6. Asked(client) \in Nat
  BY <1>4 DEF Asked, Want
<1>7. PICK k \in Nat : k = Clamp(Asked(client))
  BY <1>6, ListingAssumption DEF Clamp
<1>8. InOrder(M) \in Seq(M) /\ Len(InOrder(M)) = Cardinality(M)
  BY <1>2, Places
<1> HIDE DEF M
<1>9. PICK s \in Seq(Nat) : s = InOrder(M)
  <2>1. InOrder(M) \in Seq(Nat)
    BY <1>2, Places
  <2> QED
    BY <2>1
<1>10. PageOf(client) = Piece(s, b, k)
  BY <1>3, <1>5, <1>7, <1>9 DEF PageOf, Piece
<1>11. /\ PageOf(client) \in Seq(Nat) /\ Len(PageOf(client)) \in Nat
       /\ \A m \in 1..Len(PageOf(client)) :
             b + m \in 1..Len(s) /\ PageOf(client)[m] = s[b + m]
       /\ Len(PageOf(client)) <= k
       /\ Len(PageOf(client)) = k \/ b + Len(PageOf(client)) >= Len(s)
  <2>1. /\ Piece(s, b, k) \in Seq(Nat) /\ Len(Piece(s, b, k)) \in Nat
        /\ \A m \in 1..Len(Piece(s, b, k)) :
              b + m \in 1..Len(s) /\ Piece(s, b, k)[m] = s[b + m]
        /\ Len(Piece(s, b, k)) <= k
        /\ Len(Piece(s, b, k)) = k \/ b + Len(Piece(s, b, k)) >= Len(s)
    BY PieceIs
  <2> QED
    BY <1>10, <2>1
<1> QED
  BY <1>2, <1>5, <1>6, <1>7, <1>8, <1>9, <1>11 DEF M

-----------------------------------------------------------------------------
(* What a reader has                                                         *)

(* A reader that goes on has not got all it was asked for.                   *)
MoreToCome == client \in Readers /\ client.at = "paging"
              => /\ client.once => client.out = <<>>
                 /\ client.args.limit > 0 => Len(client.out) < client.args.limit

Steady == client \in Readers /\ client.at \in {"paging", "done"} /\ (quiet \/ Fixed(client.args))

(* What it has are the rows from --offset on, without a gap.                 *)
OutInv == Steady => \A n \in 1..Len(client.out) :
    /\ client.args.offset + n \in 1..Cardinality(Meant(client.args))
    /\ client.out[n] = InOrder(Meant(client.args))[client.args.offset + n]

(* One that has ended has as many as it was asked for, or the last of those
   there were, or the one page it gets.                                      *)
Old(a) == {i \in Meant(a) : i <= born}
Enough(c) == \/ c.args.limit > 0 /\ Len(c.out) = c.args.limit
             \/ c.args.offset + Len(c.out) >= Cardinality(Old(c.args))
             \/ c.args.limit = 0 /\ c.once /\ Len(c.out) >= Clamp(0)
EndInv == Steady /\ client.at = "done" /\ client.args.limit <= PageCap
          => /\ client.args.limit > 0 => Len(client.out) <= client.args.limit
             /\ ~client.cut => Enough(client)

CountInv == client \in Counters /\ quiet
            => client.n \in {-1, Cardinality(Meant(client.args))}

ListInv == ListTypes /\ MoreToCome /\ OutInv /\ EndInv /\ CountInv

LEMMA ListInit == Init => ListInv
<1> SUFFICES ASSUME Init PROVE ListInv
  OBVIOUS
<1>1. CASE client = [at |-> "idle"]
  <2>1. client \in Idles /\ client \notin Readers /\ client \notin Counters /\ client \notin Panels
    BY <1>1 DEF Idles, Readers, Counters, Panels
  <2>2. ListTypes
    BY <2>1, ListingAssumption DEF Init, ListTypes
  <2> QED
    BY <2>1, <2>2 DEF ListInv, MoreToCome, OutInv, EndInv, CountInv, Steady
<1>2. CASE /\ entity \in {"model", "skill", "context", "exec"}
           /\ client = [at |-> "panel", shown |-> {}, sel |-> 0, trash |-> FALSE]
  <2>1. client \in Panels /\ client \notin Readers /\ client \notin Counters
    BY <1>2 DEF Readers, Counters, Panels
  <2>2. ListTypes
    BY <1>2, <2>1, ListingAssumption DEF Init, ListTypes
  <2> QED
    BY <2>1, <2>2 DEF ListInv, MoreToCome, OutInv, EndInv, CountInv, Steady
<1> QED
  BY <1>1, <1>2 DEF Init

(* The rows that are meant by arguments are finitely many.                   *)
LEMMA MeantIs ==
    ASSUME ListTypes, NEW a
    PROVE  /\ Ids = 1..Len(table) /\ Len(table) \in Nat
           /\ Meant(a) \in SUBSET Nat /\ IsFiniteSet(Meant(a)) /\ Cardinality(Meant(a)) \in Nat
           /\ Old(a) \in SUBSET Nat /\ Old(a) \subseteq Meant(a)
<1>1. Len(table) \in Nat /\ Ids = 1..Len(table)
  BY DEF ListTypes, Ids
<1>2. PICK n \in Nat : n = Len(table)
  BY <1>1
<1>3. IsFiniteSet(1..n)
  BY FS_Interval
<1>4. Meant(a) \in SUBSET (1..n)
  BY <1>1, <1>2 DEF Meant
<1>5. IsFiniteSet(Meant(a))
  BY <1>3, <1>4, FS_Subset
<1>6. Meant(a) \in SUBSET Nat
  BY <1>4
<1>7. Old(a) \subseteq Meant(a)
  BY DEF Old
<1> QED
  BY <1>1, <1>5, <1>6, <1>7, FS_CardinalityType

(* A statement of somebody else leaves a reader what it has.                 *)
LEMMA WritesKeep == ListInv /\ Ordinary => ListInv'
<1> SUFFICES ASSUME ListInv, Ordinary PROVE ListInv'
  OBVIOUS
<1>1. /\ UNCHANGED <<entity, client, born>> /\ quiet' = FALSE
      /\ table' \in Seq(Row) /\ Len(table) <= Len(table') /\ Len(table') <= MaxRow
      /\ \A a \in Args : Given(a) /\ Fixed(a) => \A i \in Ids : (Means(a, i))' <=> Means(a, i)
  BY Writes DEF ListInv
<1>2. ListTypes'
  <2>1. Len(table) \in Nat /\ Len(table') \in Nat /\ born \in Nat /\ born <= Len(table)
    BY <1>1 DEF ListInv, ListTypes
  <2>2. born' \in Nat /\ born' <= Len(table')
    BY <1>1, <2>1
  <2> QED
    BY <1>1, <2>2 DEF ListInv, ListTypes, Given
<1>3. MoreToCome' /\ CountInv'
  BY <1>1 DEF ListInv, MoreToCome, CountInv
<1>4. ASSUME Steady'
      PROVE  Steady /\ (OutInv /\ EndInv)'
  <2>1. client \in Readers /\ client.at \in {"paging", "done"}
    BY <1>1, <1>4 DEF Steady
  <2>2. PICK a \in Args : a = client.args
    BY <2>1 DEF Readers
  <2>3. Fixed(a) /\ Given(a) /\ client' = client
    BY <1>1, <1>4, <2>1, <2>2 DEF Steady, Fixed, Everything, ListInv, ListTypes
  <2>4. Steady
    BY <2>1, <2>2, <2>3 DEF Steady
  <2>5. \A i \in Ids : (Means(a, i))' <=> Means(a, i)
    BY <1>1, <2>3
  <2>6. Ids = 1..Len(table) /\ Ids' = 1..Len(table') /\ Len(table) \in Nat /\ Len(table') \in Nat
    BY <1>1 DEF ListInv, ListTypes, Ids
  <2>7. PICK S, T : S = Meant(a) /\ T = (Meant(a))'
    OBVIOUS
  <2>8. /\ S \in SUBSET Nat /\ T \in SUBSET Nat /\ IsFiniteSet(T)
    <3>1. S \in SUBSET Nat
      BY <2>7, MeantIs DEF ListInv
    <3>2. PICK n \in Nat : n = Len(table')
      BY <2>6
    <3>3. IsFiniteSet(1..n)
      BY FS_Interval
    <3>4. T \in SUBSET (1..n)
      BY <2>6, <2>7, <3>2 DEF Meant
    <3>5. IsFiniteSet(T)
      BY <3>3, <3>4, FS_Subset
    <3>6. T \in SUBSET Nat
      BY <3>4
    <3> QED
      BY <3>1, <3>5, <3>6
  <2>9. S \subseteq T
    <3> SUFFICES ASSUME NEW i \in S PROVE i \in T
      OBVIOUS
    <3>1. i \in Ids /\ Means(a, i)
      BY <2>7 DEF Meant
    <3>2. i \in Ids'
      BY <1>1, <2>6, <3>1
    <3> QED
      BY <2>5, <2>7, <3>1, <3>2 DEF Meant
  <2>10. ASSUME NEW i \in T, i \notin S PROVE i > Len(table)
    <3>1. i \in Ids' /\ (Means(a, i))'
      BY <2>7 DEF Meant
    <3>2. i \notin Ids
      BY <2>5, <2>7, <2>10, <3>1 DEF Meant
    <3> QED
      BY <2>6, <3>1, <3>2
  <2>11. \A i \in S, j \in T \ S : i < j
    <3> SUFFICES ASSUME NEW i \in S, NEW j \in T \ S PROVE i < j
      OBVIOUS
    <3>1. i \in 1..Len(table)
      BY <2>6, <2>7 DEF Meant
    <3>2. j \in Nat /\ j > Len(table)
      BY <2>8, <2>10
    <3> QED
      BY <2>6, <3>1, <3>2
  <2>12. /\ Cardinality(S) <= Cardinality(T) /\ Cardinality(S) \in Nat /\ Cardinality(T) \in Nat
         /\ \A n \in 1..Cardinality(S) : InOrder(T)[n] = InOrder(S)[n]
    BY <2>8, <2>9, <2>11, PlacesStay
  <2>13. OutInv'
    <3> SUFFICES ASSUME NEW n \in 1..Len(client.out)
                 PROVE  /\ a.offset + n \in 1..Cardinality(T)
                        /\ client.out[n] = InOrder(T)[a.offset + n]
      BY <2>2, <2>3, <2>7 DEF OutInv
    <3>1. a.offset + n \in 1..Cardinality(S) /\ client.out[n] = InOrder(S)[a.offset + n]
      BY <2>2, <2>4, <2>7 DEF ListInv, OutInv
    <3>2. PICK k \in 1..Cardinality(S) : k = a.offset + n
      BY <3>1
    <3>3. k \in 1..Cardinality(T)
      BY <2>12
    <3> QED
      BY <2>12, <3>1, <3>2, <3>3
  <2>14. (Old(a))' = Old(a)
    <3>1. born \in Nat /\ born <= Len(table) /\ born' = born
      BY <1>1 DEF ListInv, ListTypes
    <3>2. ASSUME NEW i \in T, i <= born PROVE i \in S
      <4>1. i \in Nat
        BY <2>8
      <4> QED
        BY <2>6, <2>10, <3>1, <3>2, <4>1
    <3>3. (Old(a))' = {i \in T : i <= born} /\ Old(a) = {i \in S : i <= born}
      BY <2>7, <3>1 DEF Old
    <3> QED
      BY <2>9, <3>2, <3>3
  <2>15. (Enough(client))' <=> Enough(client)
    BY <1>1, <2>2, <2>3, <2>14 DEF Enough, Clamp
  <2>16. EndInv'
    BY <2>3, <2>4, <2>15 DEF ListInv, EndInv
  <2> QED
    BY <2>4, <2>13, <2>16
<1>5. OutInv' /\ EndInv'
  BY <1>4 DEF OutInv, EndInv
<1> QED
  BY <1>2, <1>3, <1>5 DEF ListInv

(* A reader starts with nothing.                                             *)
LEMMA AskKeeps == ListInv /\ Ask => ListInv'
<1> SUFFICES ASSUME ListInv, Ask PROVE ListInv'
  OBVIOUS
<1>1. PICK a \in Args, o \in BOOLEAN :
          /\ Given(a)
          /\ client' = [at |-> "paging", args |-> a, out |-> <<>>, cut |-> FALSE, once |-> o]
  BY DEF Ask
<1>2. /\ client' \in Readers /\ client'.at = "paging" /\ client'.args = a
      /\ client'.out = <<>> /\ Len(client'.out) = 0
  BY <1>1 DEF Readers
<1>3. client' \notin Idles /\ client' \notin Counters /\ client' \notin Panels
  BY <1>2 DEF Idles, Counters, Panels
<1>4. UNCHANGED <<entity, table>> /\ born' = Len(table) /\ (Given(a))'
  BY <1>1 DEF Ask, Given
<1>5. ListTypes'
  <2>1. Len(table) \in Nat
    BY DEF ListInv, ListTypes
  <2> QED
    BY <1>2, <1>3, <1>4, <2>1 DEF ListInv, ListTypes
<1>6. a.limit \in Nat
  BY ListingAssumption DEF Args
<1>7. MoreToCome'
  BY <1>2, <1>6 DEF MoreToCome
<1>8. OutInv' /\ EndInv' /\ CountInv'
  BY <1>2, <1>3 DEF OutInv, EndInv, CountInv
<1> QED
  BY <1>5, <1>7, <1>8 DEF ListInv

(* A page that is cut short by nothing, or after k rows.                     *)
LEMMA EmitKeeps ==
    ASSUME ListInv, client \in Readers, client.at = "paging",
           NEW page \in Seq(Nat), NEW cut \in BOOLEAN, Emit(client, page, cut),
           UNCHANGED <<entity, table, born, quiet>>,
           Len(page) \in Nat, Len(page) <= Len(PageOf(client)),
           \A n \in 1..Len(page) : page[n] = PageOf(client)[n],
           ~cut => Len(page) = Len(PageOf(client))
    PROVE  ListInv'
<1>1. PICK a \in Args : a = client.args
  BY DEF Readers
<1>2. PICK out \in Seq(Nat), l \in Nat : out = client.out /\ l = Len(out)
  BY DEF Readers
<1>3. PICK lim \in Nat, off \in Nat : lim = a.limit /\ off = a.offset
  <2>1. a.limit \in Limits /\ a.offset \in Offsets
    BY DEF Args
  <2> QED
    BY <2>1, ListingAssumption
<1>4. Given(a) /\ client.once \in BOOLEAN
  BY <1>1 DEF ListInv, ListTypes, Readers
<1>5. (client.once => l = 0) /\ (lim > 0 => l < lim)
  BY <1>1, <1>2, <1>3 DEF ListInv, MoreToCome
<1>6. /\ Asked(client) = IF client.once THEN lim ELSE IF lim > 0 THEN lim - l ELSE 0
      /\ Want(client) = IF lim > 0 THEN lim - l ELSE 0
  BY <1>1, <1>2, <1>3 DEF Asked, Want
<1>7. a.limit > 0 => Asked(client) > 0
  BY <1>2, <1>3, <1>5, <1>6
<1>8. PICK c \in Nat, p \in Nat, k \in Nat :
         /\ c = Cardinality(Meant(a)) /\ p = Len(PageOf(client)) /\ k = Clamp(Asked(client))
         /\ c <= Len(table) /\ p <= k /\ (p = k \/ off + l + p >= c)
         /\ \A m \in 1..p : /\ off + l + m \in 1..c
                            /\ PageOf(client)[m] = InOrder(Meant(a))[off + l + m]
  <2>1. /\ Cardinality(Meant(a)) \in Nat /\ Cardinality(Meant(a)) <= Len(table)
        /\ Clamp(Asked(client)) \in Nat /\ Len(PageOf(client)) \in Nat
        /\ \A m \in 1..Len(PageOf(client)) :
              /\ a.offset + Len(client.out) + m \in 1..Cardinality(Meant(a))
              /\ PageOf(client)[m] = InOrder(Meant(a))[a.offset + Len(client.out) + m]
        /\ Len(PageOf(client)) <= Clamp(Asked(client))
        /\ \/ Len(PageOf(client)) = Clamp(Asked(client))
           \/ a.offset + Len(client.out) + Len(PageOf(client)) >= Cardinality(Meant(a))
    BY <1>1, <1>4, <1>7, PageIs DEF ListInv
  <2> QED
    BY <1>2, <1>3, <2>1
<1>9. PICK n \in Nat : n = Len(page) /\ n <= p /\ (~cut => n = p)
  BY <1>8
<1>10. PICK new : new = out \o page
  OBVIOUS
<1>11. /\ new \in Seq(Nat) /\ Len(new) = l + n
       /\ \A m \in 1..l : new[m] = out[m]
       /\ \A m \in l + 1..l + n : new[m] = page[m - l]
  BY <1>2, <1>9, <1>10
<1>12. PICK e \in BOOLEAN :
         /\ e = Ends(client, n)
         /\ client' = [client EXCEPT !.at = IF e THEN "done" ELSE "paging", !.out = new,
                                     !.cut = cut /\ e]
  BY <1>2, <1>9, <1>10 DEF Emit, Ends
<1>13. /\ client' \in Readers /\ client'.args = a /\ client'.out = new
       /\ client'.at = (IF e THEN "done" ELSE "paging") /\ client'.once = client.once
       /\ client'.cut = (cut /\ e)
  BY <1>1, <1>11, <1>12 DEF Readers
<1>14. client' \notin Idles /\ client' \notin Counters /\ client' \notin Panels
  BY <1>13 DEF Readers, Idles, Counters, Panels
<1>15. ListTypes'
  BY <1>4, <1>13, <1>14 DEF ListInv, ListTypes, Given
<1>16. e <=> \/ client.once
             \/ lim > 0 /\ l + n >= lim
             \/ n = 0
             \/ n < (IF lim > 0 THEN lim - l ELSE 0)
  BY <1>1, <1>2, <1>3, <1>6, <1>12 DEF Ends
<1>17. MoreToCome'
  <2>1. CASE e
    BY <1>13, <2>1 DEF MoreToCome
  <2>2. CASE ~e
    <3>1. ~client.once /\ (lim > 0 => l + n < lim)
      BY <1>16, <2>2
    <3>2. Len(client'.out) = l + n /\ client'.args.limit = lim
      BY <1>3, <1>11, <1>13
    <3> QED
      BY <1>13, <3>1, <3>2 DEF MoreToCome
  <2> QED
    BY <2>1, <2>2
<1>18. (Meant(a))' = Meant(a) /\ (Old(a))' = Old(a)
  BY DEF Meant, Means, Live, WithDeleted, Everything, Ids, Old
<1>19. Steady' => Steady
  BY <1>1, <1>13 DEF Steady, Fixed, Everything
<1>20. OutInv'
  <2> SUFFICES ASSUME Steady', NEW m \in 1..(l + n)
               PROVE  off + m \in 1..c /\ new[m] = InOrder(Meant(a))[off + m]
    BY <1>3, <1>8, <1>11, <1>13, <1>18 DEF OutInv
  <2>1. CASE m \in 1..l
    <3>1. off + m \in 1..c /\ out[m] = InOrder(Meant(a))[off + m]
      BY <1>1, <1>2, <1>3, <1>8, <1>19, <2>1 DEF ListInv, OutInv
    <3> QED
      BY <1>11, <2>1, <3>1
  <2>2. CASE m \in l + 1..l + n
    <3>1. PICK q \in 1..n : q = m - l /\ off + l + q = off + m
      BY <2>2
    <3>2. new[m] = page[q] /\ q \in 1..p
      BY <1>9, <1>11, <2>2, <3>1
    <3>3. page[q] = PageOf(client)[q]
      BY <1>9, <3>1
    <3>4. off + l + q \in 1..c /\ PageOf(client)[q] = InOrder(Meant(a))[off + l + q]
      BY <1>8, <3>2
    <3> QED
      BY <3>1, <3>2, <3>3, <3>4
  <2> QED
    BY <2>1, <2>2
<1>21. EndInv'
  <2> SUFFICES ASSUME e, lim <= PageCap
               PROVE  (lim > 0 => l + n <= lim) /\ (~cut => (Enough(client))')
    BY <1>3, <1>11, <1>13 DEF EndInv
  <2>1. /\ PageCap \in Nat /\ PageCap > 0 /\ MaxRow \in Nat
        /\ c <= MaxRow
    <3>1. Len(table) <= MaxRow /\ Len(table) \in Nat
      BY DEF ListInv, ListTypes
    <3> QED
      BY <1>8, <3>1, ListingAssumption
  <2>2. PICK ask \in Nat : ask = Asked(client)
    BY <1>3, <1>5, <1>6
  <2>3. ask <= lim /\ (lim > 0 => ask = lim - l /\ ask > 0) /\ (lim = 0 => ask = 0)
    BY <1>4, <1>5, <1>6, <2>2
  <2>4. ask > 0 => k = ask
    BY <1>8, <2>1, <2>2, <2>3 DEF Clamp
  <2>5. lim > 0 => l + n <= lim
    BY <1>8, <1>9, <2>3, <2>4
  <2>6. (Enough(client))' <=> \/ lim > 0 /\ l + n = lim
                              \/ off + (l + n) >= Cardinality(Old(a))
                              \/ lim = 0 /\ client.once /\ l + n >= Clamp(0)
    BY <1>3, <1>11, <1>13, <1>18 DEF Enough, Clamp
  <2>7. Cardinality(Old(a)) \in Nat /\ Cardinality(Old(a)) <= c
    <3>1. /\ Meant(a) \in SUBSET Nat /\ IsFiniteSet(Meant(a)) /\ Old(a) \in SUBSET Meant(a)
      BY MeantIs DEF ListInv
    <3>2. IsFiniteSet(Old(a)) /\ Cardinality(Old(a)) <= Cardinality(Meant(a))
      BY <3>1, FS_Subset
    <3> QED
      BY <1>8, <3>2, FS_CardinalityType
  <2>8. ASSUME ~cut PROVE (Enough(client))'
    <3>1. n = p
      BY <1>9, <2>8
    <3>2. CASE off + l + p >= c
      BY <2>6, <2>7, <3>1, <3>2
    <3>3. CASE p = k /\ off + l + p < c
      <4>1. CASE lim > 0
        BY <2>3, <2>4, <2>6, <3>1, <3>3, <4>1
      <4>2. CASE lim = 0
        <5>1. k = Clamp(0)
          BY <1>8, <2>2, <2>3, <4>2
        <5>2. k > 0
          <6>1. k = PageCap \/ k = MaxRow
            BY <2>1, <5>1 DEF Clamp
          <6> QED
            BY <2>1, <3>3, <6>1
        <5>3. client.once
          BY <1>16, <3>1, <3>3, <4>2, <5>2
        <5> QED
          BY <1>5, <2>6, <3>1, <3>3, <4>2, <5>1, <5>3
      <4> QED
        BY <4>1, <4>2
    <3> QED
      BY <1>8, <3>2, <3>3
  <2> QED
    BY <2>5, <2>8
<1> QED
  BY <1>14, <1>15, <1>17, <1>20, <1>21 DEF ListInv, CountInv

LEMMA PageIsShown ==
    ASSUME ListInv, client \in Readers, client.at = "paging"
    PROVE  PageOf(client) \in Seq(Nat) /\ Len(PageOf(client)) \in Nat
<1>1. PICK a \in Args : a = client.args
  BY DEF Readers
<1>2. Given(a)
  BY <1>1 DEF ListInv, ListTypes
<1>3. a.limit \in Limits
  BY DEF Args
<1>4. Len(client.out) \in Nat /\ a.limit \in Nat
  <2>1. client.out \in Seq(Nat)
    BY DEF Readers
  <2>2. Len(client.out) \in Nat
    BY <2>1
  <2>3. a.limit \in Nat
    BY <1>3, ListingAssumption
  <2> QED
    BY <2>2, <2>3
<1>5. a.limit > 0 => Asked(client) > 0
  BY <1>1, <1>4 DEF ListInv, MoreToCome, Asked, Want
<1> QED
  BY <1>1, <1>2, <1>5, PageIs DEF ListInv

LEMMA PagesKeep == ListInv /\ (Page \/ StepFails) => ListInv'
<1> SUFFICES ASSUME ListInv, Page \/ StepFails PROVE ListInv'
  OBVIOUS
<1>1. client.at = "paging" /\ UNCHANGED <<entity, table, born, quiet>>
  BY DEF Page, StepFails
<1>2. client \in Readers
  BY <1>1 DEF ListInv, ListTypes, Idles, Counters, Panels
<1>3. PICK p \in Seq(Nat), l \in Nat : p = PageOf(client) /\ l = Len(p)
  BY <1>1, <1>2, PageIsShown
<1>4. CASE Page
  <2>1. Emit(client, p, FALSE)
    BY <1>3, <1>4 DEF Page
  <2>2. \A n \in 1..Len(p) : p[n] = PageOf(client)[n]
    BY <1>3
  <2>3. Len(p) <= Len(PageOf(client)) /\ Len(p) = Len(PageOf(client)) /\ Len(p) \in Nat
    BY <1>3
  <2> QED
    BY <1>1, <1>2, <2>1, <2>2, <2>3, EmitKeeps
<1>5. ASSUME StepFails, entity \in Checked PROVE ListInv'
  <2>1. client' = [client EXCEPT !.at = "failed"]
    BY <1>5 DEF StepFails
  <2>2. /\ client' \in Readers /\ client'.at = "failed" /\ client'.args = client.args
        /\ client' \notin Idles /\ client' \notin Counters /\ client' \notin Panels
    BY <1>2, <2>1 DEF Readers, Idles, Counters, Panels
  <2>3. ListTypes'
    BY <1>1, <1>2, <2>2 DEF ListInv, ListTypes, Given
  <2> QED
    BY <2>2, <2>3 DEF ListInv, MoreToCome, OutInv, EndInv, CountInv, Steady
<1>6. ASSUME StepFails, entity \notin Checked PROVE ListInv'
  <2>1. PICK k \in 0..l : Emit(client, SubSeq(p, 1, k), k < l)
    BY <1>3, <1>6 DEF StepFails
  <2>2. PICK q : q = SubSeq(p, 1, k)
    OBVIOUS
  <2>3. q \in Seq(Nat) /\ Len(q) = k /\ \A n \in 1..k : q[n] = p[n]
    BY <1>3, <2>2
  <2>4. /\ Len(q) \in Nat /\ Len(q) <= Len(PageOf(client))
        /\ \A n \in 1..Len(q) : q[n] = PageOf(client)[n]
    BY <1>3, <2>3
  <2>5. CASE k < l
    <3>1. Emit(client, q, TRUE)
      BY <2>1, <2>2, <2>5 DEF Emit
    <3> QED
      BY <1>1, <1>2, <2>3, <2>4, <3>1, EmitKeeps
  <2>6. CASE ~(k < l)
    <3>1. Emit(client, q, FALSE)
      BY <2>1, <2>2, <2>6 DEF Emit
    <3>2. Len(q) = Len(PageOf(client))
      BY <1>3, <2>3, <2>6
    <3> QED
      BY <1>1, <1>2, <2>3, <2>4, <3>1, <3>2, EmitKeeps
  <2> QED
    BY <2>5, <2>6
<1> QED
  BY <1>4, <1>5, <1>6

(* Counters, and commands that end.                                          *)
LEMMA CountsKeep == ListInv /\ (CountAsk \/ CountFails \/ Again) => ListInv'
<1> SUFFICES ASSUME ListInv, CountAsk \/ CountFails \/ Again PROVE ListInv'
  OBVIOUS
<1>1. ASSUME client' = [at |-> "idle"], UNCHANGED <<entity, table>>,
             born' \in Nat, born' <= Len(table)
      PROVE  ListInv'
  <2>1. /\ client' \in Idles /\ client' \notin Readers /\ client' \notin Counters
        /\ client' \notin Panels
    BY <1>1 DEF Readers, Idles, Counters, Panels
  <2>2. ListTypes'
    BY <1>1, <2>1 DEF ListInv, ListTypes
  <2> QED
    BY <2>1, <2>2 DEF ListInv, MoreToCome, OutInv, EndInv, CountInv, Steady
<1>2. ASSUME NEW a \in Args, NEW n \in Int, Given(a), UNCHANGED <<entity, table>>,
             client' = [at |-> "counted", args |-> a, n |-> n],
             born' \in Nat, born' <= Len(table), n \in {-1, Cardinality(Meant(a))}
      PROVE  ListInv'
  <2>1. /\ client' \in Counters /\ client'.args = a /\ client'.n = n
        /\ client' \notin Readers /\ client' \notin Idles /\ client' \notin Panels
    BY <1>2 DEF Readers, Idles, Counters, Panels
  <2>2. ListTypes'
    BY <1>2, <2>1 DEF ListInv, ListTypes, Given
  <2>3. (Meant(a))' = Meant(a)
    BY <1>2 DEF Meant, Means, Live, WithDeleted, Everything, Ids
  <2> QED
    BY <1>2, <2>1, <2>2, <2>3 DEF ListInv, MoreToCome, OutInv, EndInv, CountInv, Steady
<1>3. Len(table) \in Nat /\ born \in Nat /\ born <= Len(table) /\ Len(table) <= Len(table)
  BY DEF ListInv, ListTypes
<1>4. CASE CountAsk
  <2>1. PICK a \in Args : Given(a) /\ client' = [at |-> "counted", args |-> a,
                                                 n |-> Cardinality(Counted(a))]
    BY <1>4 DEF CountAsk
  <2>2. Counted(a) = Meant(a) /\ Cardinality(Meant(a)) \in Nat
    BY <2>1, ListedIsMeant, MeantIs DEF ListInv, ListTypes
  <2>3. PICK n \in Int : n = Cardinality(Meant(a))
    BY <2>2
  <2>4. UNCHANGED <<entity, table>> /\ born' \in Nat /\ born' <= Len(table)
    BY <1>3, <1>4 DEF CountAsk
  <2>5. client' = [at |-> "counted", args |-> a, n |-> n]
    BY <2>1, <2>2, <2>3
  <2> QED
    BY <1>2, <2>1, <2>3, <2>4, <2>5
<1>5. CASE CountFails
  <2>1. UNCHANGED <<entity, table>> /\ born' \in Nat /\ born' <= Len(table)
    BY <1>3, <1>5 DEF CountFails
  <2>2. PICK a \in Args :
          /\ Given(a)
          /\ \/ client' = [at |-> "counted", args |-> a, n |-> -1]
             \/ client' = [at |-> "idle"]
    BY <1>5 DEF CountFails
  <2> QED
    BY <1>1, <1>2, <2>1, <2>2
<1>6. CASE Again
  <2>1. client' = [at |-> "idle"] /\ UNCHANGED <<entity, table>> /\ born' = 0
    BY <1>6 DEF Again
  <2> QED
    BY <1>1, <1>3, <2>1
<1> QED
  BY <1>4, <1>5, <1>6

(* A panel, which looks at rows and marks the selected one.                  *)
LEMMA PanelsKeep ==
    ListInv /\ (Reload \/ Select \/ Click \/ Answer \/ RestoreClick) => ListInv'
<1> SUFFICES ASSUME ListInv, Reload \/ Select \/ Click \/ Answer \/ RestoreClick PROVE ListInv'
  OBVIOUS
<1>1. client \in Panels
  <2>1. client.at \in {"panel", "asking", "reload"}
    BY DEF Reload, Select, Click, Answer, RestoreClick
  <2> QED
    BY <2>1 DEF ListInv, ListTypes, Idles, Readers, Counters
<1>2. /\ entity \in {"model", "skill", "context", "exec"} /\ table \in Seq(Row)
      /\ born \in Nat /\ born <= Len(table) /\ Len(table) <= MaxRow
      /\ Ids = 1..Len(table) /\ Len(table) \in Nat
  BY <1>1 DEF ListInv, ListTypes, Ids
<1>3. ASSUME client' \in Panels, UNCHANGED <<entity, born>>, table' \in Seq(Row),
             Len(table') = Len(table)
      PROVE  ListInv'
  <2>1. client' \notin Idles /\ client' \notin Readers /\ client' \notin Counters
    BY <1>3 DEF Panels, Idles, Readers, Counters
  <2>2. Len(table') <= MaxRow /\ born' \in Nat /\ born' <= Len(table')
    BY <1>2, <1>3
  <2>3. entity' \in Entity /\ entity' \in {"model", "skill", "context", "exec"}
    BY <1>2, <1>3 DEF Entity, Trees
  <2>4. ListTypes'
    BY <1>3, <2>1, <2>2, <2>3 DEF ListTypes
  <2> QED
    BY <2>1, <2>4 DEF ListInv, MoreToCome, OutInv, EndInv, CountInv, Steady
<1>4. ASSUME NEW i, NEW d \in BOOLEAN, table' = [table EXCEPT ![i].dead = d]
      PROVE  table' \in Seq(Row) /\ Len(table') = Len(table)
  <2>1. CASE i \in Ids
    <3>1. table[i] \in Row
      BY <1>2, <2>1
    <3>2. PICK r \in Row : r = [table[i] EXCEPT !.dead = d]
      BY <3>1 DEF Row
    <3>3. table' = [table EXCEPT ![i] = r]
      BY <1>4, <3>2
    <3> QED
      BY <1>2, <2>1, <3>3
  <2>2. CASE i \notin Ids
    <3>1. table' = table
      BY <1>2, <1>4, <2>2
    <3> QED
      BY <1>2, <3>1
  <2> QED
    BY <2>1, <2>2
<1>5. CASE Reload
  <2>1. PICK t \in BOOLEAN : client' = Shows(client, t, FirstPage(PanelRows(t)))
    BY <1>5 DEF Reload
  <2>2. PanelRows(t) \subseteq Ids
    <3> SUFFICES ASSUME NEW i \in PanelRows(t) PROVE i \in Ids
      OBVIOUS
    <3> QED
      BY <1>2 DEF PanelRows, ModelPanel, SkillPanel, ContextPanel, ExecPanel,
                  ModelRows, SkillRows, ContextRows, ExecRows
  <2>3. PICK S \in SUBSET Nat : S = FirstPage(PanelRows(t))
    <3>1. FirstPage(PanelRows(t)) \subseteq PanelRows(t)
      BY DEF FirstPage
    <3>2. Ids \subseteq Nat
      BY <1>2
    <3> QED
      BY <2>2, <3>1, <3>2
  <2>4. Kept(client, S) \in Nat
    BY <1>1 DEF Kept, Panels
  <2>5. client' \in Panels
    BY <1>1, <2>1, <2>3, <2>4 DEF Shows, Panels
  <2> QED
    BY <1>2, <1>3, <1>5, <2>5 DEF Reload
<1>6. CASE Select
  <2>1. PICK i \in client.shown : client' = [client EXCEPT !.sel = i]
    BY <1>6 DEF Select
  <2>2. client' \in Panels
    BY <1>1, <2>1 DEF Panels
  <2> QED
    BY <1>2, <1>3, <1>6, <2>2 DEF Select
<1>7. CASE Click
  <2>1. client' \in Panels
    BY <1>1, <1>7 DEF Click, Panels
  <2> QED
    BY <1>2, <1>3, <1>7, <2>1 DEF Click
<1>8. CASE Answer
  <2>1. client' \in Panels
    BY <1>1, <1>8 DEF Answer, Panels
  <2>2. table' \in Seq(Row) /\ Len(table') = Len(table)
    BY <1>2, <1>4, <1>8 DEF Answer
  <2> QED
    BY <1>3, <1>8, <2>1, <2>2 DEF Answer
<1>9. CASE RestoreClick
  <2>1. client' \in Panels
    BY <1>1, <1>9 DEF RestoreClick, Panels
  <2>2. table' \in Seq(Row) /\ Len(table') = Len(table)
    BY <1>2, <1>4, <1>9 DEF RestoreClick
  <2> QED
    BY <1>3, <1>9, <2>1, <2>2 DEF RestoreClick
<1> QED
  BY <1>5, <1>6, <1>7, <1>8, <1>9

LEMMA ListStep == ListInv /\ [Next]_listVars => ListInv'
<1> SUFFICES ASSUME ListInv, [Next]_listVars PROVE ListInv'
  OBVIOUS
<1>1. Next => \/ Ordinary \/ Ask \/ Page \/ StepFails \/ CountAsk \/ CountFails \/ Again
              \/ Reload \/ Select \/ Click \/ Answer \/ RestoreClick
  BY DEF Next, Ordinary
<1>2. ASSUME UNCHANGED listVars PROVE ListInv'
  <2>1. UNCHANGED <<entity, table, client, born, quiet>>
    BY <1>2 DEF listVars
  <2>2. ListTypes' /\ MoreToCome'
    BY <2>1 DEF ListInv, ListTypes, MoreToCome, Given
  <2>3. Steady' <=> Steady
    BY <2>1 DEF Steady, Fixed, Everything
  <2>4. /\ (Meant(client.args))' = Meant(client.args)
        /\ (Old(client.args))' = Old(client.args)
    BY <2>1 DEF Meant, Means, Live, WithDeleted, Everything, Ids, Old
  <2>5. OutInv' /\ CountInv'
    BY <2>1, <2>3, <2>4 DEF ListInv, OutInv, CountInv
  <2>6. (Enough(client))' <=> Enough(client)
    BY <2>1, <2>4 DEF Enough, Clamp
  <2>7. EndInv'
    BY <2>1, <2>3, <2>6 DEF ListInv, EndInv
  <2> QED
    BY <2>2, <2>5, <2>7 DEF ListInv
<1> QED
  BY <1>1, <1>2, WritesKeep, AskKeeps, PagesKeep, CountsKeep, PanelsKeep

LEMMA ListAlways == Spec => []ListInv
BY ListInit, ListStep, PTL DEF Spec

-----------------------------------------------------------------------------
(* What holds always                                                         *)

LEMMA ExportsOwe == ListInv => ExportIsComplete
<1> SUFFICES ASSUME ListInv, client.at = "done", ~client.cut, quiet \/ Fixed(client.args),
                    client.args.limit <= PageCap
             PROVE  /\ IsPrefix(Owed(client), client.out)
                    /\ Ascending(client.out)
                    /\ client.args.limit > 0 => Len(client.out) <= client.args.limit
  BY DEF ExportIsComplete
<1>1. client \in Readers /\ Steady
  <2>1. client \in Readers
    BY DEF ListInv, ListTypes, Idles, Counters, Panels
  <2> QED
    BY <2>1 DEF Steady
<1>2. PICK a \in Args : a = client.args
  BY <1>1 DEF Readers
<1>3. PICK out \in Seq(Nat), l \in Nat : out = client.out /\ l = Len(out)
  BY <1>1 DEF Readers
<1>4. PICK lim \in Nat, off \in Nat : lim = a.limit /\ off = a.offset
  <2>1. a.limit \in Limits /\ a.offset \in Offsets
    BY DEF Args
  <2> QED
    BY <2>1, ListingAssumption
<1>5. PICK M, O : M = Meant(a) /\ O = Old(a)
  OBVIOUS
<1>6. /\ M \in SUBSET Nat /\ IsFiniteSet(M) /\ O \in SUBSET Nat /\ O \subseteq M
  BY <1>5, MeantIs DEF ListInv
<1>7. \A i \in O, j \in M \ O : i < j
  <2> SUFFICES ASSUME NEW i \in O, NEW j \in M \ O PROVE i < j
    OBVIOUS
  <2>1. i \in Nat /\ j \in Nat /\ born \in Nat
    BY <1>6 DEF ListInv, ListTypes
  <2>2. i <= born /\ ~(j <= born)
    BY <1>5 DEF Old
  <2> QED
    BY <2>1, <2>2
<1>8. /\ IsFiniteSet(O) /\ Cardinality(O) <= Cardinality(M)
      /\ Cardinality(O) \in Nat /\ Cardinality(M) \in Nat
      /\ \A n \in 1..Cardinality(O) : InOrder(M)[n] = InOrder(O)[n]
  BY <1>6, <1>7, PlacesStay
<1>9. PICK was \in Seq(Nat), c \in Nat : was = InOrder(O) /\ c = Cardinality(O) /\ Len(was) = c
  BY <1>6, <1>8, Places
<1>10. \A n \in 1..l : off + n \in 1..Cardinality(M) /\ out[n] = InOrder(M)[off + n]
  BY <1>1, <1>2, <1>3, <1>4, <1>5 DEF ListInv, OutInv
<1>11. /\ lim > 0 => l <= lim
       /\ \/ lim > 0 /\ l = lim
          \/ off + l >= c
          \/ lim = 0 /\ client.once /\ l >= Clamp(0)
  BY <1>1, <1>2, <1>3, <1>4, <1>5, <1>9 DEF ListInv, EndInv, Enough
<1>12. Ascending(out)
  <2> SUFFICES ASSUME NEW m \in 1..l, NEW n \in 1..l, m < n PROVE out[m] < out[n]
    <3>1. DOMAIN out = 1..l
      BY <1>3
    <3> QED
      BY <3>1 DEF Ascending
  <2>1. PICK x \in M : x = out[m] /\ Rank(M, x) = off + m
    BY <1>6, <1>10, Places
  <2>2. PICK y \in M : y = out[n] /\ Rank(M, y) = off + n
    BY <1>6, <1>10, Places
  <2>3. x \in Nat /\ y \in Nat /\ off + m < off + n /\ off + n \in Nat /\ off + m \in Nat
    BY <1>6
  <2>4. y < x => Rank(M, y) < Rank(M, x)
    BY <1>6, Ranks
  <2>5. PICK rx \in Nat, ry \in Nat : rx = Rank(M, x) /\ ry = Rank(M, y) /\ rx < ry
    BY <2>1, <2>2, <2>3
  <2>6. ~(y < x)
    BY <2>4, <2>5
  <2>7. x # y
    BY <2>5
  <2>8. x < y
    BY <2>3, <2>6, <2>7
  <2> QED
    BY <2>1, <2>2, <2>8
<1>13. {i \in Listed(client.args) : i <= born} = O
  <2>1. Listed(client.args) = M
    BY <1>1, <1>2, <1>5, ListedIsMeant DEF ListInv, ListTypes
  <2> QED
    BY <1>2, <1>5, <2>1 DEF Old
<1>14. PICK rest : rest = SubSeq(was, off + 1, c)
  OBVIOUS
<1>15. /\ rest \in Seq(Nat) /\ Len(rest) \in Nat /\ Len(rest) <= c
       /\ Len(rest) = 0 \/ off + Len(rest) <= c
       /\ \A m \in 1..Len(rest) : off + m \in 1..c /\ rest[m] = was[off + m]
  <2>1. rest = Piece(was, off, c)
    BY <1>9, <1>14 DEF Piece
  <2>2. /\ rest \in Seq(Nat) /\ Len(rest) \in Nat /\ Len(rest) <= c
        /\ \A m \in 1..Len(rest) : off + m \in 1..Len(was) /\ rest[m] = was[off + m]
    <3>1. /\ Piece(was, off, c) \in Seq(Nat) /\ Len(Piece(was, off, c)) \in Nat
          /\ Len(Piece(was, off, c)) <= c
          /\ \A m \in 1..Len(Piece(was, off, c)) :
                off + m \in 1..Len(was) /\ Piece(was, off, c)[m] = was[off + m]
      BY PieceIs
    <3> QED
      BY <2>1, <3>1
  <2>3. Len(rest) = 0 \/ off + Len(rest) <= c
    <3>1. CASE Len(rest) # 0
      <4>1. Len(rest) \in 1..Len(rest)
        BY <2>2, <3>1
      <4>2. off + Len(rest) \in 1..c
        BY <1>9, <2>2, <4>1
      <4> QED
        BY <4>2
    <3> QED
      BY <3>1
  <2> QED
    BY <1>9, <2>2, <2>3
<1>16. PICK most \in Nat : most = IF lim > 0 THEN lim
                                  ELSE IF client.once THEN Clamp(0) ELSE Len(rest)
  BY <1>4, <1>15, ListingAssumption DEF Clamp
<1>17. PICK t \in Nat : t = (IF most < Len(rest) THEN most ELSE Len(rest))
  BY <1>15, <1>16
<1>18. PICK owed : owed = SubSeq(rest, 1, t)
  OBVIOUS
<1>19. Owed(client) = owed
  BY <1>2, <1>4, <1>9, <1>13, <1>14, <1>16, <1>17, <1>18 DEF Owed
<1>20. owed \in Seq(Nat) /\ Len(owed) = t /\ \A m \in 1..t : owed[m] = rest[m]
  BY <1>15, <1>17, <1>18
<1>21. t <= l
  BY <1>11, <1>15, <1>16, <1>17
<1>22. ASSUME NEW m \in 1..t PROVE owed[m] = out[m]
  <2>1. m \in 1..Len(rest) /\ m \in 1..l
    BY <1>15, <1>17, <1>21
  <2>2. owed[m] = was[off + m] /\ off + m \in 1..c
    BY <1>15, <1>20, <2>1
  <2>3. out[m] = InOrder(M)[off + m]
    BY <1>10, <2>1
  <2>4. PICK k \in 1..c : k = off + m
    BY <2>2
  <2>5. InOrder(M)[k] = was[k]
    BY <1>8, <1>9
  <2> QED
    BY <2>2, <2>3, <2>4, <2>5
<1>23. SubSeq(owed, 1, t) = SubSeq(out, 1, t)
  <2>1. PICK u, v : u = SubSeq(owed, 1, t) /\ v = SubSeq(out, 1, t)
    OBVIOUS
  <2>2. u \in Seq(Nat) /\ Len(u) = t /\ \A m \in 1..t : u[m] = owed[m]
    BY <1>20, <2>1
  <2>3. v \in Seq(Nat) /\ Len(v) = t /\ \A m \in 1..t : v[m] = out[m]
    BY <1>3, <1>21, <2>1
  <2>4. u = v
    <3>1. u \in [1..t -> Nat] /\ v \in [1..t -> Nat]
      BY <2>2, <2>3
    <3>2. \A m \in 1..t : u[m] = v[m]
      BY <1>22, <2>2, <2>3
    <3> QED
      BY <3>1, <3>2
  <2> QED
    BY <2>1, <2>4
<1>24. IsPrefix(owed, out)
  BY <1>3, <1>20, <1>21, <1>23 DEF IsPrefix
<1> QED
  BY <1>2, <1>3, <1>4, <1>11, <1>12, <1>19, <1>24

(* The listers and streams of acta_db and acta_cli: an export that ends well
   has every row it owes, once and in order, however many pages it took and
   whatever was written between two of them to rows that keep their places.  *)
THEOREM ExportsAreComplete == Spec => []ExportIsComplete
BY ExportsOwe, ListAlways, PTL

(* The counters of acta_db and the handlers of count and list --count: the
   number is the length of the list, for each of the nine tables.            *)
THEOREM CountsAreLists == Spec => []CountIsList
<1>1. ListInv => CountIsList
  <2> SUFFICES ASSUME ListInv, client.at = "counted", quiet
               PROVE  client.n \in {-1, Cardinality(Listed(client.args))}
    BY DEF CountIsList
  <2>1. client \in Counters
    BY DEF ListInv, ListTypes, Idles, Readers, Panels
  <2>2. PICK a \in Args : a = client.args
    BY <2>1 DEF Counters
  <2>3. Listed(a) = Meant(a)
    BY <2>1, <2>2, ListedIsMeant DEF ListInv, ListTypes
  <2> QED
    BY <2>1, <2>2, <2>3 DEF ListInv, CountInv
<1> QED
  BY <1>1, ListAlways, PTL

(* The getters of acta_db: what a list returned can be got with the same flag,
   the revisions of deleted models excepted.                                 *)
THEOREM ListedCanBeGot == Spec => []ListedIsGettable
<1>1. ListInv => ListedIsGettable
  <2> SUFFICES ASSUME ListInv, client.at = "done", quiet, NEW n \in DOMAIN client.out
               PROVE  \/ Gets(client.out[n], client.args.trash)
                      \/ entity = "model_revision" /\ ~Live(client.out[n])
    BY DEF ListedIsGettable
  <2>1. client \in Readers /\ Steady
    <3>1. client \in Readers
      BY DEF ListInv, ListTypes, Idles, Counters, Panels
    <3> QED
      BY <3>1 DEF Steady
  <2>2. PICK a \in Args : a = client.args
    BY <2>1 DEF Readers
  <2>3. PICK m \in 1..Len(client.out) : m = n
    BY <2>1 DEF Readers
  <2>4. /\ a.offset + m \in 1..Cardinality(Meant(a))
        /\ client.out[m] = InOrder(Meant(a))[a.offset + m]
    BY <2>1, <2>2 DEF ListInv, OutInv
  <2>5. client.out[m] \in Meant(a)
    <3>1. Meant(a) \in SUBSET Nat /\ IsFiniteSet(Meant(a))
      BY MeantIs DEF ListInv
    <3>2. \A k \in 1..Cardinality(Meant(a)) : InOrder(Meant(a))[k] \in Meant(a)
      BY <3>1, Places
    <3> QED
      BY <2>4, <3>2
  <2>6. PICK i \in Ids : i = client.out[m] /\ (WithDeleted(a) \/ Live(i))
    BY <2>5 DEF Meant, Means
  <2>7. Gets(i, a.trash) \/ entity = "model_revision"
    BY <2>6 DEF Gets, WithDeleted, ModelGet, SkillGet, ContextGet, ExecGet, ModelFolderGet,
                SkillFolderGet, LogGet, SkillRevisionGet, ListInv, ListTypes, Entity, Trees, Revisions
  <2>8. entity = "model_revision" /\ Live(i) => Gets(i, a.trash)
    BY DEF Gets, ModelRevisionGet
  <2> QED
    BY <2>2, <2>3, <2>6, <2>7, <2>8
<1> QED
  BY <1>1, ListAlways, PTL

(* The panels of acta_gui: read again, a panel has the same row selected or
   none, and never one that it does not show.                                *)
THEOREM SelectionsFollow == Spec => SelectionFollowsItsRow
<1>1. ASSUME ListInv, Next, client.at \in {"panel", "asking", "reload"},
             client'.shown # client.shown
      PROVE  client'.sel \in {client.sel, 0} /\ client'.sel \in client'.shown \cup {0}
  <2>1. client \in Panels
    BY <1>1 DEF ListInv, ListTypes, Idles, Readers, Counters
  <2>2. Next => \/ Ordinary \/ Ask \/ Page \/ StepFails \/ CountAsk \/ CountFails \/ Again
                \/ Reload \/ Select \/ Click \/ Answer \/ RestoreClick
    BY DEF Next, Ordinary
  <2>3. ~Ordinary
    BY <1>1 DEF Ordinary, Insert, Trash, Regroup, Written
  <2>4. ~Ask /\ ~Page /\ ~StepFails /\ ~CountAsk /\ ~CountFails /\ ~Again
    BY <1>1 DEF Ask, Page, StepFails, CountAsk, CountFails, Again
  <2>5. ~Select /\ ~Click /\ ~Answer /\ ~RestoreClick
    BY <1>1, <2>1 DEF Select, Click, Answer, RestoreClick, Panels
  <2>6. PICK t \in BOOLEAN : client' = Shows(client, t, FirstPage(PanelRows(t)))
    BY <1>1, <2>2, <2>3, <2>4, <2>5 DEF Reload
  <2>7. PICK S : S = FirstPage(PanelRows(t))
    OBVIOUS
  <2>8. client'.shown = S /\ client'.sel = Kept(client, S)
    BY <2>1, <2>6, <2>7 DEF Shows, Panels
  <2> QED
    BY <2>8 DEF Kept
<1>2. ListInv /\ [Next]_listVars
      => [client.at \in {"panel", "asking", "reload"} /\ client'.shown # client.shown
          => client'.sel \in {client.sel, 0} /\ client'.sel \in client'.shown \cup {0}]_listVars
  BY <1>1
<1> QED
  BY <1>2, ListAlways, PTL DEF Spec, SelectionFollowsItsRow
=============================================================================
