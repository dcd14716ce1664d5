---------------------------- MODULE Generation_proofs ----------------------------
(***************************************************************************)
(* What building, merging and pruning do to any generation, of any finite   *)
(* size: ids are unique and never given twice, and every scan keeps reading *)
(* as it was recorded, through any chain of merges and prunings. The counts *)
(* and maxima of the queries have their usual meaning because the sets are  *)
(* finite.                                                                  *)
(***************************************************************************)
EXTENDS Generation, FiniteSetTheorems, TLAPS

(***************************************************************************)
(* Counting with Rank numbers a finite set of numbers from 1 to its size,   *)
(* one number each: what the row_number() of a build, and of the ids given  *)
(* to new scans, relies on (build.py:142-146, manage.py:219-224).           *)
(***************************************************************************)
LEMMA RankBijects ==
  ASSUME NEW S, S \subseteq Nat, IsFiniteSet(S)
  PROVE  /\ \A x \in S : Rank(x, S) \in 1..Cardinality(S)
         /\ \A x, y \in S : Rank(x, S) = Rank(y, S) => x = y
         /\ \A i \in 1..Cardinality(S) : \E x \in S : Rank(x, S) = i
<1> DEFINE Low(x) == {y \in S : y <= x}
           n == Cardinality(S)
           r == [x \in S |-> Rank(x, S)]
<1>1. n \in Nat
  BY FS_CardinalityType
<1>2. ASSUME NEW x \in S
      PROVE  IsFiniteSet(Low(x)) /\ Cardinality(Low(x)) \in 1..n
  <2>1. IsFiniteSet(Low(x)) /\ Cardinality(Low(x)) <= n
    <3>1. Low(x) \in SUBSET S
      OBVIOUS
    <3> HIDE DEF Low
    <3> QED
      BY <3>1, FS_Subset
  <2>2. Cardinality(Low(x)) # 0
    <3>1. x \in Low(x)
      OBVIOUS
    <3> HIDE DEF Low
    <3> QED
      BY <2>1, <3>1, FS_EmptySet
  <2>3. Cardinality(Low(x)) \in Nat
    <3> HIDE DEF Low
    <3> QED
      BY <2>1, FS_CardinalityType
  <2> HIDE DEF Low
  <2> QED
    BY <1>1, <2>1, <2>2, <2>3
<1>3. ASSUME NEW x \in S, NEW y \in S, x < y
      PROVE  Cardinality(Low(x)) # Cardinality(Low(y))
  <2>1. Low(x) \in SUBSET Low(y) /\ y \in Low(y) /\ y \notin Low(x)
    <3>1. \A z \in S : z <= x => z <= y
      BY <1>3
    <3>2. y <= y /\ ~(y <= x)
      BY <1>3
    <3> QED
      BY <3>1, <3>2, Zenon
  <2>2. IsFiniteSet(Low(y))
    BY <1>2
  <2> HIDE DEF Low
  <2> QED
    BY <2>1, <2>2, FS_Subset
<1>4. ASSUME NEW x \in S
      PROVE  r[x] = Cardinality(Low(x))
  <2>1. r[x] = Rank(x, S)
    OBVIOUS
  <2> QED
    BY <2>1 DEF Rank
<1>5. r \in Injection(S, 1..n)
  <2>1. r \in [S -> 1..n]
    <3>1. \A x \in S : r[x] \in 1..n
      <4> HIDE DEF r, n, Low
      <4> QED
        BY <1>2, <1>4
    <3> QED
      BY <3>1
  <2>2. \A x, y \in S : r[x] = r[y] => x = y
    <3> SUFFICES ASSUME NEW x \in S, NEW y \in S, r[x] = r[y], x # y
                 PROVE  FALSE
      OBVIOUS
    <3>1. x < y \/ y < x
      OBVIOUS
    <3>2. Cardinality(Low(x)) = Cardinality(Low(y))
      <4> HIDE DEF r, Low
      <4> QED
        BY <1>4
    <3> HIDE DEF r, Low
    <3> QED
      BY <1>3, <3>1, <3>2
  <2> HIDE DEF r
  <2> QED
    BY <2>1, <2>2 DEF Injection, IsInjective
<1>6. r \in Surjection(S, 1..n)
  <2>1. IsFiniteSet(1..n) /\ Cardinality(1..n) = n
    <3> HIDE DEF n
    <3> QED
      BY <1>1, FS_Interval
  <2> HIDE DEF r
  <2> QED
    BY <1>5, <2>1, FS_Injection
<1>7. \A x \in S : r[x] = Rank(x, S)
  OBVIOUS
<1> HIDE DEF r
<1> QED
  BY <1>5, <1>6, <1>7 DEF Injection, Surjection, IsInjective

(***************************************************************************)
(* A finite set of numbers has a largest: the one of the highest rank.      *)
(***************************************************************************)
LEMMA HasLargest ==
  ASSUME NEW S, S \subseteq Nat, IsFiniteSet(S), S # {}
  PROVE  \E x \in S : \A y \in S : y <= x
<1>1. Cardinality(S) \in 1..Cardinality(S)
  BY FS_CardinalityType, FS_EmptySet
<1>2. PICK x \in S : Rank(x, S) = Cardinality(S)
  BY <1>1, RankBijects
<1>3. {y \in S : y <= x} \in SUBSET S
  OBVIOUS
<1>4. {y \in S : y <= x} = S
  BY <1>2, <1>3, FS_Subset DEF Rank
<1> QED
  BY <1>4

(***************************************************************************)
(* And a smallest, the one of rank 1. Proofs by the smallest counterexample *)
(* use it.                                                                  *)
(***************************************************************************)
LEMMA HasSmallest ==
  ASSUME NEW S, S \subseteq Nat, IsFiniteSet(S), S # {}
  PROVE  \E x \in S : \A y \in S : x <= y
<1>1. 1 \in 1..Cardinality(S)
  BY FS_CardinalityType, FS_EmptySet
<1>2. PICK x \in S : Rank(x, S) = 1
  BY <1>1, RankBijects
<1>3. ASSUME NEW y \in S, y < x
      PROVE  FALSE
  <2>1. {z \in S : z <= x} \in SUBSET S
    OBVIOUS
  <2>2. IsFiniteSet({z \in S : z <= x}) /\ Cardinality({z \in S : z <= x}) = 1
    BY <1>2, <2>1, FS_Subset DEF Rank
  <2>3. PICK u : {z \in S : z <= x} = {u}
    BY <2>2, FS_Singleton
  <2>4. x \in {z \in S : z <= x} /\ y \in {z \in S : z <= x}
    BY <1>3
  <2> QED
    BY <1>3, <2>3, <2>4
<1> QED
  BY <1>3

(***************************************************************************)
(* So Largest, with 0 for nothing, is what COALESCE(max(id), 0) is          *)
(* (manage.py:229).                                                         *)
(***************************************************************************)
LEMMA LargestIs ==
  ASSUME NEW S, S \subseteq Nat, IsFiniteSet(S)
  PROVE  /\ Largest(S) \in Nat
         /\ \A y \in S : y <= Largest(S)
         /\ S # {} => Largest(S) \in S
<1>1. CASE S = {}
  BY <1>1 DEF Largest
<1>2. CASE S # {}
  <2>1. \E x \in S : \A y \in S : y <= x
    BY <1>2, HasLargest
  <2> QED
    BY <1>2, <2>1 DEF Largest
<1> QED
  BY <1>1, <1>2

(***************************************************************************)
(* The image of a finite set is finite.                                     *)
(***************************************************************************)
LEMMA ImageFinite ==
  ASSUME NEW f, NEW S, IsFiniteSet(S)
  PROVE  IsFiniteSet({f[x] : x \in S})
<1> DEFINE T == {f[x] : x \in S}
           h == [x \in S |-> f[x]]
<1>1. h \in Surjection(S, T)
  BY DEF Surjection
<1> HIDE DEF h, T
<1>2. IsFiniteSet(T)
  BY <1>1, FS_Surjection
<1> QED
  BY <1>2 DEF T

--------------------------------------------------------------------------------

\* Every id is below the next one that will be given, and names a scan.
Numbered(g) ==
  /\ g.next \in Nat \ {0}
  /\ Ids(g) \subseteq 1..(g.next - 1)
  /\ Stored(g) \subseteq Scans

\* Every listing has its dictionary entries, and together they read as the scan was recorded.
Readable(g) ==
  /\ DOMAIN g.descriptor \subseteq Nat \ {0} /\ IsFiniteSet(DOMAIN g.descriptor)
  /\ DOMAIN g.listing = Ids(g)
  /\ \A id \in Ids(g) :
       g.listing[id] \subseteq DOMAIN g.descriptor /\ Restored(g, id) = RowsOf[g.scan[id]]

Sound(g) == Numbered(g) /\ Readable(g)

\* h came after g: an id of h names what it named in g, or was given since.
Follows(h, g) ==
  /\ g.next <= h.next
  /\ \A id \in Ids(h) : (id \in Ids(g) /\ h.scan[id] = g.scan[id]) \/ g.next <= id

\* And none of g's scans is gone.
Extends(h, g) == Follows(h, g) /\ Stored(g) \subseteq Stored(h)

(***************************************************************************)
(* A generation has finitely many ids, all numbers below its next one.      *)
(***************************************************************************)
LEMMA IdsFinite ==
  ASSUME NEW g, Numbered(g)
  PROVE  Ids(g) \subseteq Nat /\ IsFiniteSet(Ids(g))
<1>1. IsFiniteSet(1..(g.next - 1)) /\ Ids(g) \in SUBSET (1..(g.next - 1))
  BY FS_Interval DEF Numbered
<1>2. Ids(g) \subseteq Nat
  BY DEF Numbered
<1> QED
  BY <1>1, <1>2, FS_Subset

(***************************************************************************)
(* And finitely many scans.                                                 *)
(***************************************************************************)
LEMMA StoredFinite ==
  ASSUME NEW g, Numbered(g)
  PROVE  IsFiniteSet(Stored(g))
  BY IdsFinite, ImageFinite DEF Stored, Range, Ids

(***************************************************************************)
(* A generation that follows one which follows another follows that too.    *)
(***************************************************************************)
LEMMA FollowsTransitive ==
  ASSUME NEW f, NEW g, NEW h, Numbered(f), Numbered(g), Numbered(h), Follows(g, f), Follows(h, g)
  PROVE  Follows(h, f)
<1>1. f.next \in Nat /\ g.next \in Nat /\ h.next \in Nat /\ Ids(h) \subseteq Nat
  BY IdsFinite DEF Numbered
<1> QED
  BY <1>1 DEF Follows

(***************************************************************************)
(* A generation follows itself.                                             *)
(***************************************************************************)
LEMMA FollowsItself ==
  ASSUME NEW g, Numbered(g)
  PROVE  Follows(g, g)
  BY DEF Follows, Numbered

(***************************************************************************)
(* And so with extending, which loses no scan on the way.                   *)
(***************************************************************************)
LEMMA ExtendsTransitive ==
  ASSUME NEW f, NEW g, NEW h, Numbered(f), Numbered(g), Numbered(h), Extends(g, f), Extends(h, g)
  PROVE  Extends(h, f)
  BY FollowsTransitive DEF Extends

(***************************************************************************)
(* What a build makes of the scans of a file is sound, and holds exactly    *)
(* these scans: every scan and every descriptor gets one id                 *)
(* (build.py:77-226).                                                       *)
(***************************************************************************)
THEOREM BuildSound ==
  ASSUME NEW scans, scans \subseteq Scans, IsFiniteSet(scans)
  PROVE  Sound(Build(scans)) /\ Stored(Build(scans)) = scans
<1> DEFINE rows == UNION {RowsOf[s] : s \in scans}
           n == Cardinality(scans)
           m == Cardinality(rows)
           g == Build(scans)
<1>1. scans \subseteq Nat /\ n \in Nat
  BY FS_CardinalityType, GenerationConstants
<1>2. rows \subseteq Nat /\ IsFiniteSet(rows) /\ m \in Nat
  <2>1. rows \subseteq Nat
    BY GenerationConstants
  <2>2. IsFiniteSet({RowsOf[s] : s \in scans})
    BY ImageFinite
  <2>3. \A T \in {RowsOf[s] : s \in scans} : IsFiniteSet(T)
    BY GenerationConstants
  <2>4. IsFiniteSet(rows)
    BY <2>2, <2>3, FS_UNION
  <2> HIDE DEF rows
  <2> QED
    BY <2>1, <2>4, FS_CardinalityType
<1> HIDE DEF rows
<1>3. /\ g.scan = [i \in 1..n |-> CHOOSE s \in scans : Rank(s, scans) = i]
      /\ g.descriptor = [k \in 1..m |-> CHOOSE d \in rows : Rank(d, rows) = k]
      /\ g.listing = [i \in DOMAIN g.scan |-> {Rank(d, rows) : d \in RowsOf[g.scan[i]]}]
      /\ g.next = 1 + n
  BY DEF Build, rows
<1> HIDE DEF g, n, m
<1>4. \A i \in 1..n : g.scan[i] \in scans /\ Rank(g.scan[i], scans) = i
  <2> TAKE i \in 1..n
  <2>1. \E s \in scans : Rank(s, scans) = i
    BY <1>1, RankBijects DEF n
  <2>2. g.scan[i] = CHOOSE s \in scans : Rank(s, scans) = i
    BY <1>3
  <2> QED
    BY <2>1, <2>2
<1>5. \A s \in scans : Rank(s, scans) \in 1..n /\ g.scan[Rank(s, scans)] = s
  <2> TAKE s \in scans
  <2>1. Rank(s, scans) \in 1..n
    BY <1>1, RankBijects DEF n
  <2>2. Rank(g.scan[Rank(s, scans)], scans) = Rank(s, scans) /\ g.scan[Rank(s, scans)] \in scans
    BY <2>1, <1>4
  <2> QED
    BY <1>1, <2>1, <2>2, RankBijects
<1>6. \A k \in 1..m : g.descriptor[k] \in rows /\ Rank(g.descriptor[k], rows) = k
  <2> TAKE k \in 1..m
  <2>1. \E d \in rows : Rank(d, rows) = k
    BY <1>2, RankBijects DEF m
  <2>2. g.descriptor[k] = CHOOSE d \in rows : Rank(d, rows) = k
    BY <1>3
  <2> QED
    BY <2>1, <2>2
<1>7. \A d \in rows : Rank(d, rows) \in 1..m /\ g.descriptor[Rank(d, rows)] = d
  <2> TAKE d \in rows
  <2>1. Rank(d, rows) \in 1..m
    BY <1>2, RankBijects DEF m
  <2>2. Rank(g.descriptor[Rank(d, rows)], rows) = Rank(d, rows)
        /\ g.descriptor[Rank(d, rows)] \in rows
    BY <2>1, <1>6
  <2> QED
    BY <1>2, <2>1, <2>2, RankBijects
<1>8. Stored(g) = scans
  <2>1. DOMAIN g.scan = 1..n
    BY <1>3
  <2> QED
    BY <1>4, <1>5, <2>1 DEF Stored, Range
<1>9. Numbered(g)
  BY <1>1, <1>3, <1>8 DEF Numbered, Ids
<1>10. Readable(g)
  <2>1. DOMAIN g.descriptor \subseteq Nat \ {0} /\ IsFiniteSet(DOMAIN g.descriptor)
    BY <1>2, <1>3, FS_Interval
  <2>2. ASSUME NEW id \in Ids(g)
        PROVE  g.listing[id] \subseteq DOMAIN g.descriptor /\ Restored(g, id) = RowsOf[g.scan[id]]
    <3>1. RowsOf[g.scan[id]] \subseteq rows
      BY <1>3, <1>4 DEF Ids, rows
    <3>2. g.listing[id] = {Rank(d, rows) : d \in RowsOf[g.scan[id]]}
      BY <1>3 DEF Ids
    <3>3. \A d \in RowsOf[g.scan[id]] :
             Rank(d, rows) \in DOMAIN g.descriptor /\ g.descriptor[Rank(d, rows)] = d
      BY <1>3, <1>7, <3>1
    <3> QED
      BY <3>2, <3>3 DEF Restored
  <2>3. DOMAIN g.listing = Ids(g)
    BY <1>3 DEF Ids
  <2> QED
    BY <2>1, <2>2, <2>3 DEF Readable
<1> QED
  BY <1>8, <1>9, <1>10 DEF Sound, g

(***************************************************************************)
(* An incoming descriptor is given the base's id where the base knows it,   *)
(* and otherwise one that the base does not use, because it is past its     *)
(* maximum (manage.py:228-236).                                             *)
(***************************************************************************)
LEMMA MapAgrees ==
  ASSUME NEW g, NEW in, Readable(g), Readable(in), NEW k \in DOMAIN in.descriptor
  PROVE  LET j == DescriptorMap(g, in)[k] IN
         /\ j \in Nat \ {0}
         /\ \/ j \in DOMAIN g.descriptor /\ g.descriptor[j] = in.descriptor[k]
            \/ j \notin DOMAIN g.descriptor /\ j = Largest(DOMAIN g.descriptor) + k
<1> DEFINE j == DescriptorMap(g, in)[k]
<1>1. DOMAIN g.descriptor \subseteq Nat \ {0} /\ k \in Nat \ {0}
  BY DEF Readable
<1>2. Largest(DOMAIN g.descriptor) \in Nat
      /\ \A x \in DOMAIN g.descriptor : x <= Largest(DOMAIN g.descriptor)
  BY LargestIs DEF Readable
<1>3. CASE in.descriptor[k] \in Range(g.descriptor)
  <2>1. j = CHOOSE i \in DOMAIN g.descriptor : g.descriptor[i] = in.descriptor[k]
    BY <1>3 DEF DescriptorMap
  <2>2. \E i \in DOMAIN g.descriptor : g.descriptor[i] = in.descriptor[k]
    BY <1>3 DEF Range
  <2>3. j \in DOMAIN g.descriptor /\ g.descriptor[j] = in.descriptor[k]
    BY <2>1, <2>2
  <2> QED
    BY <1>1, <2>3
<1>4. CASE in.descriptor[k] \notin Range(g.descriptor)
  <2>1. j = Largest(DOMAIN g.descriptor) + k
    BY <1>4 DEF DescriptorMap
  <2>2. j \in Nat \ {0} /\ j > Largest(DOMAIN g.descriptor)
    BY <1>1, <1>2, <2>1
  <2>3. j \notin DOMAIN g.descriptor
    BY <1>1, <1>2, <2>2
  <2> QED
    BY <2>1, <2>2, <2>3
<1> QED
  BY <1>3, <1>4

(***************************************************************************)
(* The merged dictionary reads every base id as before and every mapped id  *)
(* as the incoming dictionary read it, as no two unknown descriptors get    *)
(* the same id (manage.py:228-243).                                         *)
(***************************************************************************)
LEMMA MergedDictionary ==
  ASSUME NEW g, NEW in, Readable(g), Readable(in), NEW d,
         d = Extend([k \in Range(DescriptorMap(g, in)) |->
                       in.descriptor[CHOOSE j \in DOMAIN DescriptorMap(g, in) :
                                       DescriptorMap(g, in)[j] = k]],
                    g.descriptor)
  PROVE  /\ DOMAIN d \subseteq Nat \ {0} /\ IsFiniteSet(DOMAIN d)
         /\ \A j \in DOMAIN g.descriptor : j \in DOMAIN d /\ d[j] = g.descriptor[j]
         /\ \A k \in DOMAIN in.descriptor :
              DescriptorMap(g, in)[k] \in DOMAIN d /\ d[DescriptorMap(g, in)[k]] = in.descriptor[k]
<1> DEFINE map == DescriptorMap(g, in)
           coded(k) == CHOOSE j \in DOMAIN map : map[j] = k
           new == [k \in Range(map) |-> in.descriptor[coded(k)]]
<1>1. DOMAIN map = DOMAIN in.descriptor
  BY DEF DescriptorMap
<1>2. \A k \in DOMAIN map :
        /\ map[k] \in Nat \ {0}
        /\ \/ map[k] \in DOMAIN g.descriptor /\ g.descriptor[map[k]] = in.descriptor[k]
           \/ map[k] \notin DOMAIN g.descriptor /\ map[k] = Largest(DOMAIN g.descriptor) + k
  BY <1>1, MapAgrees
<1> HIDE DEF map
<1>3. Range(map) \subseteq Nat \ {0} /\ IsFiniteSet(Range(map))
  BY <1>1, <1>2, ImageFinite DEF Range, Readable
<1>4. DOMAIN d = Range(map) \cup DOMAIN g.descriptor
  BY DEF Extend, map
<1>5. DOMAIN d \subseteq Nat \ {0} /\ IsFiniteSet(DOMAIN d)
  <2>1. DOMAIN g.descriptor \subseteq Nat \ {0} /\ IsFiniteSet(DOMAIN g.descriptor)
    BY DEF Readable
  <2>2. IsFiniteSet(Range(map) \cup DOMAIN g.descriptor)
    BY <1>3, <2>1, FS_Union
  <2> QED
    BY <1>3, <1>4, <2>1, <2>2
<1>6. \A j \in DOMAIN g.descriptor : j \in DOMAIN d /\ d[j] = g.descriptor[j]
  BY DEF Extend
<1>7. \A j \in DOMAIN d \ DOMAIN g.descriptor : d[j] = in.descriptor[coded(j)]
  <2>1. d = Extend(new, g.descriptor) /\ DOMAIN new = Range(map)
    BY DEF map
  <2>2. ASSUME NEW j \in DOMAIN d \ DOMAIN g.descriptor
        PROVE  d[j] = new[j] /\ j \in Range(map)
    <3> HIDE DEF new
    <3> QED
      BY <1>4, <2>1 DEF Extend
  <2> QED
    BY <2>2
<1>8. ASSUME NEW k \in DOMAIN in.descriptor
      PROVE  map[k] \in DOMAIN d /\ d[map[k]] = in.descriptor[k]
  <2>1. map[k] \in DOMAIN d
    BY <1>1, <1>4 DEF Range
  <2>2. CASE map[k] \in DOMAIN g.descriptor
    BY <1>1, <1>2, <1>6, <2>1, <2>2
  <2>3. CASE map[k] \notin DOMAIN g.descriptor
    <3>1. coded(map[k]) \in DOMAIN map /\ map[coded(map[k])] = map[k]
      BY <1>1
    <3> DEFINE j == coded(map[k])
    <3>2. /\ map[k] = Largest(DOMAIN g.descriptor) + k
          /\ map[j] = Largest(DOMAIN g.descriptor) + j
      BY <1>1, <1>2, <2>3, <3>1
    <3>3. Largest(DOMAIN g.descriptor) \in Nat /\ k \in Nat /\ j \in Nat
      BY <1>1, <3>1, LargestIs DEF Readable
    <3>4. j = k
      BY <3>1, <3>2, <3>3
    <3> QED
      BY <1>7, <2>1, <2>3, <3>4
  <2> QED
    BY <2>2, <2>3
<1> QED
  BY <1>5, <1>6, <1>8 DEF map

(***************************************************************************)
(* The ids given to the fresh scans are the next ones, one for each         *)
(* (manage.py:202-224, 262-263).                                            *)
(***************************************************************************)
LEMMA FreshNumbers ==
  ASSUME NEW g, NEW in, Numbered(g), Numbered(in)
  PROVE  LET fresh == Fresh(g, in)
             added == g.next..(g.next + Cardinality(fresh) - 1)
             source(id) == CHOOSE i \in fresh : g.next + Rank(i, fresh) - 1 = id
         IN  /\ Cardinality(fresh) \in Nat
             /\ \A id \in added : source(id) \in fresh
             /\ \A i \in fresh : \E id \in added : source(id) = i
<1> DEFINE fresh == Fresh(g, in)
           n == Cardinality(fresh)
           added == g.next..(g.next + n - 1)
           source(id) == CHOOSE i \in fresh : g.next + Rank(i, fresh) - 1 = id
<1>1. fresh \subseteq Nat /\ IsFiniteSet(fresh)
  <2>1. fresh \in SUBSET Ids(in)
    BY DEF Fresh
  <2> HIDE DEF fresh
  <2> QED
    BY <2>1, IdsFinite, FS_Subset
<1> HIDE DEF fresh
<1>2. n \in Nat /\ g.next \in Nat
  BY <1>1, FS_CardinalityType DEF Numbered
<1>3. /\ \A i \in fresh : Rank(i, fresh) \in 1..n
      /\ \A i, j \in fresh : Rank(i, fresh) = Rank(j, fresh) => i = j
      /\ \A k \in 1..n : \E i \in fresh : Rank(i, fresh) = k
  BY <1>1, RankBijects
<1> HIDE DEF n
<1>4. ASSUME NEW id \in added
      PROVE  source(id) \in fresh /\ g.next + Rank(source(id), fresh) - 1 = id
  <2>1. id - g.next + 1 \in 1..n
    BY <1>2
  <2>2. PICK i \in fresh : Rank(i, fresh) = id - g.next + 1
    BY <1>3, <2>1
  <2>3. g.next + Rank(i, fresh) - 1 = id
    BY <1>2, <2>2
  <2> QED
    BY <2>3
<1>5. ASSUME NEW i \in fresh
      PROVE  \E id \in added : source(id) = i
  <2> DEFINE id == g.next + Rank(i, fresh) - 1
  <2>1. id \in added
    BY <1>2, <1>3
  <2>2. source(id) \in fresh /\ g.next + Rank(source(id), fresh) - 1 = id
    BY <1>4, <2>1
  <2>3. Rank(source(id), fresh) \in 1..n /\ Rank(i, fresh) \in 1..n
    BY <1>3, <2>2
  <2>4. Rank(source(id), fresh) = Rank(i, fresh)
    BY <1>2, <2>2, <2>3
  <2>5. source(id) = i
    BY <1>3, <2>2, <2>4
  <2> QED
    BY <2>1, <2>5
<1>6. \A id \in added : source(id) \in fresh
  BY <1>4
<1> QED
  BY <1>2, <1>5, <1>6 DEF fresh, n

(***************************************************************************)
(* Merging a sound generation into a sound one gives a sound one: each old  *)
(* scan keeps its id and reads as before, each new one gets an id never     *)
(* used and reads as it did in its file, and no scan of either is missing   *)
(* (manage.py:199-263).                                                     *)
(***************************************************************************)
THEOREM MergeSound ==
  ASSUME NEW g, NEW in, Sound(g), Sound(in)
  PROVE  /\ Sound(Merge(g, in)) /\ Follows(Merge(g, in), g)
         /\ Stored(Merge(g, in)) = Stored(g) \cup Stored(in)
<1> DEFINE h == Merge(g, in)
           fresh == Fresh(g, in)
           n == Cardinality(fresh)
           added == g.next..(g.next + n - 1)
           source(id) == CHOOSE i \in fresh : g.next + Rank(i, fresh) - 1 = id
           map == DescriptorMap(g, in)
<1>1. \A i \in fresh : i \in Ids(in) /\ in.scan[i] \notin Stored(g)
  BY DEF Fresh
<1>2. \A i \in Ids(in) \ fresh : in.scan[i] \in Stored(g)
  BY DEF Fresh
<1>3. CASE fresh = {}
  <2>1. h = g
    BY <1>3 DEF Merge
  <2>2. Stored(in) \subseteq Stored(g)
    BY <1>2, <1>3 DEF Stored, Ids, Range
  <2> QED
    BY <2>1, <2>2, FollowsItself DEF Sound
<1>4. CASE fresh # {}
  <2>1. /\ h.scan = Extend(g.scan, [id \in added |-> in.scan[source(id)]])
        /\ h.listing = Extend(g.listing,
                              [id \in added |-> {map[k] : k \in in.listing[source(id)]}])
        /\ h.next = g.next + n
    BY <1>4 DEF Merge
  <2>2. h.descriptor = Extend([k \in Range(map) |->
                                 in.descriptor[CHOOSE j \in DOMAIN map : map[j] = k]],
                              g.descriptor)
    BY <1>4 DEF Merge
  <2>3. /\ n \in Nat
        /\ \A id \in added : source(id) \in fresh
        /\ \A i \in fresh : \E id \in added : source(id) = i
    BY FreshNumbers DEF Sound
  <2>4. /\ DOMAIN h.descriptor \subseteq Nat \ {0} /\ IsFiniteSet(DOMAIN h.descriptor)
        /\ \A j \in DOMAIN g.descriptor :
             j \in DOMAIN h.descriptor /\ h.descriptor[j] = g.descriptor[j]
        /\ \A k \in DOMAIN in.descriptor :
             map[k] \in DOMAIN h.descriptor /\ h.descriptor[map[k]] = in.descriptor[k]
    BY <2>2, MergedDictionary DEF Sound
  <2> HIDE DEF h, fresh, n, source, map
  <2>5. g.next \in Nat \ {0} /\ Ids(g) \subseteq 1..(g.next - 1) /\ Ids(g) \cap added = {}
    BY <2>3 DEF Sound, Numbered
  <2>6. /\ Ids(h) = Ids(g) \cup added
        /\ \A id \in added : h.scan[id] = in.scan[source(id)]
        /\ \A id \in Ids(g) : h.scan[id] = g.scan[id]
    BY <2>1, <2>5 DEF Extend, Ids
  <2>7. /\ \A id \in added : h.listing[id] = {map[k] : k \in in.listing[source(id)]}
        /\ \A id \in Ids(g) : id \in DOMAIN g.listing => h.listing[id] = g.listing[id]
    BY <2>1, <2>5 DEF Extend
  <2>8. Stored(h) = Stored(g) \cup Stored(in)
    <3>1. ASSUME NEW id \in Ids(h)
          PROVE  h.scan[id] \in Stored(g) \cup Stored(in)
      BY <1>1, <2>3, <2>6 DEF Stored, Range, Ids
    <3>2. ASSUME NEW id \in Ids(g)
          PROVE  \E j \in Ids(h) : h.scan[j] = g.scan[id]
      BY <2>6
    <3>3. ASSUME NEW i \in Ids(in)
          PROVE  \E j \in Ids(h) : h.scan[j] = in.scan[i]
      <4>1. CASE i \in fresh
        BY <4>1, <2>3, <2>6
      <4>2. CASE i \notin fresh
        BY <4>2, <1>2, <3>2 DEF Stored, Range, Ids
      <4> QED
        BY <4>1, <4>2
    <3> QED
      BY <3>1, <3>2, <3>3 DEF Stored, Range, Ids
  <2>9. Numbered(h)
    <3>1. h.next \in Nat \ {0} /\ Ids(h) \subseteq 1..(h.next - 1)
      BY <2>1, <2>3, <2>5, <2>6
    <3>2. Stored(h) \subseteq Scans
      BY <2>8 DEF Sound, Numbered
    <3> QED
      BY <3>1, <3>2 DEF Numbered
  <2>10. Follows(h, g)
    BY <2>1, <2>3, <2>5, <2>6 DEF Follows
  <2>11. ASSUME NEW id \in Ids(h)
         PROVE  h.listing[id] \subseteq DOMAIN h.descriptor /\ Restored(h, id) = RowsOf[h.scan[id]]
    <3>1. CASE id \in Ids(g)
      <4>1. g.listing[id] \subseteq DOMAIN g.descriptor /\ Restored(g, id) = RowsOf[g.scan[id]]
        BY <3>1 DEF Sound, Readable
      <4>2. h.listing[id] = g.listing[id] /\ h.scan[id] = g.scan[id]
        BY <3>1, <2>6, <2>7 DEF Sound, Readable
      <4> QED
        BY <4>1, <4>2, <2>4 DEF Restored
    <3>2. CASE id \in added
      <4>1. PICK i \in Ids(in) : i = source(id)
        BY <3>2, <1>1, <2>3
      <4>2. in.listing[i] \subseteq DOMAIN in.descriptor /\ Restored(in, i) = RowsOf[in.scan[i]]
        BY DEF Sound, Readable
      <4>3. h.listing[id] = {map[k] : k \in in.listing[i]} /\ h.scan[id] = in.scan[i]
        BY <3>2, <4>1, <2>6, <2>7
      <4>4. {h.descriptor[j] : j \in {map[k] : k \in in.listing[i]}}
              = {in.descriptor[k] : k \in in.listing[i]}
        BY <2>4, <4>2
      <4> QED
        BY <2>4, <4>2, <4>3, <4>4 DEF Restored
    <3> QED
      BY <3>1, <3>2, <2>6
  <2>12. DOMAIN h.listing = Ids(h)
    BY <2>1, <2>6 DEF Extend, Sound, Readable
  <2>13. Readable(h)
    BY <2>4, <2>11, <2>12 DEF Readable
  <2> QED
    BY <2>8, <2>9, <2>10, <2>13 DEF Sound, h
<1> QED
  BY <1>3, <1>4

(***************************************************************************)
(* Leaving scans out keeps the others readable under their ids, though the  *)
(* dictionary is cut to what they use, and gives no id back                 *)
(* (manage.py:192-198, 264-267).                                            *)
(***************************************************************************)
THEOREM PruneSound ==
  ASSUME NEW g, NEW removed, Sound(g)
  PROVE  /\ Sound(Prune(g, removed)) /\ Follows(Prune(g, removed), g)
         /\ Ids(Prune(g, removed)) = Ids(g) \ removed
         /\ \A id \in Ids(g) \ removed : Prune(g, removed).scan[id] = g.scan[id]
<1> DEFINE h == Prune(g, removed)
           kept == Ids(g) \ removed
           used == UNION {g.listing[id] : id \in kept}
<1>1. /\ h.scan = [id \in kept |-> g.scan[id]]
      /\ h.listing = [id \in kept |-> g.listing[id]]
      /\ h.descriptor = [k \in used |-> g.descriptor[k]]
      /\ h.next = g.next
  BY DEF Prune, Restrict
<1> HIDE DEF h
<1>2. Ids(h) = kept /\ \A id \in kept : h.scan[id] = g.scan[id] /\ id \in Ids(g)
  BY <1>1 DEF Ids
<1>3. Stored(h) \subseteq Stored(g)
  BY <1>2 DEF Stored, Range, Ids
<1>4. Numbered(h)
  BY <1>1, <1>2, <1>3 DEF Sound, Numbered
<1>5. Follows(h, g)
  BY <1>1, <1>2 DEF Follows, Sound, Numbered
<1>6. DOMAIN h.descriptor \subseteq Nat \ {0} /\ IsFiniteSet(DOMAIN h.descriptor)
  <2>1. DOMAIN g.descriptor \subseteq Nat \ {0} /\ IsFiniteSet(DOMAIN g.descriptor)
    BY DEF Sound, Readable
  <2>2. used \subseteq DOMAIN g.descriptor
    BY DEF Sound, Readable
  <2> QED
    BY <1>1, <2>1, <2>2, FS_Subset
<1>7. ASSUME NEW id \in Ids(h)
      PROVE  h.listing[id] \subseteq DOMAIN h.descriptor /\ Restored(h, id) = RowsOf[h.scan[id]]
  <2>1. Restored(g, id) = RowsOf[g.scan[id]]
    BY <1>2 DEF Sound, Readable
  <2>2. h.listing[id] = g.listing[id] /\ g.listing[id] \subseteq used
    BY <1>1, <1>2
  <2>3. \A k \in g.listing[id] : k \in DOMAIN h.descriptor /\ h.descriptor[k] = g.descriptor[k]
    BY <1>1, <2>2
  <2> QED
    BY <1>2, <2>1, <2>2, <2>3 DEF Restored
<1>8. Readable(h)
  BY <1>1, <1>2, <1>6, <1>7 DEF Readable
<1> QED
  BY <1>2, <1>4, <1>5, <1>8 DEF Sound, h

(***************************************************************************)
(* Among some scans of a generation one is the newest: the latest time, and *)
(* of those the largest id (retention.py:42).                               *)
(***************************************************************************)
LEMMA HasNewest ==
  ASSUME NEW g, Numbered(g), NEW S, S \subseteq Ids(g), S # {}
  PROVE  \E i \in S : \A j \in S : ~Newer(g, j, i) /\ TimeOf[g.scan[j]] <= TimeOf[g.scan[i]]
<1> DEFINE time == [i \in S |-> TimeOf[g.scan[i]]]
           times == {time[i] : i \in S}
<1>1. S \subseteq Nat /\ IsFiniteSet(S)
  BY IdsFinite, FS_Subset
<1>2. \A i \in S : time[i] = TimeOf[g.scan[i]] /\ time[i] \in Nat
  BY GenerationConstants DEF Numbered, Stored, Range, Ids
<1> HIDE DEF time
<1>3. times \subseteq Nat /\ times # {} /\ IsFiniteSet(times)
  BY <1>1, <1>2, ImageFinite
<1>4. PICK m \in times : \A x \in times : x <= m
  <2> HIDE DEF times
  <2> QED
    BY <1>3, HasLargest
<1> DEFINE last == {i \in S : time[i] = m}
<1>5. last \subseteq Nat /\ last # {} /\ IsFiniteSet(last)
  <2>1. last \in SUBSET S
    OBVIOUS
  <2>2. IsFiniteSet(last)
    <3> HIDE DEF last
    <3> QED
      BY <1>1, <2>1, FS_Subset
  <2> QED
    BY <1>1, <2>1, <2>2
<1>6. PICK i \in last : \A j \in last : j <= i
  <2> HIDE DEF last
  <2> QED
    BY <1>5, HasLargest
<1>7. ASSUME NEW j \in S
      PROVE  ~Newer(g, j, i) /\ TimeOf[g.scan[j]] <= TimeOf[g.scan[i]]
  <2>1. i \in S /\ time[i] = m /\ time[j] <= m
    BY <1>4
  <2>2. time[j] = m => j <= i
    BY <1>6
  <2>3. i \in Nat /\ j \in Nat /\ time[i] \in Nat /\ time[j] \in Nat
    BY <1>1, <1>2
  <2>4. TimeOf[g.scan[i]] = time[i] /\ TimeOf[g.scan[j]] = time[j]
    BY <1>2
  <2> QED
    BY <2>1, <2>2, <2>3, <2>4 DEF Newer
<1> QED
  BY <1>7

(***************************************************************************)
(* A scan within the window is left out only when a scan of the same market *)
(* and day, at least as late, stays: PerDay is at least 1 and the newest of *)
(* a bucket is protected, whatever the cap (retention.py:19-49).            *)
(***************************************************************************)
THEOREM RetentionKeepsNewest ==
  ASSUME NEW g, NEW cutoff \in Nat, Sound(g), NEW h, h = Prune(g, Plan(g, cutoff)),
         NEW s \in Stored(g) \ Stored(h), ~(TimeOf[s] < cutoff)
  PROVE  \E t \in Stored(g) \cap Stored(h) :
           MarketOf[t] = MarketOf[s] /\ DayOf[t] = DayOf[s] /\ TimeOf[t] >= TimeOf[s]
<1> DEFINE eligible == Eligible(g, cutoff)
<1>1. PICK i \in Ids(g) : g.scan[i] = s
  BY DEF Stored, Range, Ids
<1>2. Numbered(g) /\ s \in Scans /\ TimeOf[s] \in Nat
  BY GenerationConstants DEF Sound, Numbered
<1>3. i \in eligible
  BY <1>1, <1>2 DEF Eligible
<1> DEFINE bucket == {j \in eligible : SameBucket(g, i, j)}
<1>4. i \in bucket /\ bucket \subseteq Ids(g)
  BY <1>3 DEF SameBucket, Eligible
<1>5. PICK k \in bucket :
        \A j \in bucket : ~Newer(g, j, k) /\ TimeOf[g.scan[j]] <= TimeOf[g.scan[k]]
  <2> HIDE DEF bucket
  <2> QED
    BY <1>2, <1>4, HasNewest
<1>6. {j \in eligible : SameBucket(g, k, j) /\ Newer(g, j, k)} = {}
  BY <1>5 DEF SameBucket
<1>7. k \in Protected(g, cutoff)
  <2>1. Cardinality({j \in eligible : SameBucket(g, k, j) /\ Newer(g, j, k)}) = 0
    BY <1>6, FS_EmptySet
  <2> QED
    BY <2>1, GenerationConstants DEF Protected
<1>8. k \notin Plan(g, cutoff)
  BY <1>7 DEF Plan, Redundant
<1>9. k \in Ids(h) /\ h.scan[k] = g.scan[k]
  BY <1>4, <1>8, PruneSound
<1>10. g.scan[k] \in Stored(g) \cap Stored(h)
  BY <1>4, <1>9 DEF Stored, Range, Ids
<1>11. TimeOf[g.scan[k]] \in Nat /\ TimeOf[s] <= TimeOf[g.scan[k]]
  BY <1>1, <1>2, <1>4, <1>5, <1>10, GenerationConstants DEF Sound, Numbered
<1> QED
  BY <1>1, <1>2, <1>10, <1>11 DEF SameBucket

--------------------------------------------------------------------------------

\* h[i] is the base with the first i builds merged into it.
Merges(h, base, build, n) ==
  h = [i \in 0..n |-> IF i = 0 THEN base ELSE Merge(h[i - 1], build[i])]

(***************************************************************************)
(* The loop that merges one file after another into the base                *)
(* (manage.py:172-182, 199-260) computes something: there is a function     *)
(* that satisfies its recursion. Shown by the smallest length that would    *)
(* have none.                                                               *)
(***************************************************************************)
LEMMA MergesExist ==
  ASSUME NEW base, NEW build, NEW n \in Nat
  PROVE  \E h : Merges(h, base, build, n)
<1> DEFINE P(m) == \E h : Merges(h, base, build, m)
           bad == {m \in 0..n : ~P(m)}
<1>1. SUFFICES ASSUME bad # {}
               PROVE  FALSE
  <2>1. n \in 0..n
    OBVIOUS
  <2>2. n \notin bad => P(n)
    BY <2>1
  <2> HIDE DEF bad
  <2> QED
    BY <2>2
<1>2. bad \subseteq Nat /\ IsFiniteSet(bad)
  <2>1. bad \in SUBSET (0..n) /\ IsFiniteSet(0..n)
    BY FS_Interval
  <2>2. \A k \in bad : k \in Nat
    OBVIOUS
  <2> HIDE DEF bad
  <2>3. IsFiniteSet(bad)
    BY <2>1, FS_Subset
  <2> QED
    BY <2>2, <2>3
<1>3. PICK m \in bad : \A k \in bad : m <= k
  <2> HIDE DEF bad
  <2> QED
    BY <1>1, <1>2, HasSmallest
<1>4. m \in 0..n /\ ~P(m)
  BY <1>3
<1>5. P(0)
  <2> DEFINE h == [i \in 0..0 |-> base]
  <2>1. h = [i \in 0..0 |-> IF i = 0 THEN base ELSE Merge(h[i - 1], build[i])]
    OBVIOUS
  <2> HIDE DEF h
  <2> QED
    BY <2>1 DEF Merges
<1>6. m # 0
  BY <1>4, <1>5
<1>7. P(m - 1)
  <2>1. m - 1 \in 0..n /\ ~(m <= m - 1)
    BY <1>4, <1>6
  <2>2. m - 1 \notin bad
    BY <1>3, <2>1
  <2> HIDE DEF P
  <2> QED
    BY <2>1, <2>2
<1>8. PICK h : h = [i \in 0..(m - 1) |-> IF i = 0 THEN base ELSE Merge(h[i - 1], build[i])]
  BY <1>7 DEF Merges
<1> DEFINE all == [i \in 0..m |-> IF i = m THEN Merge(h[m - 1], build[m]) ELSE h[i]]
           right == [i \in 0..m |-> IF i = 0 THEN base ELSE Merge(all[i - 1], build[i])]
<1>9. ASSUME NEW i \in 0..m
      PROVE  all[i] = right[i]
  <2>1. CASE i = m
    <3>1. all[m - 1] = h[m - 1]
      BY <1>4, <1>6
    <3> QED
      BY <2>1, <3>1, <1>4, <1>6
  <2>2. CASE i # m /\ i # 0
    <3>1. i \in 0..(m - 1) /\ i - 1 \in 0..m /\ i - 1 # m
      BY <2>2, <1>4
    <3>2. all[i - 1] = h[i - 1] /\ all[i] = h[i]
      BY <3>1, <2>2
    <3>3. h[i] = Merge(h[i - 1], build[i])
      BY <1>8, <3>1, <2>2
    <3> QED
      BY <3>2, <3>3, <2>2
  <2>3. CASE i # m /\ i = 0
    <3>1. i \in 0..(m - 1)
      BY <2>3, <1>4
    <3>2. h[i] = base
      BY <1>8, <3>1, <2>3
    <3> QED
      BY <3>2, <2>3
  <2> QED
    BY <2>1, <2>2, <2>3
<1>10. all = right
  <2>1. DOMAIN all = 0..m /\ DOMAIN right = 0..m
    OBVIOUS
  <2>2. all = [i \in 0..m |-> all[i]] /\ right = [i \in 0..m |-> right[i]]
    OBVIOUS
  <2> HIDE DEF all, right
  <2> QED
    BY <1>9, <2>2, Zenon
<1>11. P(m)
  <2> HIDE DEF all
  <2> QED
    BY <1>10 DEF Merges
<1> QED
  BY <1>4, <1>11

(***************************************************************************)
(* After the loop the generation is sound, extends the base, and holds the  *)
(* scans of every file that was merged; again by the smallest               *)
(* counterexample (manage.py:172-182, 199-260).                             *)
(***************************************************************************)
LEMMA MergesSound ==
  ASSUME NEW base, Sound(base), NEW build, NEW n \in Nat,
         \A k \in 1..n : Sound(build[k]),
         NEW h, Merges(h, base, build, n)
  PROVE  /\ Sound(h[n]) /\ Extends(h[n], base)
         /\ \A k \in 1..n : Stored(build[k]) \subseteq Stored(h[n])
<1> DEFINE P(m) == /\ Sound(h[m]) /\ Extends(h[m], base)
                   /\ \A k \in 1..m : Stored(build[k]) \subseteq Stored(h[m])
           bad == {m \in 0..n : ~P(m)}
<1>1. SUFFICES ASSUME bad # {}
               PROVE  FALSE
  <2>1. n \in 0..n
    OBVIOUS
  <2>2. n \notin bad => P(n)
    BY <2>1
  <2> HIDE DEF bad
  <2> QED
    BY <2>2
<1>2. bad \subseteq Nat /\ IsFiniteSet(bad)
  <2>1. bad \in SUBSET (0..n) /\ IsFiniteSet(0..n)
    BY FS_Interval
  <2>2. \A k \in bad : k \in Nat
    OBVIOUS
  <2> HIDE DEF bad
  <2>3. IsFiniteSet(bad)
    BY <2>1, FS_Subset
  <2> QED
    BY <2>2, <2>3
<1>3. PICK m \in bad : \A k \in bad : m <= k
  <2> HIDE DEF bad
  <2> QED
    BY <1>1, <1>2, HasSmallest
<1>4. m \in 0..n /\ ~P(m)
  BY <1>3
<1>5. P(0)
  <2>1. h[0] = base
    BY DEF Merges
  <2> QED
    BY <2>1, FollowsItself DEF Extends, Sound
<1>6. m # 0
  BY <1>4, <1>5
<1>7. P(m - 1)
  <2>1. m - 1 \in 0..n /\ ~(m <= m - 1)
    BY <1>4, <1>6
  <2>2. m - 1 \notin bad
    BY <1>3, <2>1
  <2> HIDE DEF P
  <2> QED
    BY <2>1, <2>2
<1>8. h[m] = Merge(h[m - 1], build[m])
  BY <1>4, <1>6 DEF Merges
<1>9. Sound(h[m - 1]) /\ Sound(build[m])
  BY <1>4, <1>6, <1>7
<1>10. /\ Sound(h[m]) /\ Follows(h[m], h[m - 1])
       /\ Stored(h[m]) = Stored(h[m - 1]) \cup Stored(build[m])
  BY <1>8, <1>9, MergeSound
<1>11. Extends(h[m], base)
  <2>1. Extends(h[m], h[m - 1]) /\ Extends(h[m - 1], base)
    BY <1>7, <1>10 DEF Extends
  <2> QED
    BY <2>1, <1>9, <1>10, ExtendsTransitive DEF Sound
<1>12. \A k \in 1..m : Stored(build[k]) \subseteq Stored(h[m])
  <2> TAKE k \in 1..m
  <2>1. k = m \/ k \in 1..(m - 1)
    BY <1>4
  <2> QED
    BY <2>1, <1>7, <1>10
<1> QED
  BY <1>4, <1>10, <1>11, <1>12
================================================================================
