--------------------------- MODULE PipelineProofs ---------------------------
(***************************************************************************)
(* From a directory to a manifest that is reviewed, for any directories,   *)
(* runs and faults: the sort puts images that can be compared in order,    *)
(* and whatever the runs write over each other is a manifest that one of   *)
(* them made of some state of the directory. The last section is about     *)
(* how a manifest is written.                                              *)
(***************************************************************************)
EXTENDS Pipeline, AtomicFile, SequenceTheorems, WellFoundedInduction, TLAPS

-----------------------------------------------------------------------------
(* Induction over numbers and over the images that have been sorted.       *)

(* A set of numbers that is not empty has a least one.                     *)
LEMMA Least ==
  ASSUME NEW S, S \subseteq Nat, S # {}
  PROVE  \E m \in S : \A n \in S : m <= n
<1>1. PICK m \in S : \A n \in S : <<n, m>> \notin OpToRel(<, Nat)
  BY NatLessThanWellFounded, WFMin
<1>2. ASSUME NEW n \in S PROVE m <= n
  <2>1. <<n, m>> \notin OpToRel(<, Nat)
    BY <1>1
  <2>2. ~(n < m)
    BY <2>1 DEF OpToRel
  <2> QED
    BY <2>2
<1> QED
  BY <1>2

LEMMA Greatest ==
  ASSUME NEW L \in Nat, NEW S, S \subseteq 1..L, S # {}
  PROVE  \E m \in S : \A n \in S : n <= m
<1> DEFINE rest == {L - i : i \in S}
<1>1. rest \subseteq Nat /\ rest # {}
  <2>1. \A i \in S : L - i \in Nat
    OBVIOUS
  <2> QED
    BY <2>1
<1>2. PICK k \in rest : \A n \in rest : k <= n
  BY <1>1, Least
<1>3. PICK m \in S : k = L - m
  BY <1>2
<1>4. ASSUME NEW n \in S PROVE n <= m
  <2>1. L - n \in rest
    OBVIOUS
  <2>2. k <= L - n
    BY <1>2, <2>1
  <2> QED
    BY <1>3, <2>2
<1> QED
  BY <1>4

LEMMA UpTo ==
  ASSUME NEW L \in Nat, NEW S, 0 \in S,
         \A n \in 0..L : n \in S /\ n < L => n + 1 \in S
  PROVE  \A n \in 0..L : n \in S
<1> DEFINE missing == {n \in 0..L : n \notin S}
<1>1. CASE missing = {}
  BY <1>1
<1>2. CASE missing # {}
  <2>1. missing \subseteq Nat
    OBVIOUS
  <2>2. PICK m \in missing : \A n \in missing : m <= n
    BY <1>2, <2>1, Least
  <2>3. m \in 0..L /\ m \notin S /\ m # 0
    BY <2>2
  <2>4. m - 1 \in 0..L /\ m - 1 < L /\ m - 1 < m /\ (m - 1) + 1 = m
    BY <2>3
  <2>5. m - 1 \in S
    BY <2>2, <2>4
  <2> QED
    BY <2>3, <2>4, <2>5
<1> QED
  BY <1>1, <1>2

-----------------------------------------------------------------------------
(* The sort.                                                               *)

(* Where an image goes, and what is where then.                            *)
LEMMA Place ==
  ASSUME NEW images, NEW s \in Seq(Image), NEW x \in Image
  PROVE  /\ place(images, s, x) \in 0..Len(s)
         /\ place(images, s, x) > 0 => ~Less(images, x, s[place(images, s, x)])
         /\ \A j \in 1..Len(s) : j > place(images, s, x) => Less(images, x, s[j])
<1> DEFINE late == notLess(images, s, x)
<1>1. late \subseteq 1..Len(s) /\ Len(s) \in Nat
  BY DEF notLess
<1>2. CASE late = {}
  <2>1. place(images, s, x) = 0
    BY <1>2 DEF place
  <2>2. \A j \in 1..Len(s) : Less(images, x, s[j])
    BY <1>2 DEF notLess
  <2> QED
    BY <1>1, <2>1, <2>2
<1>3. CASE late # {}
  <2>1. \E m \in late : \A n \in late : n <= m
    BY <1>1, <1>3, Greatest
  <2>2. place(images, s, x) = CHOOSE m \in late : \A n \in late : n <= m
    BY <1>3 DEF place
  <2>3. place(images, s, x) \in late /\ \A n \in late : n <= place(images, s, x)
    BY <2>1, <2>2
  <2>4. ~Less(images, x, s[place(images, s, x)])
    BY <2>3 DEF notLess
  <2>5. ASSUME NEW j \in 1..Len(s), j > place(images, s, x), ~Less(images, x, s[j])
        PROVE  FALSE
    <3>1. j \in late
      BY <2>5 DEF notLess
    <3> QED
      BY <1>1, <2>3, <2>5, <3>1
  <2> QED
    BY <1>1, <2>3, <2>4, <2>5
<1> QED
  BY <1>2, <1>3

LEMMA Insert ==
  ASSUME NEW images, NEW s \in Seq(Image), NEW x \in Image
  PROVE  /\ insert(images, s, x) \in Seq(Image)
         /\ Len(insert(images, s, x)) = Len(s) + 1
         /\ \A i \in 1..(Len(s) + 1) :
              insert(images, s, x)[i] =
                IF i <= place(images, s, x) THEN s[i]
                ELSE IF i = place(images, s, x) + 1 THEN x ELSE s[i - 1]
<1> DEFINE p == place(images, s, x)
           a == SubSeq(s, 1, p)
           b == SubSeq(s, p + 1, Len(s))
<1>1. p \in 0..Len(s) /\ Len(s) \in Nat
  BY Place
<1> HIDE DEF p
<1>2. a \in Seq(Image) /\ Len(a) = p /\ \A i \in 1..p : a[i] = s[i]
  BY <1>1
<1>3. b \in Seq(Image) /\ Len(b) = Len(s) - p /\ \A i \in 1..(Len(s) - p) : b[i] = s[p + i]
  BY <1>1
<1> HIDE DEF a, b
<1>4. /\ a \o <<x>> \in Seq(Image) /\ Len(a \o <<x>>) = p + 1
      /\ \A i \in 1..(p + 1) : (a \o <<x>>)[i] = IF i <= p THEN s[i] ELSE x
  BY <1>1, <1>2
<1> DEFINE c == a \o <<x>>
<1> HIDE DEF c
<1>5. /\ c \o b \in Seq(Image) /\ Len(c \o b) = Len(s) + 1
      /\ \A i \in 1..(Len(s) + 1) : (c \o b)[i] = IF i <= p + 1 THEN c[i] ELSE b[i - (p + 1)]
  BY <1>1, <1>3, <1>4 DEF c
<1>6. \A i \in 1..(Len(s) + 1) :
        (c \o b)[i] = IF i <= p THEN s[i] ELSE IF i = p + 1 THEN x ELSE s[i - 1]
  <2> TAKE i \in 1..(Len(s) + 1)
  <2>1. CASE i <= p + 1
    BY <1>1, <1>4, <1>5, <2>1 DEF c
  <2>2. CASE i > p + 1
    <3>1. i - (p + 1) \in 1..(Len(s) - p) /\ p + (i - (p + 1)) = i - 1
      BY <1>1, <2>2
    <3>2. b[i - (p + 1)] = s[i - 1]
      BY <1>3, <3>1
    <3> QED
      BY <1>1, <1>5, <2>2, <3>2
  <2>3. i <= p + 1 \/ i > p + 1
    BY <1>1
  <2> QED
    BY <2>1, <2>2, <2>3
<1>7. insert(images, s, x) = c \o b
  BY DEF insert, c, a, b, p
<1> QED
  BY <1>5, <1>6, <1>7 DEF p

(* A recursive definition names a function once there is one.              *)
Sorts(images, f, k) ==
  f = [n \in 0..k |-> IF n = 0 THEN <<>> ELSE insert(images, f[n - 1], images[n])]

LEMMA SortExists ==
  ASSUME NEW images, NEW L \in Nat
  PROVE  \E f : Sorts(images, f, L)
<1> DEFINE S == {k \in 0..L : \E f : Sorts(images, f, k)}
<1>1. 0 \in S
  <2> DEFINE f == [n \in 0..0 |-> <<>>]
  <2>1. Sorts(images, f, 0)
    BY DEF Sorts
  <2> QED
    BY <2>1
<1>2. ASSUME NEW k \in 0..L, k \in S, k < L
      PROVE  k + 1 \in S
  <2>1. PICK f : Sorts(images, f, k)
    BY <1>2
  <2> DEFINE g == [n \in 0..(k + 1) |->
                     IF n <= k THEN f[n] ELSE insert(images, f[k], images[k + 1])]
  <2>2. f = [n \in 0..k |-> IF n = 0 THEN <<>> ELSE insert(images, f[n - 1], images[n])]
    BY <2>1 DEF Sorts
  <2>3. ASSUME NEW n \in 0..(k + 1)
        PROVE  g[n] = IF n = 0 THEN <<>> ELSE insert(images, g[n - 1], images[n])
    <3>1. CASE n = 0
      BY <2>2, <3>1
    <3>2. CASE n \in 1..k
      <4>1. g[n] = f[n] /\ g[n - 1] = f[n - 1]
        BY <3>2
      <4>2. f[n] = insert(images, f[n - 1], images[n])
        BY <2>2, <3>2
      <4> QED
        BY <3>2, <4>1, <4>2
    <3>3. CASE n = k + 1
      <4>1. g[n] = insert(images, f[k], images[k + 1]) /\ g[n - 1] = f[k]
        BY <3>3
      <4> QED
        BY <3>3, <4>1
    <3> QED
      BY <3>1, <3>2, <3>3
  <2>4. Sorts(images, g, k + 1)
    <3>1. g = [n \in 0..(k + 1) |-> g[n]]
      OBVIOUS
    <3> HIDE DEF g
    <3> QED
      BY <2>3, <3>1 DEF Sorts
  <2>5. k + 1 \in 0..L
    BY <1>2
  <2> QED
    BY <2>4, <2>5
<1>3. \A k \in 0..L : k \in S
  BY <1>1, <1>2, UpTo
<1> QED
  BY <1>3

LEMMA Sorted ==
  ASSUME NEW images, Len(images) \in Nat
  PROVE  \E f : Sorts(images, f, Len(images)) /\ orderImages(images) = f[Len(images)]
<1> DEFINE f == CHOOSE f : Sorts(images, f, Len(images))
<1>1. Sorts(images, f, Len(images))
  BY SortExists
<1>2. orderImages(images) = f[Len(images)]
  BY DEF orderImages, Sorts
<1> QED
  BY <1>1, <1>2

(* Where comparing makes sense: all images have a suffix or are dated.     *)
Comparable(images) ==
  AllHaveSuffix(images) \/ \A k \in DOMAIN images : images[k].date # NoDate

LEMMA LessFacts ==
  ASSUME NEW images, NEW a \in Image, NEW b \in Image, NEW c \in Image,
         AllHaveSuffix(images) \/ (a.date # NoDate /\ b.date # NoDate /\ c.date # NoDate)
  PROVE  /\ Less(images, a, b) => ~Less(images, b, a)
         /\ ~Less(images, a, b) /\ ~Less(images, b, c) => ~Less(images, a, c)
<1>1. /\ a.suffix \in Int /\ b.suffix \in Int /\ c.suffix \in Int
      /\ a.date \in Nat /\ b.date \in Nat /\ c.date \in Nat
      /\ a.name \in Nat /\ b.name \in Nat /\ c.name \in Nat
  BY DEF Image, NoSuffix
<1>2. CASE AllHaveSuffix(images)
  BY <1>1, <1>2 DEF Less, BySuffix
<1>3. CASE ~AllHaveSuffix(images)
  BY <1>1, <1>3 DEF Less, ByDate
<1> QED
  BY <1>2, <1>3

(* The first n images in the order of the sort.                            *)
SortOf(images, s, n) ==
  /\ s \in Seq(Image) /\ Len(s) = n
  /\ \A i \in 1..n : \E k \in 1..n : s[i] = images[k]
  /\ \A k \in 1..n : \E i \in 1..n : s[i] = images[k]
  /\ \A i, j \in 1..n : i # j => s[i].name # s[j].name
  /\ Comparable(images) => \A i, j \in 1..n : i < j => ~Less(images, s[j], s[i])

(* The names of a directory are different, and listed in their order.      *)
Listing(dir) ==
  /\ dir \in Seq(Image)
  /\ \A i, j \in DOMAIN dir : i < j => dir[i].name < dir[j].name

LEMMA InsertSorts ==
  ASSUME NEW images, Listing(images), NEW n \in Nat, n < Len(images), NEW s,
         SortOf(images, s, n)
  PROVE  SortOf(images, insert(images, s, images[n + 1]), n + 1)
<1> DEFINE x == images[n + 1]
           t == insert(images, s, x)
           p == place(images, s, x)
<1>1. /\ s \in Seq(Image) /\ Len(s) = n /\ x \in Image /\ Len(images) \in Nat
      /\ \A k \in 1..(n + 1) : images[k] \in Image /\ k \in DOMAIN images
  BY DEF SortOf, Listing
<1>2. p \in 0..n /\ p \in Int
      /\ (p > 0 => ~Less(images, x, s[p]))
      /\ \A j \in 1..n : j > p => Less(images, x, s[j])
  BY <1>1, Place
<1>3. t \in Seq(Image) /\ Len(t) = n + 1
      /\ \A i \in 1..(n + 1) : t[i] = IF i <= p THEN s[i] ELSE IF i = p + 1 THEN x ELSE s[i - 1]
  BY <1>1, Insert
<1> HIDE DEF t, p
(* An image of t is the new one or one of s.                               *)
<1> DEFINE old(i) == IF i <= p THEN i ELSE i - 1
<1>4. t[p + 1] = x /\ p + 1 \in 1..(n + 1)
  BY <1>2, <1>3
<1>5. ASSUME NEW i \in 1..(n + 1), i # p + 1
      PROVE  old(i) \in 1..n /\ t[i] = s[old(i)]
  BY <1>2, <1>3, <1>5
<1>6. ASSUME NEW i \in 1..(n + 1), NEW j \in 1..(n + 1), i # p + 1, j # p + 1, i < j
      PROVE  old(i) < old(j)
  BY <1>2, <1>6
<1>7. ASSUME NEW k \in 1..n
      PROVE  \E i \in 1..(n + 1) : i # p + 1 /\ old(i) = k
  <2>1. CASE k <= p
    BY <1>2, <2>1
  <2>2. CASE k > p
    <3>1. k + 1 \in 1..(n + 1) /\ k + 1 # p + 1 /\ old(k + 1) = k
      BY <1>2, <2>2
    <3> QED
      BY <3>1
  <2> QED
    BY <1>2, <2>1, <2>2
<1>8. \A i \in 1..n : s[i] \in Image /\ \E k \in 1..n : s[i] = images[k]
  <2>1. \A i \in 1..n : s[i] \in Image
    BY <1>1
  <2>2. \A i \in 1..n : \E k \in 1..n : s[i] = images[k]
    BY DEF SortOf
  <2> QED
    BY <2>1, <2>2
<1> HIDE DEF old, x
<1>9. \A i \in 1..(n + 1) : \E k \in 1..(n + 1) : t[i] = images[k]
  <2> TAKE i \in 1..(n + 1)
  <2>1. CASE i = p + 1
    <3>1. t[i] = images[n + 1] /\ n + 1 \in 1..(n + 1)
      BY <1>4, <2>1 DEF x
    <3> QED
      BY <3>1
  <2>2. CASE i # p + 1
    <3>1. PICK k \in 1..n : s[old(i)] = images[k]
      BY <1>5, <1>8, <2>2
    <3>2. k \in 1..(n + 1)
      OBVIOUS
    <3> QED
      BY <1>5, <2>2, <3>1, <3>2
  <2> QED
    BY <2>1, <2>2
<1>10. \A k \in 1..(n + 1) : \E i \in 1..(n + 1) : t[i] = images[k]
  <2> TAKE k \in 1..(n + 1)
  <2>1. CASE k = n + 1
    BY <1>4, <2>1 DEF x
  <2>2. CASE k \in 1..n
    <3>1. PICK j \in 1..n : s[j] = images[k]
      BY <2>2 DEF SortOf
    <3>2. PICK i \in 1..(n + 1) : i # p + 1 /\ old(i) = j
      BY <1>7
    <3> QED
      BY <1>5, <3>1, <3>2
  <2> QED
    BY <2>1, <2>2
<1>11. \A i \in 1..n : s[i].name # x.name
  <2> TAKE i \in 1..n
  <2>1. PICK k \in 1..n : s[i] = images[k]
    BY <1>8
  <2>2. k < n + 1 /\ n + 1 \in 1..(n + 1) /\ k \in 1..(n + 1)
    OBVIOUS
  <2>3. images[k].name < images[n + 1].name
    BY <1>1, <2>2 DEF Listing
  <2>4. images[k].name \in Nat /\ images[n + 1].name \in Nat
    BY <1>1, <2>2 DEF Image
  <2> QED
    BY <2>1, <2>3, <2>4 DEF x
<1>12. \A i, j \in 1..(n + 1) : i # j => t[i].name # t[j].name
  <2>1. ASSUME NEW i \in 1..(n + 1), NEW j \in 1..(n + 1), i < j
        PROVE  t[i].name # t[j].name
    <3>1. CASE i = p + 1
      <4>1. j # p + 1
        BY <2>1, <3>1
      <4> QED
        BY <1>4, <1>5, <1>11, <3>1, <4>1
    <3>2. CASE j = p + 1
      <4>1. i # p + 1
        BY <2>1, <3>2
      <4> QED
        BY <1>4, <1>5, <1>11, <3>2, <4>1
    <3>3. CASE i # p + 1 /\ j # p + 1
      <4>1. old(i) < old(j) /\ old(i) \in 1..n /\ old(j) \in 1..n
        BY <1>5, <1>6, <2>1, <3>3
      <4>2. \A k, m \in 1..n : k # m => s[k].name # s[m].name
        BY DEF SortOf
      <4>3. old(i) # old(j)
        BY <4>1
      <4>4. s[old(i)].name # s[old(j)].name
        BY <4>1, <4>2, <4>3
      <4> QED
        BY <1>5, <3>3, <4>4
    <3> QED
      BY <3>1, <3>2, <3>3
  <2>2. \A i, j \in 1..(n + 1) : i < j \/ j < i \/ i = j
    OBVIOUS
  <2> QED
    BY <2>1, <2>2
<1>13. ASSUME Comparable(images), NEW i \in 1..(n + 1), NEW j \in 1..(n + 1), i < j
       PROVE  ~Less(images, t[j], t[i])
  <2>1. \A k \in 1..n : AllHaveSuffix(images) \/ s[k].date # NoDate
    <3> TAKE k \in 1..n
    <3>1. PICK m \in 1..n : s[k] = images[m]
      BY <1>8
    <3>2. m \in DOMAIN images
      BY <1>1
    <3> QED
      BY <1>13, <3>1, <3>2 DEF Comparable
  <2>2. AllHaveSuffix(images) \/ x.date # NoDate
    <3>1. n + 1 \in 1..(n + 1)
      OBVIOUS
    <3> QED
      BY <1>1, <1>13, <3>1 DEF Comparable, x
  <2>3. \A k, m \in 1..n : k < m => ~Less(images, s[m], s[k])
    BY <1>13 DEF SortOf
  <2>4. CASE i = p + 1
    <3>1. j # p + 1 /\ t[i] = x /\ t[j] = s[old(j)] /\ old(j) \in 1..n
      BY <1>4, <1>5, <1>13, <2>4
    <3>2. old(j) > p
      BY <1>2, <1>13, <2>4 DEF old
    <3>3. Less(images, x, s[old(j)])
      BY <1>2, <3>1, <3>2
    <3> QED
      BY <1>1, <1>8, <2>1, <2>2, <3>1, <3>3, LessFacts
  <2>5. CASE j = p + 1
    <3>1. i # p + 1 /\ t[j] = x /\ t[i] = s[i] /\ i \in 1..p /\ i \in 1..n /\ p \in 1..n
      BY <1>2, <1>3, <1>4, <1>13, <2>5
    <3>2. ~Less(images, x, s[p])
      BY <1>2, <3>1
    <3>3. CASE i = p
      BY <3>1, <3>2, <3>3
    <3>4. CASE i < p
      <4>1. ~Less(images, s[p], s[i])
        BY <2>3, <3>1, <3>4
      <4> QED
        BY <1>1, <1>8, <2>1, <2>2, <3>1, <3>2, <4>1, LessFacts
    <3> QED
      BY <3>1, <3>3, <3>4
  <2>6. CASE i # p + 1 /\ j # p + 1
    <3>1. old(i) < old(j) /\ old(i) \in 1..n /\ old(j) \in 1..n
      BY <1>5, <1>6, <1>13, <2>6
    <3> QED
      BY <1>5, <2>3, <2>6, <3>1
  <2> QED
    BY <2>4, <2>5, <2>6
<1> QED
  BY <1>3, <1>9, <1>10, <1>12, <1>13 DEF SortOf, t, x

(* What the sort comes to: the images of the directory, each once, in      *)
(* order where all of them can be compared.                                *)
LEMMA OrderImages ==
  ASSUME NEW images, Listing(images)
  PROVE  SortOf(images, orderImages(images), Len(images))
<1> DEFINE L == Len(images)
<1>1. L \in Nat
  BY DEF Listing
<1>2. PICK f : Sorts(images, f, L) /\ orderImages(images) = f[L]
  BY <1>1, Sorted
<1>3. f[0] = <<>> /\ \A n \in 0..L : n > 0 => f[n] = insert(images, f[n - 1], images[n])
  BY <1>1, <1>2 DEF Sorts
<1> DEFINE S == {n \in 0..L : SortOf(images, f[n], n)}
<1>4. 0 \in S
  <2>1. <<>> \in Seq(Image) /\ Len(<<>>) = 0 /\ \A i \in 1..0 : FALSE
    OBVIOUS
  <2>2. SortOf(images, <<>>, 0)
    BY <2>1 DEF SortOf
  <2> QED
    BY <1>1, <1>3, <2>2
<1>5. ASSUME NEW n \in 0..L, n \in S, n < L PROVE n + 1 \in S
  <2>1. n + 1 \in 0..L /\ n + 1 > 0 /\ (n + 1) - 1 = n /\ n \in Nat
    BY <1>1, <1>5
  <2>2. f[n + 1] = insert(images, f[n], images[n + 1])
    BY <1>3, <2>1
  <2>3. SortOf(images, f[n + 1], n + 1)
    BY <1>5, <2>1, <2>2, InsertSorts
  <2> QED
    BY <2>1, <2>3
<1>6. \A n \in 0..L : n \in S
  BY <1>1, <1>4, <1>5, UpTo
<1>7. L \in S
  BY <1>1, <1>6
<1> QED
  BY <1>2, <1>7

-----------------------------------------------------------------------------
(* The manifests.                                                          *)

(* The order of images that are displayed; suffixes may still be equal.    *)
Displayed(images) ==
  \A i, j \in DOMAIN images :
    i < j =>
      IF AllHaveSuffix(images) THEN images[i].suffix <= images[j].suffix
      ELSE (\A k \in DOMAIN images : images[k].date # NoDate) =>
             \/ images[i].date < images[j].date
             \/ images[i].date = images[j].date /\ images[i].name < images[j].name

ValidationFailure == [stage |-> "validate", retry |-> "scanned"]

Valid(m) ==
  Len(m.images) \in 1..MaxImages /\ ~HasDuplicateSuffixes(m.images) /\ m.heroes = {1}

(* What a run may hold and write.                                          *)
Sound(m) ==
  /\ m \in ManifestRecord
  /\ m.state \in {"scanned", "validated", "pending_review", "error"}
  /\ ~m.approved /\ m.postID = NoId
  /\ m.failure \in {NoFailure, ValidationFailure}
  /\ m.heroes \in {{}, {1}}
  /\ Displayed(m.images)
  /\ m.state \in {"validated", "pending_review"} => Valid(m)

IInv ==
  /\ TypeOK
  /\ manifest # Gone => Sound(manifest)
  /\ \A r \in Runs : Sound(mem[r])

(* One field changed leaves the others alone.                              *)
LEMMA SetState ==
  ASSUME NEW m \in ManifestRecord, NEW to \in States
  PROVE  /\ Transition(m, to) \in ManifestRecord
         /\ Transition(m, to).state = to
         /\ Transition(m, to).failure = m.failure
         /\ Transition(m, to).approved = m.approved
         /\ Transition(m, to).postID = m.postID
         /\ Transition(m, to).images = m.images
         /\ Transition(m, to).heroes = m.heroes
BY DEF Transition, ManifestRecord

LEMMA SetFailure ==
  ASSUME NEW m \in ManifestRecord, NEW f \in Failure \cup {NoFailure}
  PROVE  LET n == [m EXCEPT !.failure = f]
         IN  /\ n \in ManifestRecord
             /\ n.failure = f
             /\ n.state = m.state
             /\ n.approved = m.approved
             /\ n.postID = m.postID
             /\ n.images = m.images
             /\ n.heroes = m.heroes
BY DEF ManifestRecord

LEMMA SetRatio ==
  ASSUME NEW m \in ManifestRecord, NEW q \in Ratios
  PROVE  LET n == [m EXCEPT !.ratio = q]
         IN  /\ n \in ManifestRecord
             /\ n.failure = m.failure
             /\ n.state = m.state
             /\ n.approved = m.approved
             /\ n.postID = m.postID
             /\ n.images = m.images
             /\ n.heroes = m.heroes
             /\ n.validation = m.validation
BY DEF ManifestRecord

LEMMA SetValidation ==
  ASSUME NEW m \in ManifestRecord, NEW v \in Verdicts
  PROVE  LET n == [m EXCEPT !.validation = v]
         IN  /\ n \in ManifestRecord
             /\ n.failure = m.failure
             /\ n.state = m.state
             /\ n.approved = m.approved
             /\ n.postID = m.postID
             /\ n.images = m.images
             /\ n.heroes = m.heroes
BY DEF ManifestRecord

LEMMA SetImages ==
  ASSUME NEW m \in ManifestRecord, NEW images \in Seq(Image)
  PROVE  LET n == [m EXCEPT !.images = images]
         IN  /\ n \in ManifestRecord
             /\ n.failure = m.failure
             /\ n.state = m.state
             /\ n.approved = m.approved
             /\ n.postID = m.postID
             /\ n.images = images
BY DEF ManifestRecord

LEMMA SetHeroes ==
  ASSUME NEW m \in ManifestRecord, NEW heroes \in SUBSET Nat
  PROVE  LET n == [m EXCEPT !.heroes = heroes]
         IN  /\ n \in ManifestRecord
             /\ n.failure = m.failure
             /\ n.state = m.state
             /\ n.approved = m.approved
             /\ n.postID = m.postID
             /\ n.images = m.images
             /\ n.heroes = heroes
BY DEF ManifestRecord

LEMMA FailureFacts ==
  /\ ValidationFailure \in Failure /\ ValidationFailure # NoFailure
  /\ ValidationFailure.stage = "validate" /\ ValidationFailure.retry = "scanned"
  /\ \A m : m.state = "error" => ~CanTransition(m, "error") /\ CanTransition(m, "scanned")
BY DEF ValidationFailure, Failure, NoFailure, FailureStages, States, CanTransition,
       validTransitions

(* The failure of a post that is in "error" already.                       *)
LEMMA Recorded ==
  ASSUME NEW m \in ManifestRecord, m.state = "error"
  PROVE  LET n == RecordFailure(m, "validate", "scanned")
         IN  /\ n \in ManifestRecord
             /\ n.failure = ValidationFailure
             /\ n.state = "error"
             /\ n.approved = m.approved
             /\ n.postID = m.postID
             /\ n.images = m.images
             /\ n.heroes = m.heroes
<1> DEFINE f == [m EXCEPT !.failure = ValidationFailure]
<1>1. /\ f \in ManifestRecord /\ f.failure = ValidationFailure /\ f.state = "error"
      /\ f.approved = m.approved /\ f.postID = m.postID /\ f.images = m.images
      /\ f.heroes = m.heroes
  BY FailureFacts, SetFailure
<1>2. RecordFailure(m, "validate", "scanned") = f
  <2>1. ~CanTransition(m, "error")
    BY FailureFacts
  <2> QED
    BY <2>1 DEF RecordFailure, ManifestRecord, ValidationFailure
<1> QED
  BY <1>1, <1>2

-----------------------------------------------------------------------------
(* What scanning, validating and enriching make of a manifest.             *)

LEMMA BlankSound == Sound(Blank) /\ Gone \notin ManifestRecord /\ Gone.state = "gone"
<1>1. Blank \in ManifestRecord
  BY DEF Blank, ManifestRecord, States, NoId, Verdicts, Ratios, Image
<1>2. Displayed(Blank.images)
  BY DEF Blank, Displayed
<1>3. /\ Blank.state = "scanned" /\ ~Blank.approved /\ Blank.postID = NoId
      /\ Blank.failure = NoFailure /\ Blank.heroes = {}
  BY DEF Blank
<1>4. Gone.state = "gone"
  BY DEF Gone, Blank
<1>5. Gone \notin ManifestRecord
  BY <1>4 DEF ManifestRecord, States
<1> QED
  BY <1>1, <1>2, <1>3, <1>4, <1>5 DEF Sound

LEMMA SortDisplays ==
  ASSUME NEW images, Listing(images), NEW s, SortOf(images, s, Len(images))
  PROVE  Displayed(s)
<1>1. /\ Len(images) \in Nat /\ DOMAIN images = 1..Len(images)
      /\ s \in Seq(Image) /\ DOMAIN s = 1..Len(images)
  BY DEF Listing, SortOf
<1>2. AllHaveSuffix(s) <=> AllHaveSuffix(images)
  <2>1. ASSUME AllHaveSuffix(s), NEW k \in DOMAIN images
        PROVE  images[k].suffix # NoSuffix
    <3>1. PICK i \in 1..Len(images) : s[i] = images[k]
      BY <1>1 DEF SortOf
    <3> QED
      BY <1>1, <2>1, <3>1 DEF AllHaveSuffix
  <2>2. ASSUME AllHaveSuffix(images), NEW i \in DOMAIN s
        PROVE  s[i].suffix # NoSuffix
    <3>1. PICK k \in 1..Len(images) : s[i] = images[k]
      BY <1>1 DEF SortOf
    <3> QED
      BY <1>1, <2>2, <3>1 DEF AllHaveSuffix
  <2> QED
    BY <2>1, <2>2 DEF AllHaveSuffix
<1>3. (\A k \in DOMAIN s : s[k].date # NoDate)
        => \A k \in DOMAIN images : images[k].date # NoDate
  BY <1>1 DEF SortOf
<1> SUFFICES ASSUME NEW i \in DOMAIN s, NEW j \in DOMAIN s, i < j
             PROVE  IF AllHaveSuffix(s) THEN s[i].suffix <= s[j].suffix
                    ELSE (\A k \in DOMAIN s : s[k].date # NoDate) =>
                           \/ s[i].date < s[j].date
                           \/ s[i].date = s[j].date /\ s[i].name < s[j].name
  BY DEF Displayed
<1>4. /\ s[i] \in Image /\ s[j] \in Image /\ i # j
      /\ i \in 1..Len(images) /\ j \in 1..Len(images)
  BY <1>1
<1>5. /\ s[i].suffix \in Int /\ s[j].suffix \in Int
      /\ s[i].date \in Nat /\ s[j].date \in Nat
      /\ s[i].name \in Nat /\ s[j].name \in Nat
  BY <1>4 DEF Image, NoSuffix
<1>6. s[i].name # s[j].name
  BY <1>4 DEF SortOf
<1>7. Comparable(images) => ~Less(images, s[j], s[i])
  BY <1>4 DEF SortOf
<1>8. CASE AllHaveSuffix(s)
  BY <1>2, <1>5, <1>7, <1>8 DEF Comparable, Less, BySuffix
<1>9. CASE ~AllHaveSuffix(s) /\ \A k \in DOMAIN s : s[k].date # NoDate
  <2>1. Comparable(images) /\ ~AllHaveSuffix(images)
    BY <1>2, <1>3, <1>9 DEF Comparable
  <2>2. ~ByDate(s[j], s[i])
    BY <1>7, <2>1 DEF Less
  <2> QED
    BY <1>5, <1>6, <1>9, <2>2 DEF ByDate
<1> QED
  BY <1>8, <1>9

LEMMA ScannedSound ==
  ASSUME NEW dir \in Directories
  PROVE  Sound([Blank EXCEPT !.images = orderImages(dir), !.heroes = {1}])
<1> DEFINE s == orderImages(dir)
           m == [Blank EXCEPT !.images = s, !.heroes = {1}]
<1>1. Listing(dir)
  BY ConstantsAssumption DEF Listing
<1>2. s \in Seq(Image) /\ Displayed(s)
  <2>1. SortOf(dir, s, Len(dir))
    BY <1>1, OrderImages
  <2> QED
    BY <1>1, <2>1, SortDisplays DEF SortOf
<1> HIDE DEF s
<1> DEFINE b == [Blank EXCEPT !.images = s]
<1>3. /\ b \in ManifestRecord /\ b.images = s /\ b.state = Blank.state
      /\ b.failure = Blank.failure /\ b.approved = Blank.approved
      /\ b.postID = Blank.postID
  BY <1>2, BlankSound, SetImages DEF Sound
<1>4. m = [b EXCEPT !.heroes = {1}]
  BY Zenon
<1> HIDE DEF m, b
<1>5. /\ m \in ManifestRecord /\ m.heroes = {1} /\ m.images = s
      /\ m.state = "scanned" /\ m.failure = NoFailure /\ ~m.approved
      /\ m.postID = NoId
  <2>1. /\ m \in ManifestRecord /\ m.heroes = {1} /\ m.images = b.images
        /\ m.state = b.state /\ m.failure = b.failure /\ m.approved = b.approved
        /\ m.postID = b.postID
    <3>1. {1} \in SUBSET Nat
      OBVIOUS
    <3> QED
      BY <1>3, <1>4, <3>1, SetHeroes
  <2> QED
    BY <1>3, <2>1 DEF Blank
<1>6. Sound(m)
  BY <1>2, <1>5 DEF Sound
<1> QED
  BY <1>6 DEF m, s

LEMMA RatiosResolved == ASSUME NEW images PROVE ResolvedAspectRatios(images) \subseteq Ratios
BY DEF ResolvedAspectRatios, UniqueAspectRatios, Ratios

LEMMA ValidatedSound ==
  ASSUME NEW r \in Runs, TypeOK, Sound(mem[r]), Validate(r)
  PROVE  mem' = [mem EXCEPT ![r] = mem'[r]] /\ Sound(mem'[r])
<1>1. PICK ratio \in ResolvedAspectRatios(mem[r].images) :
        LET m == [mem[r] EXCEPT !.ratio = ratio,
                    !.validation = IF Passed(mem[r]) THEN "passed" ELSE "failed"]
        IN  mem' = [mem EXCEPT ![r] =
                      CASE Passed(m)              -> Transition(m, "validated")
                        [] ~Passed(m) /\ whole[r] ->
                             RecordFailure(Transition(m, "error"), "validate", "scanned")
                        [] OTHER                  -> Transition(m, "error")]
  BY DEF Validate
<1> DEFINE v == IF Passed(mem[r]) THEN "passed" ELSE "failed"
           a == [mem[r] EXCEPT !.ratio = ratio]
           m == [a EXCEPT !.validation = v]
           n == CASE Passed(m)              -> Transition(m, "validated")
                  [] ~Passed(m) /\ whole[r] ->
                       RecordFailure(Transition(m, "error"), "validate", "scanned")
                  [] OTHER                  -> Transition(m, "error")
<1>2. mem' = [mem EXCEPT ![r] = n]
  BY <1>1, Zenon
<1>3. mem'[r] = n /\ mem' = [mem EXCEPT ![r] = mem'[r]]
  BY <1>2 DEF TypeOK
<1>4. /\ a \in ManifestRecord /\ a.failure = mem[r].failure /\ a.approved = mem[r].approved
      /\ a.postID = mem[r].postID /\ a.images = mem[r].images /\ a.heroes = mem[r].heroes
  BY RatiosResolved, SetRatio DEF Sound
<1>5. v \in Verdicts
  BY DEF Verdicts
<1> HIDE DEF a, v
<1>6. /\ m \in ManifestRecord /\ m.failure = mem[r].failure /\ m.approved = mem[r].approved
      /\ m.postID = mem[r].postID /\ m.images = mem[r].images /\ m.heroes = mem[r].heroes
  BY <1>4, <1>5, SetValidation
<1> HIDE DEF m
<1>7. {"validated", "error"} \subseteq States
  BY DEF States
<1>8. ASSUME NEW to \in {"validated", "error"}
      PROVE  /\ Transition(m, to) \in ManifestRecord
             /\ Transition(m, to).state = to
             /\ Transition(m, to).failure = mem[r].failure
             /\ Transition(m, to).approved = mem[r].approved
             /\ Transition(m, to).postID = mem[r].postID
             /\ Transition(m, to).images = mem[r].images
             /\ Transition(m, to).heroes = mem[r].heroes
  BY <1>6, <1>7, SetState
<1>9. CASE Passed(m)
  <2>1. n = Transition(m, "validated")
    BY <1>9
  <2>2. m.heroes = {1}
    BY <1>6, <1>9 DEF Passed, Sound
  <2>3. Valid(n)
    BY <1>6, <1>8, <1>9, <2>1, <2>2 DEF Passed, Valid
  <2> QED
    BY <1>3, <1>8, <2>1, <2>3 DEF Sound
<1>10. CASE ~Passed(m) /\ whole[r]
  <2> DEFINE e == Transition(m, "error")
  <2>1. n = RecordFailure(e, "validate", "scanned")
    BY <1>10
  <2>2. e \in ManifestRecord /\ e.state = "error"
    BY <1>8
  <2>3. /\ n \in ManifestRecord /\ n.failure = ValidationFailure /\ n.state = "error"
        /\ n.approved = e.approved /\ n.postID = e.postID /\ n.images = e.images
        /\ n.heroes = e.heroes
    BY <2>1, <2>2, Recorded
  <2> QED
    BY <1>3, <1>8, <2>3 DEF Sound
<1>11. CASE ~Passed(m) /\ ~whole[r]
  <2>1. n = Transition(m, "error")
    BY <1>11
  <2> QED
    BY <1>3, <1>8, <2>1 DEF Sound
<1> QED
  BY <1>9, <1>10, <1>11

LEMMA EnrichedSound ==
  ASSUME NEW r \in Runs, TypeOK, Sound(mem[r]), Enrich(r)
  PROVE  mem' = [mem EXCEPT ![r] = mem'[r]] /\ Sound(mem'[r])
<1> DEFINE m == mem[r]
           n == Transition(m, "pending_review")
<1>1. mem' = [mem EXCEPT ![r] = n] /\ m.state = "validated"
  BY DEF Enrich
<1>2. mem'[r] = n /\ mem' = [mem EXCEPT ![r] = mem'[r]]
  BY <1>1 DEF TypeOK
<1>3. /\ n \in ManifestRecord /\ n.state = "pending_review" /\ n.failure = m.failure
      /\ n.approved = m.approved /\ n.postID = m.postID /\ n.images = m.images
      /\ n.heroes = m.heroes
  <2>1. "pending_review" \in States
    BY DEF States
  <2> QED
    BY <2>1, SetState DEF Sound
<1> HIDE DEF n
<1>4. Valid(n)
  BY <1>1, <1>3 DEF Sound, Valid
<1> QED
  BY <1>2, <1>3, <1>4 DEF Sound

-----------------------------------------------------------------------------
(* The invariant.                                                          *)

LEMMA InitIInv == Init => IInv
BY BlankSound DEF Init, IInv, TypeOK, Sound, Labels

(* A step that touches no manifest.                                        *)
LEMMA QuietStep ==
  ASSUME IInv, UNCHANGED <<manifest, mem>>, TypeOK'
  PROVE  IInv'
BY DEF IInv, Sound

LEMMA WriteStep ==
  ASSUME IInv, NEW r \in Runs, NEW label \in Labels, NEW next \in Labels,
         Write(r, label, next)
  PROVE  IInv'
<1>1. manifest' \in {manifest, mem[r]} /\ UNCHANGED <<mem, whole, starts>>
  BY DEF Write
<1>2. pc' \in [Runs -> Labels]
  <2>1. "idle" \in Labels
    BY DEF Labels
  <2> QED
    BY <2>1 DEF Write, Continue, GoTo, IInv, TypeOK
<1>3. mem[r] \in ManifestRecord
  BY DEF IInv, TypeOK
<1>4. TypeOK'
  BY <1>1, <1>2, <1>3 DEF IInv, TypeOK
<1>5. manifest' # Gone => Sound(manifest')
  BY <1>1 DEF IInv
<1>6. \A q \in Runs : Sound(mem'[q])
  BY <1>1 DEF IInv
<1> QED
  BY <1>4, <1>5, <1>6 DEF IInv

(* A step that gives a run another manifest.                               *)
LEMMA MemStep ==
  ASSUME IInv, NEW r \in Runs, NEW m, Sound(m), mem' = [mem EXCEPT ![r] = m],
         UNCHANGED manifest, pc' \in [Runs -> Labels], whole' \in [Runs -> BOOLEAN],
         starts' \in Nat
  PROVE  IInv'
<1>1. m \in ManifestRecord
  BY DEF Sound
<1>2. TypeOK'
  BY <1>1 DEF IInv, TypeOK
<1>3. \A q \in Runs : Sound(mem'[q])
  BY DEF IInv, TypeOK
<1>4. manifest' # Gone => Sound(manifest')
  BY DEF IInv
<1> QED
  BY <1>2, <1>3, <1>4 DEF IInv

LEMMA NextIInv == IInv /\ [Next]_vars => IInv'
<1> SUFFICES ASSUME IInv, [Next]_vars PROVE IInv'
  OBVIOUS
<1> USE DEF GoTo
<1>0. TypeOK
  BY DEF IInv
<1>1. ASSUME NEW r \in Runs, Start(r) PROVE IInv'
  <2>1. /\ pc' \in [Runs -> Labels] /\ whole' \in [Runs -> BOOLEAN] /\ starts' \in Nat
        /\ UNCHANGED manifest
    <3>1. \E label \in Labels : pc' = [pc EXCEPT ![r] = label]
      BY <1>1 DEF Start, Labels
    <3>2. \E w \in BOOLEAN : whole' = [whole EXCEPT ![r] = w]
      BY <1>1 DEF Start
    <3>3. starts' = starts + 1 /\ UNCHANGED manifest
      BY <1>1 DEF Start
    <3> QED
      BY <1>0, <3>1, <3>2, <3>3 DEF TypeOK
  <2>2. CASE UNCHANGED mem
    <3>1. TypeOK'
      BY <1>0, <2>1, <2>2 DEF TypeOK
    <3> QED
      BY <2>1, <2>2, <3>1, QuietStep
  <2>3. CASE manifest # Gone /\ mem' = [mem EXCEPT ![r] = manifest]
    BY <2>1, <2>3, MemStep DEF IInv
  <2> QED
    BY <1>1, <2>2, <2>3 DEF Start
<1>2. ASSUME NEW r \in Runs, Crash(r) \/ ScanFails(r) \/ Refuse(r) PROVE IInv'
  <2>1. UNCHANGED <<manifest, mem, whole, starts>> /\ pc' \in [Runs -> Labels]
    BY <1>0, <1>2 DEF Crash, ScanFails, Refuse, TypeOK, Labels
  <2>2. TypeOK'
    BY <1>0, <2>1 DEF TypeOK
  <2> QED
    BY <2>1, <2>2, QuietStep
<1>3. ASSUME NEW r \in Runs, Scan(r) PROVE IInv'
  <2>1. PICK dir \in Directories \ {<<>>} :
          mem' = [mem EXCEPT ![r] = [Blank EXCEPT !.images = orderImages(dir),
                                                  !.heroes = {1}]]
    BY <1>3 DEF Scan
  <2>2. /\ pc' \in [Runs -> Labels] /\ whole' \in [Runs -> BOOLEAN] /\ starts' \in Nat
        /\ UNCHANGED manifest
    BY <1>0, <1>3 DEF Scan, TypeOK, Labels
  <2> QED
    BY <2>1, <2>2, ScannedSound, MemStep
<1>4. ASSUME NEW r \in Runs, Validate(r) \/ Enrich(r) PROVE IInv'
  <2>1. /\ pc' \in [Runs -> Labels] /\ whole' \in [Runs -> BOOLEAN] /\ starts' \in Nat
        /\ UNCHANGED manifest
    BY <1>0, <1>4 DEF Validate, Enrich, TypeOK, Labels
  <2>2. Sound(mem[r])
    BY DEF IInv
  <2>3. mem' = [mem EXCEPT ![r] = mem'[r]] /\ Sound(mem'[r])
    BY <1>0, <1>4, <2>2, ValidatedSound, EnrichedSound
  <2> QED
    BY <2>1, <2>3, MemStep
<1>5. ASSUME NEW r \in Runs, WriteScan(r) \/ WriteValidation(r) \/ WriteEnrichment(r)
      PROVE  IInv'
  <2>1. {"writeScan", "writeValidation", "writeEnrichment", "validate", "enrich", "idle"}
          \subseteq Labels
    BY DEF Labels
  <2> QED
    BY <1>5, <2>1, WriteStep DEF WriteScan, WriteValidation, WriteEnrichment
<1>6. CASE UNCHANGED vars
  <2>1. UNCHANGED <<manifest, mem, pc, whole, starts>>
    BY <1>6 DEF vars
  <2>2. TypeOK'
    BY <1>0, <2>1 DEF TypeOK
  <2> QED
    BY <2>1, <2>2, QuietStep
<1> QED
  BY <1>1, <1>2, <1>3, <1>4, <1>5, <1>6 DEF Next, Step

(* Types are kept, for any directories, runs and faults.                   *)
THEOREM PipelineTypes == Spec => []TypeOK
<1>1. IInv => TypeOK
  BY DEF IInv
<1> QED
  BY <1>1, InitIInv, NextIInv, PTL DEF Spec

LEMMA InReviewFacts ==
  ASSUME IInv, InReview
  PROVE  Sound(manifest) /\ Valid(manifest)
<1>1. manifest # Gone
  BY BlankSound DEF InReview
<1> QED
  BY <1>1 DEF IInv, Sound, InReview

(* What reaches enrichment and review can be posted and has one order, for *)
(* any directories and any number of runs and commands that overlap, die,  *)
(* fail to write or start in the wrong order (validator.go:24-160).        *)
THEOREM ReviewIsOfValidPosts == Spec => []ReviewedPostsAreValid
<1>1. IInv => ReviewedPostsAreValid
  BY InReviewFacts DEF Valid, MaxImages, HasDuplicateSuffixes, ReviewedPostsAreValid
<1> QED
  BY <1>1, InitIInv, NextIInv, PTL DEF Spec

(* The sort of a directory puts its images in their one order, for any     *)
(* images that all have a suffix, or of which none has one and all are     *)
(* dated (scanner.go:240-278).                                             *)
THEOREM ReviewIsInOrder == Spec => []DisplayOrderIsRight
<1>1. ASSUME IInv PROVE DisplayOrderIsRight
  <2> SUFFICES ASSUME InReview,
                      NEW i \in DOMAIN manifest.images, NEW j \in DOMAIN manifest.images,
                      i < j
               PROVE  /\ AllHaveSuffix(manifest.images)
                           => manifest.images[i].suffix < manifest.images[j].suffix
                      /\ DatesOnly(manifest.images)
                           => \/ manifest.images[i].date < manifest.images[j].date
                              \/ /\ manifest.images[i].date = manifest.images[j].date
                                 /\ manifest.images[i].name < manifest.images[j].name
    BY DEF DisplayOrderIsRight
  <2>1. Displayed(manifest.images) /\ manifest \in ManifestRecord /\ Valid(manifest)
    BY <1>1, InReviewFacts DEF Sound
  <2>2. CASE AllHaveSuffix(manifest.images)
    <3>1. manifest.images \in Seq(Image)
      BY <2>1 DEF ManifestRecord
    <3>2. /\ manifest.images[i].suffix \in Int /\ manifest.images[j].suffix \in Int
          /\ i \in Int /\ j \in Int
      <4>1. DOMAIN manifest.images = 1..Len(manifest.images)
        BY <3>1
      <4>2. manifest.images[i] \in Image /\ manifest.images[j] \in Image
        BY <3>1, <4>1
      <4>3. \A a \in Image : a.suffix \in Int
        BY DEF Image, NoSuffix
      <4> QED
        BY <4>1, <4>2, <4>3
    <3>3. manifest.images[i].suffix # NoSuffix
      BY <2>2 DEF AllHaveSuffix
    <3>4. manifest.images[i].suffix # manifest.images[j].suffix
      BY <2>1, <3>2, <3>3 DEF Valid, HasDuplicateSuffixes
    <3>5. manifest.images[i].suffix <= manifest.images[j].suffix
      BY <2>1, <2>2 DEF Displayed
    <3>6. ~DatesOnly(manifest.images)
      BY <3>3 DEF DatesOnly
    <3> QED
      BY <3>2, <3>4, <3>5, <3>6
  <2>3. CASE ~AllHaveSuffix(manifest.images)
    BY <2>1, <2>3 DEF Displayed, DatesOnly
  <2> QED
    BY <2>2, <2>3
<1> QED
  BY <1>1, InitIInv, NextIInv, PTL DEF Spec

(* Whatever fails can be retried from a scanned post, with a recorded      *)
(* failure and without one (manifest.go:320-400).                          *)
THEOREM FailuresCanBeRetried == Spec => []FailedPostCanBeRetried
<1>1. ASSUME IInv, manifest.state = "error"
      PROVE  CanPrepareRetry(manifest) /\ PrepareRetry(manifest).state = "scanned"
  <2>1. Sound(manifest)
    BY <1>1, BlankSound DEF IInv
  <2>2. EffectiveRetryState(manifest) = "scanned"
    <3>1. CASE manifest.failure = ValidationFailure
      BY <3>1, FailureFacts DEF EffectiveRetryState
    <3>2. CASE manifest.failure = NoFailure
      <4>1. EffectiveFailureStage(manifest) = "scan"
        BY <2>1, <3>2 DEF Sound, EffectiveFailureStage
      <4>2. RetryStateForFailureStage["scan"] = "scanned"
        BY DEF RetryStateForFailureStage, FailureStages
      <4> QED
        BY <3>2, <4>1, <4>2 DEF EffectiveRetryState
    <3> QED
      BY <2>1, <3>1, <3>2 DEF Sound
  <2>3. CanPrepareRetry(manifest)
    BY <1>1, <2>2, FailureFacts DEF CanPrepareRetry
  <2>4. PrepareRetry(manifest).state = "scanned"
    BY <2>1, <2>2 DEF PrepareRetry, Sound, ManifestRecord
  <2> QED
    BY <2>3, <2>4
<1>2. IInv => FailedPostCanBeRetried
  BY <1>1 DEF FailedPostCanBeRetried
<1> QED
  BY <1>2, InitIInv, NextIInv, PTL DEF Spec

-----------------------------------------------------------------------------
(***************************************************************************)
(* Pipeline takes Write for one step, and so do the other modules. In      *)
(* AtomicFile it is many; that the writers have temporary files of their   *)
(* own is all they need to replace the file as a whole, without any lock   *)
(* between them and whatever they write, wherever they die. It is the one  *)
(* thing that is missing in manifest.Write; a lone writer has it.          *)
(***************************************************************************)

(* Each writer has its temporary file for itself.                          *)
OwnNames ==
  /\ TempName \in [Writers -> TempNames]
  /\ \A v, w \in Writers : TempName[v] = TempName[w] => v = w
  /\ Size \in [Writers -> Nat \ {0}]
  /\ NoFile \notin Inodes

FileTypes ==
  /\ content \in [Inodes -> Seq(Writers \cup {Before})]
  /\ target \in Inodes
  /\ temp \in [TempNames -> Inodes \cup {NoFile}]
  /\ fd \in [Writers -> Inodes \cup {NoFile}]
  /\ done \in [Writers -> Nat]
  /\ at \in [Writers -> {"idle", "write", "rename", "remove"}]

(* The inodes of the file and of the temporary files are different ones.   *)
Apart ==
  /\ \A w \in Writers : temp[TempName[w]] # target
  /\ \A v, w \in Writers :
       v # w /\ temp[TempName[v]] # NoFile => temp[TempName[v]] # temp[TempName[w]]

(* A writer that writes has its temporary file open, and nobody else has.  *)
OwnFile ==
  \A w \in Writers :
    IF at[w] = "write" THEN fd[w] = temp[TempName[w]] /\ fd[w] \in Inodes
                       ELSE fd[w] = NoFile

Begun(w, k) == [i \in 1..k |-> w]

(* What it has written is in the file, and nothing else is.                *)
OwnData ==
  \A w \in Writers :
    /\ at[w] = "write" =>
         done[w] <= Size[w] /\ content[temp[TempName[w]]] = Begun(w, done[w])
    /\ at[w] = "rename" /\ temp[TempName[w]] # NoFile =>
         content[temp[TempName[w]]] = Whole(w)

FileIInv == FileTypes /\ Apart /\ OwnFile /\ OwnData /\ FileIsWhole

(* Nothing has been opened, and the file is what it was.                   *)
LEMMA FileInitIInv == ASSUME OwnNames, FileInit PROVE FileIInv
<1>1. FileTypes
  <2>1. <<Before>> \in Seq(Writers \cup {Before}) /\ <<>> \in Seq(Writers \cup {Before})
    OBVIOUS
  <2>2. content \in [Inodes -> Seq(Writers \cup {Before})]
    BY <2>1 DEF FileInit
  <2> QED
    BY <2>2 DEF FileInit, FileTypes
<1>2. Apart /\ OwnFile /\ OwnData
  BY DEF FileInit, Apart, OwnFile, OwnData, OwnNames, TempNames
<1>3. FileIsWhole
  BY DEF FileInit, FileIsWhole
<1> QED
  BY <1>1, <1>2, <1>3 DEF FileIInv

(* A new or truncated inode is not the file's, and no other writer's.      *)
LEMMA OpenStep ==
  ASSUME OwnNames, FileIInv, NEW w \in Writers, Open(w)
  PROVE  FileIInv' /\ UNCHANGED content[target]
<1>1. PICK n \in Inodes :
        /\ IF temp[TempName[w]] = NoFile THEN ~InUse(n) ELSE n = temp[TempName[w]]
        /\ content' = [content EXCEPT ![n] = <<>>]
        /\ temp' = [temp EXCEPT ![TempName[w]] = n]
        /\ fd' = [fd EXCEPT ![w] = n]
  BY DEF Open
<1>2. /\ at[w] = "idle" /\ done' = [done EXCEPT ![w] = 0]
      /\ at' = [at EXCEPT ![w] = "write"] /\ target' = target
  BY DEF Open, Proceed
<1>3. /\ n # target
      /\ \A v \in Writers : v # w => n # temp[TempName[v]] /\ n # fd[v]
  BY <1>1 DEF InUse, FileIInv, Apart, OwnFile, FileTypes, TempNames, OwnNames
<1>4. FileTypes'
  BY <1>1, <1>2 DEF FileIInv, FileTypes, OwnNames
<1>5. /\ temp'[TempName[w]] = n /\ fd'[w] = n /\ content'[n] = <<>> /\ done'[w] = 0
      /\ \A v \in Writers : v # w =>
           /\ temp'[TempName[v]] = temp[TempName[v]] /\ fd'[v] = fd[v]
           /\ at'[v] = at[v] /\ done'[v] = done[v]
      /\ \A m \in Inodes : m # n => content'[m] = content[m]
      /\ at'[w] = "write"
  BY <1>1, <1>2 DEF FileIInv, FileTypes, OwnNames
<1>6. Apart'
  <2>1. \A v \in Writers : temp'[TempName[v]] # target'
    BY <1>2, <1>3, <1>5 DEF FileIInv, Apart
  <2>2. ASSUME NEW u \in Writers, NEW v \in Writers, u # v,
               temp'[TempName[u]] # NoFile
        PROVE  temp'[TempName[u]] # temp'[TempName[v]]
    <3>1. CASE u = w
      BY <2>2, <3>1, <1>3, <1>5
    <3>2. CASE v = w
      BY <2>2, <3>2, <1>3, <1>5
    <3>3. CASE u # w /\ v # w
      BY <2>2, <3>3, <1>5 DEF FileIInv, Apart
    <3> QED
      BY <3>1, <3>2, <3>3
  <2> QED
    BY <2>1, <2>2 DEF Apart
<1>7. OwnFile'
  BY <1>5 DEF FileIInv, OwnFile
<1>8. OwnData'
  <2>1. content'[n] = Begun(w, 0)
    BY <1>5 DEF Begun
  <2>2. ASSUME NEW v \in Writers, v # w
        PROVE  /\ at'[v] = "write" =>
                    done'[v] <= Size[v] /\ content'[temp'[TempName[v]]] = Begun(v, done'[v])
               /\ at'[v] = "rename" /\ temp'[TempName[v]] # NoFile =>
                    content'[temp'[TempName[v]]] = Whole(v)
    <3>1. temp[TempName[v]] \in Inodes \cup {NoFile} /\ temp[TempName[v]] # n
      BY <2>2, <1>3 DEF FileIInv, FileTypes, OwnNames
    <3>2. at[v] = "write" => temp[TempName[v]] \in Inodes
      BY DEF FileIInv, OwnFile
    <3> QED
      BY <2>2, <3>1, <3>2, <1>5 DEF FileIInv, OwnData
  <2>3. Size[w] \in Nat
    BY DEF OwnNames
  <2> QED
    BY <1>5, <2>1, <2>2, <2>3 DEF OwnData
<1>9. content'[target'] = content[target]
  BY <1>2, <1>3, <1>5 DEF FileIInv, FileTypes
<1>10. FileIsWhole'
  BY <1>9 DEF FileIInv, FileIsWhole, Whole
<1> QED
  BY <1>4, <1>6, <1>7, <1>8, <1>9, <1>10 DEF FileIInv

(* The blocks after the last one are appended.                             *)
LEMMA OverwriteAppends ==
  ASSUME NEW w \in Writers, NEW d \in Nat, done[w] = d, NEW k \in Nat, d < k
  PROVE  Overwrite(Begun(w, d), w, k) = Begun(w, k)
<1>1. Len(Begun(w, d)) = d /\ DOMAIN Begun(w, d) = 1..d
  BY DEF Begun
<1>2. \A i \in 1..d : Begun(w, d)[i] = w
  BY DEF Begun
<1> QED
  BY <1>1, <1>2 DEF Overwrite, Begun

(* What is written is the writer's own file.                               *)
LEMMA BlocksStep ==
  ASSUME OwnNames, FileIInv, NEW w \in Writers, WriteBlocks(w)
  PROVE  FileIInv' /\ UNCHANGED content[target]
<1> DEFINE n == fd[w]
<1>1. PICK k \in (done[w] + 1)..Size[w] :
        /\ content' = [content EXCEPT ![n] = Overwrite(@, w, k)]
        /\ done' = [done EXCEPT ![w] = k]
  BY DEF WriteBlocks
<1>2. /\ at[w] = "write" /\ done[w] \in Nat /\ Size[w] \in Nat /\ k \in Nat
      /\ done[w] < k /\ k <= Size[w]
      /\ UNCHANGED <<target, temp, fd, at>>
  BY <1>1 DEF WriteBlocks, FileIInv, FileTypes, OwnNames
<1>3. n \in Inodes /\ n = temp[TempName[w]] /\ content[n] = Begun(w, done[w])
  BY <1>2 DEF FileIInv, OwnFile, OwnData
<1>4. content'[n] = Begun(w, k)
  BY <1>1, <1>2, <1>3, OverwriteAppends DEF FileIInv, FileTypes
<1>5. Begun(w, k) \in Seq(Writers \cup {Before})
  BY <1>2 DEF Begun
<1> HIDE DEF n
<1>6. \A m \in Inodes : m # n => content'[m] = content[m]
  BY <1>1 DEF FileIInv, FileTypes
<1>7. content' \in [Inodes -> Seq(Writers \cup {Before})]
  <2>1. Overwrite(content[n], w, k) = Begun(w, k)
    BY <1>1, <1>3, <1>4 DEF FileIInv, FileTypes
  <2> QED
    BY <1>1, <1>5, <2>1 DEF FileIInv, FileTypes
<1>8. FileTypes'
  BY <1>1, <1>2, <1>7 DEF FileIInv, FileTypes
<1>9. Apart' /\ OwnFile'
  BY <1>2 DEF FileIInv, Apart, OwnFile
<1>10. OwnData'
  <2>1. ASSUME NEW v \in Writers, v # w
        PROVE  /\ at'[v] = "write" =>
                    done'[v] <= Size[v] /\ content'[temp'[TempName[v]]] = Begun(v, done'[v])
               /\ at'[v] = "rename" /\ temp'[TempName[v]] # NoFile =>
                    content'[temp'[TempName[v]]] = Whole(v)
    <3>1. /\ temp[TempName[v]] \in Inodes \cup {NoFile} /\ temp[TempName[v]] # n
          /\ done'[v] = done[v]
      BY <2>1, <1>1, <1>3 DEF FileIInv, FileTypes, OwnNames, Apart
    <3>2. at[v] = "write" => temp[TempName[v]] \in Inodes
      BY DEF FileIInv, OwnFile
    <3> QED
      BY <3>1, <3>2, <1>2, <1>6 DEF FileIInv, OwnData
  <2>2. done'[w] = k
    BY <1>1 DEF FileIInv, FileTypes
  <2> QED
    BY <2>1, <2>2, <1>2, <1>3, <1>4 DEF OwnData
<1>11. content'[target'] = content[target]
  BY <1>2, <1>3, <1>6 DEF FileIInv, FileTypes, Apart
<1>12. FileIsWhole'
  BY <1>11 DEF FileIInv, FileIsWhole, Whole
<1> QED
  BY <1>8, <1>9, <1>10, <1>11, <1>12 DEF FileIInv

(* A file that is closed is whole, or not renamed.                         *)
LEMMA CloseStep ==
  ASSUME OwnNames, FileIInv, NEW w \in Writers, CloseTemp(w) \/ WriteFails(w) \/ Die(w)
  PROVE  FileIInv' /\ UNCHANGED content[target]
<1>1. /\ fd' = [fd EXCEPT ![w] = NoFile] /\ UNCHANGED <<files, done>>
      /\ \/ at' = [at EXCEPT ![w] = "idle"]
         \/ at[w] = "write" /\ done[w] = Size[w] /\ at' = [at EXCEPT ![w] = "rename"]
  BY DEF CloseTemp, WriteFails, Die, Close, Proceed
<1>2. FileTypes' /\ Apart'
  BY <1>1 DEF FileIInv, FileTypes, Apart, files
<1>3. OwnFile'
  BY <1>1 DEF FileIInv, FileTypes, OwnFile, files
<1>4. done[w] = Size[w] => Begun(w, done[w]) = Whole(w)
  BY DEF Begun, Whole
<1>5. OwnData'
  BY <1>1, <1>4 DEF FileIInv, FileTypes, OwnData, files
<1>6. FileIsWhole' /\ content'[target'] = content[target]
  BY <1>1 DEF FileIInv, FileIsWhole, Whole, files
<1> QED
  BY <1>2, <1>3, <1>5, <1>6 DEF FileIInv

(* The file that is renamed is whole.                                      *)
LEMMA RenameStep ==
  ASSUME OwnNames, FileIInv, NEW w \in Writers, Rename(w)
  PROVE  FileIInv' /\ content'[target'] = Whole(w)
<1>1. /\ at[w] = "rename" /\ temp[TempName[w]] # NoFile
      /\ target' = temp[TempName[w]]
      /\ temp' = [temp EXCEPT ![TempName[w]] = NoFile]
      /\ at' = [at EXCEPT ![w] = "idle"]
      /\ UNCHANGED <<content, fd, done>>
  BY DEF Rename, Proceed
<1>2. FileTypes'
  BY <1>1 DEF FileIInv, FileTypes, OwnNames
<1>3. /\ temp'[TempName[w]] = NoFile
      /\ \A v \in Writers : v # w => temp'[TempName[v]] = temp[TempName[v]] /\ at'[v] = at[v]
      /\ at'[w] = "idle"
  BY <1>1 DEF FileIInv, FileTypes, OwnNames
<1>4. Apart'
  BY <1>1, <1>2, <1>3 DEF FileIInv, Apart, FileTypes, OwnNames
<1>5. OwnFile'
  BY <1>1, <1>3 DEF FileIInv, OwnFile
<1>6. OwnData'
  BY <1>1, <1>3 DEF FileIInv, OwnData
<1>7. content'[target'] = Whole(w)
  BY <1>1 DEF FileIInv, OwnData
<1>8. FileIsWhole'
  BY <1>7 DEF FileIsWhole, Whole
<1> QED
  BY <1>2, <1>4, <1>5, <1>6, <1>7, <1>8 DEF FileIInv

(* Without a rename the file stays what it is.                             *)
LEMMA GiveUpStep ==
  ASSUME OwnNames, FileIInv, NEW w \in Writers, RenameFails(w) \/ RemoveTemp(w)
  PROVE  FileIInv' /\ UNCHANGED content[target]
<1>1. /\ temp' = temp \/ temp' = [temp EXCEPT ![TempName[w]] = NoFile]
      /\ at[w] \in {"rename", "remove"}
      /\ \E label \in {"remove", "idle"} : at' = [at EXCEPT ![w] = label]
      /\ UNCHANGED <<content, target, fd, done>>
  BY DEF RenameFails, RemoveTemp, Proceed, files
<1>2. FileTypes'
  BY <1>1 DEF FileIInv, FileTypes, OwnNames
<1>3. /\ \A v \in Writers : v # w => temp'[TempName[v]] = temp[TempName[v]] /\ at'[v] = at[v]
      /\ temp'[TempName[w]] \in {temp[TempName[w]], NoFile}
      /\ at'[w] \in {"remove", "idle"}
  BY <1>1 DEF FileIInv, FileTypes, OwnNames
<1>4. Apart'
  BY <1>1, <1>2, <1>3 DEF FileIInv, Apart, FileTypes, OwnNames
<1>5. OwnFile' /\ OwnData'
  BY <1>1, <1>3 DEF FileIInv, OwnFile, OwnData
<1>6. FileIsWhole' /\ content'[target'] = content[target]
  BY <1>1 DEF FileIInv, FileIsWhole, Whole
<1> QED
  BY <1>2, <1>4, <1>5, <1>6 DEF FileIInv

(* Every step keeps the invariant and is a step of the register.           *)
LEMMA FileNextIInv ==
  ASSUME OwnNames, FileIInv, [FileNext]_fileVars
  PROVE  FileIInv' /\ [Register!Next]_(content[target])
<1>1. ASSUME NEW w \in Writers, Rename(w)
      PROVE  FileIInv' /\ [Register!Next]_(content[target])
  BY <1>1, RenameStep DEF Register!Next, Register!Replace
<1>2. ASSUME NEW w \in Writers, FileStep(w), ~Rename(w)
      PROVE  FileIInv' /\ [Register!Next]_(content[target])
  BY <1>2, OpenStep, BlocksStep, CloseStep, GiveUpStep DEF FileStep
<1>3. CASE UNCHANGED fileVars
  BY <1>3 DEF fileVars, files, writers, FileIInv, FileTypes, Apart, OwnFile, OwnData,
              FileIsWhole, Whole
<1> QED
  BY <1>1, <1>2, <1>3 DEF FileNext, FileStep

(* Writers with temporary files of their own never leave half a file, or a *)
(* mixture of two, in its place (manifest.go:256-280, store.go:226-271).   *)
THEOREM OwnNamesKeepTheFileWhole ==
  ASSUME OwnNames PROVE FileSpec => []FileIsWhole
<1>1. FileInit => FileIInv
  BY FileInitIInv
<1>2. FileIInv /\ [FileNext]_fileVars => FileIInv'
  BY FileNextIInv
<1>3. FileIInv => FileIsWhole
  BY DEF FileIInv
<1> QED
  BY <1>1, <1>2, <1>3, PTL DEF FileSpec

(* They implement the register: the file goes from one version that a      *)
(* writer wrote to another.                                                *)
THEOREM OwnNamesImplementTheRegister ==
  ASSUME OwnNames PROVE FileSpec => Register!Spec
<1>1. FileInit => FileIInv /\ Register!Init
  BY FileInitIInv DEF FileInit, Register!Init
<1>2. FileIInv /\ [FileNext]_fileVars => FileIInv' /\ [Register!Next]_(content[target])
  BY FileNextIInv
<1> QED
  BY <1>1, <1>2, PTL DEF FileSpec, Register!Spec

=============================================================================
