------------------------------- MODULE InStepProofs -------------------------------
(***************************************************************************)
(* The two walks of an authored timeline stay in step, first part: what    *)
(* the lists are built from, the invariant, and a lemma for each family of *)
(* events on files, versions and sidecars.  AuthoringProofs has the        *)
(* hierarchy events, the start and the theorems.                           *)
(***************************************************************************)
EXTENDS Authoring, TLAPS
LOCAL INSTANCE SequencesExt
W == INSTANCE WellFoundedInduction

\* A set of numbers that is not empty has a least element.
LEMMA LeastElement ==
  ASSUME NEW S \in SUBSET Nat, S # {}
  PROVE  \E x \in S : \A y \in S : x <= y
<1> DEFINE R == {p \in Nat \X Nat : p[1] < p[2]}
<1>1. R = W!OpToRel(<, Nat)
  BY Zenon DEF W!OpToRel
<1>2. W!IsWellFoundedOn(R, Nat)
  BY W!NatLessThanWellFounded, <1>1, Zenon
<1>3. \A x, y \in Nat : y < x => <<y, x>> \in R
  OBVIOUS
<1> HIDE DEF R
<1>4. PICK x \in S : \A y \in S : ~(<<y, x>> \in R)
  BY <1>2, W!WFMin
<1>5. \A y \in S : x <= y
  <2> TAKE y \in S
  <2>1. x \in Nat /\ y \in Nat
    OBVIOUS
  <2>2. ~(y < x)
    BY <1>3, <1>4, <2>1
  <2> QED BY <2>1, <2>2
<1> QED BY <1>5

\* f is the recursive function by which Picked goes through the first n elements of s.
IsPicking(f, s, X, n) ==
    f = [k \in 0..n |-> IF k = 0 THEN <<>>
                        ELSE IF s[k] \in X THEN Append(f[k - 1], s[k]) ELSE f[k - 1]]

\* The recursive function behind Picked exists: the least n without one would have one.
LEMMA PickingIsDefined ==
  ASSUME NEW s, NEW X, NEW n \in Nat
  PROVE  \E f : IsPicking(f, s, X, n)
<1> DEFINE Bad == {m \in Nat : ~\E f : IsPicking(f, s, X, m)}
<1> SUFFICES ASSUME Bad # {} PROVE FALSE
  OBVIOUS
<1>1. PICK m \in Bad : \A k \in Bad : m <= k
  BY LeastElement
<1>2. CASE m = 0
  <2> DEFINE f == [k \in 0..0 |-> <<>>]
  <2>1. IsPicking(f, s, X, 0)
    BY DEF IsPicking
  <2> HIDE DEF f
  <2> QED BY <1>1, <1>2, <2>1
<1>3. CASE m # 0
  <2>1. m - 1 \in Nat /\ m - 1 \notin Bad
    BY <1>1, <1>3
  <2>2. PICK before : IsPicking(before, s, X, m - 1)
    BY <2>1
  <2> DEFINE last == IF s[m] \in X THEN Append(before[m - 1], s[m]) ELSE before[m - 1]
             f    == [k \in 0..m |-> IF k = m THEN last ELSE before[k]]
  <2>3. \A k \in 0..(m - 1) : before[k] = IF k = 0 THEN <<>>
                                          ELSE IF s[k] \in X THEN Append(before[k - 1], s[k])
                                          ELSE before[k - 1]
    BY <2>2 DEF IsPicking
  <2>4. \A k \in 0..m : f[k] = IF k = 0 THEN <<>>
                               ELSE IF s[k] \in X THEN Append(f[k - 1], s[k])
                               ELSE f[k - 1]
    BY <1>1, <1>3, <2>3
  <2>5. f = [k \in 0..m |-> f[k]]
    OBVIOUS
  <2> HIDE DEF f
  <2>6. IsPicking(f, s, X, m)
    BY <2>4, <2>5 DEF IsPicking
  <2> QED BY <1>1, <2>6
<1> QED BY <1>2, <1>3

\* What has been picked of the first k elements.
PickedSoFar(list, s, X, k) ==
    /\ list \in Seq({s[j] : j \in 1..k} \cap X)
    /\ \A j \in 1..k : s[j] \in X => \E m \in DOMAIN list : list[m] = s[j]

\* Each value of that function is what has been picked so far.
LEMMA PickingHolds ==
  ASSUME NEW s, NEW X, NEW n \in Nat, NEW f, IsPicking(f, s, X, n), NEW k \in 0..n
  PROVE  PickedSoFar(f[k], s, X, k)
<1> DEFINE Bad == {l \in 0..n : ~PickedSoFar(f[l], s, X, l)}
<1> SUFFICES ASSUME Bad # {} PROVE FALSE
  OBVIOUS
<1>1. Bad \in SUBSET Nat
  OBVIOUS
<1>2. PICK l \in Bad : \A j \in Bad : l <= j
  BY <1>1, LeastElement
<1>3. l # 0
  <2>1. f[0] = <<>>
    BY DEF IsPicking
  <2>2. PickedSoFar(f[0], s, X, 0)
    BY <2>1 DEF PickedSoFar
  <2> QED BY <1>2, <2>2
<1>4. l \in 1..n /\ l - 1 \in 0..n /\ l - 1 \notin Bad
  BY <1>2, <1>3
<1>5. PickedSoFar(f[l - 1], s, X, l - 1)
  BY <1>4
<1> PICK last : last = f[l - 1]
  OBVIOUS
<1> DEFINE S == {s[j] : j \in 1..l} \cap X
<1>6. last \in Seq(S) /\ \A j \in 1..(l - 1) : s[j] \in X => \E m \in DOMAIN last : last[m] = s[j]
  <2>1. {s[j] : j \in 1..(l - 1)} \cap X \subseteq S
    BY <1>4
  <2>2. last \in Seq({s[j] : j \in 1..(l - 1)} \cap X)
    BY <1>5 DEF PickedSoFar
  <2>3. last \in Seq(S)
    BY <2>1, <2>2
  <2> QED BY <1>5, <2>3 DEF PickedSoFar
<1>7. f[l] = IF s[l] \in X THEN Append(last, s[l]) ELSE last
  <2>1. l \in 0..n /\ l # 0
    BY <1>4
  <2>2. f[l] = IF l = 0 THEN <<>>
               ELSE IF s[l] \in X THEN Append(f[l - 1], s[l]) ELSE f[l - 1]
    BY <2>1, Zenon DEF IsPicking
  <2> QED BY <2>1, <2>2
<1>8. CASE s[l] \notin X
  <2>1. \A j \in 1..l : s[j] \in X => j \in 1..(l - 1)
    BY <1>4, <1>8
  <2>2. PickedSoFar(f[l], s, X, l)
    BY <1>6, <1>7, <1>8, <2>1 DEF PickedSoFar
  <2> QED BY <1>2, <2>2
<1>9. CASE s[l] \in X
  <2> PICK e : e = s[l]
    OBVIOUS
  <2>1. e \in S
    BY <1>4, <1>9
  <2> HIDE DEF S
  <2>2. /\ Append(last, e) \in Seq(S) /\ Append(last, e)[Len(last) + 1] = e
        /\ Len(last) + 1 \in DOMAIN Append(last, e)
        /\ \A m \in DOMAIN last : m \in DOMAIN Append(last, e) /\ Append(last, e)[m] = last[m]
    BY <1>6, <2>1
  <2>3. \A j \in 1..l : j # l => j \in 1..(l - 1)
    BY <1>4
  <2>4. \A j \in 1..l : s[j] \in X => \E m \in DOMAIN Append(last, e) : Append(last, e)[m] = s[j]
    <3> TAKE j \in 1..l
    <3>1. CASE j = l
      BY <2>2, <3>1
    <3>2. CASE j # l
      BY <1>6, <2>2, <2>3, <3>2
    <3> QED BY <3>1, <3>2
  <2>5. PickedSoFar(f[l], s, X, l)
    BY <1>7, <1>9, <2>2, <2>4 DEF PickedSoFar, S
  <2> QED BY <1>2, <2>5
<1> QED BY <1>8, <1>9

\* Picked is a list of the elements that were asked for, and of all of them.
LEMMA PickedElements ==
  ASSUME NEW s, Len(s) \in Nat, DOMAIN s = 1..Len(s), NEW X
  PROVE  /\ Picked(s, X) \in Seq(ToSet(s) \cap X)
         /\ ToSet(Picked(s, X)) = ToSet(s) \cap X
<1> DEFINE n == Len(s)
           f == CHOOSE g : IsPicking(g, s, X, n)
<1>1. IsPicking(f, s, X, n)
  BY PickingIsDefined
<1>2. Picked(s, X) = f[n]
  BY DEF Picked, IsPicking
<1> HIDE DEF f
<1>3. PickedSoFar(f[n], s, X, n)
  BY <1>1, PickingHolds
<1>4. ToSet(s) = {s[j] : j \in 1..n}
  BY DEF ToSet
<1> PICK list : list = f[n]
  OBVIOUS
<1>5. list \in Seq(ToSet(s) \cap X) /\ \A j \in 1..n : s[j] \in X => \E m \in DOMAIN list : list[m] = s[j]
  BY <1>3, <1>4 DEF PickedSoFar
<1>6. ToSet(list) = ToSet(s) \cap X
  BY <1>4, <1>5 DEF ToSet
<1> QED BY <1>2, <1>5, <1>6

\* f is the recursive function by which FlattenSeq joins the first n lists of q.
IsFlattening(f, q, n) == f = [i \in 1..n |-> IF i = 1 THEN q[i] ELSE f[i - 1] \o q[i]]

\* The recursive function behind FlattenSeq exists.
LEMMA FlatteningIsDefined ==
  ASSUME NEW q, NEW n \in Nat, n # 0
  PROVE  \E f : IsFlattening(f, q, n)
<1> DEFINE Bad == {m \in Nat : m # 0 /\ ~\E f : IsFlattening(f, q, m)}
<1> SUFFICES ASSUME Bad # {} PROVE FALSE
  OBVIOUS
<1>1. PICK m \in Bad : \A k \in Bad : m <= k
  BY LeastElement
<1>2. CASE m = 1
  <2> DEFINE f == [i \in 1..1 |-> q[1]]
  <2>1. IsFlattening(f, q, 1)
    BY DEF IsFlattening
  <2> HIDE DEF f
  <2> QED BY <1>1, <1>2, <2>1
<1>3. CASE m # 1
  <2>1. m - 1 \in Nat /\ m - 1 # 0 /\ m - 1 \notin Bad
    BY <1>1, <1>3
  <2>2. PICK before : IsFlattening(before, q, m - 1)
    BY <2>1
  <2> DEFINE last == before[m - 1] \o q[m]
             f    == [i \in 1..m |-> IF i = m THEN last ELSE before[i]]
  <2>3. \A i \in 1..(m - 1) : before[i] = IF i = 1 THEN q[i] ELSE before[i - 1] \o q[i]
    BY <2>2 DEF IsFlattening
  <2>4. \A i \in 1..m : f[i] = IF i = 1 THEN q[i] ELSE f[i - 1] \o q[i]
    BY <1>1, <1>3, <2>3
  <2>5. f = [i \in 1..m |-> f[i]]
    OBVIOUS
  <2> HIDE DEF f
  <2>6. IsFlattening(f, q, m)
    BY <2>4, <2>5 DEF IsFlattening
  <2> QED BY <1>1, <2>1, <2>6
<1> QED BY <1>2, <1>3

\* What the first k lists of q hold.
Elements(q, k) == UNION {ToSet(q[i]) : i \in 1..k}

Unrelated(list, R) == \A a, b \in DOMAIN list : a # b => <<list[a], list[b]>> \notin R

\* No list of q holds two related elements, and no two lists do.
Apart(q, R) ==
    \A i, j \in DOMAIN q : IF i = j THEN Unrelated(q[i], R)
                           ELSE \A x \in ToSet(q[i]), y \in ToSet(q[j]) : <<x, y>> \notin R

FlatSoFar(list, q, R, k) ==
    /\ list \in Seq(Elements(q, k)) /\ ToSet(list) = Elements(q, k)
    /\ Unrelated(list, R)

\* Two lists, neither holding related elements, nor both.
LEMMA JoinedUnrelated ==
  ASSUME NEW S, NEW r \in Seq(S), NEW s \in Seq(S), NEW R,
         Unrelated(r, R), Unrelated(s, R),
         \A x \in ToSet(r), y \in ToSet(s) : <<x, y>> \notin R /\ <<y, x>> \notin R
  PROVE  Unrelated(r \o s, R)
<1> DEFINE m == Len(r) + Len(s)
<1>1. DOMAIN (r \o s) = 1..m
  OBVIOUS
<1>2. \A a \in 1..m : (r \o s)[a] = IF a <= Len(r) THEN r[a] ELSE s[a - Len(r)]
  OBVIOUS
<1>3. Len(r) \in Nat /\ Len(s) \in Nat /\ DOMAIN r = 1..Len(r) /\ DOMAIN s = 1..Len(s)
  OBVIOUS
<1> SUFFICES ASSUME NEW a \in 1..m, NEW b \in 1..m, a # b
             PROVE  <<(r \o s)[a], (r \o s)[b]>> \notin R
  BY <1>1 DEF Unrelated
<1>4. CASE a <= Len(r) /\ b <= Len(r)
  <2>1. a \in DOMAIN r /\ b \in DOMAIN r
    BY <1>3, <1>4
  <2> QED BY <1>2, <1>4, <2>1 DEF Unrelated
<1>5. CASE a > Len(r) /\ b > Len(r)
  <2>1. a - Len(r) \in DOMAIN s /\ b - Len(r) \in DOMAIN s /\ a - Len(r) # b - Len(r)
    BY <1>3, <1>5
  <2>2. (r \o s)[a] = s[a - Len(r)] /\ (r \o s)[b] = s[b - Len(r)]
    BY <1>2, <1>3, <1>5
  <2> QED BY <2>1, <2>2 DEF Unrelated
<1>6. CASE a <= Len(r) /\ b > Len(r)
  <2>1. a \in DOMAIN r /\ b - Len(r) \in DOMAIN s
    BY <1>3, <1>6
  <2>2. (r \o s)[a] = r[a] /\ (r \o s)[b] = s[b - Len(r)]
    BY <1>2, <1>3, <1>6
  <2>3. r[a] \in ToSet(r) /\ s[b - Len(r)] \in ToSet(s)
    BY <2>1 DEF ToSet
  <2> QED BY <2>2, <2>3
<1>7. CASE a > Len(r) /\ b <= Len(r)
  <2>1. b \in DOMAIN r /\ a - Len(r) \in DOMAIN s
    BY <1>3, <1>7
  <2>2. (r \o s)[b] = r[b] /\ (r \o s)[a] = s[a - Len(r)]
    BY <1>2, <1>3, <1>7
  <2>3. r[b] \in ToSet(r) /\ s[a - Len(r)] \in ToSet(s)
    BY <2>1 DEF ToSet
  <2> QED BY <2>2, <2>3
<1> QED
  <2>1. a \in Nat /\ b \in Nat
    BY <1>3
  <2>2. (a <= Len(r) \/ a > Len(r)) /\ (b <= Len(r) \/ b > Len(r))
    BY <1>3, <2>1
  <2> QED BY <1>4, <1>5, <1>6, <1>7, <2>2

\* The elements of two lists put together.
LEMMA JoinedElements ==
  ASSUME NEW S, NEW r \in Seq(S), NEW s \in Seq(S)
  PROVE  ToSet(r \o s) = ToSet(r) \cup ToSet(s)
<1> DEFINE m == Len(r) + Len(s)
<1>1. DOMAIN (r \o s) = 1..m
  OBVIOUS
<1>2. \A a \in 1..m : (r \o s)[a] = IF a <= Len(r) THEN r[a] ELSE s[a - Len(r)]
  OBVIOUS
<1>3. Len(r) \in Nat /\ Len(s) \in Nat /\ DOMAIN r = 1..Len(r) /\ DOMAIN s = 1..Len(s)
  OBVIOUS
<1>4. ASSUME NEW x \in ToSet(r \o s) PROVE x \in ToSet(r) \cup ToSet(s)
  <2>1. PICK a \in 1..m : x = (r \o s)[a]
    BY <1>1 DEF ToSet
  <2>2. CASE a <= Len(r)
    <3>1. a \in DOMAIN r /\ x = r[a]
      BY <1>2, <1>3, <2>1, <2>2
    <3> QED BY <3>1 DEF ToSet
  <2>3. CASE a > Len(r)
    <3>1. a - Len(r) \in DOMAIN s /\ x = s[a - Len(r)]
      BY <1>2, <1>3, <2>1, <2>3
    <3> QED BY <3>1 DEF ToSet
  <2> QED BY <1>3, <2>2, <2>3
<1>5. ASSUME NEW x \in ToSet(r) PROVE x \in ToSet(r \o s)
  <2>1. PICK a \in DOMAIN r : x = r[a]
    BY DEF ToSet
  <2>2. a \in 1..m /\ a <= Len(r)
    BY <1>3
  <2> QED BY <1>1, <1>2, <2>1, <2>2 DEF ToSet
<1>6. ASSUME NEW x \in ToSet(s) PROVE x \in ToSet(r \o s)
  <2>1. PICK a \in DOMAIN s : x = s[a]
    BY DEF ToSet
  <2>2. a + Len(r) \in 1..m /\ ~(a + Len(r) <= Len(r)) /\ (a + Len(r)) - Len(r) = a
    BY <1>3
  <2>3. (r \o s)[a + Len(r)] = s[a]
    BY <1>2, <2>2
  <2> QED BY <1>1, <2>1, <2>2, <2>3 DEF ToSet
<1> QED BY <1>4, <1>5, <1>6

\* Each value of that function holds the elements of the lists so far, and relates no two of them.
LEMMA FlatteningHolds ==
  ASSUME NEW q, NEW n \in Nat, NEW f, NEW S, NEW R, IsFlattening(f, q, n), DOMAIN q = 1..n,
         \A i \in 1..n : q[i] \in Seq(S), Apart(q, R), NEW k \in 1..n
  PROVE  FlatSoFar(f[k], q, R, k)
<1> DEFINE Bad == {l \in 1..n : ~FlatSoFar(f[l], q, R, l)}
<1> SUFFICES ASSUME Bad # {} PROVE FALSE
  OBVIOUS
<1>1. Bad \in SUBSET Nat
  OBVIOUS
<1>2. PICK l \in Bad : \A j \in Bad : l <= j
  BY <1>1, LeastElement
<1>3. l \in 1..n /\ q[l] \in Seq(S) /\ Unrelated(q[l], R)
  BY <1>2 DEF Apart
<1> PICK last : last = q[l]
  OBVIOUS
<1>4. last \in Seq(ToSet(last))
  BY <1>3 DEF ToSet
<1>5. ToSet(last) \subseteq Elements(q, l)
  BY <1>3 DEF Elements
<1>6. last \in Seq(Elements(q, l))
  BY <1>4, <1>5
<1>7. CASE l = 1
  <2>1. f[1] = last
    BY <1>3, <1>7 DEF IsFlattening
  <2>2. Elements(q, 1) = ToSet(last)
    BY <1>7 DEF Elements
  <2>3. FlatSoFar(f[1], q, R, 1)
    BY <1>3, <1>4, <2>1, <2>2 DEF FlatSoFar
  <2> QED BY <1>2, <1>7, <2>3
<1>8. CASE l # 1
  <2>1. l - 1 \in 1..n /\ l - 1 \notin Bad
    BY <1>2, <1>3, <1>8
  <2>2. FlatSoFar(f[l - 1], q, R, l - 1)
    BY <2>1
  <2> PICK list : list = f[l - 1]
    OBVIOUS
  <2>3. f[l] = list \o last
    BY <1>3, <1>8, Zenon DEF IsFlattening
  <2>4. Elements(q, l) = Elements(q, l - 1) \cup ToSet(last)
    <3>1. \A i \in 1..l : i = l \/ i \in 1..(l - 1)
      BY <1>3
    <3>2. \A i \in 1..(l - 1) : i \in 1..l
      BY <1>3
    <3>3. l \in 1..l
      BY <1>3
    <3> QED BY <3>1, <3>2, <3>3 DEF Elements
  <2>5. list \in Seq(Elements(q, l - 1)) /\ ToSet(list) = Elements(q, l - 1) /\ Unrelated(list, R)
    BY <2>2 DEF FlatSoFar
  <2>6. list \in Seq(Elements(q, l))
    BY <2>4, <2>5
  <2>7. list \o last \in Seq(Elements(q, l))
    BY <1>6, <2>6
  <2>8. ToSet(list \o last) = Elements(q, l)
    BY <1>6, <2>4, <2>5, <2>6, JoinedElements
  <2>9. \A x \in ToSet(list), y \in ToSet(last) : <<x, y>> \notin R /\ <<y, x>> \notin R
    <3> TAKE x \in ToSet(list), y \in ToSet(last)
    <3>1. PICK i \in 1..(l - 1) : x \in ToSet(q[i])
      BY <2>5 DEF Elements
    <3>2. i \in DOMAIN q /\ l \in DOMAIN q /\ i # l
      BY <1>3
    <3> QED BY <3>1, <3>2 DEF Apart
  <2>10. Unrelated(list \o last, R)
    BY <1>3, <1>6, <2>5, <2>6, <2>9, JoinedUnrelated
  <2>11. FlatSoFar(f[l], q, R, l)
    BY <2>3, <2>7, <2>8, <2>10 DEF FlatSoFar
  <2> QED BY <1>2, <2>11
<1> QED BY <1>7, <1>8

\* What FlattenSeq returns: a list of the elements of all lists; if R relates none of theirs, it
\* relates none of its own.
LEMMA FlattenedElements ==
  ASSUME NEW q, Len(q) \in Nat, DOMAIN q = 1..Len(q), Len(q) = 0 => q = <<>>, NEW S, NEW R,
         \A i \in DOMAIN q : q[i] \in Seq(S), Apart(q, R)
  PROVE  /\ FlattenSeq(q) \in Seq(UNION {ToSet(q[i]) : i \in DOMAIN q})
         /\ ToSet(FlattenSeq(q)) = UNION {ToSet(q[i]) : i \in DOMAIN q}
         /\ Unrelated(FlattenSeq(q), R)
<1> DEFINE n == Len(q)
           f == CHOOSE g : IsFlattening(g, q, n)
<1>1. UNION {ToSet(q[i]) : i \in DOMAIN q} = Elements(q, n)
  BY DEF Elements
<1>2. CASE n = 0
  <2>1. FlattenSeq(q) = <<>>
    BY <1>2 DEF FlattenSeq
  <2>2. Elements(q, 0) = {}
    BY DEF Elements
  <2>3. ToSet(<<>>) = {} /\ Unrelated(<<>>, R)
    BY DEF ToSet, Unrelated
  <2> QED BY <1>1, <1>2, <2>1, <2>2, <2>3
<1>3. CASE n # 0
  <2>1. IsFlattening(f, q, n)
    BY <1>3, FlatteningIsDefined
  <2>2. FlattenSeq(q) = f[n]
    BY <1>3 DEF FlattenSeq, IsFlattening
  <2> HIDE DEF f
  <2>3. n \in 1..n
    BY <1>3
  <2>4. FlatSoFar(f[n], q, R, n)
    BY <2>1, <2>3, FlatteningHolds
  <2> QED BY <1>1, <2>2, <2>4 DEF FlatSoFar
<1> QED BY <1>2, <1>3

(***************************************************************************)
(* The inductive invariant.  The library, both walks and the unsettled     *)
(* assets are parameters, so that a step is a lemma about constants.       *)
(***************************************************************************)
IsGroup(g) == g = [owner |-> g.owner, number |-> g.number]

IsParent(L, q) ==
    /\ q = [group |-> q.group, number |-> q.number, absolute |-> q.absolute, date |-> q.date,
            slug |-> q.slug, stale |-> q.stale, title |-> q.title]
    /\ q.group \in DOMAIN L.groups
    /\ q.title # ""

\* Groups and parents of the declared ids, each parent in a declared group.
TreeOK(L, groups, parents) ==
    /\ groups = [g \in DOMAIN L.groups |-> groups[g]]
    /\ \A g \in DOMAIN L.groups : IsGroup(groups[g])
    /\ parents = [q \in DOMAIN L.parents |-> parents[q]]
    /\ \A q \in DOMAIN L.parents : IsParent(L, parents[q])

\* The library by id: each asset once, under a parent in a group.
LibraryOK(L) ==
    /\ TreeOK(L, L.groups, L.parents)
    /\ L.order \in Seq(AssetIds(L))
    /\ \A a \in AssetIds(L) : /\ L.assets[a].parent \in DOMAIN L.parents
                              /\ IsContainer(L.assets[a].container)
                              /\ L.assets[a].subtitles \in Seq(ToSet(L.assets[a].subtitles))
                              /\ \E k \in DOMAIN L.order : L.order[k] = a
    /\ \A j, k \in DOMAIN L.order : L.order[j] = L.order[k] => j = k

\* A record with the fields of the engine's world.
IsWorld(w) ==
    w = [groups |-> w.groups, parents |-> w.parents, versions |-> w.versions,
         nextVersion |-> w.nextVersion, location |-> w.location,
         nextLocation |-> w.nextLocation, paths |-> w.paths, pending |-> w.pending,
         windows |-> w.windows, sidecars |-> w.sidecars, managed |-> w.managed]

\* A record with the fields of the validator's projection.
IsProjection(p) ==
    p = [numbers |-> p.numbers, members |-> p.members, parents |-> p.parents,
         paths |-> p.paths, managed |-> p.managed, pending |-> p.pending,
         placed |-> p.placed, copying |-> p.copying, sidecars |-> p.sidecars,
         staled |-> p.staled, created |-> p.created]

\* Numbers, members and parents; only the world keeps track of what is stale.
SameParent(q, r) ==
    /\ q.group = r.group /\ q.number = r.number /\ q.absolute = r.absolute
    /\ q.date = r.date /\ q.slug = r.slug /\ q.title = r.title

\* groups and actual are the world's groups and parents; the rest is the projection's.
NumbersAgree(L, numbers, members, parents, groups, actual) ==
    /\ TreeOK(L, groups, actual)
    /\ numbers = [g \in DOMAIN L.groups |-> groups[g].number]
    /\ members = [g \in DOMAIN L.groups |-> {q \in DOMAIN L.parents : actual[q].group = g}]
    /\ parents = [q \in DOMAIN L.parents |-> parents[q]]
    /\ \A q \in DOMAIN L.parents : IsParent(L, parents[q]) /\ SameParent(parents[q], actual[q])

\* A file has a path and a location of its own, or neither.
FilesOK(L, paths, location, next, managed) ==
    /\ paths = [a \in AssetIds(L) |-> paths[a]]
    /\ location = [a \in AssetIds(L) |-> location[a]]
    /\ next \in Nat \ {0}
    /\ \A a \in AssetIds(L) : location[a] \in 0..(next - 1)
    /\ \A a, b \in AssetIds(L) : location[a] = location[b] /\ location[a] # 0 => a = b
    /\ \A a \in AssetIds(L) : IF location[a] = 0 THEN paths[a] = Nowhere ELSE IsFilePath(paths[a])
    /\ \A a \in managed : a \in AssetIds(L) /\ location[a] # 0

\* A copy under way is of a file that keeps its location until the copy is committed.
CopiesAgree(pending, copying, copies, location, placed, n) ==
    /\ copies = {[start |-> c.start, location |-> location[c.asset], to |-> c.to] : c \in pending}
    /\ copying = {c.asset : c \in pending}
    /\ \A c \in pending : /\ c = [start |-> c.start, asset |-> c.asset, to |-> c.to]
                          /\ c.start \in 1..n /\ c.asset \in placed /\ IsFilePath(c.to)
    /\ \A c, d \in pending : c.start = d.start \/ c.asset = d.asset => c = d

\* Versions come from a counter that is ahead of them.
VersionsOK(L, versions, next) ==
    /\ next \in Nat \ {0}
    /\ versions = [a \in AssetIds(L) |-> versions[a]]
    /\ \A a \in AssetIds(L) : versions[a] \in Seq(1..(next - 1))

\* The engine's row for a row of the projection.
ListedRow(r) == SidecarRow(r.asset, r.kind, r.language, r.at, r.derived)

\* A row of the engine and one of the projection, with these fields and no others.
IsRow(row) == row = SidecarRow(row.asset, row.kind, row.language, row.at, row.derived)

IsProjectedRow(r) ==
    r = ProjectedSidecar(r.asset, r.at, r.kind, r.language, r.derived, r.standard)

\* The rows of both sides are rows.
RowsOK(projected, rows) ==
    /\ rows \in Seq(ToSet(rows))
    /\ \A row \in ToSet(rows) : IsRow(row)
    /\ \A r \in projected : IsProjectedRow(r)

\* Both sides list the same rows of a settled asset, each on a path of its own.
RowsAgree(projected, rows, settled) ==
    /\ \A r \in projected : r.asset \in settled => ListedRow(r) \in ToSet(rows)
    /\ \A row \in ToSet(rows) :
          row.asset \in settled => \E r \in projected : ListedRow(r) = row
    /\ \A j, k \in DOMAIN rows :
          (j # k /\ rows[j].asset \in settled /\ rows[j].asset = rows[k].asset)
             => rows[j].at # rows[k].at

\* While the renderer manages a settled asset, its declared subtitles lie beside it, and its file
\* has an extension, so that they follow it.
RowsBeside(rows, managed, paths, settled) ==
    \A row \in ToSet(rows) :
        (row.asset \in settled /\ row.derived) =>
            /\ row.kind = "subtitle"
            /\ row.asset \in managed =>
                  /\ HasExtension(paths[row.asset])
                  /\ row.at = RenderDeclaredSidecarPath(paths[row.asset], row.language,
                                                        row.at.ext[2])

\* The sidecars of the settled assets are in step.
SidecarsInStep(p, w, settled) ==
    /\ RowsOK(p.sidecars, w.sidecars)
    /\ RowsAgree(p.sidecars, w.sidecars, settled)
    /\ RowsBeside(w.sidecars, w.managed, w.paths, settled)

\* The two walks p and w are in step after n entries, the sidecars of U excepted.
InStep(L, p, w, n, U) ==
    /\ IsProjection(p) /\ IsWorld(w)
    /\ NumbersAgree(L, p.numbers, p.members, p.parents, w.groups, w.parents)
    /\ FilesOK(L, w.paths, w.location, w.nextLocation, w.managed)
    /\ p.paths = w.paths /\ p.managed = w.managed
    /\ p.placed = {a \in AssetIds(L) : w.location[a] # 0}
    /\ CopiesAgree(p.pending, p.copying, w.pending, w.location, p.placed, n)
    /\ VersionsOK(L, w.versions, w.nextVersion)
    /\ SidecarsInStep(p, w, AssetIds(L) \ U)
    /\ U \subseteq AssetIds(L)

\* The projection p with the paths that the engine has.
Reread(p, w) == [p EXCEPT !.paths = w.paths]

\* In step, but the two sides may know the files of D by other names.
InStepBut(L, p, w, n, U, D) ==
    /\ IsProjection(p) /\ InStep(L, Reread(p, w), w, n, U)
    /\ p.paths = [a \in AssetIds(L) |-> p.paths[a]]
    /\ \A a \in AssetIds(L) : a \in D \/ p.paths[a] = w.paths[a]

\* The inductive invariant: in step as long as nothing was raised, but for the names of the files
\* that are misread (after which no event is planned), and then what is left to show.
AuthoringInv ==
    /\ LibraryOK(lib) /\ \A ev \in scene.events : DraftOK(ev)
    /\ journal \in Seq(ToSet(journal))
    /\ IF failure = NoFailure
       THEN InStepBut(lib, proj, world, Len(journal), unsettled, {a \in AssetIds(lib) : Misread(a)})
       ELSE TypeOK /\ SidecarsAgree /\ AcceptedEventsApply

\* FlattenSeq of lists over S is a list over S.
LEMMA FlattenedList ==
  ASSUME NEW q, Len(q) \in Nat, DOMAIN q = 1..Len(q), Len(q) = 0 => q = <<>>, NEW S,
         \A i \in DOMAIN q : q[i] \in Seq(S)
  PROVE  FlattenSeq(q) \in Seq(S)
<1>1. Apart(q, {})
  BY DEF Apart, Unrelated
<1>2. FlattenSeq(q) \in Seq(UNION {ToSet(q[i]) : i \in DOMAIN q})
  BY <1>1, FlattenedElements
<1>3. UNION {ToSet(q[i]) : i \in DOMAIN q} \subseteq S
  BY DEF ToSet
<1> QED BY <1>2, <1>3

(***************************************************************************)
(* The library of a document.                                              *)
(***************************************************************************)
Contexts(scenario) ==
    UNION {UNION {{[group |-> g, parent |-> p, asset |-> a] : a \in ToSet(p.assets)}
                    : p \in ToSet(g.parents)} : g \in ToSet(scenario.groups)}

\* The walk over the declared groups, parents and assets returns a list of them.
LEMMA ContextsListed ==
  ASSUME NEW scenario, DocumentOK(scenario)
  PROVE  AssetContexts(scenario) \in Seq(Contexts(scenario))
<1> DEFINE S == Contexts(scenario)
           gs == scenario.groups
           ofParent(g, p) == [k \in DOMAIN gs[g].parents[p].assets |->
                                [group |-> gs[g], parent |-> gs[g].parents[p],
                                 asset |-> gs[g].parents[p].assets[k]]]
           ofGroup(g) == [p \in DOMAIN gs[g].parents |-> ofParent(g, p)]
           all == [g \in DOMAIN gs |-> FlattenSeq(ofGroup(g))]
<1>1. gs \in Seq(ToSet(gs))
  BY DEF DocumentOK
<1>2. ASSUME NEW g \in DOMAIN gs PROVE FlattenSeq(ofGroup(g)) \in Seq(S)
  <2>1. gs[g] \in ToSet(gs)
    BY DEF ToSet
  <2> PICK group : group = gs[g]
    OBVIOUS
  <2>2. group.parents \in Seq(ToSet(group.parents))
    BY <2>1 DEF DocumentOK
  <2>3. ASSUME NEW p \in DOMAIN group.parents PROVE ofParent(g, p) \in Seq(S)
    <3>1. group.parents[p] \in ToSet(group.parents)
      BY DEF ToSet
    <3> PICK parent : parent = group.parents[p]
      OBVIOUS
    <3>2. parent.assets \in Seq(ToSet(parent.assets))
      BY <2>1, <3>1 DEF DocumentOK
    <3>3. \A k \in DOMAIN parent.assets :
             [group |-> group, parent |-> parent, asset |-> parent.assets[k]] \in S
      <4> TAKE k \in DOMAIN parent.assets
      <4>1. parent.assets[k] \in ToSet(parent.assets)
        BY DEF ToSet
      <4> DEFINE ofP(q) == {[group |-> group, parent |-> q, asset |-> a] : a \in ToSet(q.assets)}
                 ofG == {ofP(q) : q \in ToSet(group.parents)}
      <4>2. [group |-> group, parent |-> parent, asset |-> parent.assets[k]] \in ofP(parent)
        BY <4>1
      <4>3. ofP(parent) \in ofG
        BY <3>1
      <4>4. UNION ofG \subseteq S
        BY <2>1 DEF Contexts
      <4> QED BY <4>2, <4>3, <4>4
    <3>4. [k \in DOMAIN parent.assets |->
             [group |-> group, parent |-> parent, asset |-> parent.assets[k]]] \in Seq(S)
      <4> DEFINE made == [k \in DOMAIN parent.assets |->
                            [group |-> group, parent |-> parent, asset |-> parent.assets[k]]]
                 m == Len(parent.assets)
      <4>1. m \in Nat /\ DOMAIN parent.assets = 1..m
        BY <3>2
      <4>2. made \in [1..m -> S]
        BY <3>3, <4>1
      <4> HIDE DEF made, S
      <4> QED BY <4>1, <4>2 DEF made
    <3> QED BY <3>4
  <2> DEFINE own == ofGroup(g)
  <2>4. DOMAIN own = DOMAIN group.parents /\ Len(group.parents) \in Nat
        /\ DOMAIN group.parents = 1..Len(group.parents)
    BY <2>2
  <2>5. Len(own) = Len(group.parents)
    BY <2>4
  <2>6. \A p \in DOMAIN own : own[p] \in Seq(S)
    BY <2>3, <2>4
  <2>7. Len(own) = 0 => own = <<>>
    BY <2>4, <2>5
  <2> HIDE DEF own, S
  <2>8. FlattenSeq(own) \in Seq(S)
    BY <2>4, <2>5, <2>6, <2>7, FlattenedList
  <2> QED BY <2>8 DEF own
<1> HIDE DEF ofGroup, S
<1>3. DOMAIN all = DOMAIN gs /\ Len(all) = Len(gs) /\ Len(gs) \in Nat /\ DOMAIN gs = 1..Len(gs)
  BY <1>1
<1>4. \A g \in DOMAIN all : all[g] \in Seq(S)
  BY <1>2, <1>3
<1>5. Len(all) = 0 => all = <<>>
  BY <1>3
<1>6. AssetContexts(scenario) = FlattenSeq(all)
  BY DEF AssetContexts, ofGroup
<1> HIDE DEF all
<1>7. FlattenSeq(all) \in Seq(S)
  BY <1>3, <1>4, <1>5, FlattenedList
<1> QED BY <1>6, <1>7 DEF S

\* A document that passes the rules on documents makes a library with an order of its assets.
LEMMA LibraryIsOK ==
  ASSUME NEW scenario, DocumentOK(scenario)
  PROVE  LibraryOK(Library(scenario))
<1> PICK contexts : contexts = AssetContexts(scenario)
  OBVIOUS
<1>1. contexts \in Seq(Contexts(scenario))
  BY ContextsListed
<1>2. \A k \in DOMAIN contexts :
         /\ contexts[k].group \in ToSet(scenario.groups)
         /\ contexts[k].parent \in ToSet(contexts[k].group.parents)
         /\ contexts[k].asset \in ToSet(contexts[k].parent.assets)
  BY <1>1 DEF Contexts
<1>3. /\ \A j, k \in DOMAIN contexts : contexts[j].asset.id = contexts[k].asset.id => j = k
      /\ scenario.groups \in Seq(ToSet(scenario.groups))
      /\ \A g \in ToSet(scenario.groups) :
            \A p \in ToSet(g.parents) :
               /\ p.title # ""
               /\ \A a \in ToSet(p.assets) : /\ a.subtitles \in Seq(ToSet(a.subtitles))
                                             /\ IsContainer(a.container)
  BY DEF DocumentOK
<1> PICK L : L = Library(scenario)
  OBVIOUS
<1>4. /\ L.order = [k \in DOMAIN contexts |-> contexts[k].asset.id]
      /\ L.groups = GroupsById(scenario)
      /\ L.parents = ParentsById(contexts)
      /\ L.assets = AssetsById(contexts)
  BY DEF Library
<1>5. DOMAIN L.groups = {scenario.groups[i].id : i \in DOMAIN scenario.groups}
      /\ L.groups = [g \in DOMAIN L.groups |-> L.groups[g]]
      /\ \A g \in DOMAIN L.groups : IsGroup(L.groups[g])
  <2> DEFINE rec(g) == LET i == CHOOSE i \in DOMAIN scenario.groups : scenario.groups[i].id = g
                       IN  [owner |-> scenario.groups[i].owner, number |-> scenario.groups[i].number]
             D == {scenario.groups[i].id : i \in DOMAIN scenario.groups}
  <2>1. L.groups = [g \in D |-> rec(g)]
    BY <1>4 DEF GroupsById
  <2>2. \A g \in D : IsGroup(rec(g))
    BY DEF IsGroup
  <2> HIDE DEF rec, D
  <2>3. DOMAIN L.groups = D /\ \A g \in D : L.groups[g] = rec(g)
    BY <2>1
  <2>4. L.groups = [g \in DOMAIN L.groups |-> L.groups[g]]
    BY <2>1
  <2> QED BY <2>2, <2>3, <2>4 DEF D
<1>6. \A k \in DOMAIN contexts : contexts[k].group.id \in DOMAIN L.groups
  BY <1>2, <1>5 DEF ToSet
<1>7. DOMAIN L.parents = {contexts[k].parent.id : k \in DOMAIN contexts}
      /\ L.parents = [q \in DOMAIN L.parents |-> L.parents[q]]
  BY <1>4, Zenon DEF ParentsById
<1>8. ASSUME NEW q \in DOMAIN L.parents PROVE IsParent(L, L.parents[q])
  <2> DEFINE c == CHOOSE c \in {contexts[k] : k \in DOMAIN contexts} : c.parent.id = q
  <2>1. c \in {contexts[k] : k \in DOMAIN contexts}
    BY <1>7
  <2>2. PICK k \in DOMAIN contexts : c = contexts[k]
    BY <2>1
  <2>3. L.parents[q] = [group |-> c.group.id, number |-> c.parent.number,
                        absolute |-> c.parent.absolute, date |-> c.parent.date,
                        slug |-> c.parent.slug, stale |-> c.parent.stale, title |-> c.parent.title]
    BY <1>4, <1>7, Zenon DEF ParentsById
  <2>4. contexts[k].parent.title # "" /\ contexts[k].group.id \in DOMAIN L.groups
    BY <1>2, <1>3, <1>6
  <2> HIDE DEF c
  <2> PICK r, d : r = L.parents[q] /\ d = c
    OBVIOUS
  <2>5. r = [group |-> d.group.id, number |-> d.parent.number,
             absolute |-> d.parent.absolute, date |-> d.parent.date,
             slug |-> d.parent.slug, stale |-> d.parent.stale, title |-> d.parent.title]
    BY <2>3
  <2>6. d.parent.title # "" /\ d.group.id \in DOMAIN L.groups
    BY <2>2, <2>4
  <2>7. r = [group |-> r.group, number |-> r.number, absolute |-> r.absolute, date |-> r.date,
             slug |-> r.slug, stale |-> r.stale, title |-> r.title]
        /\ r.group = d.group.id /\ r.title = d.parent.title
    BY <2>5
  <2> QED BY <2>6, <2>7 DEF IsParent
<1> DEFINE ids == {contexts[k].asset.id : k \in DOMAIN contexts}
           first(a) == CHOOSE k \in DOMAIN contexts : contexts[k].asset.id = a
           asset(a) == [parent |-> contexts[first(a)].parent.id,
                        label |-> contexts[first(a)].asset.label,
                        members |-> BundleMembers(contexts, first(a)),
                        tail |-> TailOf(contexts, first(a)),
                        container |-> contexts[first(a)].asset.container,
                        subtitles |-> contexts[first(a)].asset.subtitles]
<1>a. L.assets = [a \in ids |-> asset(a)]
  BY <1>4, Zenon DEF AssetsById
<1>b. \A a \in ids : /\ asset(a).parent = contexts[first(a)].parent.id
                     /\ asset(a).container = contexts[first(a)].asset.container
                     /\ asset(a).subtitles = contexts[first(a)].asset.subtitles
  OBVIOUS
<1> HIDE DEF asset
<1>9. AssetIds(L) = ids
  BY <1>a DEF AssetIds
<1>10. L.order \in Seq(AssetIds(L)) /\ DOMAIN L.order = DOMAIN contexts
  <2>1. \A k \in DOMAIN contexts : contexts[k].asset.id \in AssetIds(L)
    BY <1>9
  <2>2. Len(contexts) \in Nat /\ DOMAIN contexts = 1..Len(contexts)
    BY <1>1
  <2> QED BY <1>4, <2>1, <2>2
<1>11. ASSUME NEW a \in AssetIds(L)
       PROVE  /\ L.assets[a].parent \in DOMAIN L.parents
              /\ IsContainer(L.assets[a].container)
              /\ L.assets[a].subtitles \in Seq(ToSet(L.assets[a].subtitles))
              /\ \E k \in DOMAIN L.order : L.order[k] = a
  <2> DEFINE k == first(a)
  <2>1. k \in DOMAIN contexts /\ contexts[k].asset.id = a
    BY <1>9
  <2>2. L.assets[a].parent = contexts[k].parent.id
        /\ L.assets[a].container = contexts[k].asset.container
        /\ L.assets[a].subtitles = contexts[k].asset.subtitles
    BY <1>a, <1>b, <1>9
  <2> HIDE DEF k
  <2>3. /\ contexts[k].asset.subtitles \in Seq(ToSet(contexts[k].asset.subtitles))
        /\ IsContainer(contexts[k].asset.container)
    BY <1>2, <1>3, <2>1
  <2>4. L.order[k] = a /\ k \in DOMAIN L.order
    BY <1>4, <1>10, <2>1
  <2> QED BY <1>7, <2>1, <2>2, <2>3, <2>4
<1>12. \A j, k \in DOMAIN L.order : L.order[j] = L.order[k] => j = k
  <2>1. \A k \in DOMAIN contexts : L.order[k] = contexts[k].asset.id
    BY <1>4
  <2> TAKE j, k \in DOMAIN L.order
  <2>2. j \in DOMAIN contexts /\ k \in DOMAIN contexts
    BY <1>10
  <2>3. L.order[j] = contexts[j].asset.id /\ L.order[k] = contexts[k].asset.id
    BY <2>1, <2>2
  <2> QED BY <1>3, <2>2, <2>3
<1>13. TreeOK(L, L.groups, L.parents)
  BY <1>5, <1>7, <1>8 DEF TreeOK
<1>14. LibraryOK(L)
  BY <1>10, <1>11, <1>12, <1>13 DEF LibraryOK
<1> QED BY <1>14

(***************************************************************************)
(* Dispatch: which handler and which projection an operation has.          *)
(***************************************************************************)
LEMMA Planned ==
  ASSUME NEW L, NEW w, NEW n, NEW ev, NeedsLocation(ev) => HasLocation(w, ev.target)
  PROVE  /\ ev.op \in {"move_asset", "rename_file"} => ApplyEvent(L, w, n, ev) = MoveAsset(w, n, ev)
         /\ ev.op = "delete_file" => ApplyEvent(L, w, n, ev) = DeleteFile(w, n, ev)
         /\ ev.op = "add_file" => ApplyEvent(L, w, n, ev) = AddFile(w, n, ev)
         /\ ev.op = "slow_copy_start" => ApplyEvent(L, w, n, ev) = SlowCopyStart(w, n, ev)
         /\ ev.op = "slow_copy_commit" => ApplyEvent(L, w, n, ev) = SlowCopyCommit(w, n, ev)
         /\ ev.op = "archive_file" => ApplyEvent(L, w, n, ev) = ArchiveFile(L, w, n, ev)
         /\ ev.op = "move_between_roots" => ApplyEvent(L, w, n, ev) = MoveBetweenRoots(L, w, n, ev)
         /\ ev.op \in VersionOps => ApplyEvent(L, w, n, ev) = NewVersion(w, n, ev)
         /\ ev.op = "touch_mtime" => ApplyEvent(L, w, n, ev) = TouchMtime(w, n, ev)
         /\ ev.op = "remux_container" => ApplyEvent(L, w, n, ev) = RemuxContainer(w, n, ev)
         /\ ev.op = "create_sidecar" => ApplyEvent(L, w, n, ev) = CreateSidecar(w, n, ev)
         /\ ev.op = "extract_subtitle" => ApplyEvent(L, w, n, ev) = ExtractSubtitle(w, n, ev)
         /\ ev.op \in SidecarOps => ApplyEvent(L, w, n, ev) = UseSidecar(w, n, ev)
         /\ ev.op \in HierarchyOps => ApplyEvent(L, w, n, ev) = HierarchyEvent(L, w, n, ev)
         /\ ev.op = "mark_episode_stale" => ApplyEvent(L, w, n, ev) = MarkEpisodeStale(L, w, n, ev)
<1>1. ASSUME ev.op \in {"move_asset", "rename_file"} PROVE ApplyEvent(L, w, n, ev) = MoveAsset(w, n, ev)
  BY <1>1 DEF ApplyEvent, VersionOps, EncodeOps, CorruptionOps, SidecarOps, HierarchyOps, SwapOps, ConditionOps, OpeningOps
<1>2. ASSUME ev.op = "delete_file" PROVE ApplyEvent(L, w, n, ev) = DeleteFile(w, n, ev)
  BY <1>2 DEF ApplyEvent, VersionOps, EncodeOps, CorruptionOps, SidecarOps, HierarchyOps, SwapOps, ConditionOps, OpeningOps
<1>3. ASSUME ev.op = "add_file" PROVE ApplyEvent(L, w, n, ev) = AddFile(w, n, ev)
  BY <1>3 DEF ApplyEvent, VersionOps, EncodeOps, CorruptionOps, SidecarOps, HierarchyOps, SwapOps, ConditionOps, OpeningOps
<1>4. ASSUME ev.op = "slow_copy_start" PROVE ApplyEvent(L, w, n, ev) = SlowCopyStart(w, n, ev)
  BY <1>4 DEF ApplyEvent, VersionOps, EncodeOps, CorruptionOps, SidecarOps, HierarchyOps, SwapOps, ConditionOps, OpeningOps
<1>5. ASSUME ev.op = "slow_copy_commit" PROVE ApplyEvent(L, w, n, ev) = SlowCopyCommit(w, n, ev)
  BY <1>5 DEF ApplyEvent, VersionOps, EncodeOps, CorruptionOps, SidecarOps, HierarchyOps, SwapOps, ConditionOps, OpeningOps
<1>6. ASSUME ev.op = "archive_file" PROVE ApplyEvent(L, w, n, ev) = ArchiveFile(L, w, n, ev)
  BY <1>6 DEF ApplyEvent, VersionOps, EncodeOps, CorruptionOps, SidecarOps, HierarchyOps, SwapOps, ConditionOps, OpeningOps
<1>7. ASSUME ev.op = "move_between_roots" PROVE ApplyEvent(L, w, n, ev) = MoveBetweenRoots(L, w, n, ev)
  BY <1>7 DEF ApplyEvent, VersionOps, EncodeOps, CorruptionOps, SidecarOps, HierarchyOps, SwapOps, ConditionOps, OpeningOps
<1>8. ASSUME ev.op \in VersionOps PROVE ApplyEvent(L, w, n, ev) = NewVersion(w, n, ev)
  BY <1>8 DEF ApplyEvent, VersionOps, EncodeOps, CorruptionOps, SidecarOps, HierarchyOps, SwapOps, ConditionOps, OpeningOps
<1>9. ASSUME ev.op = "touch_mtime" PROVE ApplyEvent(L, w, n, ev) = TouchMtime(w, n, ev)
  BY <1>9 DEF ApplyEvent, VersionOps, EncodeOps, CorruptionOps, SidecarOps, HierarchyOps, SwapOps, ConditionOps, OpeningOps
<1>10. ASSUME ev.op = "remux_container" PROVE ApplyEvent(L, w, n, ev) = RemuxContainer(w, n, ev)
  BY <1>10 DEF ApplyEvent, VersionOps, EncodeOps, CorruptionOps, SidecarOps, HierarchyOps, SwapOps, ConditionOps, OpeningOps
<1>11. ASSUME ev.op = "create_sidecar" PROVE ApplyEvent(L, w, n, ev) = CreateSidecar(w, n, ev)
  BY <1>11 DEF ApplyEvent, VersionOps, EncodeOps, CorruptionOps, SidecarOps, HierarchyOps, SwapOps, ConditionOps, OpeningOps
<1>12. ASSUME ev.op = "extract_subtitle" PROVE ApplyEvent(L, w, n, ev) = ExtractSubtitle(w, n, ev)
  BY <1>12 DEF ApplyEvent, VersionOps, EncodeOps, CorruptionOps, SidecarOps, HierarchyOps, SwapOps, ConditionOps, OpeningOps
<1>13. ASSUME ev.op \in SidecarOps PROVE ApplyEvent(L, w, n, ev) = UseSidecar(w, n, ev)
  BY <1>13 DEF ApplyEvent, VersionOps, EncodeOps, CorruptionOps, SidecarOps, HierarchyOps, SwapOps, ConditionOps, OpeningOps
<1>14. ASSUME ev.op \in HierarchyOps PROVE ApplyEvent(L, w, n, ev) = HierarchyEvent(L, w, n, ev)
  BY <1>14 DEF ApplyEvent, VersionOps, EncodeOps, CorruptionOps, SidecarOps, HierarchyOps, SwapOps, ConditionOps, OpeningOps
<1>15. ASSUME ev.op = "mark_episode_stale" PROVE ApplyEvent(L, w, n, ev) = MarkEpisodeStale(L, w, n, ev)
  BY <1>15 DEF ApplyEvent, VersionOps, EncodeOps, CorruptionOps, SidecarOps, HierarchyOps, SwapOps, ConditionOps, OpeningOps
<1> QED BY <1>1, <1>2, <1>3, <1>4, <1>5, <1>6, <1>7, <1>8, <1>9, <1>10, <1>11, <1>12, <1>13, <1>14, <1>15

\* Copies stay in step while the files being copied keep their locations.
LEMMA LaterCopies ==
  ASSUME NEW pending, NEW copying, NEW copies, NEW location, NEW placed, NEW n \in Nat,
         CopiesAgree(pending, copying, copies, location, placed, n),
         NEW placed2, NEW location2,
         \A a \in copying : location2[a] = location[a] /\ (a \in placed => a \in placed2)
  PROVE  CopiesAgree(pending, copying, copies, location2, placed2, n + 1)
<1>1. \A c \in pending : c.asset \in copying
  BY DEF CopiesAgree
<1>2. {[start |-> c.start, location |-> location2[c.asset], to |-> c.to] : c \in pending}
    = {[start |-> c.start, location |-> location[c.asset], to |-> c.to] : c \in pending}
  BY <1>1
<1>3. \A c \in pending : c.start \in 1..(n + 1) /\ c.asset \in placed2
  BY <1>1 DEF CopiesAgree
<1> QED BY <1>2, <1>3 DEF CopiesAgree

\* A file that is somewhere may be somewhere else.
LEMMA NewPath ==
  ASSUME NEW L, NEW paths, NEW location, NEW next, NEW managed, NEW a \in AssetIds(L), NEW path,
         FilesOK(L, paths, location, next, managed), location[a] # 0, IsFilePath(path)
  PROVE  FilesOK(L, [paths EXCEPT ![a] = path], location, next, managed)
  BY DEF FilesOK

\* Rows that agree for some assets agree for fewer.
LEMMA SettledRows ==
  ASSUME NEW projected, NEW rows, NEW S, NEW T \in SUBSET S, RowsAgree(projected, rows, S)
  PROVE  RowsAgree(projected, rows, T)
  BY DEF RowsAgree

\* What is beside the other path is beside this one, which has an extension if the other has.
SameBeside(path, other) ==
    /\ HasExtension(other) => HasExtension(path)
    /\ \A l, c : RenderDeclaredSidecarPath(path, l, c) = RenderDeclaredSidecarPath(other, l, c)

\* The sidecars of the assets in T still lie beside their media files: each has the path it had
\* or one that differs in its extension, or the renderer no longer manages it.
LEMMA BesideStill ==
  ASSUME NEW rows, NEW managed, NEW paths, NEW S, RowsBeside(rows, managed, paths, S),
         NEW T, T \subseteq S, NEW managed2, managed2 \subseteq managed, NEW paths2,
         \A a \in T \cap managed2 : SameBeside(paths2[a], paths[a])
  PROVE  RowsBeside(rows, managed2, paths2, T)
<1> SUFFICES ASSUME NEW row \in ToSet(rows), row.asset \in T, row.derived
             PROVE  /\ row.kind = "subtitle"
                    /\ row.asset \in managed2 =>
                          /\ HasExtension(paths2[row.asset])
                          /\ row.at = RenderDeclaredSidecarPath(paths2[row.asset], row.language,
                                                                row.at.ext[2])
  BY DEF RowsBeside
<1>1. /\ row.kind = "subtitle"
      /\ row.asset \in managed =>
            /\ HasExtension(paths[row.asset])
            /\ row.at = RenderDeclaredSidecarPath(paths[row.asset], row.language, row.at.ext[2])
  BY DEF RowsBeside
<1> QED BY <1>1 DEF SameBeside

\* Sidecars that are in step for some assets are in step for fewer.
LEMMA SettledSidecars ==
  ASSUME NEW p, NEW w, NEW S, NEW T, T \subseteq S, SidecarsInStep(p, w, S)
  PROVE  SidecarsInStep(p, w, T)
<1>1. RowsAgree(p.sidecars, w.sidecars, T)
  BY DEF SidecarsInStep, RowsAgree
<1>2. RowsBeside(w.sidecars, w.managed, w.paths, T)
  BY DEF SidecarsInStep, RowsBeside
<1> QED BY <1>1, <1>2 DEF SidecarsInStep

\* Neither side's numbers change.
SameNumbers(p, w, q, v) ==
    /\ q.numbers = p.numbers /\ q.members = p.members /\ q.parents = p.parents
    /\ v.groups = w.groups /\ v.parents = w.parents

\* Files and copies change, numbers and sidecars do not.  The sidecars of the assets that stay
\* settled and managed lie beside the file as they did before.
FilesMoved(L, p, w, U, q, v, m, V) ==
    /\ IsProjection(q) /\ IsWorld(v) /\ SameNumbers(p, w, q, v)
    /\ FilesOK(L, v.paths, v.location, v.nextLocation, v.managed)
    /\ q.paths = v.paths /\ q.managed = v.managed
    /\ q.placed = {a \in AssetIds(L) : v.location[a] # 0}
    /\ CopiesAgree(q.pending, q.copying, v.pending, v.location, q.placed, m)
    /\ VersionsOK(L, v.versions, v.nextVersion)
    /\ q.sidecars = p.sidecars /\ v.sidecars = w.sidecars
    /\ U \subseteq V /\ V \subseteq AssetIds(L) /\ v.managed \subseteq w.managed
    /\ \A a \in v.managed : a \in V \/ SameBeside(v.paths[a], w.paths[a])

\* A step on files and copies alone leaves the walks in step.
LEMMA FilesChange ==
  ASSUME NEW L, NEW p, NEW w, NEW n, NEW U, InStep(L, p, w, n, U), NEW q, NEW v, NEW m, NEW V,
         FilesMoved(L, p, w, U, q, v, m, V)
  PROVE  InStep(L, q, v, m, V)
<1> DEFINE S == AssetIds(L) \ U
           T == AssetIds(L) \ V
<1>1. T \subseteq S
  BY DEF FilesMoved
<1>2. SidecarsInStep(p, w, S)
  BY DEF InStep
<1>3. \A a \in T \cap v.managed : SameBeside(v.paths[a], w.paths[a])
  BY DEF FilesMoved
<1> HIDE DEF S, T
<1> PICK rows, managed, paths, managed2, paths2 :
         /\ rows = w.sidecars /\ managed = w.managed /\ paths = w.paths
         /\ managed2 = v.managed /\ paths2 = v.paths
  OBVIOUS
<1>4. RowsBeside(rows, managed, paths, S)
  BY <1>2 DEF SidecarsInStep
<1>5. RowsBeside(rows, managed2, paths2, T)
  <2>1. managed2 \subseteq managed
    BY DEF FilesMoved
  <2> QED BY <1>1, <1>3, <1>4, <2>1, BesideStill
<1>6. RowsOK(q.sidecars, v.sidecars) /\ RowsAgree(q.sidecars, v.sidecars, T)
  BY <1>1, <1>2, SettledRows DEF SidecarsInStep, FilesMoved
<1>7. SidecarsInStep(q, v, T)
  BY <1>5, <1>6 DEF SidecarsInStep, FilesMoved
<1>8. NumbersAgree(L, q.numbers, q.members, q.parents, v.groups, v.parents)
  BY DEF InStep, SameNumbers, FilesMoved
<1> QED BY <1>7, <1>8 DEF InStep, T, FilesMoved

\* Numbers, versions and sidecars change, no file does.
FilesKept(L, p, w, q, v, V) ==
    /\ IsProjection(q) /\ IsWorld(v)
    /\ q.paths = p.paths /\ q.managed = p.managed /\ q.placed = p.placed
    /\ q.pending = p.pending /\ q.copying = p.copying /\ v.pending = w.pending
    /\ v.paths = w.paths /\ v.managed = w.managed /\ v.location = w.location
    /\ v.nextLocation = w.nextLocation
    /\ NumbersAgree(L, q.numbers, q.members, q.parents, v.groups, v.parents)
    /\ VersionsOK(L, v.versions, v.nextVersion)
    /\ SidecarsInStep(q, v, AssetIds(L) \ V) /\ V \subseteq AssetIds(L)

\* A step that moves no file leaves the walks in step.
LEMMA FilesStay ==
  ASSUME NEW L, NEW p, NEW w, NEW n, NEW U, InStep(L, p, w, n, U), NEW q, NEW v, NEW V,
         FilesKept(L, p, w, q, v, V)
  PROVE  InStep(L, q, v, n, V)
<1>1. FilesOK(L, v.paths, v.location, v.nextLocation, v.managed)
  BY DEF InStep, FilesKept
<1>2. CopiesAgree(q.pending, q.copying, v.pending, v.location, q.placed, n)
  BY DEF InStep, FilesKept
<1>3. q.paths = v.paths /\ q.managed = v.managed /\ q.placed = {a \in AssetIds(L) : v.location[a] # 0}
  BY DEF InStep, FilesKept
<1> QED BY <1>1, <1>2, <1>3 DEF InStep, FilesKept

\* Walks in step are in step but for any names; in step but for no name is in step.
LEMMA InStepButNothing ==
  ASSUME NEW L, NEW p, NEW w, NEW n, NEW U
  PROVE  /\ InStep(L, p, w, n, U) => \A D : InStepBut(L, p, w, n, U, D)
         /\ InStepBut(L, p, w, n, U, {}) => InStep(L, p, w, n, U)
<1>1. IsProjection(p) /\ p.paths = w.paths => Reread(p, w) = p
  BY DEF Reread, IsProjection
<1>2. ASSUME InStep(L, p, w, n, U) PROVE \A D : InStepBut(L, p, w, n, U, D)
  <2>1. IsProjection(p) /\ p.paths = w.paths /\ w.paths = [a \in AssetIds(L) |-> w.paths[a]]
    BY <1>2 DEF InStep, FilesOK
  <2> QED BY <1>1, <1>2, <2>1 DEF InStepBut
<1>3. ASSUME InStepBut(L, p, w, n, U, {}) PROVE InStep(L, p, w, n, U)
  <2>1. InStep(L, Reread(p, w), w, n, U) /\ IsProjection(p)
        /\ p.paths = [a \in AssetIds(L) |-> p.paths[a]]
        /\ \A a \in AssetIds(L) : p.paths[a] = w.paths[a]
    BY <1>3 DEF InStepBut
  <2>2. w.paths = [a \in AssetIds(L) |-> w.paths[a]]
    BY <2>1 DEF InStep, FilesOK
  <2>3. p.paths = w.paths
    BY <2>1, <2>2
  <2> QED BY <1>1, <2>1, <2>3
<1> QED BY <1>2, <1>3

\* Nothing but the length of the journal and the unsettled assets: still in step.
LEMMA LaterInStep ==
  ASSUME NEW L, NEW p, NEW w, NEW n \in Nat, NEW U, InStep(L, p, w, n, U),
         NEW V, U \subseteq V, V \subseteq AssetIds(L)
  PROVE  InStep(L, p, w, n + 1, V)
<1>1. CopiesAgree(p.pending, p.copying, w.pending, w.location, p.placed, n)
  BY DEF InStep
<1>2. CopiesAgree(p.pending, p.copying, w.pending, w.location, p.placed, n + 1)
  BY <1>1, LaterCopies
<1>3. SidecarsInStep(p, w, AssetIds(L) \ V)
  <2>1. SidecarsInStep(p, w, AssetIds(L) \ U) /\ AssetIds(L) \ V \subseteq AssetIds(L) \ U
    BY DEF InStep
  <2> QED BY <2>1, SettledSidecars
<1> QED BY <1>2, <1>3 DEF InStep

\* A file is somewhere else, on both sides; its sidecars are settled no longer, unless they lie
\* beside the new path as they did beside the old one.
LEMMA PathChanges ==
  ASSUME NEW L, NEW p, NEW w, NEW n \in Nat, NEW U, InStep(L, p, w, n, U),
         NEW a \in p.placed, NEW path, IsFilePath(path), NEW V, U \subseteq V, V \subseteq AssetIds(L),
         a \in V \/ SameBeside(path, w.paths[a])
  PROVE  InStep(L, [p EXCEPT !.paths[a] = path], [w EXCEPT !.paths[a] = path], n + 1, V)
<1> PICK q, v : q = [p EXCEPT !.paths[a] = path] /\ v = [w EXCEPT !.paths[a] = path]
  OBVIOUS
<1>1. IsProjection(p) /\ IsWorld(w)
  BY DEF InStep
<1>2. /\ IsProjection(q) /\ q.numbers = p.numbers /\ q.members = p.members /\ q.parents = p.parents
      /\ q.paths = [p.paths EXCEPT ![a] = path] /\ q.managed = p.managed
      /\ q.pending = p.pending /\ q.placed = p.placed /\ q.copying = p.copying
      /\ q.sidecars = p.sidecars
  BY <1>1 DEF IsProjection
<1>3. /\ IsWorld(v) /\ v.groups = w.groups /\ v.parents = w.parents
      /\ v.versions = w.versions /\ v.nextVersion = w.nextVersion /\ v.location = w.location
      /\ v.nextLocation = w.nextLocation /\ v.paths = [w.paths EXCEPT ![a] = path]
      /\ v.pending = w.pending /\ v.sidecars = w.sidecars /\ v.managed = w.managed
  BY <1>1 DEF IsWorld
<1>4. a \in AssetIds(L) /\ w.location[a] # 0
  BY DEF InStep
<1>5. FilesOK(L, v.paths, v.location, v.nextLocation, v.managed)
  <2> PICK paths, location, next, managed :
           paths = w.paths /\ location = w.location /\ next = w.nextLocation /\ managed = w.managed
    OBVIOUS
  <2>1. FilesOK(L, paths, location, next, managed) /\ location[a] # 0
    BY <1>4 DEF InStep
  <2>2. FilesOK(L, [paths EXCEPT ![a] = path], location, next, managed)
    BY <1>4, <2>1, NewPath
  <2> QED BY <1>3, <2>2
<1>6. CopiesAgree(q.pending, q.copying, v.pending, v.location, q.placed, n + 1)
  <2>1. CopiesAgree(p.pending, p.copying, w.pending, w.location, p.placed, n)
    BY DEF InStep
  <2>2. CopiesAgree(p.pending, p.copying, w.pending, w.location, p.placed, n + 1)
    BY <2>1, LaterCopies
  <2> QED BY <1>2, <1>3, <2>2
<1>7. \A b \in v.managed : b \in V \/ SameBeside(v.paths[b], w.paths[b])
  <2> TAKE b \in v.managed
  <2>1. b \in AssetIds(L) /\ w.paths = [x \in AssetIds(L) |-> w.paths[x]]
    BY <1>3 DEF InStep, FilesOK
  <2>2. CASE b = a
    <3>1. v.paths[b] = path
      BY <1>3, <2>1, <2>2
    <3> QED BY <2>2, <3>1
  <2>3. CASE b # a
    <3>1. v.paths[b] = w.paths[b]
      BY <1>3, <2>1, <2>3
    <3> QED BY <3>1 DEF SameBeside
  <2> QED BY <2>2, <2>3
<1>8. SameNumbers(p, w, q, v)
  BY <1>2, <1>3 DEF SameNumbers
<1>9. /\ VersionsOK(L, v.versions, v.nextVersion)
      /\ q.paths = v.paths /\ q.managed = v.managed
      /\ q.placed = {b \in AssetIds(L) : v.location[b] # 0}
  BY <1>2, <1>3 DEF InStep
<1>10. FilesMoved(L, p, w, U, q, v, n + 1, V)
  BY <1>2, <1>3, <1>5, <1>6, <1>7, <1>8, <1>9 DEF FilesMoved
<1>11. InStep(L, q, v, n + 1, V)
  BY <1>10, FilesChange
<1> QED BY <1>11

(***************************************************************************)
(* The operations.                                                         *)
(***************************************************************************)
\* What Plan adds to the unsettled assets.
Unsettling(w, ev, outcome) ==
    Doubled(outcome.world) \cup IF ev.op \in Relocations THEN ToSet(outcome.entry.targets) ELSE {}

\* The engine plans the event, and stays in step with the projection.
Together(L, p, w, n, U, ev, outcome) ==
    /\ outcome.raised = "no"
    /\ InStep(L, Project(L, p, n + 1, ev), outcome.world, n + 1, U \cup Unsettling(w, ev, outcome))

\* The event is the remux of a file whose name ends in a dot: the engine plans it, and the walks
\* stay in step but for the name of that file.
Parts(L, p, w, n, U, ev, outcome) ==
    /\ ev.op = "remux_container"
    /\ outcome.raised = "no"
    /\ outcome.entry.targets = <<ev.target>> /\ EndsInDot(outcome.entry.from)
    /\ InStepBut(L, Project(L, p, n + 1, ev), outcome.world, n + 1,
                 U \cup Unsettling(w, ev, outcome), {ev.target})

\* An event that may come next.
MayCome(L, p, ev) == Accepts(L, p, ev) /\ DraftOK(ev)

\* What the lifecycle rule lets through has a file, and no copy under way unless it may have one.
LEMMA TargetIsIdle ==
  ASSUME NEW L, NEW p, NEW ev, MayCome(L, p, ev),
         ev.op \notin {"add_file", "mark_episode_stale", "slow_copy_commit"}
                      \cup HierarchyOps \cup ConditionOps \cup OpeningOps \cup ClosingOps
  PROVE  ev.target \in p.placed /\ (ev.op \notin WhileCopying => ev.target \notin p.copying)
<1>1. LifecycleAllows(L, p, ev)
  BY DEF MayCome, Accepts
<1>2. PlacedAndIdle(p, ev)
  BY <1>1 DEF LifecycleAllows
<1> QED BY <1>2 DEF PlacedAndIdle

\* What the validator takes for placed the engine finds.
LEMMA PlacedIsLocated ==
  ASSUME NEW L, NEW p, NEW w, NEW n, NEW U, InStep(L, p, w, n, U), NEW a \in p.placed
  PROVE  a \in AssetIds(L) /\ HasLocation(w, a) /\ IsFilePath(w.paths[a]) /\ p.paths[a] = w.paths[a]
<1>1. a \in AssetIds(L) /\ w.location[a] # 0 /\ p.paths = w.paths
  BY DEF InStep
<1>2. IsFilePath(w.paths[a])
  BY <1>1 DEF InStep, FilesOK
<1> QED BY <1>1, <1>2 DEF HasLocation

\* Only assets have two rows on one path.
LEMMA DoubledAreAssets ==
  ASSUME NEW L, NEW w, w.paths = [a \in AssetIds(L) |-> w.paths[a]]
  PROVE  Doubled(w) \subseteq AssetIds(L)
  BY DEF Doubled

\* Rebuilt under another root, or with another extension, a path of a file is one still.
LEMMA PathsAreRebuilt ==
  ASSUME NEW path, IsFilePath(path), NEW from, NEW to, NEW container
  PROVE  /\ IsFilePath(ReplaceRootPrefix(path, from, to))
         /\ IsFilePath(SwapExtension(path, container))
         /\ IsContainer(container) => SameBeside(SwapExtension(path, container), path)
<1>1. path = [dir |-> path.dir, folder |-> path.folder, stem |-> path.stem, ext |-> path.ext]
      /\ path.stem # Nowhere.stem
  BY DEF IsFilePath
<1>2. IsFilePath(ReplaceRootPrefix(path, from, to))
  <2> DEFINE dir == to \o SubSeq(path.dir, Len(from) + 1, Len(path.dir))
  <2>1. ReplaceRootPrefix(path, from, to) = [path EXCEPT !.dir = dir]
    BY DEF ReplaceRootPrefix
  <2> HIDE DEF dir
  <2>2. [path EXCEPT !.dir = dir]
          = [dir |-> dir, folder |-> path.folder, stem |-> path.stem, ext |-> path.ext]
    BY <1>1
  <2> PICK x : x = [dir |-> dir, folder |-> path.folder, stem |-> path.stem, ext |-> path.ext]
    OBVIOUS
  <2>3. IsFilePath(x)
    BY <1>1 DEF IsFilePath
  <2> QED BY <2>1, <2>2, <2>3
<1>3. /\ IsFilePath(SwapExtension(path, container))
      /\ IsContainer(container) => SameBeside(SwapExtension(path, container), path)
  <2> DEFINE ext == <<IF EndsInDot(path) THEN "." ELSE path.ext[1], container>>
  <2>1. SwapExtension(path, container) = [path EXCEPT !.ext = ext]
    BY DEF SwapExtension
  <2>2. ext[2] = container
    OBVIOUS
  <2> HIDE DEF ext
  <2>3. [path EXCEPT !.ext = ext]
          = [dir |-> path.dir, folder |-> path.folder, stem |-> path.stem, ext |-> ext]
    BY <1>1
  <2> PICK x : x = [dir |-> path.dir, folder |-> path.folder, stem |-> path.stem, ext |-> ext]
    OBVIOUS
  <2>4. IsFilePath(x)
    BY <1>1 DEF IsFilePath
  <2>5. \A l, c : [x EXCEPT !.ext = <<l, c>>] = [path EXCEPT !.ext = <<l, c>>]
    BY <1>1
  <2>6. IsContainer(container) => HasExtension(x)
    BY <2>2 DEF IsContainer, HasExtension
  <2>7. IsContainer(container) => SameBeside(x, path)
    BY <2>5, <2>6 DEF SameBeside, RenderDeclaredSidecarPath
  <2> QED BY <2>1, <2>3, <2>4, <2>7
<1> QED BY <1>2, <1>3

\* A file is placed somewhere else by hand: move_asset, rename_file, and the two archivals.
LEMMA PlacedTogether ==
  ASSUME NEW L, NEW p, NEW w, NEW n \in Nat, NEW U, InStep(L, p, w, n, U), NEW ev,
         ev.target \in p.placed, NEW path, IsFilePath(path), ev.op \in Relocations,
         Project(L, p, n + 1, ev) = [p EXCEPT !.paths[ev.target] = path],
         NEW outcome, outcome = PlaceAt(w, n + 1, ev, path)
  PROVE  Together(L, p, w, n, U, ev, outcome)
<1> PICK a, v : a = ev.target /\ v = [w EXCEPT !.paths[a] = path]
  OBVIOUS
<1>1. outcome.raised = "no" /\ outcome.world = v
  BY DEF PlaceAt, Outcome
<1>2. outcome.entry.targets = <<a>>
  BY DEF PlaceAt, Outcome, AssetEntry, Entry
<1>3. a \in AssetIds(L)
  BY PlacedIsLocated
<1> PICK V : V = U \cup Unsettling(w, ev, outcome)
  OBVIOUS
<1>4. v.paths = [b \in AssetIds(L) |-> v.paths[b]]
  <2>1. w.paths = [b \in AssetIds(L) |-> w.paths[b]] /\ IsWorld(w)
    BY DEF InStep, FilesOK
  <2>2. v.paths = [w.paths EXCEPT ![a] = path]
    BY <2>1 DEF IsWorld
  <2> QED BY <1>3, <2>1, <2>2
<1>5. Doubled(v) \subseteq AssetIds(L)
  BY <1>4, DoubledAreAssets
<1>6. a \in V /\ U \subseteq V /\ V \subseteq AssetIds(L)
  <2>1. V = U \cup (Doubled(v) \cup {a})
    BY <1>1, <1>2 DEF Unsettling, ToSet
  <2>2. U \subseteq AssetIds(L)
    BY DEF InStep
  <2> QED BY <1>3, <1>5, <2>1, <2>2
<1>7. InStep(L, [p EXCEPT !.paths[a] = path], v, n + 1, V)
  BY <1>6, PathChanges
<1> QED BY <1>1, <1>7 DEF Together

\* move_asset, rename_file, archive_file and move_between_roots keep the walks in step.
LEMMA MovesTogether ==
  ASSUME NEW L, NEW p, NEW w, NEW n \in Nat, NEW U, InStep(L, p, w, n, U), NEW ev,
         MayCome(L, p, ev),
         ev.op \in {"move_asset", "rename_file", "archive_file", "move_between_roots"}
  PROVE  Together(L, p, w, n, U, ev, ApplyEvent(L, w, n + 1, ev))
<1>1. ev.target \in p.placed
  BY TargetIsIdle DEF HierarchyOps, SwapOps, ConditionOps, OpeningOps, ClosingOps
<1>2. /\ HasLocation(w, ev.target) /\ IsFilePath(w.paths[ev.target])
      /\ p.paths[ev.target] = w.paths[ev.target]
  BY <1>1, PlacedIsLocated
<1>3. ev.op \in Relocations
  BY DEF Relocations
<1>4. CASE ev.op \in {"move_asset", "rename_file"}
  <2>1. ApplyEvent(L, w, n + 1, ev) = PlaceAt(w, n + 1, ev, ev.to)
    BY <1>2, <1>4, Planned DEF MoveAsset
  <2>2. Project(L, p, n + 1, ev) = [p EXCEPT !.paths[ev.target] = ev.to]
    BY <1>4 DEF Project, VersionOps, EncodeOps, CorruptionOps, SidecarOps,
                HierarchyOps, SwapOps
  <2>3. IsFilePath(ev.to)
    BY <1>4 DEF MayCome, DraftOK
  <2> QED BY <1>1, <1>3, <2>1, <2>2, <2>3, PlacedTogether
<1>5. CASE ev.op = "archive_file"
  <2> PICK path : path = ReplaceRootPrefix(w.paths[ev.target],
                            CurrentRootForPath(L, w.paths[ev.target]), ArchiveBase(L))
    OBVIOUS
  <2>1. DestinationIsRooted(L, p, ev)
    BY <1>5 DEF MayCome, Accepts
  <2>2. RootsOver(L, w.paths[ev.target]) # {}
    BY <1>2, <1>5, <2>1 DEF DestinationIsRooted
  <2>3. ApplyEvent(L, w, n + 1, ev) = PlaceAt(w, n + 1, ev, path)
    BY <1>2, <1>5, <2>2, Planned DEF ArchiveFile
  <2>4. Project(L, p, n + 1, ev) = [p EXCEPT !.paths[ev.target] = path]
    BY <1>2, <1>5 DEF ProjectArchive, Project, VersionOps, EncodeOps, CorruptionOps, SidecarOps,
                HierarchyOps, SwapOps
  <2>5. IsFilePath(path)
    BY <1>2, PathsAreRebuilt
  <2> QED BY <1>1, <1>3, <2>3, <2>4, <2>5, PlacedTogether
<1>6. CASE ev.op = "move_between_roots"
  <2> PICK path : path = ReplaceRootPrefix(w.paths[ev.target], L.roots[ev.fromRoot],
                                           L.roots[ev.toRoot])
    OBVIOUS
  <2>1. DestinationIsRooted(L, p, ev)
    BY <1>6 DEF MayCome, Accepts
  <2>2. UnderRoot(w.paths[ev.target], L.roots[ev.fromRoot])
    BY <1>2, <1>6, <2>1 DEF DestinationIsRooted
  <2>3. ApplyEvent(L, w, n + 1, ev) = PlaceAt(w, n + 1, ev, path)
    BY <1>2, <1>6, <2>2, Planned DEF MoveBetweenRoots
  <2>4. Project(L, p, n + 1, ev) = [p EXCEPT !.paths[ev.target] = path]
    BY <1>2, <1>6 DEF ProjectMoveBetweenRoots, Project, VersionOps, EncodeOps, CorruptionOps, SidecarOps,
                HierarchyOps, SwapOps
  <2>5. IsFilePath(path)
    BY <1>2, PathsAreRebuilt
  <2> QED BY <1>1, <1>3, <2>3, <2>4, <2>5, PlacedTogether
<1> QED BY <1>4, <1>5, <1>6

\* A step that is in step but for what it unsettles.
LEMMA StaysTogether ==
  ASSUME NEW L, NEW p, NEW w, NEW n \in Nat, NEW U, InStep(L, p, w, n, U), NEW ev, NEW outcome,
         NEW q, NEW v, Project(L, p, n + 1, ev) = q, outcome.raised = "no", outcome.world = v,
         ev.op \notin Relocations,
         NEW V, InStep(L, q, v, n, V), V \subseteq U \cup Doubled(v)
  PROVE  Together(L, p, w, n, U, ev, outcome)
<1>1. v.paths = [a \in AssetIds(L) |-> v.paths[a]]
  BY DEF InStep, FilesOK
<1>2. Doubled(v) \subseteq AssetIds(L)
  BY <1>1, DoubledAreAssets
<1>3. U \subseteq AssetIds(L)
  BY DEF InStep
<1> PICK X : X = U \cup Doubled(v)
  OBVIOUS
<1>4. Unsettling(w, ev, outcome) = Doubled(v)
  BY DEF Unsettling
<1>5. InStep(L, q, v, n + 1, X)
  <2>1. V \subseteq X /\ X \subseteq AssetIds(L)
    BY <1>2, <1>3
  <2> QED BY <2>1, LaterInStep
<1> QED BY <1>4, <1>5 DEF Together

\* A new version takes the next number.
LEMMA MoreVersions ==
  ASSUME NEW L, NEW versions, NEW next, VersionsOK(L, versions, next), NEW a \in AssetIds(L)
  PROVE  VersionsOK(L, [versions EXCEPT ![a] = Append(versions[a], next)], next + 1)
<1> DEFINE later == [versions EXCEPT ![a] = Append(versions[a], next)]
<1>1. next \in Nat \ {0} /\ versions = [b \in AssetIds(L) |-> versions[b]]
      /\ \A b \in AssetIds(L) : versions[b] \in Seq(1..(next - 1))
  BY DEF VersionsOK
<1>2. later = [b \in AssetIds(L) |-> IF b = a THEN Append(versions[a], next) ELSE versions[b]]
  BY <1>1
<1>3. 1..(next - 1) \subseteq 1..next /\ next \in 1..next
  BY <1>1
<1>4. \A b \in AssetIds(L) : versions[b] \in Seq(1..next)
  BY <1>1, <1>3
<1>5. Append(versions[a], next) \in Seq(1..next)
  BY <1>3, <1>4
<1>6. \A b \in AssetIds(L) : later[b] \in Seq(1..next)
  BY <1>2, <1>4, <1>5
<1>7. later = [b \in AssetIds(L) |-> later[b]]
  BY <1>2
<1>8. (next + 1) - 1 = next /\ next + 1 \in Nat \ {0}
  BY <1>1
<1> HIDE DEF later
<1>9. VersionsOK(L, later, next + 1)
  BY <1>6, <1>7, <1>8 DEF VersionsOK
<1> QED BY <1>9 DEF later

\* A new version of an asset changes nothing that the walks have in common.
LEMMA VersionIsBound ==
  ASSUME NEW L, NEW p, NEW w, NEW n \in Nat, NEW U, InStep(L, p, w, n, U), NEW a \in AssetIds(L)
  PROVE  InStep(L, p, BindVersion(w, a), n, U)
<1> PICK v : v = BindVersion(w, a)
  OBVIOUS
<1>1. IsProjection(p) /\ IsWorld(w)
  BY DEF InStep
<1>2. /\ IsWorld(v) /\ v.groups = w.groups /\ v.parents = w.parents
      /\ v.versions = [w.versions EXCEPT ![a] = Append(w.versions[a], w.nextVersion)]
      /\ v.nextVersion = w.nextVersion + 1 /\ v.location = w.location
      /\ v.nextLocation = w.nextLocation /\ v.paths = w.paths
      /\ v.pending = w.pending /\ v.sidecars = w.sidecars /\ v.managed = w.managed
  <2> PICK versions : versions = [w.versions EXCEPT ![a] = Append(w.versions[a], w.nextVersion)]
    OBVIOUS
  <2>1. w.versions = [b \in AssetIds(L) |-> w.versions[b]]
    BY DEF InStep, VersionsOK
  <2>2. v = [w EXCEPT !.versions = versions, !.nextVersion = w.nextVersion + 1]
    BY <1>1, <2>1 DEF BindVersion, IsWorld
  <2> QED BY <1>1, <2>2 DEF IsWorld
<1>3. VersionsOK(L, v.versions, v.nextVersion)
  <2> PICK versions, next : versions = w.versions /\ next = w.nextVersion
    OBVIOUS
  <2>1. VersionsOK(L, versions, next)
    BY DEF InStep
  <2>2. VersionsOK(L, [versions EXCEPT ![a] = Append(versions[a], next)], next + 1)
    BY <2>1, MoreVersions
  <2> QED BY <1>2, <2>2
<1>4. SidecarsInStep(p, v, AssetIds(L) \ U) /\ U \subseteq AssetIds(L)
  BY <1>2 DEF InStep, SidecarsInStep
<1>5. NumbersAgree(L, p.numbers, p.members, p.parents, v.groups, v.parents)
  BY <1>2 DEF InStep
<1>6. FilesKept(L, p, w, p, v, U)
  BY <1>1, <1>2, <1>3, <1>4, <1>5 DEF FilesKept
<1>7. InStep(L, p, v, n, U)
  BY <1>6, FilesStay
<1> QED BY <1>7

\* Media edits, corruptions, touch_mtime and remux_container keep the walks in step, but for the
\* remux of a file whose name ends in a dot.
LEMMA RevisionsTogether ==
  ASSUME NEW L, NEW p, NEW w, NEW n \in Nat, NEW U, InStep(L, p, w, n, U), NEW ev,
         MayCome(L, p, ev), ev.op \in VersionOps \cup {"touch_mtime", "remux_container"}
  PROVE  \/ Together(L, p, w, n, U, ev, ApplyEvent(L, w, n + 1, ev))
         \/ Parts(L, p, w, n, U, ev, ApplyEvent(L, w, n + 1, ev))
<1>1. ev.target \in p.placed
  BY TargetIsIdle DEF VersionOps, EncodeOps, CorruptionOps, HierarchyOps, SwapOps, ConditionOps,
     OpeningOps, ClosingOps
<1> PICK a : a = ev.target
  OBVIOUS
<1>2. a \in AssetIds(L) /\ HasLocation(w, a) /\ IsFilePath(w.paths[a]) /\ p.paths[a] = w.paths[a]
  BY <1>1, PlacedIsLocated
<1>3. ev.op \notin Relocations
  BY DEF Relocations, VersionOps, EncodeOps, CorruptionOps
<1> PICK outcome : outcome = ApplyEvent(L, w, n + 1, ev)
  OBVIOUS
<1> PICK v : v = BindVersion(w, a)
  OBVIOUS
<1>4. InStep(L, p, v, n, U)
  BY <1>2, VersionIsBound
<1>5. CASE ev.op \in VersionOps
  <2>1. outcome = NewVersion(w, n + 1, ev)
    BY <1>2, <1>5, Planned
  <2>2. outcome.raised = "no" /\ outcome.world = v
    BY <2>1 DEF NewVersion, Outcome
  <2>3. Project(L, p, n + 1, ev) = p
    BY <1>5 DEF Project, VersionOps, EncodeOps, CorruptionOps, SidecarOps, HierarchyOps, SwapOps
  <2> QED BY <1>3, <1>4, <2>2, <2>3, StaysTogether
<1>6. CASE ev.op = "touch_mtime"
  <2>1. outcome = TouchMtime(w, n + 1, ev)
    BY <1>2, <1>6, Planned
  <2>2. outcome.raised = "no" /\ outcome.world = w
    BY <2>1 DEF TouchMtime, Outcome
  <2>3. Project(L, p, n + 1, ev) = p
    BY <1>6 DEF Project, VersionOps, EncodeOps, CorruptionOps, SidecarOps, HierarchyOps, SwapOps
  <2> QED BY <1>3, <2>2, <2>3, StaysTogether
<1>7. CASE ev.op = "remux_container"
  <2> PICK path : path = SwapExtension(w.paths[a], ev.container)
    OBVIOUS
  <2>1. outcome = RemuxContainer(w, n + 1, ev)
    BY <1>2, <1>7, Planned
  <2>2. /\ outcome.raised = "no" /\ outcome.world = [v EXCEPT !.paths[a] = path]
        /\ outcome.entry.targets = <<a>> /\ outcome.entry.from = w.paths[a]
    <3> PICK e, f : e = VersionEntry(w, n + 1, ev)
                    /\ f = [e EXCEPT !.from = w.paths[a], !.to = path]
      OBVIOUS
    <3>1. outcome.raised = "no" /\ outcome.world = [v EXCEPT !.paths[a] = path] /\ outcome.entry = f
      BY <2>1 DEF RemuxContainer, Outcome
    <3>2. "targets" \in DOMAIN e /\ "from" \in DOMAIN e /\ e.targets = <<a>>
      BY DEF VersionEntry, AssetEntry, Entry
    <3>3. f.targets = <<a>> /\ f.from = w.paths[a]
      BY ONLY f = [e EXCEPT !.from = w.paths[a], !.to = path], <3>2
    <3> QED BY <3>1, <3>3
  <2> PICK given : given = ProjectedSwap(w.paths[a], ev.container)
    OBVIOUS
  <2>3. Project(L, p, n + 1, ev) = [p EXCEPT !.paths[a] = given]
    BY <1>2, <1>7 DEF ProjectRemux, Project, VersionOps, EncodeOps, CorruptionOps, SidecarOps,
                HierarchyOps, SwapOps
  <2>4. v.paths = w.paths
    BY DEF BindVersion, InStep, IsWorld
  <2>5. IsFilePath(path) /\ SameBeside(path, v.paths[a])
    <3>1. IsContainer(ev.container)
      BY <1>7 DEF MayCome, DraftOK
    <3> QED BY <1>2, <2>4, <3>1, PathsAreRebuilt
  <2> PICK z, X : z = [v EXCEPT !.paths[a] = path] /\ X = U \cup Doubled(z)
    OBVIOUS
  <2>6. z.paths = [w.paths EXCEPT ![a] = path] /\ z.paths = [b \in AssetIds(L) |-> z.paths[b]]
        /\ w.paths = [b \in AssetIds(L) |-> w.paths[b]]
    <3>1. v.paths = [b \in AssetIds(L) |-> v.paths[b]] /\ IsWorld(v)
      BY <1>4 DEF InStep, FilesOK
    <3>2. z.paths = [v.paths EXCEPT ![a] = path]
      BY <3>1 DEF IsWorld
    <3> QED BY <1>2, <2>4, <3>1, <3>2
  <2>7. X \subseteq AssetIds(L) /\ U \subseteq X
    <3>1. U \subseteq AssetIds(L)
      BY <1>4 DEF InStep
    <3>2. Doubled(z) \subseteq AssetIds(L)
      BY ONLY <2>6, DoubledAreAssets, Zenon
    <3> QED BY <3>1, <3>2
  <2>8. InStep(L, [p EXCEPT !.paths[a] = path], z, n + 1, X)
    BY <1>1, <1>4, <2>5, <2>7, PathChanges
  <2>9. Unsettling(w, ev, outcome) = Doubled(z)
    BY <1>3, <2>2 DEF Unsettling
  <2>10. CASE given = path
    <3>1. Together(L, p, w, n, U, ev, outcome)
      BY <2>2, <2>3, <2>8, <2>9, <2>10 DEF Together
    <3> QED BY <3>1
  <2>11. CASE given # path
    <3>1. EndsInDot(w.paths[a])
      BY <2>11 DEF SwapExtension, ProjectedSwap
    <3> PICK q, r : q = [p EXCEPT !.paths[a] = given] /\ r = [p EXCEPT !.paths[a] = path]
      OBVIOUS
    <3>2. IsProjection(p) /\ p.paths = w.paths
      BY DEF InStep
    <3>3. IsProjection(q) /\ q.paths = [w.paths EXCEPT ![a] = given]
      BY <3>2 DEF IsProjection
    <3>4. Reread(q, z) = r
      BY <2>6, <3>2 DEF Reread, IsProjection
    <3>5. q.paths = [b \in AssetIds(L) |-> q.paths[b]]
          /\ \A b \in AssetIds(L) : b = a \/ q.paths[b] = z.paths[b]
      BY <1>2, <2>6, <3>3
    <3>6. InStep(L, Reread(q, z), z, n + 1, X)
      BY <2>8, <3>4
    <3>7. InStepBut(L, q, z, n + 1, X, {a})
      BY <3>3, <3>5, <3>6 DEF InStepBut
    <3>8. Parts(L, p, w, n, U, ev, outcome)
      BY <1>7, <2>2, <2>3, <2>9, <3>1, <3>7 DEF Parts
    <3> QED BY <3>8
  <2> QED BY <2>10, <2>11
<1> QED BY <1>5, <1>6, <1>7

\* A copy that starts is one more on both sides.
LEMMA CopyStarts ==
  ASSUME NEW pending, NEW copying, NEW copies, NEW location, NEW placed, NEW n \in Nat,
         CopiesAgree(pending, copying, copies, location, placed, n),
         NEW a \in placed, a \notin copying, NEW to, IsFilePath(to)
  PROVE  CopiesAgree(pending \cup {[start |-> n + 1, asset |-> a, to |-> to]}, copying \cup {a},
                     copies \cup {[start |-> n + 1, location |-> location[a], to |-> to]},
                     location, placed, n + 1)
<1> PICK d : d = [start |-> n + 1, asset |-> a, to |-> to]
  OBVIOUS
<1>1. d.start = n + 1 /\ d.asset = a /\ d.to = to /\ d = [start |-> d.start, asset |-> d.asset, to |-> d.to]
  OBVIOUS
<1>2. \A c \in pending : c = [start |-> c.start, asset |-> c.asset, to |-> c.to]
                         /\ c.start \in 1..n /\ c.asset \in placed /\ IsFilePath(c.to)
                         /\ c.asset \in copying
  BY DEF CopiesAgree
<1>3. \A c \in pending : c.start # d.start /\ c.asset # d.asset
  BY <1>1, <1>2
<1>4. copying \cup {a} = {c.asset : c \in pending \cup {d}}
  BY <1>1 DEF CopiesAgree
<1>5. {[start |-> c.start, location |-> location[c.asset], to |-> c.to] : c \in pending \cup {d}}
      = {[start |-> c.start, location |-> location[c.asset], to |-> c.to] : c \in pending}
        \cup {[start |-> n + 1, location |-> location[a], to |-> to]}
  BY <1>1
<1>6. \A c \in pending \cup {d} : /\ c = [start |-> c.start, asset |-> c.asset, to |-> c.to]
                                  /\ c.start \in 1..(n + 1) /\ c.asset \in placed /\ IsFilePath(c.to)
  BY <1>1, <1>2
<1>7. \A c, e \in pending \cup {d} : c.start = e.start \/ c.asset = e.asset => c = e
  BY <1>3 DEF CopiesAgree
<1> PICK begun, taken, made :
         /\ begun = pending \cup {d} /\ taken = copying \cup {a}
         /\ made = copies \cup {[start |-> n + 1, location |-> location[a], to |-> to]}
  OBVIOUS
<1>8. copies = {[start |-> c.start, location |-> location[c.asset], to |-> c.to] : c \in pending}
  BY DEF CopiesAgree
<1>9. made = {[start |-> c.start, location |-> location[c.asset], to |-> c.to] : c \in begun}
  BY <1>5, <1>8
<1>10. CopiesAgree(begun, taken, made, location, placed, n + 1)
  BY <1>4, <1>6, <1>7, <1>9 DEF CopiesAgree
<1> QED BY <1>10

\* The copy c of the projection is gone, and so is the engine's.
CopyEnded(pending, copying, copies, location, placed, n, c) ==
    /\ CopiesAgree(pending \ {c}, copying \ {c.asset},
                   copies \ {d \in copies : d.start = c.start}, location, placed, n + 1)
    /\ {d \in copies : d.start = c.start}
          = {[start |-> c.start, location |-> location[c.asset], to |-> c.to]}
    /\ \A e \in pending : e.start = c.start => e = c

\* A copy that ends is the one that was started, and no other of its asset remains.
LEMMA CopyEnds ==
  ASSUME NEW pending, NEW copying, NEW copies, NEW location, NEW placed, NEW n \in Nat,
         CopiesAgree(pending, copying, copies, location, placed, n),
         NEW c \in pending
  PROVE  CopyEnded(pending, copying, copies, location, placed, n, c)
<1> DEFINE copy(e) == [start |-> e.start, location |-> location[e.asset], to |-> e.to]
<1>1. copies = {copy(e) : e \in pending}
  BY DEF CopiesAgree
<1>2. \A e \in pending : copy(e).start = e.start
  OBVIOUS
<1>3. \A e, d \in pending : e.start = d.start \/ e.asset = d.asset => e = d
  BY DEF CopiesAgree
<1>4. {d \in copies : d.start = c.start} = {copy(c)}
  BY <1>1, <1>2, <1>3
<1>5. copies \ {copy(c)} = {copy(e) : e \in pending \ {c}}
  BY <1>1, <1>2, <1>3
<1>6. copying \ {c.asset} = {e.asset : e \in pending \ {c}}
  BY <1>3 DEF CopiesAgree
<1>7. \A e \in pending \ {c} : /\ e = [start |-> e.start, asset |-> e.asset, to |-> e.to]
                               /\ e.start \in 1..(n + 1) /\ e.asset \in placed /\ IsFilePath(e.to)
  BY DEF CopiesAgree
<1>8. CopiesAgree(pending \ {c}, copying \ {c.asset}, copies \ {copy(c)}, location, placed, n + 1)
  BY <1>3, <1>5, <1>6, <1>7 DEF CopiesAgree
<1> QED BY <1>3, <1>4, <1>8 DEF CopyEnded

\* A file is deleted, or placed where none was.
LEMMA FilePlacedOrGone ==
  ASSUME NEW L, NEW paths, NEW location, NEW next, NEW managed, NEW a \in AssetIds(L),
         FilesOK(L, paths, location, next, managed)
  PROVE  /\ FilesOK(L, [paths EXCEPT ![a] = Nowhere], [location EXCEPT ![a] = 0], next,
                    managed \ {a})
         /\ \A path : IsFilePath(path) /\ location[a] = 0 =>
               FilesOK(L, [paths EXCEPT ![a] = path], [location EXCEPT ![a] = next], next + 1,
                       managed)
<1>1. FilesOK(L, [paths EXCEPT ![a] = Nowhere], [location EXCEPT ![a] = 0], next, managed \ {a})
  <2> DEFINE P == [paths EXCEPT ![a] = Nowhere]
             X == [location EXCEPT ![a] = 0]
  <2>1. \A b \in AssetIds(L) : X[b] = (IF b = a THEN 0 ELSE location[b])
                               /\ P[b] = (IF b = a THEN Nowhere ELSE paths[b])
    BY DEF FilesOK
  <2>2. P = [b \in AssetIds(L) |-> P[b]] /\ X = [b \in AssetIds(L) |-> X[b]]
    BY DEF FilesOK
  <2> HIDE DEF P, X
  <2>3. next \in Nat \ {0} /\ \A b \in AssetIds(L) : X[b] \in 0..(next - 1)
    BY <2>1 DEF FilesOK
  <2>4. \A b, c \in AssetIds(L) : X[b] = X[c] /\ X[b] # 0 => b = c
    BY <2>1 DEF FilesOK
  <2>5. \A b \in AssetIds(L) : IF X[b] = 0 THEN P[b] = Nowhere ELSE IsFilePath(P[b])
    BY <2>1 DEF FilesOK
  <2>6. \A b \in managed \ {a} : b \in AssetIds(L) /\ X[b] # 0
    BY <2>1 DEF FilesOK
  <2>7. FilesOK(L, P, X, next, managed \ {a})
    BY <2>2, <2>3, <2>4, <2>5, <2>6 DEF FilesOK
  <2> QED BY <2>7 DEF P, X
<1>2. ASSUME NEW path, IsFilePath(path), location[a] = 0
      PROVE  FilesOK(L, [paths EXCEPT ![a] = path], [location EXCEPT ![a] = next], next + 1, managed)
  <2> DEFINE P == [paths EXCEPT ![a] = path]
             X == [location EXCEPT ![a] = next]
  <2>1. /\ next \in Nat \ {0} /\ next + 1 \in Nat \ {0} /\ (next + 1) - 1 = next
        /\ \A b \in AssetIds(L) : location[b] \in 0..(next - 1)
    BY DEF FilesOK
  <2>2. \A b \in AssetIds(L) : X[b] = (IF b = a THEN next ELSE location[b])
                               /\ P[b] = (IF b = a THEN path ELSE paths[b])
    BY DEF FilesOK
  <2>3. P = [b \in AssetIds(L) |-> P[b]] /\ X = [b \in AssetIds(L) |-> X[b]]
    BY DEF FilesOK
  <2> HIDE DEF P, X
  <2>4. \A b \in AssetIds(L) : X[b] \in 0..next
    BY <2>1, <2>2
  <2>5. \A b, c \in AssetIds(L) : X[b] = X[c] /\ X[b] # 0 => b = c
    BY <2>1, <2>2 DEF FilesOK
  <2>6. \A b \in AssetIds(L) : IF X[b] = 0 THEN P[b] = Nowhere ELSE IsFilePath(P[b])
    BY <1>2, <2>1, <2>2 DEF FilesOK
  <2>7. \A b \in managed : b \in AssetIds(L) /\ X[b] # 0
    BY <2>1, <2>2 DEF FilesOK
  <2>8. FilesOK(L, P, X, next + 1, managed)
    BY <2>1, <2>3, <2>4, <2>5, <2>6, <2>7 DEF FilesOK
  <2> QED BY <2>8 DEF P, X
<1> QED BY <1>1, <1>2

\* The files being copied stay where they are.
StillCopied(copying, location, placed, location2, placed2) ==
    \A a \in copying : location2[a] = location[a] /\ (a \in placed => a \in placed2)

\* Copies stay in step while others change.
LEMMA CopiesGoOn ==
  ASSUME NEW pending, NEW copying, NEW copies, NEW location, NEW placed, NEW n \in Nat,
         CopiesAgree(pending, copying, copies, location, placed, n), NEW location2, NEW placed2,
         StillCopied(copying, location, placed, location2, placed2)
  PROVE  CopiesAgree(pending, copying, copies, location2, placed2, n + 1)
  BY LaterCopies DEF StillCopied

\* delete_file keeps the walks in step.
LEMMA DeletionTogether ==
  ASSUME NEW L, NEW p, NEW w, NEW n \in Nat, NEW U, InStep(L, p, w, n, U), NEW ev,
         MayCome(L, p, ev), ev.op = "delete_file"
  PROVE  Together(L, p, w, n, U, ev, ApplyEvent(L, w, n + 1, ev))
<1> PICK a, outcome, q, v, V :
         /\ a = ev.target /\ outcome = ApplyEvent(L, w, n + 1, ev)
         /\ q = Project(L, p, n + 1, ev) /\ v = outcome.world /\ V = U \cup Doubled(v)
  OBVIOUS
<1>1. a \in p.placed /\ a \notin p.copying
  BY TargetIsIdle DEF HierarchyOps, SwapOps, ConditionOps, OpeningOps, ClosingOps, WhileCopying
<1>2. a \in AssetIds(L) /\ HasLocation(w, a)
  BY <1>1, PlacedIsLocated
<1>3. outcome = DeleteFile(w, n + 1, ev)
  BY <1>2, Planned
<1>4. IsProjection(p) /\ IsWorld(w)
  BY DEF InStep
<1>5. /\ IsProjection(q) /\ q.numbers = p.numbers /\ q.members = p.members /\ q.parents = p.parents
      /\ q.paths = [p.paths EXCEPT ![a] = Nowhere] /\ q.managed = p.managed \ {a}
      /\ q.pending = p.pending /\ q.placed = p.placed \ {a} /\ q.copying = p.copying
      /\ q.sidecars = p.sidecars
  <2>1. q = [p EXCEPT !.paths[a] = Nowhere, !.managed = p.managed \ {a}, !.placed = p.placed \ {a}]
    BY <1>4 DEF Project, IsProjection, VersionOps, EncodeOps, CorruptionOps, SidecarOps, HierarchyOps, SwapOps
  <2> QED BY <1>4, <2>1 DEF IsProjection
<1>6. /\ IsWorld(v) /\ v.groups = w.groups /\ v.parents = w.parents
      /\ v.versions = w.versions /\ v.nextVersion = w.nextVersion
      /\ v.location = [w.location EXCEPT ![a] = 0] /\ v.nextLocation = w.nextLocation
      /\ v.paths = [w.paths EXCEPT ![a] = Nowhere]
      /\ v.pending = w.pending /\ v.sidecars = w.sidecars /\ v.managed = w.managed \ {a}
  <2>1. v = [w EXCEPT !.location[a] = 0, !.paths[a] = Nowhere, !.managed = w.managed \ {a}]
    BY <1>3, <1>4 DEF DeleteFile, Outcome, IsWorld
  <2> QED BY <1>4, <2>1 DEF IsWorld
<1>7. outcome.raised = "no"
  BY <1>3 DEF DeleteFile, Outcome
<1> PICK location, paths, next, managed :
         /\ location = w.location /\ paths = w.paths /\ next = w.nextLocation
         /\ managed = w.managed
  OBVIOUS
<1>8. FilesOK(L, paths, location, next, managed)
  BY DEF InStep
<1>9. FilesOK(L, v.paths, v.location, v.nextLocation, v.managed)
  <2>1. FilesOK(L, [paths EXCEPT ![a] = Nowhere], [location EXCEPT ![a] = 0], next, managed \ {a})
    BY <1>2, <1>8, FilePlacedOrGone
  <2> QED BY <1>6, <2>1
<1>10. location = [b \in AssetIds(L) |-> location[b]] /\ paths = [b \in AssetIds(L) |-> paths[b]]
  BY <1>8 DEF FilesOK
<1>11. CopiesAgree(q.pending, q.copying, v.pending, v.location, q.placed, n + 1)
  <2>1. CopiesAgree(p.pending, p.copying, w.pending, location, p.placed, n)
    BY DEF InStep
  <2>2. \A c \in p.pending : c.asset \in p.placed
    BY <2>1 DEF CopiesAgree
  <2>3. p.copying = {c.asset : c \in p.pending} /\ p.placed \subseteq AssetIds(L)
    BY <2>1 DEF CopiesAgree, InStep
  <2> PICK location2, placed2, pending, copying, copies, placed :
           /\ location2 = [location EXCEPT ![a] = 0] /\ placed2 = p.placed \ {a}
           /\ pending = p.pending /\ copying = p.copying /\ copies = w.pending
           /\ placed = p.placed
    OBVIOUS
  <2>4. StillCopied(copying, location, placed, location2, placed2)
    BY <1>1, <1>10, <2>2, <2>3 DEF StillCopied
  <2>5. CopiesAgree(pending, copying, copies, location2, placed2, n + 1)
    <3>1. CopiesAgree(pending, copying, copies, location, placed, n)
      BY <2>1
    <3> QED BY <2>4, <3>1, CopiesGoOn
  <2> QED BY <1>5, <1>6, <2>5
<1>12. q.paths = v.paths /\ q.managed = v.managed
       /\ q.placed = {b \in AssetIds(L) : v.location[b] # 0}
  <2>1. p.paths = w.paths /\ p.managed = w.managed /\ p.placed = {b \in AssetIds(L) : w.location[b] # 0}
    BY DEF InStep
  <2>2. v.location = [b \in AssetIds(L) |-> IF b = a THEN 0 ELSE location[b]]
    BY <1>6, <1>10
  <2>3. {b \in AssetIds(L) : v.location[b] # 0} = {b \in AssetIds(L) : location[b] # 0} \ {a}
    BY <2>2
  <2> QED BY <1>5, <1>6, <2>1, <2>3, Zenon
<1>13. VersionsOK(L, v.versions, v.nextVersion) /\ SameNumbers(p, w, q, v)
  BY <1>5, <1>6 DEF SameNumbers, InStep
<1>14. \A b \in v.managed : b \in V \/ SameBeside(v.paths[b], w.paths[b])
  <2> TAKE b \in v.managed
  <2>1. b \in AssetIds(L) /\ b # a
    BY <1>6, <1>9 DEF FilesOK
  <2>2. v.paths[b] = w.paths[b]
    BY <1>6, <1>10, <2>1
  <2> QED BY <2>2 DEF SameBeside
<1>15. U \subseteq V /\ V \subseteq AssetIds(L)
  <2>1. v.paths = [b \in AssetIds(L) |-> v.paths[b]] /\ U \subseteq AssetIds(L)
    BY <1>9 DEF FilesOK, InStep
  <2> QED BY <2>1, DoubledAreAssets
<1>16. FilesMoved(L, p, w, U, q, v, n + 1, V)
  BY <1>5, <1>6, <1>9, <1>11, <1>12, <1>13, <1>14, <1>15 DEF FilesMoved
<1>17. InStep(L, q, v, n + 1, V)
  BY <1>16, FilesChange
<1>18. Unsettling(w, ev, outcome) = Doubled(v)
  BY DEF Unsettling, Relocations
<1> QED BY <1>7, <1>17, <1>18 DEF Together

\* add_file keeps the walks in step: the validator allows it only where the engine has no file.
LEMMA AdditionTogether ==
  ASSUME NEW L, NEW p, NEW w, NEW n \in Nat, NEW U, InStep(L, p, w, n, U), NEW ev,
         MayCome(L, p, ev), ev.op = "add_file"
  PROVE  Together(L, p, w, n, U, ev, ApplyEvent(L, w, n + 1, ev))
<1> PICK a, outcome, q, v, V :
         /\ a = ev.target /\ outcome = ApplyEvent(L, w, n + 1, ev)
         /\ q = Project(L, p, n + 1, ev) /\ v = outcome.world /\ V = U \cup Doubled(v)
  OBVIOUS
<1>1. a \in AssetIds(L) /\ a \notin p.placed /\ IsFilePath(ev.to)
  <2>1. TargetsKnown(L, ev) /\ LifecycleAllows(L, p, ev) /\ DraftOK(ev)
    BY DEF MayCome, Accepts
  <2>2. a \in AssetIds(L)
    BY <2>1 DEF TargetsKnown, ParentOps, RevisingOps, ClosingOps
  <2>3. a \notin p.placed
    BY <2>1 DEF LifecycleAllows, HierarchyOps, SwapOps, ConditionOps, OpeningOps, ClosingOps
  <2> QED BY <2>1, <2>2, <2>3 DEF DraftOK
<1>2. w.location[a] = 0
  BY <1>1 DEF InStep
<1>3. outcome = AddFile(w, n + 1, ev)
  <2>1. ~NeedsLocation(ev)
    BY DEF NeedsLocation
  <2> QED BY <2>1, Planned
<1>4. IsProjection(p) /\ IsWorld(w)
  BY DEF InStep
<1>5. /\ IsProjection(q) /\ q.numbers = p.numbers /\ q.members = p.members /\ q.parents = p.parents
      /\ q.paths = [p.paths EXCEPT ![a] = ev.to] /\ q.managed = p.managed
      /\ q.pending = p.pending /\ q.placed = p.placed \cup {a} /\ q.copying = p.copying
      /\ q.sidecars = p.sidecars
  <2>1. q = [p EXCEPT !.paths[a] = ev.to, !.placed = p.placed \cup {a}]
    BY <1>4 DEF Project, IsProjection, VersionOps, EncodeOps, CorruptionOps, SidecarOps, HierarchyOps, SwapOps
  <2> QED BY <1>4, <2>1 DEF IsProjection
<1>6. /\ IsWorld(v) /\ v.groups = w.groups /\ v.parents = w.parents
      /\ v.versions = w.versions /\ v.nextVersion = w.nextVersion
      /\ v.location = [w.location EXCEPT ![a] = w.nextLocation]
      /\ v.nextLocation = w.nextLocation + 1
      /\ v.paths = [w.paths EXCEPT ![a] = ev.to]
      /\ v.pending = w.pending /\ v.sidecars = w.sidecars /\ v.managed = w.managed
  <2>1. v = [w EXCEPT !.location[a] = w.nextLocation, !.nextLocation = w.nextLocation + 1,
                      !.paths[a] = ev.to]
    BY <1>2, <1>3, <1>4 DEF AddFile, Outcome, IsWorld, HasLocation
  <2> QED BY <1>4, <2>1 DEF IsWorld
<1>7. outcome.raised = "no"
  BY <1>2, <1>3 DEF AddFile, Outcome, HasLocation
<1> PICK location, paths, next, managed, path :
         /\ location = w.location /\ paths = w.paths /\ next = w.nextLocation
         /\ managed = w.managed /\ path = ev.to
  OBVIOUS
<1>8. FilesOK(L, paths, location, next, managed)
  BY DEF InStep
<1>9. FilesOK(L, v.paths, v.location, v.nextLocation, v.managed)
  <2>1. IsFilePath(path) /\ location[a] = 0
    BY <1>1, <1>2
  <2>2. FilesOK(L, [paths EXCEPT ![a] = path], [location EXCEPT ![a] = next], next + 1, managed)
    BY <1>1, <1>8, <2>1, FilePlacedOrGone
  <2> QED BY <1>6, <2>2
<1>10. /\ location = [b \in AssetIds(L) |-> location[b]] /\ paths = [b \in AssetIds(L) |-> paths[b]]
       /\ next \in Nat \ {0} /\ \A b \in managed : b \in AssetIds(L) /\ location[b] # 0
  BY <1>8 DEF FilesOK
<1>11. CopiesAgree(q.pending, q.copying, v.pending, v.location, q.placed, n + 1)
  <2>1. CopiesAgree(p.pending, p.copying, w.pending, location, p.placed, n)
    BY DEF InStep
  <2>2. \A c \in p.pending : c.asset \in p.placed
    BY <2>1 DEF CopiesAgree
  <2>3. p.copying = {c.asset : c \in p.pending} /\ p.placed \subseteq AssetIds(L)
    BY <2>1 DEF CopiesAgree, InStep
  <2> PICK location2, placed2, pending, copying, copies, placed :
           /\ location2 = [location EXCEPT ![a] = next] /\ placed2 = p.placed \cup {a}
           /\ pending = p.pending /\ copying = p.copying /\ copies = w.pending
           /\ placed = p.placed
    OBVIOUS
  <2>4. StillCopied(copying, location, placed, location2, placed2)
    BY <1>1, <1>10, <2>2, <2>3 DEF StillCopied
  <2>5. CopiesAgree(pending, copying, copies, location2, placed2, n + 1)
    <3>1. CopiesAgree(pending, copying, copies, location, placed, n)
      BY <2>1
    <3> QED BY <2>4, <3>1, CopiesGoOn
  <2> QED BY <1>5, <1>6, <2>5
<1>12. q.paths = v.paths /\ q.managed = v.managed
       /\ q.placed = {b \in AssetIds(L) : v.location[b] # 0}
  <2>1. p.paths = w.paths /\ p.managed = w.managed /\ p.placed = {b \in AssetIds(L) : w.location[b] # 0}
    BY DEF InStep
  <2>2. v.location = [b \in AssetIds(L) |-> IF b = a THEN next ELSE location[b]] /\ next # 0
    BY <1>6, <1>10
  <2>3. {b \in AssetIds(L) : v.location[b] # 0} = {b \in AssetIds(L) : location[b] # 0} \cup {a}
    BY <1>1, <2>2
  <2> QED BY <1>5, <1>6, <2>1, <2>3
<1>13. VersionsOK(L, v.versions, v.nextVersion) /\ SameNumbers(p, w, q, v)
  BY <1>5, <1>6 DEF SameNumbers, InStep
<1>14. \A b \in v.managed : b \in V \/ SameBeside(v.paths[b], w.paths[b])
  <2> TAKE b \in v.managed
  <2>1. b \in AssetIds(L) /\ b # a
    BY <1>2, <1>6, <1>10
  <2>2. v.paths[b] = w.paths[b]
    BY <1>6, <1>10, <2>1
  <2> QED BY <2>2 DEF SameBeside
<1>15. U \subseteq V /\ V \subseteq AssetIds(L)
  <2>1. v.paths = [b \in AssetIds(L) |-> v.paths[b]] /\ U \subseteq AssetIds(L)
    BY <1>9 DEF FilesOK, InStep
  <2> QED BY <2>1, DoubledAreAssets
<1>16. FilesMoved(L, p, w, U, q, v, n + 1, V)
  BY <1>5, <1>6, <1>9, <1>11, <1>12, <1>13, <1>14, <1>15 DEF FilesMoved
<1>17. InStep(L, q, v, n + 1, V)
  BY <1>16, FilesChange
<1>18. Unsettling(w, ev, outcome) = Doubled(v)
  BY DEF Unsettling, Relocations
<1> QED BY <1>7, <1>17, <1>18 DEF Together

\* slow_copy_start keeps the walks in step.
LEMMA CopyStartTogether ==
  ASSUME NEW L, NEW p, NEW w, NEW n \in Nat, NEW U, InStep(L, p, w, n, U), NEW ev,
         MayCome(L, p, ev), ev.op = "slow_copy_start"
  PROVE  Together(L, p, w, n, U, ev, ApplyEvent(L, w, n + 1, ev))
<1> PICK a, outcome, q, v, V, to :
         /\ a = ev.target /\ outcome = ApplyEvent(L, w, n + 1, ev) /\ to = ev.to
         /\ q = Project(L, p, n + 1, ev) /\ v = outcome.world /\ V = U \cup Doubled(v)
  OBVIOUS
<1>1. a \in p.placed /\ a \notin p.copying
  BY TargetIsIdle DEF HierarchyOps, SwapOps, ConditionOps, OpeningOps, ClosingOps, WhileCopying
<1>2. a \in AssetIds(L) /\ HasLocation(w, a) /\ IsFilePath(to)
  BY <1>1, PlacedIsLocated DEF MayCome, DraftOK
<1>3. outcome = SlowCopyStart(w, n + 1, ev)
  BY <1>2, Planned
<1>4. IsProjection(p) /\ IsWorld(w)
  BY DEF InStep
<1>5. /\ IsProjection(q) /\ q.numbers = p.numbers /\ q.members = p.members /\ q.parents = p.parents
      /\ q.paths = p.paths /\ q.managed = p.managed
      /\ q.pending = p.pending \cup {[start |-> n + 1, asset |-> a, to |-> to]}
      /\ q.placed = p.placed /\ q.copying = p.copying \cup {a}
      /\ q.sidecars = p.sidecars
  <2> PICK begun : begun = p.pending \cup {[start |-> n + 1, asset |-> a, to |-> to]}
    OBVIOUS
  <2>1. q = [p EXCEPT !.pending = begun, !.copying = p.copying \cup {a}]
    BY <1>4 DEF Project, IsProjection, VersionOps, EncodeOps, CorruptionOps, SidecarOps, HierarchyOps, SwapOps
  <2> QED BY <1>4, <2>1 DEF IsProjection
<1>6. /\ IsWorld(v) /\ v.groups = w.groups /\ v.parents = w.parents
      /\ v.versions = w.versions /\ v.nextVersion = w.nextVersion
      /\ v.location = w.location /\ v.nextLocation = w.nextLocation /\ v.paths = w.paths
      /\ v.pending = w.pending \cup {[start |-> n + 1, location |-> w.location[a], to |-> to]}
      /\ v.sidecars = w.sidecars /\ v.managed = w.managed
  <2> DEFINE begun == w.pending \cup {[start |-> n + 1, location |-> w.location[ev.target], to |-> ev.to]}
             entry == [AssetEntry(w, n + 1, ev) EXCEPT !.from = w.paths[ev.target], !.to = ev.to,
                                                       !.temp = ev.temp]
  <2>1. SlowCopyStart(w, n + 1, ev) = Outcome([w EXCEPT !.pending = begun], entry)
    BY Zenon DEF SlowCopyStart
  <2> HIDE DEF begun, entry
  <2>2. v = [w EXCEPT !.pending = begun]
    BY <1>3, <2>1 DEF Outcome
  <2>3. v.pending = begun /\ IsWorld(v) /\ v.groups = w.groups /\ v.parents = w.parents
        /\ v.versions = w.versions /\ v.nextVersion = w.nextVersion
        /\ v.location = w.location /\ v.nextLocation = w.nextLocation /\ v.paths = w.paths
        /\ v.sidecars = w.sidecars /\ v.managed = w.managed
    BY <1>4, <2>2 DEF IsWorld
  <2> QED BY <2>3 DEF begun
<1>7. outcome.raised = "no"
  BY <1>3 DEF SlowCopyStart, Outcome
<1>8. CopiesAgree(q.pending, q.copying, v.pending, v.location, q.placed, n + 1)
  <2> PICK pending, copying, copies, location, placed :
           /\ pending = p.pending /\ copying = p.copying /\ copies = w.pending
           /\ location = w.location /\ placed = p.placed
    OBVIOUS
  <2>1. CopiesAgree(pending, copying, copies, location, placed, n) /\ a \in placed /\ a \notin copying
    BY <1>1 DEF InStep
  <2>2. CopiesAgree(pending \cup {[start |-> n + 1, asset |-> a, to |-> to]}, copying \cup {a},
                    copies \cup {[start |-> n + 1, location |-> location[a], to |-> to]},
                    location, placed, n + 1)
    BY <1>2, <2>1, CopyStarts
  <2> QED BY <1>5, <1>6, <2>2
<1>9. /\ FilesOK(L, v.paths, v.location, v.nextLocation, v.managed)
      /\ q.paths = v.paths /\ q.managed = v.managed
      /\ q.placed = {b \in AssetIds(L) : v.location[b] # 0}
      /\ VersionsOK(L, v.versions, v.nextVersion) /\ SameNumbers(p, w, q, v)
  BY <1>5, <1>6 DEF InStep, SameNumbers
<1>10. \A b \in v.managed : b \in V \/ SameBeside(v.paths[b], w.paths[b])
  BY <1>6 DEF SameBeside
<1>11. U \subseteq V /\ V \subseteq AssetIds(L)
  <2>1. v.paths = [b \in AssetIds(L) |-> v.paths[b]] /\ U \subseteq AssetIds(L)
    BY <1>9 DEF FilesOK, InStep
  <2> QED BY <2>1, DoubledAreAssets
<1>12. FilesMoved(L, p, w, U, q, v, n + 1, V)
  BY <1>5, <1>6, <1>8, <1>9, <1>10, <1>11 DEF FilesMoved
<1>13. InStep(L, q, v, n + 1, V)
  BY <1>12, FilesChange
<1>14. Unsettling(w, ev, outcome) = Doubled(v)
  BY DEF Unsettling, Relocations
<1> QED BY <1>7, <1>13, <1>14 DEF Together

\* slow_copy_commit keeps the walks in step: both find the copy that the start event made.
LEMMA CopyCommitTogether ==
  ASSUME NEW L, NEW p, NEW w, NEW n \in Nat, NEW U, InStep(L, p, w, n, U), NEW ev,
         MayCome(L, p, ev), ev.op = "slow_copy_commit"
  PROVE  Together(L, p, w, n, U, ev, ApplyEvent(L, w, n + 1, ev))
<1> PICK outcome, q, v, V :
         /\ outcome = ApplyEvent(L, w, n + 1, ev)
         /\ q = Project(L, p, n + 1, ev) /\ v = outcome.world /\ V = U \cup Unsettling(w, ev, outcome)
  OBVIOUS
<1> PICK pending, copying, copies, location, placed, paths, next, managed :
         /\ pending = p.pending /\ copying = p.copying /\ copies = w.pending
         /\ location = w.location /\ placed = p.placed /\ paths = w.paths
         /\ next = w.nextLocation /\ managed = w.managed
  OBVIOUS
<1>1. CopiesAgree(pending, copying, copies, location, placed, n)
  BY DEF InStep
<1>2. CopyIsPaired(p, ev)
  BY DEF MayCome, Accepts
<1>3. PICK c \in pending : c.start = ev.start
  BY <1>2 DEF CopyIsPaired
<1> PICK a, to, done, copy : /\ a = c.asset /\ to = c.to
                             /\ copy = [start |-> c.start, location |-> location[c.asset], to |-> c.to]
                             /\ done = {d \in copies : d.start = c.start}
  OBVIOUS
<1>4. /\ CopiesAgree(pending \ {c}, copying \ {a}, copies \ done, location, placed, n + 1)
      /\ done = {copy} /\ \A e \in pending : e.start = ev.start => e = c
  <2>1. CopyEnded(pending, copying, copies, location, placed, n, c)
    BY <1>1, CopyEnds
  <2> QED BY <1>3, <2>1 DEF CopyEnded
<1>5. a \in placed /\ IsFilePath(to)
  BY <1>1 DEF CopiesAgree
<1>6. a \in AssetIds(L) /\ location[a] # 0
  BY <1>5, PlacedIsLocated DEF HasLocation
<1>7. FilesOK(L, paths, location, next, managed)
  BY DEF InStep
<1>8. DOMAIN location = AssetIds(L) /\ \A b \in AssetIds(L) : location[b] = location[a] => b = a
  BY <1>6, <1>7 DEF FilesOK
<1>9. IsProjection(p) /\ IsWorld(w)
  BY DEF InStep
<1>10. q = [p EXCEPT !.paths[a] = to, !.pending = pending \ {c}, !.copying = copying \ {a}]
  <2>1. (CHOOSE e \in p.pending : e.start = ev.start) = c
    BY <1>3, <1>4
  <2>2. q = ProjectCommit(p, ev)
    BY DEF Project, VersionOps, EncodeOps, CorruptionOps, SidecarOps, HierarchyOps, SwapOps
  <2> QED BY <1>9, <2>1, <2>2 DEF ProjectCommit, IsProjection
<1>11. /\ IsProjection(q) /\ q.numbers = p.numbers /\ q.members = p.members /\ q.parents = p.parents
       /\ q.paths = [p.paths EXCEPT ![a] = to] /\ q.managed = p.managed
       /\ q.pending = pending \ {c} /\ q.placed = placed /\ q.copying = copying \ {a}
       /\ q.sidecars = p.sidecars
  BY <1>9, <1>10 DEF IsProjection
<1>12. /\ outcome.raised = "no" /\ outcome.entry.targets = <<a>>
       /\ v = [w EXCEPT !.paths[a] = to, !.pending = copies \ done]
  <2> DEFINE Owners == {b \in DOMAIN w.location : \E d \in done : w.location[b] = d.location}
  <2>1. outcome = SlowCopyCommit(w, n + 1, ev)
    <3>1. ~NeedsLocation(ev)
      BY DEF NeedsLocation
    <3> QED BY <3>1, Planned
  <2>2. copy.location = location[a] /\ copy.to = to
    OBVIOUS
  <2>3. Owners = {a}
    BY <1>4, <1>6, <1>8, <2>2
  <2> DEFINE Copies == {d \in w.pending : d.start = ev.start}
             Owning == {b \in DOMAIN w.location : \E d \in Copies : w.location[b] = d.location}
             d1 == CHOOSE d \in Copies : TRUE
             a1 == CHOOSE b \in Owning : TRUE
  <2>4. SlowCopyCommit(w, n + 1, ev)
          = IF Copies = {} \/ Owning = {} THEN Raised(w, n + 1, ev, "no_pending_copy")
            ELSE Outcome([w EXCEPT !.paths[a1] = d1.to, !.pending = @ \ Copies],
                         [Entry(n + 1, ev, <<a1>>) EXCEPT !.locations = <<d1.location>>, !.to = d1.to])
    BY DEF SlowCopyCommit
  <2>5. Copies = {copy}
    BY <1>3, <1>4
  <2>6. Owning = {a}
    BY <1>4, <2>3, <2>5
  <2>7. d1 = copy /\ a1 = a
    <3> HIDE DEF Copies, Owning
    <3> QED BY <2>5, <2>6
  <2> HIDE DEF Copies, Owning, d1, a1
  <2>8. outcome = Outcome([w EXCEPT !.paths[a] = to, !.pending = @ \ Copies],
                          [Entry(n + 1, ev, <<a>>) EXCEPT !.locations = <<copy.location>>, !.to = to])
    BY <2>1, <2>2, <2>4, <2>5, <2>6, <2>7
  <2> PICK left, where, made, told :
           /\ left = copies \ done /\ where = <<copy.location>>
           /\ made = [w EXCEPT !.paths[a] = to, !.pending = @ \ Copies]
           /\ told = [Entry(n + 1, ev, <<a>>) EXCEPT !.locations = where, !.to = to]
    OBVIOUS
  <2>9. outcome = Outcome(made, told)
    BY <2>8
  <2>10. outcome.raised = "no" /\ v = made /\ outcome.entry = told
    BY <2>9 DEF Outcome
  <2>11. left = w.pending \ Copies
    BY <1>4, <2>5
  <2>12. made = [w EXCEPT !.paths[a] = to, !.pending = left]
    BY <2>11
  <2>13. told.targets = <<a>>
    BY DEF Entry
  <2> QED BY <2>10, <2>12, <2>13
<1>13. /\ IsWorld(v) /\ v.groups = w.groups /\ v.parents = w.parents
       /\ v.versions = w.versions /\ v.nextVersion = w.nextVersion
       /\ v.location = w.location /\ v.nextLocation = w.nextLocation
       /\ v.paths = [w.paths EXCEPT ![a] = to]
       /\ v.pending = copies \ done /\ v.sidecars = w.sidecars /\ v.managed = w.managed
  BY <1>9, <1>12 DEF IsWorld
<1>14. CopiesAgree(q.pending, q.copying, v.pending, v.location, q.placed, n + 1)
  BY <1>4, <1>11, <1>13
<1>15. FilesOK(L, v.paths, v.location, v.nextLocation, v.managed)
  <2>1. FilesOK(L, [paths EXCEPT ![a] = to], location, next, managed)
    BY <1>5, <1>6, <1>7, NewPath
  <2> QED BY <1>13, <2>1
<1>16. /\ q.paths = v.paths /\ q.managed = v.managed
       /\ q.placed = {b \in AssetIds(L) : v.location[b] # 0}
       /\ VersionsOK(L, v.versions, v.nextVersion) /\ SameNumbers(p, w, q, v)
  BY <1>11, <1>13 DEF InStep, SameNumbers
<1>17. V = U \cup (Doubled(v) \cup {a})
  BY <1>12 DEF Unsettling, Relocations, ToSet
<1>18. U \subseteq V /\ V \subseteq AssetIds(L)
  <2>1. v.paths = [b \in AssetIds(L) |-> v.paths[b]] /\ U \subseteq AssetIds(L)
    BY <1>15 DEF FilesOK, InStep
  <2> QED BY <1>6, <1>17, <2>1, DoubledAreAssets
<1>19. \A b \in v.managed : b \in V \/ SameBeside(v.paths[b], w.paths[b])
  <2> TAKE b \in v.managed
  <2>1. b \in AssetIds(L) /\ w.paths = [x \in AssetIds(L) |-> w.paths[x]]
    BY <1>7, <1>13 DEF FilesOK
  <2>2. CASE b = a
    BY <1>17, <2>2
  <2>3. CASE b # a
    <3>1. v.paths[b] = w.paths[b]
      BY <1>13, <2>1, <2>3
    <3> QED BY <3>1 DEF SameBeside
  <2> QED BY <2>2, <2>3
<1>20. FilesMoved(L, p, w, U, q, v, n + 1, V)
  BY <1>11, <1>13, <1>14, <1>15, <1>16, <1>18, <1>19 DEF FilesMoved
<1>21. InStep(L, q, v, n + 1, V)
  BY <1>20, FilesChange
<1> QED BY <1>12, <1>21 DEF Together

(***************************************************************************)
(* Sidecars.                                                               *)
(***************************************************************************)
LEMMA AppendedElements ==
  ASSUME NEW S, NEW s \in Seq(S), NEW x
  PROVE  Append(s, x) \in Seq(S \cup {x}) /\ ToSet(Append(s, x)) = ToSet(s) \cup {x}
         /\ Len(Append(s, x)) = Len(s) + 1 /\ Append(s, x)[Len(s) + 1] = x
         /\ Len(s) + 1 \in DOMAIN Append(s, x)
         /\ \A k \in DOMAIN s : /\ k \in DOMAIN Append(s, x) /\ Append(s, x)[k] = s[k]
                                /\ k # Len(s) + 1
<1> PICK t : t = Append(s, x)
  OBVIOUS
<1>1. s \in Seq(S \cup {x}) /\ Len(s) \in Nat /\ DOMAIN s = 1..Len(s)
  OBVIOUS
<1>2. t \in Seq(S \cup {x}) /\ Len(t) = Len(s) + 1 /\ DOMAIN t = 1..(Len(s) + 1)
      /\ t[Len(s) + 1] = x /\ \A k \in 1..Len(s) : t[k] = s[k]
  BY <1>1
<1>3. ToSet(t) = ToSet(s) \cup {x}
  <2>1. \A y \in ToSet(t) : y \in ToSet(s) \cup {x}
    <3> TAKE y \in ToSet(t)
    <3>1. PICK k \in 1..(Len(s) + 1) : y = t[k]
      BY <1>2 DEF ToSet
    <3>2. CASE k = Len(s) + 1
      BY <1>2, <3>1, <3>2
    <3>3. CASE k # Len(s) + 1
      <4>1. k \in 1..Len(s)
        BY <1>1, <3>3
      <4> QED BY <1>1, <1>2, <3>1, <4>1 DEF ToSet
    <3> QED BY <3>2, <3>3
  <2>2. \A y \in ToSet(s) : y \in ToSet(t)
    <3> TAKE y \in ToSet(s)
    <3>1. PICK k \in 1..Len(s) : y = s[k]
      BY <1>1 DEF ToSet
    <3>2. k \in DOMAIN t /\ t[k] = y
      BY <1>1, <1>2, <3>1
    <3> QED BY <3>2 DEF ToSet
  <2>3. x \in ToSet(t)
    <3>1. Len(s) + 1 \in DOMAIN t
      BY <1>1, <1>2
    <3> QED BY <1>2, <3>1 DEF ToSet
  <2> QED BY <2>1, <2>2, <2>3
<1>4. /\ Len(s) + 1 \in DOMAIN t
      /\ \A k \in DOMAIN s : k \in DOMAIN t /\ t[k] = s[k] /\ k # Len(s) + 1
  BY <1>1, <1>2
<1> QED BY <1>2, <1>3, <1>4

\* What is left of a list without its k-th element.
LEMMA RemovedElement ==
  ASSUME NEW S, NEW s \in Seq(S), NEW k \in DOMAIN s
  PROVE  RemoveAt(s, k) \in Seq(S) /\ ToSet(RemoveAt(s, k)) = {s[j] : j \in DOMAIN s \ {k}}
<1> DEFINE m == Len(s)
           r == SubSeq(s, 1, k - 1)
           t == SubSeq(s, k + 1, m)
<1>1. m \in Nat /\ DOMAIN s = 1..m /\ k \in 1..m /\ \A j \in 1..m : s[j] \in S
  OBVIOUS
<1>2. r \in Seq(S) /\ Len(r) = k - 1 /\ \A j \in 1..(k - 1) : r[j] = s[j]
  BY <1>1
<1>3. t \in Seq(S) /\ Len(t) = m - k /\ \A j \in 1..(m - k) : t[j] = s[j + k]
  BY <1>1
<1>4. RemoveAt(s, k) = r \o t
  BY DEF RemoveAt
<1> HIDE DEF r, t
<1>5. r \o t \in Seq(S) /\ ToSet(r \o t) = ToSet(r) \cup ToSet(t)
  BY <1>2, <1>3, JoinedElements
<1>6. ToSet(r) = {s[j] : j \in 1..(k - 1)}
  BY <1>1, <1>2 DEF ToSet
<1>7. ToSet(t) = {s[j] : j \in (k + 1)..m}
  <2>1. ToSet(t) = {s[j + k] : j \in 1..(m - k)}
    <3>1. DOMAIN t = 1..(m - k)
      BY <1>1, <1>3
    <3>2. ToSet(t) = {t[j] : j \in 1..(m - k)}
      BY <3>1 DEF ToSet
    <3>3. \A j \in 1..(m - k) : t[j] = s[j + k]
      BY <1>3
    <3> QED BY <3>2, <3>3
  <2>2. \A i \in (k + 1)..m : i - k \in 1..(m - k) /\ (i - k) + k = i
    BY <1>1
  <2>3. \A j \in 1..(m - k) : j + k \in (k + 1)..m
    BY <1>1
  <2> QED BY <2>1, <2>2, <2>3
<1>8. DOMAIN s \ {k} = 1..(k - 1) \cup (k + 1)..m
  BY <1>1
<1> QED BY <1>4, <1>5, <1>6, <1>7, <1>8

\* Both sides list the same rows of a settled asset.
Listed(projected, rows, settled) ==
    /\ \A r \in projected : r.asset \in settled => ListedRow(r) \in ToSet(rows)
    /\ \A row \in ToSet(rows) :
          row.asset \in settled => \E r \in projected : ListedRow(r) = row

\* Nothing but sidecars changes.
OnlySidecars(p, w, q, v) ==
    /\ IsProjection(q) /\ IsWorld(v)
    /\ q.numbers = p.numbers /\ q.members = p.members /\ q.parents = p.parents
    /\ q.paths = p.paths /\ q.managed = p.managed /\ q.placed = p.placed
    /\ q.pending = p.pending /\ q.copying = p.copying
    /\ v.groups = w.groups /\ v.parents = w.parents /\ v.versions = w.versions
    /\ v.nextVersion = w.nextVersion /\ v.location = w.location
    /\ v.nextLocation = w.nextLocation /\ v.paths = w.paths /\ v.pending = w.pending
    /\ v.managed = w.managed

\* Rows of assets that are not doubled lie on paths of their own.
LEMMA ListedApart ==
  ASSUME NEW L, NEW v, v.paths = [a \in AssetIds(L) |-> v.paths[a]], NEW U, NEW projected,
         Listed(projected, v.sidecars, AssetIds(L) \ (U \cup Doubled(v)))
  PROVE  RowsAgree(projected, v.sidecars, AssetIds(L) \ (U \cup Doubled(v)))
<1> PICK T : T = AssetIds(L) \ (U \cup Doubled(v))
  OBVIOUS
<1>1. \A j, k \in DOMAIN v.sidecars :
         (j # k /\ v.sidecars[j].asset \in T /\ v.sidecars[j].asset = v.sidecars[k].asset)
             => v.sidecars[j].at # v.sidecars[k].at
  BY DEF Doubled
<1>2. Listed(projected, v.sidecars, T)
  OBVIOUS
<1> QED BY <1>1, <1>2 DEF RowsAgree, Listed

\* A step on sidecars alone leaves the walks in step, but for the assets it doubles.
LEMMA RowsChange ==
  ASSUME NEW L, NEW p, NEW w, NEW n \in Nat, NEW U, InStep(L, p, w, n, U), NEW q, NEW v,
         OnlySidecars(p, w, q, v), RowsOK(q.sidecars, v.sidecars),
         Listed(q.sidecars, v.sidecars, AssetIds(L) \ (U \cup Doubled(v))),
         \A row \in ToSet(v.sidecars) : row.derived => row \in ToSet(w.sidecars)
  PROVE  InStep(L, q, v, n, U \cup Doubled(v))
<1> PICK V : V = U \cup Doubled(v)
  OBVIOUS
<1>1. v.paths = [a \in AssetIds(L) |-> v.paths[a]] /\ v.paths = w.paths
  BY DEF InStep, FilesOK, OnlySidecars
<1>2. V \subseteq AssetIds(L)
  BY <1>1, DoubledAreAssets DEF InStep
<1>3. RowsAgree(q.sidecars, v.sidecars, AssetIds(L) \ V)
  BY <1>1, ListedApart
<1>4. RowsBeside(v.sidecars, v.managed, v.paths, AssetIds(L) \ V)
  <2>1. RowsBeside(w.sidecars, w.managed, w.paths, AssetIds(L) \ U)
    BY DEF InStep, SidecarsInStep
  <2>2. v.managed = w.managed /\ AssetIds(L) \ V \subseteq AssetIds(L) \ U
    BY DEF OnlySidecars
  <2> QED BY <1>1, <2>1, <2>2 DEF RowsBeside
<1>5. SidecarsInStep(q, v, AssetIds(L) \ V)
  BY <1>3, <1>4 DEF SidecarsInStep
<1>6. NumbersAgree(L, q.numbers, q.members, q.parents, v.groups, v.parents)
      /\ VersionsOK(L, v.versions, v.nextVersion)
  BY DEF InStep, OnlySidecars
<1>7. FilesKept(L, p, w, q, v, V)
  BY <1>2, <1>5, <1>6 DEF FilesKept, OnlySidecars
<1>8. InStep(L, q, v, n, V)
  BY <1>7, FilesStay
<1> QED BY <1>8

\* What the rows of an accepted event are about: an asset.
LEMMA WritingTarget ==
  ASSUME NEW L, NEW p, NEW w, NEW n \in Nat, NEW U, InStep(L, p, w, n, U), NEW ev,
         MayCome(L, p, ev), ev.op \in {"create_sidecar", "extract_subtitle"} \cup SidecarOps
  PROVE  /\ ev.target \in AssetIds(L) /\ HasLocation(w, ev.target)
         /\ IsProjection(p) /\ IsWorld(w) /\ RowsOK(p.sidecars, w.sidecars)
         /\ RowsAgree(p.sidecars, w.sidecars, AssetIds(L) \ U)
<1>1. ev.target \in p.placed
  BY TargetIsIdle DEF SidecarOps, HierarchyOps, SwapOps, ConditionOps, OpeningOps, ClosingOps
<1>2. ev.target \in AssetIds(L) /\ HasLocation(w, ev.target)
  BY <1>1, PlacedIsLocated
<1> QED BY <1>2 DEF InStep, SidecarsInStep

\* The engine's row has the fields of the projection's.
LEMMA ListedFields ==
  ASSUME NEW r
  PROVE  /\ ListedRow(r).asset = r.asset /\ ListedRow(r).kind = r.kind
         /\ ListedRow(r).language = r.language /\ ListedRow(r).at = r.at
         /\ ListedRow(r).derived = r.derived
  BY DEF ListedRow, SidecarRow

\* A row is written at the end of those that are kept; every other row of the asset and path
\* goes from the projection, and no row goes on one side only.
Written(p, w, q, v, a, rows, projected, kind, language, at, standard) ==
    /\ RowsOK(projected, rows)
    /\ ToSet(rows) \subseteq ToSet(w.sidecars) /\ projected \subseteq p.sidecars
    /\ OnlySidecars(p, w, q, v)
    /\ q.sidecars = projected \cup {ProjectedSidecar(a, at, kind, language, FALSE, standard)}
    /\ v.sidecars = Append(rows, SidecarRow(a, kind, language, at, FALSE))
    /\ \A r \in p.sidecars \ projected :
          r.asset = a /\ (r.at = at \/ \A row \in ToSet(rows) : ListedRow(r) # row)
    /\ \A row \in ToSet(w.sidecars) \ ToSet(rows) :
          row.asset = a /\ \A r \in projected : ListedRow(r) # row

\* A written row leaves the walks in step, but for the assets it doubles.
LEMMA RowWritten ==
  ASSUME NEW L, NEW p, NEW w, NEW n \in Nat, NEW U, InStep(L, p, w, n, U), NEW a \in AssetIds(L),
         NEW rows, NEW projected, NEW kind, NEW language, NEW at, NEW standard, NEW q, NEW v,
         Written(p, w, q, v, a, rows, projected, kind, language, at, standard)
  PROVE  InStep(L, q, v, n, U \cup Doubled(v))
<1> PICK written, new, later, S, T :
         /\ written = SidecarRow(a, kind, language, at, FALSE)
         /\ new = ProjectedSidecar(a, at, kind, language, FALSE, standard)
         /\ later = v.sidecars /\ S = ToSet(rows) /\ T = AssetIds(L) \ (U \cup Doubled(v))
  OBVIOUS
<1>1. /\ written.asset = a /\ written.at = at /\ written.derived = FALSE /\ IsRow(written)
      /\ new.asset = a /\ new.at = at /\ IsProjectedRow(new) /\ ListedRow(new) = written
  BY DEF SidecarRow, ProjectedSidecar, IsRow, IsProjectedRow, ListedRow
<1>2. rows \in Seq(S) /\ (\A row \in S : IsRow(row)) /\ \A r \in projected : IsProjectedRow(r)
  BY DEF RowsOK, Written
<1>a. later = Append(rows, written) /\ q.sidecars = projected \cup {new}
  BY DEF Written
<1>3. /\ later \in Seq(S \cup {written}) /\ ToSet(later) = S \cup {written}
      /\ later[Len(rows) + 1] = written /\ Len(rows) + 1 \in DOMAIN later
      /\ \A k \in DOMAIN rows : k \in DOMAIN later /\ later[k] = rows[k] /\ k # Len(rows) + 1
  <2>1. rows \in Seq(S)
    BY <1>2
  <2>2. /\ Append(rows, written) \in Seq(S \cup {written})
        /\ ToSet(Append(rows, written)) = ToSet(rows) \cup {written}
        /\ Append(rows, written)[Len(rows) + 1] = written
        /\ Len(rows) + 1 \in DOMAIN Append(rows, written)
        /\ \A k \in DOMAIN rows : /\ k \in DOMAIN Append(rows, written)
                                 /\ Append(rows, written)[k] = rows[k] /\ k # Len(rows) + 1
    BY ONLY <2>1, AppendedElements
  <2> QED BY <1>a, <2>2
<1>4. RowsOK(q.sidecars, later)
  <2>1. \A row \in ToSet(later) : IsRow(row)
    BY <1>1, <1>2, <1>3
  <2>2. \A r \in q.sidecars : IsProjectedRow(r)
    BY <1>1, <1>2, <1>a
  <2>3. later \in Seq(ToSet(later))
    BY <1>3
  <2> QED BY <2>1, <2>2, <2>3 DEF RowsOK
<1>b. /\ OnlySidecars(p, w, q, v) /\ S \subseteq ToSet(w.sidecars) /\ projected \subseteq p.sidecars
      /\ \A r \in p.sidecars \ projected : r.asset = a /\ (r.at = at \/ \A row \in S : ListedRow(r) # row)
      /\ \A row \in ToSet(w.sidecars) \ S : row.asset = a /\ \A r \in projected : ListedRow(r) # row
  BY DEF Written
<1>5. \A row \in S : row.asset = a /\ a \in T => row.at # at
  <2> SUFFICES ASSUME NEW row \in S, row.asset = a, a \in T, row.at = at PROVE FALSE
    OBVIOUS
  <2>1. PICK k \in DOMAIN rows : rows[k] = row
    BY DEF ToSet
  <2> PICK m : m = Len(rows) + 1
    OBVIOUS
  <2>2. /\ k \in DOMAIN later /\ m \in DOMAIN later /\ k # m
        /\ later[k].asset = a /\ later[k].at = at /\ later[m].asset = a /\ later[m].at = at
    BY <1>1, <1>3, <2>1
  <2>3. a \in DOMAIN v.paths
    <3>1. v.paths = w.paths
      BY <1>b DEF OnlySidecars
    <3>2. w.paths = [b \in AssetIds(L) |-> w.paths[b]]
      BY DEF InStep, FilesOK
    <3> QED BY <3>1, <3>2
  <2>4. k \in DOMAIN v.sidecars /\ m \in DOMAIN v.sidecars /\ k # m
        /\ v.sidecars[k].asset = a /\ v.sidecars[m].asset = a
        /\ v.sidecars[k].at = v.sidecars[m].at
    BY <2>2
  <2>5. a \in Doubled(v)
    BY <2>3, <2>4 DEF Doubled
  <2> QED BY <2>5
<1>6. RowsAgree(p.sidecars, w.sidecars, AssetIds(L) \ U)
  BY DEF InStep, SidecarsInStep
<1>7. \A r \in q.sidecars : r.asset \in T => ListedRow(r) \in ToSet(later)
  <2> TAKE r \in q.sidecars
  <2>1. CASE r = new
    BY <1>1, <1>3, <2>1
  <2>2. CASE r # new
    <3>1. r \in projected /\ r \in p.sidecars
      BY <1>a, <1>b, <2>2
    <3>2. r.asset \in T => ListedRow(r) \in ToSet(w.sidecars)
      BY <1>6, <3>1 DEF RowsAgree
    <3> QED BY <1>3, <1>b, <3>1, <3>2
  <2> QED BY <2>1, <2>2
<1>8. \A row \in ToSet(later) : row.asset \in T => \E r \in q.sidecars : ListedRow(r) = row
  <2> SUFFICES ASSUME NEW row \in ToSet(later), row.asset \in T
               PROVE  \E r \in q.sidecars : ListedRow(r) = row
    OBVIOUS
  <2>1. CASE row = written
    BY <1>1, <1>a, <2>1
  <2>2. CASE row # written
    <3>1. row \in S
      BY <1>3, <2>2
    <3>2. PICK r \in p.sidecars : ListedRow(r) = row
      BY <1>6, <1>b, <3>1 DEF RowsAgree
    <3>3. r \in projected
      <4> SUFFICES ASSUME r \notin projected PROVE FALSE
        OBVIOUS
      <4>1. r.asset = a /\ (r.at = at \/ \A x \in S : ListedRow(r) # x)
        BY <1>b
      <4>2. r.at = at
        BY <3>1, <3>2, <4>1
      <4>3. row.asset = a /\ row.at = at
        BY <3>2, <4>1, <4>2, ListedFields
      <4> QED BY <1>5, <3>1, <4>3
    <3> QED BY <1>a, <3>2, <3>3
  <2> QED BY <2>1, <2>2
<1>9. Listed(q.sidecars, v.sidecars, T)
  BY <1>7, <1>8 DEF Listed
<1>10. \A row \in ToSet(v.sidecars) : row.derived => row \in ToSet(w.sidecars)
  BY <1>1, <1>3, <1>b
<1>11. RowsOK(q.sidecars, v.sidecars)
  BY <1>4
<1>12. Listed(q.sidecars, v.sidecars, AssetIds(L) \ (U \cup Doubled(v)))
  BY <1>9
<1> QED BY <1>b, <1>10, <1>11, <1>12, RowsChange

\* create_sidecar and extract_subtitle keep the walks in step.
LEMMA WritingTogether ==
  ASSUME NEW L, NEW p, NEW w, NEW n \in Nat, NEW U, InStep(L, p, w, n, U), NEW ev,
         MayCome(L, p, ev), ev.op \in {"create_sidecar", "extract_subtitle"}
  PROVE  Together(L, p, w, n, U, ev, ApplyEvent(L, w, n + 1, ev))
<1> PICK a, outcome, q, v, projection, rows :
         /\ a = ev.target /\ outcome = ApplyEvent(L, w, n + 1, ev)
         /\ q = Project(L, p, n + 1, ev) /\ v = outcome.world
         /\ projection = p.sidecars /\ rows = w.sidecars
  OBVIOUS
<1>1. /\ a \in AssetIds(L) /\ HasLocation(w, ev.target)
      /\ IsProjection(p) /\ IsWorld(w) /\ RowsOK(projection, rows)
      /\ RowsAgree(projection, rows, AssetIds(L) \ U)
  BY WritingTarget
<1>2. ev.op \notin Relocations
  BY DEF Relocations
<1>3. rows \in Seq(ToSet(rows)) /\ (\A row \in ToSet(rows) : IsRow(row))
      /\ \A r \in projection : IsProjectedRow(r)
  BY <1>1 DEF RowsOK
<1>4. CASE ev.op = "extract_subtitle"
  <2> DEFINE new == projection \cup {ProjectedSidecar(a, ev.to, "subtitle", ev.language, FALSE, TRUE)}
             later == Append(rows, SidecarRow(a, "subtitle", ev.language, ev.to, FALSE))
  <2>1. outcome = ExtractSubtitle(w, n + 1, ev)
    BY <1>1, <1>4, Planned
  <2>2. ExtractSubtitle(w, n + 1, ev)
          = Outcome([w EXCEPT !.sidecars = later], AssetEntry(w, n + 1, ev))
    BY DEF ExtractSubtitle
  <2>3. ProjectSidecarEvent(p, ev) = [p EXCEPT !.sidecars = new]
    BY <1>4 DEF ProjectSidecarEvent
  <2>4. q = ProjectSidecarEvent(p, ev)
    BY <1>4 DEF Project, VersionOps, EncodeOps, CorruptionOps, SidecarOps, HierarchyOps, SwapOps
  <2> PICK new1, later1, at, language :
           new1 = new /\ later1 = later /\ at = ev.to /\ language = ev.language
    OBVIOUS
  <2>5. /\ new1 = projection \cup {ProjectedSidecar(a, at, "subtitle", language, FALSE, TRUE)}
        /\ later1 = Append(rows, SidecarRow(a, "subtitle", language, at, FALSE))
    OBVIOUS
  <2>6. q = [p EXCEPT !.sidecars = new1]
    BY <2>3, <2>4
  <2>7. outcome = Outcome([w EXCEPT !.sidecars = later1], AssetEntry(w, n + 1, ev))
    BY <2>1, <2>2
  <2> HIDE DEF new, later
  <2>8. v = [w EXCEPT !.sidecars = later1] /\ outcome.raised = "no"
    BY <2>7 DEF Outcome
  <2>9. OnlySidecars(p, w, q, v) /\ q.sidecars = new1 /\ v.sidecars = later1
    BY <1>1, <2>6, <2>8 DEF OnlySidecars, IsProjection, IsWorld
  <2>10. Written(p, w, q, v, a, rows, projection, "subtitle", language, at, TRUE)
    BY <1>1, <2>5, <2>9 DEF Written
  <2>11. InStep(L, q, v, n, U \cup Doubled(v))
    BY <1>1, <2>10, RowWritten
  <2> QED BY <1>2, <2>8, <2>11, StaysTogether
<1>5. CASE ev.op = "create_sidecar"
  <2> DEFINE IsSame(r) == r.asset = a /\ r.kind = "subtitle" /\ r.language = ev.language
             sub == ev.kind = "subtitle"
             gone == {r \in projection : sub /\ IsSame(r)} \cup Row(projection, a, ev.to)
             same == {row \in ToSet(rows) : IsSame(row)}
             kept == IF ~sub THEN rows ELSE Picked(rows, ToSet(rows) \ same)
             rest == projection \ gone
             new == rest \cup {ProjectedSidecar(a, ev.to, ev.kind, ev.language, FALSE, TRUE)}
             later == Append(kept, SidecarRow(a, ev.kind, ev.language, ev.to, FALSE))
  <2>1. outcome = CreateSidecar(w, n + 1, ev)
    BY <1>1, <1>5, Planned
  <2>2. CreateSidecar(w, n + 1, ev)
          = Outcome([w EXCEPT !.sidecars = later], [AssetEntry(w, n + 1, ev) EXCEPT !.to = ev.to])
    BY Zenon DEF CreateSidecar
  <2>3. q = ProjectCreate(p, ev)
    BY <1>5 DEF Project, VersionOps, EncodeOps, CorruptionOps, SidecarOps, HierarchyOps, SwapOps
  <2>4. gone = (IF ~sub THEN {} ELSE {r \in projection : IsSame(r)}) \cup Row(projection, a, ev.to)
    OBVIOUS
  <2>5. \E created : q = [p EXCEPT !.sidecars = new, !.created = created]
    <3> DEFINE created == IF ev.kind = "subtitle" THEN p.created \cup {<<ev.target, ev.language>>}
                          ELSE p.created
               none == IF ~sub THEN {} ELSE {r \in projection : IsSame(r)}
    <3>1. ProjectCreate(p, ev) = [p EXCEPT
            !.sidecars = (p.sidecars \ (none \cup Row(p.sidecars, a, ev.to)))
                         \cup {ProjectedSidecar(a, ev.to, ev.kind, ev.language, FALSE, TRUE)},
            !.created = created]
      BY <1>1 DEF ProjectCreate, IsProjection
    <3> QED BY <2>3, <2>4, <3>1
  <2>6. ToSet(kept) = ToSet(rows) \ {row \in ToSet(rows) : sub /\ IsSame(row)}
        /\ kept \in Seq(ToSet(kept))
    <3>1. CASE ~sub
      BY <1>3, <3>1
    <3>2. CASE sub
      <4>1. Picked(rows, ToSet(rows) \ same) \in Seq(ToSet(rows) \cap (ToSet(rows) \ same))
            /\ ToSet(Picked(rows, ToSet(rows) \ same)) = ToSet(rows) \cap (ToSet(rows) \ same)
        <5>1. Len(rows) \in Nat /\ DOMAIN rows = 1..Len(rows)
          BY <1>3
        <5> QED BY <5>1, PickedElements
      <4> QED BY <3>2, <4>1
    <3> QED BY <3>1, <3>2
  <2>7. RowsOK(rest, kept)
    BY <1>3, <2>6 DEF RowsOK
  <2>8. \A r \in projection \ rest : r.asset = a
             /\ (r.at = ev.to \/ \A row \in ToSet(kept) : ListedRow(r) # row)
    <3> TAKE r \in projection \ rest
    <3>1. CASE r \in Row(projection, a, ev.to)
      BY <3>1 DEF Row
    <3>2. CASE sub /\ IsSame(r)
      <4>1. \A row \in ToSet(kept) : ~IsSame(row)
        BY <2>6, <3>2
      <4>2. IsSame(ListedRow(r))
        BY <3>2, ListedFields
      <4> HIDE DEF kept
      <4>3. \A row \in ToSet(kept) : ListedRow(r) # row
        BY <4>1, <4>2
      <4> QED BY <3>2, <4>3
    <3> QED BY <3>1, <3>2
  <2>9. \A row \in ToSet(rows) \ ToSet(kept) : row.asset = a /\ \A r \in rest : ListedRow(r) # row
    <3> TAKE row \in ToSet(rows) \ ToSet(kept)
    <3>1. sub /\ IsSame(row)
      BY <2>6
    <3>2. \A r \in rest : ~IsSame(r)
      BY <3>1
    <3>3. \A r \in rest : ListedRow(r) # row
      BY <3>1, <3>2, ListedFields
    <3> QED BY <3>1, <3>3
  <2>10. ToSet(kept) \subseteq ToSet(rows) /\ rest \subseteq projection
    BY <2>6
  <2> PICK kept1, rest1, new1, later1 : kept1 = kept /\ rest1 = rest /\ new1 = new /\ later1 = later
    OBVIOUS
  <2>11. /\ RowsOK(rest1, kept1) /\ ToSet(kept1) \subseteq ToSet(rows) /\ rest1 \subseteq projection
         /\ \A r \in projection \ rest1 : r.asset = a
              /\ (r.at = ev.to \/ \A row \in ToSet(kept1) : ListedRow(r) # row)
         /\ \A row \in ToSet(rows) \ ToSet(kept1) : row.asset = a /\ \A r \in rest1 : ListedRow(r) # row
         /\ new1 = rest1 \cup {ProjectedSidecar(a, ev.to, ev.kind, ev.language, FALSE, TRUE)}
         /\ later1 = Append(kept1, SidecarRow(a, ev.kind, ev.language, ev.to, FALSE))
    BY <2>7, <2>8, <2>9, <2>10
  <2>12. \E created : q = [p EXCEPT !.sidecars = new1, !.created = created]
    BY <2>5
  <2>13. outcome = Outcome([w EXCEPT !.sidecars = later1],
                           [AssetEntry(w, n + 1, ev) EXCEPT !.to = ev.to])
    BY <2>1, <2>2
  <2> HIDE DEF kept, rest, new, later, IsSame, gone, same
  <2>14. v = [w EXCEPT !.sidecars = later1] /\ outcome.raised = "no"
    BY <2>13 DEF Outcome
  <2>15. OnlySidecars(p, w, q, v) /\ q.sidecars = new1 /\ v.sidecars = later1
    BY <1>1, <2>12, <2>14 DEF OnlySidecars, IsProjection, IsWorld
  <2>16. InStep(L, q, v, n, U \cup Doubled(v))
    <3> PICK at, kind, language : at = ev.to /\ kind = ev.kind /\ language = ev.language
      OBVIOUS
    <3>1. Written(p, w, q, v, a, kept1, rest1, kind, language, at, TRUE)
      BY <2>11, <2>15 DEF Written
    <3> QED BY <1>1, <3>1, RowWritten
  <2> QED BY <1>2, <2>14, <2>16, StaysTogether
<1> QED BY <1>4, <1>5

\* A list is a list of its own elements.
LEMMA OwnElements ==
  ASSUME NEW S, NEW s \in Seq(S)
  PROVE  s \in Seq(ToSet(s)) /\ ToSet(s) \subseteq S
<1>1. Len(s) \in Nat /\ s \in [1..Len(s) -> S] /\ DOMAIN s = 1..Len(s)
  OBVIOUS
<1>2. \A i \in 1..Len(s) : s[i] \in ToSet(s)
  BY <1>1 DEF ToSet
<1>3. s \in [1..Len(s) -> ToSet(s)]
  BY <1>1, <1>2
<1>4. ToSet(s) \subseteq S
  BY <1>1 DEF ToSet
<1>5. s \in Seq(ToSet(s))
  <2> PICK T, n : T = ToSet(s) /\ n = Len(s)
    OBVIOUS
  <2>1. s \in [1..n -> T] /\ n \in Nat
    BY <1>1, <1>3
  <2>2. s \in Seq(T)
    BY ONLY <2>1
  <2> QED BY <2>2
<1> QED BY <1>4, <1>5

\* What the engine raises for an accepted event, and what both walks are left with.
Raises(L, p, w, n, U, ev, outcome) ==
    /\ outcome.world = w
    /\ Project(L, p, n + 1, ev).paths = p.paths
    /\ Listed(Project(L, p, n + 1, ev).sidecars, w.sidecars, AssetIds(L) \ U)
    /\ \/ outcome.raised = "no_such_sidecar" /\ ev.op \in SidecarOps /\ ev.target \in U
       \/ outcome.raised = "half_deleted" /\ L.kind = "podcast_episode"

\* A row is used up: the first one of the asset at that path, and every one of the projection.
LEMMA RowUsed ==
  ASSUME NEW L, NEW p, NEW w, NEW n \in Nat, NEW U, InStep(L, p, w, n, U), NEW a \in AssetIds(L),
         NEW at, NEW k \in DOMAIN w.sidecars, w.sidecars[k].asset = a, w.sidecars[k].at = at,
         NEW q, NEW v, OnlySidecars(p, w, q, v),
         q.sidecars = p.sidecars \ Row(p.sidecars, a, at),
         v.sidecars = RemoveAt(w.sidecars, k)
  PROVE  InStep(L, q, v, n, U \cup Doubled(v))
<1> PICK rows, later, projection, rest, S, T :
         /\ rows = w.sidecars /\ later = v.sidecars /\ projection = p.sidecars /\ rest = q.sidecars
         /\ S = ToSet(rows) /\ T = AssetIds(L) \ (U \cup Doubled(v))
  OBVIOUS
<1>1. RowsOK(projection, rows) /\ RowsAgree(projection, rows, AssetIds(L) \ U)
  BY DEF InStep, SidecarsInStep
<1>2. rows \in Seq(S) /\ (\A row \in S : IsRow(row)) /\ \A r \in projection : IsProjectedRow(r)
  BY <1>1 DEF RowsOK
<1>3. later \in Seq(S) /\ ToSet(later) = {rows[j] : j \in DOMAIN rows \ {k}}
  <2>1. RemoveAt(rows, k) \in Seq(S) /\ ToSet(RemoveAt(rows, k)) = {rows[j] : j \in DOMAIN rows \ {k}}
    BY <1>2, RemovedElement
  <2> QED BY <2>1
<1>4. ToSet(later) \subseteq S /\ later \in Seq(ToSet(later))
  BY <1>3, OwnElements
<1>5. RowsOK(rest, later)
  BY <1>2, <1>4 DEF RowsOK
<1>6. \A row \in S : row.asset # a \/ row.at # at => row \in ToSet(later)
  <2> SUFFICES ASSUME NEW row \in S, row.asset # a \/ row.at # at PROVE row \in ToSet(later)
    OBVIOUS
  <2>1. PICK j \in DOMAIN rows : rows[j] = row
    BY DEF ToSet
  <2>2. j # k
    BY <2>1
  <2> QED BY <1>3, <2>1, <2>2
<1>7. \A row \in ToSet(later) : row.asset = a /\ a \notin U => row.at # at
  <2> SUFFICES ASSUME NEW row \in ToSet(later), row.asset = a, a \notin U, row.at = at PROVE FALSE
    OBVIOUS
  <2>1. PICK j \in DOMAIN rows \ {k} : row = rows[j]
    BY <1>3
  <2>2. rows[j].asset = a /\ rows[k].asset = a /\ rows[j].at = at /\ rows[k].at = at
    BY <2>1
  <2> QED BY <1>1, <2>1, <2>2 DEF RowsAgree
<1>8. \A r \in rest : r.asset \in T => ListedRow(r) \in ToSet(later)
  <2> SUFFICES ASSUME NEW r \in rest, r.asset \in T PROVE ListedRow(r) \in ToSet(later)
    OBVIOUS
  <2>1. r \in projection /\ ~(r.asset = a /\ r.at = at)
    BY DEF Row
  <2>2. ListedRow(r) \in S
    BY <1>1, <2>1 DEF RowsAgree
  <2>3. ListedRow(r).asset # a \/ ListedRow(r).at # at
    BY <2>1, ListedFields
  <2> QED BY <1>6, <2>2, <2>3
<1>9. \A row \in ToSet(later) : row.asset \in T => \E r \in rest : ListedRow(r) = row
  <2> SUFFICES ASSUME NEW row \in ToSet(later), row.asset \in T
               PROVE  \E r \in rest : ListedRow(r) = row
    OBVIOUS
  <2>1. PICK r \in projection : ListedRow(r) = row
    BY <1>1, <1>4 DEF RowsAgree
  <2>2. ~(row.asset = a /\ row.at = at)
    BY <1>7
  <2>3. ~(r.asset = a /\ r.at = at)
    BY <2>1, <2>2, ListedFields
  <2>4. r \in rest
    BY <2>1, <2>3 DEF Row
  <2> QED BY <2>1, <2>4
<1>10. Listed(q.sidecars, v.sidecars, AssetIds(L) \ (U \cup Doubled(v)))
  BY <1>8, <1>9 DEF Listed
<1>11. \A row \in ToSet(v.sidecars) : row.derived => row \in ToSet(w.sidecars)
  BY <1>4
<1>12. RowsOK(q.sidecars, v.sidecars)
  BY <1>5
<1> QED BY <1>10, <1>11, <1>12, RowsChange

\* The engine's lookup finds a row of the asset on the path, if there is one.
LEMMA FirstRow ==
  ASSUME NEW w, w.sidecars \in Seq(ToSet(w.sidecars)), NEW a, NEW at, NEW k,
         k = SidecarIdForPath(w, a, at)
  PROVE  \/ k = 0 /\ \A row \in ToSet(w.sidecars) : ~(row.asset = a /\ row.at = at)
         \/ k \in DOMAIN w.sidecars /\ w.sidecars[k].asset = a /\ w.sidecars[k].at = at /\ k # 0
<1> DEFINE Rows == {j \in DOMAIN w.sidecars : w.sidecars[j].asset = a /\ w.sidecars[j].at = at}
<1>1. DOMAIN w.sidecars \subseteq Nat /\ 0 \notin DOMAIN w.sidecars
  <2>1. Len(w.sidecars) \in Nat /\ DOMAIN w.sidecars = 1..Len(w.sidecars)
    OBVIOUS
  <2> QED BY <2>1
<1>2. k = IF Rows = {} THEN 0 ELSE CHOOSE j \in Rows : \A i \in Rows : j <= i
  BY DEF SidecarIdForPath
<1>3. CASE Rows = {}
  <2>1. k = 0
    BY <1>2, <1>3
  <2>2. \A row \in ToSet(w.sidecars) : ~(row.asset = a /\ row.at = at)
    BY <1>3 DEF ToSet
  <2> QED BY <2>1, <2>2
<1>4. CASE Rows # {}
  <2>1. \E j \in Rows : \A i \in Rows : j <= i
    <3>1. Rows \in SUBSET Nat
      BY <1>1
    <3> HIDE DEF Rows
    <3> QED BY <1>4, <3>1, LeastElement
  <2>2. k \in Rows
    <3> HIDE DEF Rows
    <3> QED BY <1>2, <1>4, <2>1
  <2> QED BY <1>1, <2>2
<1> QED BY <1>3, <1>4

\* A sidecar event keeps the walks in step, or names a row that the engine lacks because its asset is
\* unsettled: then the lookup raises.
LEMMA UsesTogether ==
  ASSUME NEW L, NEW p, NEW w, NEW n \in Nat, NEW U, InStep(L, p, w, n, U), NEW ev,
         MayCome(L, p, ev), ev.op \in SidecarOps
  PROVE  \/ Together(L, p, w, n, U, ev, ApplyEvent(L, w, n + 1, ev))
         \/ Raises(L, p, w, n, U, ev, ApplyEvent(L, w, n + 1, ev))
<1> PICK a, at, outcome, q, v, projection, rows, k :
         /\ a = ev.target /\ at = ev.sidecar /\ outcome = ApplyEvent(L, w, n + 1, ev)
         /\ q = Project(L, p, n + 1, ev) /\ v = outcome.world
         /\ projection = p.sidecars /\ rows = w.sidecars
         /\ k = SidecarIdForPath(w, ev.target, ev.sidecar)
  OBVIOUS
<1>1. /\ a \in AssetIds(L) /\ HasLocation(w, ev.target)
      /\ IsProjection(p) /\ IsWorld(w) /\ RowsOK(projection, rows)
      /\ RowsAgree(projection, rows, AssetIds(L) \ U)
  BY WritingTarget
<1>2. ev.op \notin Relocations
  BY DEF Relocations, SidecarOps
<1>3. \/ k = 0 /\ \A row \in ToSet(rows) : ~(row.asset = a /\ row.at = at)
      \/ k \in DOMAIN rows /\ rows[k].asset = a /\ rows[k].at = at /\ k # 0
  <2>1. w.sidecars \in Seq(ToSet(w.sidecars))
    BY <1>1 DEF RowsOK
  <2>2. k = SidecarIdForPath(w, a, at)
    OBVIOUS
  <2>3. \/ k = 0 /\ \A row \in ToSet(w.sidecars) : ~(row.asset = a /\ row.at = at)
        \/ k \in DOMAIN w.sidecars /\ w.sidecars[k].asset = a /\ w.sidecars[k].at = at /\ k # 0
    BY ONLY <2>1, <2>2, FirstRow
  <2> QED BY <2>3
<1>4. outcome = UseSidecar(w, n + 1, ev)
  BY <1>1, Planned
<1>5. q = ProjectSidecarEvent(p, ev)
  BY DEF Project, VersionOps, EncodeOps, CorruptionOps, SidecarOps, HierarchyOps, SwapOps
<1>6. /\ ev.op \in {"embed_subtitle", "remove_sidecar"} =>
            ProjectSidecarEvent(p, ev) = [p EXCEPT !.sidecars = projection \ Row(projection, a, at)]
      /\ ev.op = "update_sidecar" => ProjectSidecarEvent(p, ev) = p
  BY DEF ProjectSidecarEvent
<1>7. \E r \in projection : r.asset = a /\ r.at = at
  <2>1. SidecarTargetKnown(p, ev)
    BY DEF MayCome, Accepts
  <2>2. Row(projection, a, at) # {}
    BY <2>1 DEF SidecarTargetKnown, SidecarOps
  <2> QED BY <2>2 DEF Row
<1> PICK rest : rest = projection \ Row(projection, a, at)
  OBVIOUS
<1>8. CASE k = 0
  <2>1. outcome = Raised(w, n + 1, ev, "no_such_sidecar")
    BY <1>4, <1>8 DEF UseSidecar
  <2>2. outcome.world = w /\ outcome.raised = "no_such_sidecar"
    BY <2>1 DEF Raised
  <2>3. a \in U
    <3>1. PICK r \in projection : r.asset = a /\ r.at = at
      BY <1>7
    <3>2. a \notin U => ListedRow(r) \in ToSet(rows)
      BY <1>1, <3>1 DEF RowsAgree
    <3>3. ListedRow(r).asset = a /\ ListedRow(r).at = at
      BY <3>1, ListedFields
    <3> QED BY <1>3, <1>8, <3>2, <3>3
  <2>4. q.paths = p.paths /\ q.sidecars \in {projection, rest}
    <3>1. CASE ev.op = "update_sidecar"
      BY <1>5, <1>6, <3>1
    <3>2. CASE ev.op # "update_sidecar"
      <4>1. q = [p EXCEPT !.sidecars = rest]
        BY <1>5, <1>6, <3>2 DEF SidecarOps
      <4> QED BY <1>1, <4>1 DEF IsProjection
    <3> QED BY <3>1, <3>2
  <2>5. Listed(q.sidecars, rows, AssetIds(L) \ U)
    <3>1. \A r \in projection : r.asset # a => r \in q.sidecars
      BY <2>4 DEF Row
    <3>2. \A row \in ToSet(rows) : row.asset \in AssetIds(L) \ U => \E r \in q.sidecars : ListedRow(r) = row
      <4> SUFFICES ASSUME NEW row \in ToSet(rows), row.asset \in AssetIds(L) \ U
                   PROVE  \E r \in q.sidecars : ListedRow(r) = row
        OBVIOUS
      <4>1. PICK r \in projection : ListedRow(r) = row
        BY <1>1 DEF RowsAgree
      <4>2. r.asset # a
        BY <2>3, <4>1, ListedFields
      <4> QED BY <3>1, <4>1, <4>2
    <3>3. \A r \in q.sidecars : r.asset \in AssetIds(L) \ U => ListedRow(r) \in ToSet(rows)
      BY <1>1, <2>4 DEF RowsAgree
    <3> QED BY <3>2, <3>3 DEF Listed
  <2> QED BY <2>2, <2>3, <2>4, <2>5 DEF Raises
<1>9. CASE k # 0
  <2> PICK kept : kept = [w EXCEPT !.sidecars = RemoveAt(rows, k)]
    OBVIOUS
  <2>1. k \in DOMAIN rows /\ rows[k].asset = a /\ rows[k].at = at
    BY <1>3, <1>9
  <2>2. /\ ev.op = "embed_subtitle" =>
              outcome = Outcome(BindVersion(kept, ev.target), VersionEntry(w, n + 1, ev))
        /\ ev.op = "remove_sidecar" => outcome = Outcome(kept, AssetEntry(w, n + 1, ev))
        /\ ev.op = "update_sidecar" => outcome = Outcome(w, AssetEntry(w, n + 1, ev))
    BY <1>4, <1>9 DEF UseSidecar
  <2>3. ASSUME ev.op \in {"embed_subtitle", "remove_sidecar"}
        PROVE  InStep(L, q, kept, n, U \cup Doubled(kept))
    <3> PICK later : later = RemoveAt(rows, k)
      OBVIOUS
    <3>1. q = [p EXCEPT !.sidecars = rest] /\ kept = [w EXCEPT !.sidecars = later]
      BY <1>5, <1>6, <2>3
    <3>2. OnlySidecars(p, w, q, kept) /\ q.sidecars = rest /\ kept.sidecars = later
      BY <1>1, <3>1 DEF OnlySidecars, IsProjection, IsWorld
    <3>3. /\ q.sidecars = p.sidecars \ Row(p.sidecars, a, at)
          /\ kept.sidecars = RemoveAt(w.sidecars, k)
          /\ k \in DOMAIN w.sidecars /\ w.sidecars[k].asset = a /\ w.sidecars[k].at = at
      BY <2>1, <3>2
    <3> HIDE <3>3
    <3>4. OnlySidecars(p, w, q, kept) /\ a \in AssetIds(L) /\ InStep(L, p, w, n, U) /\ n \in Nat
      BY <1>1, <3>2
    <3> QED BY ONLY <3>3, <3>4, RowUsed
  <2>4. CASE ev.op = "embed_subtitle"
    <3> PICK bound : bound = BindVersion(kept, a)
      OBVIOUS
    <3>1. outcome.raised = "no" /\ v = bound
      BY <2>2, <2>4 DEF Outcome
    <3>2. InStep(L, q, kept, n, U \cup Doubled(kept))
      BY <2>3, <2>4
    <3>3. InStep(L, q, bound, n, U \cup Doubled(kept))
      BY <1>1, <3>2, VersionIsBound
    <3>4. Doubled(kept) = Doubled(bound)
      <4>1. IsWorld(kept)
        BY <3>2 DEF InStep
      <4>2. bound.paths = kept.paths /\ bound.sidecars = kept.sidecars
        BY <4>1 DEF BindVersion, IsWorld
      <4> QED BY <4>2 DEF Doubled
    <3>5. Together(L, p, w, n, U, ev, outcome)
      BY <1>2, <3>1, <3>3, <3>4, StaysTogether
    <3> QED BY <3>5
  <2>5. CASE ev.op = "remove_sidecar"
    <3>1. outcome.raised = "no" /\ v = kept
      BY <2>2, <2>5 DEF Outcome
    <3>2. InStep(L, q, kept, n, U \cup Doubled(kept))
      BY <2>3, <2>5
    <3>3. Together(L, p, w, n, U, ev, outcome)
      BY <1>2, <3>1, <3>2, StaysTogether
    <3> QED BY <3>3
  <2>6. CASE ev.op = "update_sidecar"
    <3>1. outcome.raised = "no" /\ v = w /\ q = p
      BY <1>5, <1>6, <2>2, <2>6 DEF Outcome
    <3>2. Together(L, p, w, n, U, ev, outcome)
      BY <1>2, <3>1, StaysTogether
    <3> QED BY <3>2
  <2> QED BY <2>4, <2>5, <2>6 DEF SidecarOps
<1> QED BY <1>8, <1>9
=============================================================================
