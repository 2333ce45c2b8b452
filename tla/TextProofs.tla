----------------------------- MODULE TextProofs -----------------------------
(***************************************************************************)
(* Proofs, for texts of any length, of what LineDiff shows and ShellWords  *)
(* reads.  The provers cannot use a principle of induction, but they can   *)
(* use the least element of a set of numbers, which is one.                *)
(***************************************************************************)
EXTENDS LineDiff, ShellWords, FiniteSetTheorems, SequenceTheorems, TLAPS

\* Every set of natural numbers has a least element: the sets 0..n are ordered
\* like their n, and the finite sets are well-founded by inclusion.
LEMMA Least ==
    ASSUME NEW T \in SUBSET Nat, T # {}
    PROVE  \E n \in T : \A m \in T : n <= m
<1> DEFINE Below == {0..n : n \in T}
           R == StrictSubsetOrdering(Nat)
<1>1. IsWellFoundedOn(R, FiniteSubsetsOf(Nat))
    BY FS_StrictSubsetOrderingWellFounded
<1>2. Below \subseteq FiniteSubsetsOf(Nat)
    <2>1. \A n \in T : 0..n \in SUBSET Nat /\ IsFiniteSet(0..n)
        BY FS_Interval
    <2> QED BY <2>1 DEF FiniteSubsetsOf
<1>3. Below # {}
    OBVIOUS
<1>4. \E x \in Below : \A y \in Below : <<y, x>> \notin R
    <2> HIDE DEF Below, R
    <2> QED BY <1>1, <1>2, <1>3, WFMin
<1>5. PICK n \in T : \A m \in T : <<0..m, 0..n>> \notin R
    BY <1>4
<1>6. ASSUME NEW m \in T, m < n PROVE FALSE
    <2>1. 0..m \subseteq 0..n /\ n \in 0..n /\ n \notin 0..m
        BY <1>6
    <2>2. <<0..m, 0..n>> \in R
        BY <2>1 DEF StrictSubsetOrdering
    <2> QED BY <2>2, <1>5
<1> QED BY <1>6

LEMMA Induction ==
    ASSUME NEW S \in SUBSET Nat, 0 \in S, \A n \in S : n + 1 \in S
    PROVE  S = Nat
<1>1. SUFFICES ASSUME Nat \ S # {} PROVE FALSE
    OBVIOUS
<1>2. PICK n \in Nat \ S : \A m \in Nat \ S : n <= m
    BY <1>1, Least
<1>3. n # 0 /\ n - 1 \in Nat /\ n - 1 \in S
    BY <1>2
<1>4. (n - 1) + 1 \in S
    BY <1>3
<1> QED BY <1>4, <1>2

(* The table. *)

Places(old, new) == (0..Len(old)) \X (0..Len(new))
Distance(old, new, p) == (Len(old) - p[1]) + (Len(new) - p[2])

\* What the loops compute at a place from the places after it.
Entry(t, old, new, p) ==
    IF p[1] = Len(old) \/ p[2] = Len(new) THEN 0
    ELSE IF old[p[1] + 1] = new[p[2] + 1] THEN t[<<p[1] + 1, p[2] + 1>>] + 1
    ELSE IF t[<<p[1] + 1, p[2]>>] >= t[<<p[1], p[2] + 1>>]
         THEN t[<<p[1] + 1, p[2]>>] ELSE t[<<p[1], p[2] + 1>>]

LEMMA PlacesAre ==
    ASSUME NEW old \in Seq(Lines), NEW new \in Seq(Lines)
    PROVE  /\ \A i \in 0..Len(old), j \in 0..Len(new) :
                  /\ <<i, j>> \in Places(old, new)
                  /\ Distance(old, new, <<i, j>>) = (Len(old) - i) + (Len(new) - j)
           /\ \A p \in Places(old, new) :
                  \E i \in 0..Len(old), j \in 0..Len(new) : p = <<i, j>>
           /\ \A p \in Places(old, new) : Distance(old, new, p) \in Nat
BY DEF Places, Distance

\* Entries agree where what comes after them agrees.
LEMMA EntryFollows ==
    ASSUME NEW old \in Seq(Lines), NEW new \in Seq(Lines), NEW p \in Places(old, new),
           NEW t \in [Places(old, new) -> Nat], NEW u \in [Places(old, new) -> Nat],
           \A q \in Places(old, new) :
               Distance(old, new, q) < Distance(old, new, p) => t[q] = u[q]
    PROVE  Entry(t, old, new, p) = Entry(u, old, new, p)
<1>1. PICK i \in 0..Len(old), j \in 0..Len(new) : p = <<i, j>>
    BY PlacesAre
<1>2. CASE i = Len(old) \/ j = Len(new)
    BY <1>1, <1>2 DEF Entry
<1>3. CASE i < Len(old) /\ j < Len(new)
    <2>1. \A k \in 0..Len(old), l \in 0..Len(new) :
              i + j < k + l => t[<<k, l>>] = u[<<k, l>>]
        BY <1>1, PlacesAre, SMTT(30)
    <2>2. /\ {i, i + 1} \subseteq 0..Len(old) /\ i < i + 1
          /\ {j, j + 1} \subseteq 0..Len(new) /\ j < j + 1
        BY <1>3
    <2>3. t[<<i + 1, j + 1>>] = u[<<i + 1, j + 1>>]
        BY <2>1, <2>2
    <2>4. t[<<i + 1, j>>] = u[<<i + 1, j>>]
        BY <2>1, <2>2
    <2>5. t[<<i, j + 1>>] = u[<<i, j + 1>>]
        BY <2>1, <2>2
    <2> QED BY <1>1, <2>3, <2>4, <2>5 DEF Entry
<1> QED BY <1>2, <1>3

LEMMA EntryType ==
    ASSUME NEW old \in Seq(Lines), NEW new \in Seq(Lines), NEW p \in Places(old, new), NEW t,
           \A q \in Places(old, new) :
               Distance(old, new, q) < Distance(old, new, p) => t[q] \in Nat
    PROVE  Entry(t, old, new, p) \in Nat
<1>1. PICK i \in 0..Len(old), j \in 0..Len(new) : p = <<i, j>>
    BY PlacesAre
<1>2. CASE i = Len(old) \/ j = Len(new)
    BY <1>1, <1>2 DEF Entry
<1>3. CASE i < Len(old) /\ j < Len(new)
    <2>1. \A k \in 0..Len(old), l \in 0..Len(new) : i + j < k + l => t[<<k, l>>] \in Nat
        BY <1>1, PlacesAre
    <2>2. {t[<<i + 1, j + 1>>], t[<<i + 1, j>>], t[<<i, j + 1>>]} \subseteq Nat
        BY <2>1, <1>3
    <2> QED BY <1>1, <2>2 DEF Entry
<1> QED BY <1>2, <1>3

\* The table is what the loops compute: a function of natural numbers that
\* fulfils its own equation.
LEMMA TableIs ==
    ASSUME NEW old \in Seq(Lines), NEW new \in Seq(Lines)
    PROVE  /\ Table(old, new) \in [Places(old, new) -> Nat]
           /\ \A p \in Places(old, new) : Table(old, new)[p] = Entry(Table(old, new), old, new, p)
<1> DEFINE P == Places(old, new)
           D(p) == Distance(old, new, p)
           E(t, p) == Entry(t, old, new, p)
           Fits(t, n) == \A p \in P : D(p) <= n => t[p] = E(t, p)
<1>0. \A p \in P : D(p) \in Nat
    BY DEF Places, Distance
<1>1. \A n \in Nat : \E t \in [P -> Nat] : Fits(t, n)
    <2> DEFINE S == {n \in Nat : \E t \in [P -> Nat] : Fits(t, n)}
    <2>1. 0 \in S
        <3>1. [p \in P |-> 0] \in [P -> Nat]
            OBVIOUS
        <3>2. \A p \in P : D(p) <= 0 => p = <<Len(old), Len(new)>>
            BY DEF Places, Distance
        <3>3. Fits([p \in P |-> 0], 0)
            BY <3>2 DEF Entry
        <3> QED BY <3>1, <3>3
    <2>2. ASSUME NEW n \in S PROVE n + 1 \in S
        <3>1. PICK t \in [P -> Nat] : Fits(t, n)
            OBVIOUS
        <3> DEFINE u == [p \in P |-> E(t, p)]
        <3>2. u \in [P -> Nat]
            BY EntryType
        <3>3. \A p \in P : D(p) <= n => u[p] = t[p]
            BY <3>1
        <3>4. ASSUME NEW p \in P, D(p) <= n + 1 PROVE u[p] = E(u, p)
            <4>1. \A q \in P : D(q) < D(p) => t[q] = u[q]
                BY <3>3, <3>4, <1>0
            <4>2. E(t, p) = E(u, p)
                <5> HIDE DEF u, P
                <5> QED BY <3>2, <4>1, EntryFollows DEF P
            <4> QED BY <4>2
        <3>5. Fits(u, n + 1)
            <4> HIDE DEF u, E, D, P
            <4> QED BY <3>4
        <3>6. n + 1 \in Nat
            OBVIOUS
        <3> HIDE DEF u, Fits
        <3> QED BY <3>2, <3>5, <3>6
    <2>3. S = Nat
        <3> HIDE DEF S
        <3>1. S \in SUBSET Nat
            BY DEF S
        <3> QED BY <2>1, <2>2, <3>1, Induction
    <2> QED BY <2>3
<1>2. PICK t \in [P -> Nat] : \A p \in P : t[p] = E(t, p)
    <2>1. Len(old) + Len(new) \in Nat /\ \A p \in P : D(p) <= Len(old) + Len(new)
        BY DEF Places, Distance
    <2> QED BY <2>1, <1>1
<1>3. t = [p \in P |-> E(t, p)]
    BY <1>2
<1> DEFINE T == Table(old, new)
<1>4. T = CHOOSE table : table = [p \in P |-> E(table, p)]
    BY DEF Table, Places, Entry
<1>5. T = [p \in P |-> E(T, p)]
    <2> HIDE DEF T
    <2> QED BY <1>3, <1>4
<1>6. \A p \in P : T[p] = E(T, p)
    <2> HIDE DEF T, E
    <2> QED BY <1>5
<1>7. \A n \in Nat : \A p \in P : D(p) <= n => T[p] \in Nat
    <2> DEFINE S == {n \in Nat : \A p \in P : D(p) <= n => T[p] \in Nat}
    <2>1. 0 \in S
        <3>1. \A p \in P : D(p) <= 0 => p = <<Len(old), Len(new)>>
            BY DEF Places, Distance
        <3>2. E(T, <<Len(old), Len(new)>>) = 0 /\ <<Len(old), Len(new)>> \in P
            BY DEF Entry, Places
        <3>3. T[<<Len(old), Len(new)>>] = 0
            <4> HIDE DEF T, P, D, E
            <4> QED BY <3>2, <1>6
        <3>4. ASSUME NEW p \in P, D(p) <= 0 PROVE T[p] \in Nat
            <4>1. p = <<Len(old), Len(new)>>
                BY <3>1, <3>4
            <4> HIDE DEF T
            <4> QED BY <4>1, <3>3
        <3> HIDE DEF T, P, D
        <3> QED BY <3>4
    <2>2. ASSUME NEW n \in S PROVE n + 1 \in S
        <3>1. ASSUME NEW p \in P, D(p) <= n + 1 PROVE T[p] \in Nat
            <4>1. \A q \in P : D(q) < D(p) => T[q] \in Nat
                BY <3>1, <1>0
            <4> HIDE DEF T
            <4>2. E(T, p) \in Nat
                BY <4>1, EntryType
            <4> HIDE DEF E, P
            <4> QED BY <4>2, <1>6, <3>1
        <3>2. n + 1 \in Nat
            OBVIOUS
        <3> HIDE DEF T, P, D
        <3> QED BY <3>1, <3>2
    <2>3. S = Nat
        <3> HIDE DEF S
        <3>1. S \in SUBSET Nat
            BY DEF S
        <3> QED BY <2>1, <2>2, <3>1, Induction
    <2> QED BY <2>3
<1>8. \A p \in P : T[p] \in Nat
    <2> HIDE DEF T, P, D
    <2> QED BY <1>0, <1>7
<1> QED
    <2> HIDE DEF T, E, P
    <2>1. T \in [P -> Nat] /\ \A p \in P : T[p] = E(T, p)
        BY <1>5, <1>6, <1>8
    <2> QED BY <2>1 DEF T, E, P

(* Pairings. *)

LEMMA PairingsAre ==
    ASSUME NEW old \in Seq(Lines), NEW new \in Seq(Lines), NEW pairs \in Pairings(old, new)
    PROVE  /\ IsFiniteSet(pairs) /\ Cardinality(pairs) \in Nat
           /\ \A p \in pairs : /\ p[1] \in 1..Len(old) /\ p[2] \in 1..Len(new)
                               /\ old[p[1]] = new[p[2]] /\ p = <<p[1], p[2]>>
           /\ SUBSET pairs \subseteq Pairings(old, new)
<1>1. IsFiniteSet((1..Len(old)) \X (1..Len(new)))
    <2>1. Len(old) \in Int /\ Len(new) \in Int /\ 1 \in Int
        OBVIOUS
    <2>2. IsFiniteSet(1..Len(old)) /\ IsFiniteSet(1..Len(new))
        BY <2>1, FS_Interval
    <2> QED BY <2>2, FS_Product
<1>2. pairs \subseteq (1..Len(old)) \X (1..Len(new))
    BY DEF Pairings, SamePlaces
<1>3. IsFiniteSet(pairs) /\ Cardinality(pairs) \in Nat
    BY <1>1, <1>2, FS_Subset, FS_CardinalityType
<1>4. \A p \in pairs : /\ p[1] \in 1..Len(old) /\ p[2] \in 1..Len(new)
                      /\ old[p[1]] = new[p[2]] /\ p = <<p[1], p[2]>>
    BY <1>2 DEF Pairings, SamePlaces
<1>5. SUBSET pairs \subseteq Pairings(old, new)
    BY DEF Pairings
<1> QED BY <1>3, <1>4, <1>5

After(pairs, i, j) == \A p \in pairs : p[1] > i /\ p[2] > j

\* What an entry counts is an upper bound if the entries after it are.
LEMMA EntryBounds ==
    ASSUME NEW old \in Seq(Lines), NEW new \in Seq(Lines),
           NEW t \in [Places(old, new) -> Nat],
           NEW i \in 0..Len(old), NEW j \in 0..Len(new),
           \A k \in 0..Len(old), l \in 0..Len(new), pairs \in Pairings(old, new) :
               i + j < k + l /\ After(pairs, k, l) => Cardinality(pairs) <= t[<<k, l>>],
           NEW pairs \in Pairings(old, new), After(pairs, i, j)
    PROVE  Cardinality(pairs) <= Entry(t, old, new, <<i, j>>)
<1>0. Len(old) \in Nat /\ Len(new) \in Nat
    OBVIOUS
<1>1. \A k \in 0..Len(old), l \in 0..Len(new) : t[<<k, l>>] \in Nat
    BY DEF Places
<1>2. CASE i = Len(old) \/ j = Len(new)
    <2>1. pairs = {}
        BY <1>0, <1>2, PairingsAre DEF After
    <2>2. Cardinality(pairs) = 0
        BY <2>1, FS_EmptySet
    <2>3. Entry(t, old, new, <<i, j>>) = 0
        BY <1>2 DEF Entry
    <2> QED BY <2>2, <2>3
<1>3. CASE i < Len(old) /\ j < Len(new) /\ old[i + 1] = new[j + 1]
    <2> DEFINE rest == {p \in pairs : p[1] > i + 1 /\ p[2] > j + 1}
    <2>1. rest \in Pairings(old, new) /\ After(rest, i + 1, j + 1)
        BY PairingsAre DEF After
    <2>2. Cardinality(rest) <= t[<<i + 1, j + 1>>]
        BY <2>1, <1>0, <1>3
    <2>3. Entry(t, old, new, <<i, j>>) = t[<<i + 1, j + 1>>] + 1
        BY <1>3 DEF Entry
    <2>4. CASE pairs = rest
        <3>1. Cardinality(pairs) \in Nat
            BY PairingsAre
        <3>2. i + 1 \in 0..Len(old) /\ j + 1 \in 0..Len(new)
            BY <1>3
        <3>3. t[<<i + 1, j + 1>>] \in Nat
            BY <1>1, <3>2
        <3> HIDE DEF rest
        <3> QED BY <3>1, <3>3, <2>2, <2>3, <2>4
    <2>5. CASE pairs # rest
        <3>1. PICK p \in pairs : p \notin rest
            BY <2>5
        <3>2. ASSUME NEW q \in pairs, q \notin rest PROVE q = p
            <4>1. /\ p[1] \in Int /\ p[2] \in Int /\ q[1] \in Int /\ q[2] \in Int
                  /\ p[1] > i /\ p[2] > j /\ q[1] > i /\ q[2] > j
                BY PairingsAre DEF After
            <4>2. (p[1] = i + 1 \/ p[2] = j + 1) /\ (q[1] = i + 1 \/ q[2] = j + 1)
                BY <3>1, <3>2, <4>1, SMTT(30)
            <4>3. p = q \/ Precedes(p, q) \/ Precedes(q, p)
                BY DEF Pairings
            <4> QED BY <4>1, <4>2, <4>3 DEF Precedes
        <3>3. pairs = rest \cup {p}
            BY <3>2
        <3>4. IsFiniteSet(rest) /\ Cardinality(rest) \in Nat
            BY <2>1, PairingsAre
        <3>5. Cardinality(pairs) = Cardinality(rest) + 1
            <4> HIDE DEF rest
            <4> QED BY <3>1, <3>3, <3>4, FS_AddElement
        <3> HIDE DEF rest
        <3> QED BY <3>4, <3>5, <2>2, <2>3, <1>1, <1>3
    <2> QED BY <2>4, <2>5
<1>4. CASE i < Len(old) /\ j < Len(new) /\ old[i + 1] # new[j + 1]
    <2>1. After(pairs, i + 1, j) \/ After(pairs, i, j + 1)
        <3>1. SUFFICES ASSUME NEW p \in pairs, p[1] = i + 1 PROVE After(pairs, i, j + 1)
            BY PairingsAre DEF After
        <3>2. p[2] \in Int /\ p[2] > j + 1
            BY <3>1, <1>4, PairingsAre DEF After
        <3>3. ASSUME NEW q \in pairs PROVE q[1] > i /\ q[2] > j + 1
            <4>1. q[1] \in Int /\ q[2] \in Int /\ q[1] > i
                BY PairingsAre DEF After
            <4>2. p = q \/ Precedes(p, q) \/ Precedes(q, p)
                BY DEF Pairings
            <4> QED BY <3>1, <3>2, <4>1, <4>2 DEF Precedes
        <3> QED BY <3>3 DEF After
    <2>2. Cardinality(pairs) <= t[<<i + 1, j>>] \/ Cardinality(pairs) <= t[<<i, j + 1>>]
        <3>1. i + 1 \in 0..Len(old) /\ j + 1 \in 0..Len(new)
            BY <1>4
        <3> QED BY <2>1, <3>1
    <2>3. Entry(t, old, new, <<i, j>>) =
              IF t[<<i + 1, j>>] >= t[<<i, j + 1>>] THEN t[<<i + 1, j>>] ELSE t[<<i, j + 1>>]
        BY <1>4 DEF Entry
    <2>4. t[<<i + 1, j>>] \in Nat /\ t[<<i, j + 1>>] \in Nat
        BY <1>1, <1>4, SMTT(30)
    <2> QED BY <2>2, <2>3, <2>4, PairingsAre
<1> QED BY <1>0, <1>2, <1>3, <1>4

\* No pairing of equal lines after a place is longer than the table says there.
LEMMA TableBounds ==
    ASSUME NEW old \in Seq(Lines), NEW new \in Seq(Lines), NEW pairs \in Pairings(old, new),
           NEW i \in 0..Len(old), NEW j \in 0..Len(new), After(pairs, i, j)
    PROVE  Cardinality(pairs) <= Table(old, new)[<<i, j>>]
<1> DEFINE T == Table(old, new)
           Bounds(k, l) == \A m \in Pairings(old, new) :
                               After(m, k, l) => Cardinality(m) <= T[<<k, l>>]
           S == {n \in Nat : \A k \in 0..Len(old), l \in 0..Len(new) :
                                (Len(old) - k) + (Len(new) - l) <= n => Bounds(k, l)}
<1>0. Len(old) \in Nat /\ Len(new) \in Nat
    OBVIOUS
<1>1. ASSUME NEW k \in 0..Len(old), NEW l \in 0..Len(new),
             \A x \in 0..Len(old), y \in 0..Len(new) : k + l < x + y => Bounds(x, y)
      PROVE  Bounds(k, l)
    <2>1. T \in [Places(old, new) -> Nat] /\ T[<<k, l>>] = Entry(T, old, new, <<k, l>>)
        BY TableIs, PlacesAre
    <2>2. \A x \in 0..Len(old), y \in 0..Len(new), m \in Pairings(old, new) :
              k + l < x + y /\ After(m, x, y) => Cardinality(m) <= T[<<x, y>>]
        BY <1>1
    <2> HIDE DEF T
    <2> QED BY <2>1, <2>2, EntryBounds
<1>2. 0 \in S
    <2>1. ASSUME NEW k \in 0..Len(old), NEW l \in 0..Len(new),
                 (Len(old) - k) + (Len(new) - l) <= 0
          PROVE  \A x \in 0..Len(old), y \in 0..Len(new) : ~(k + l < x + y)
        BY <2>1, <1>0
    <2> HIDE DEF Bounds
    <2> QED BY <2>1, <1>1
<1>3. ASSUME NEW n \in S PROVE n + 1 \in S
    <2> HIDE DEF Bounds
    <2>1. ASSUME NEW k \in 0..Len(old), NEW l \in 0..Len(new),
                 (Len(old) - k) + (Len(new) - l) <= n + 1
          PROVE  Bounds(k, l)
        <3>1. \A x \in 0..Len(old), y \in 0..Len(new) :
                  k + l < x + y => (Len(old) - x) + (Len(new) - y) <= n
            BY <2>1, <1>0
        <3> QED BY <3>1, <1>1
    <2> QED BY <2>1
<1>4. S = Nat
    <2> HIDE DEF S
    <2>1. S \in SUBSET Nat
        BY DEF S
    <2> QED BY <1>2, <1>3, <2>1, Induction
<1>5. Bounds(i, j)
    <2> HIDE DEF Bounds
    <2>1. (Len(old) - i) + (Len(new) - j) \in Nat
        BY <1>0
    <2>2. (Len(old) - i) + (Len(new) - j) \in S
        <3> HIDE DEF S
        <3> QED BY <2>1, <1>4
    <2> QED BY <2>1, <2>2
<1> QED BY <1>5

(* The walk. *)

\* One side shows the first n lines of its text.
ShowsUpTo(rows, number(_), text, n) ==
    /\ \A i \in rows : /\ number(result[i]) \in 1..n
                        /\ result[i].text = text[number(result[i])]
    /\ \A k \in 1..n : \E i \in rows : number(result[i]) = k
    /\ \A i, j \in rows : i < j => number(result[i]) < number(result[j])

OldShown(n) == ShowsUpTo(Rows({"equal", "remove"}), OldNumber, oldLines, n)
NewShown(n) == ShowsUpTo(Rows({"equal", "add"}), NewNumber, newLines, n)

\* What was passed is shown, and the equal lines so far, with those that the table
\* still promises, are as many as it promised at the start.
DiffInv ==
    /\ DiffTypeOK
    /\ result \in Seq(DiffLine)
    /\ ~walking /\ result = <<>> => oldIndex = 0 /\ newIndex = 0
    /\ walking =>
          /\ oldLines \in Texts /\ newLines \in Texts
          /\ Len(oldLines) * Len(newLines) <= MaxCells
          /\ OldShown(oldIndex) /\ NewShown(newIndex)
          /\ LET table == Table(oldLines, newLines) IN
             table[<<0, 0>>] <= Cardinality(Rows({"equal"})) + table[<<oldIndex, newIndex>>]
    /\ DiffShowsBothTexts

LEMMA TextsAre ==
    ASSUME NEW text \in Texts
    PROVE  /\ text \in Seq(Lines) /\ Len(text) \in 1..MaxLines
           /\ DOMAIN text = 1..Len(text) /\ \A i \in 1..Len(text) : text[i] \in Lines
BY DiffConstants DEF Texts

LEMMA RowsAre ==
    ASSUME result \in Seq(DiffLine), NEW kinds
    PROVE  /\ Rows(kinds) \subseteq 1..Len(result)
           /\ \A i \in Rows(kinds) : result[i] \in DiffLine /\ result[i].kind \in kinds
           /\ IsFiniteSet(Rows(kinds)) /\ Cardinality(Rows(kinds)) \in Nat
<1>1. Rows(kinds) \subseteq 1..Len(result) /\ Len(result) \in Int /\ 1 \in Int
    BY DEF Rows
<1>2. IsFiniteSet(1..Len(result))
    BY <1>1, FS_Interval
<1>3. IsFiniteSet(Rows(kinds)) /\ Cardinality(Rows(kinds)) \in Nat
    BY <1>1, <1>2, FS_Subset, FS_CardinalityType
<1> QED BY <1>1, <1>3 DEF Rows

LEMMA ResultGrows ==
    ASSUME result \in Seq(DiffLine), NEW line \in DiffLine, result' = Append(result, line)
    PROVE  /\ result' \in Seq(DiffLine)
           /\ Len(result') = Len(result) + 1 /\ Len(result) \in Nat
           /\ \A i \in 1..Len(result) : result'[i] = result[i]
           /\ result'[Len(result) + 1] = line
BY AppendProperties

LEMMA RowsGrow ==
    ASSUME result \in Seq(DiffLine), NEW line \in DiffLine, result' = Append(result, line),
           NEW kinds
    PROVE  Rows(kinds)' = IF line.kind \in kinds THEN Rows(kinds) \cup {Len(result) + 1}
                                                 ELSE Rows(kinds)
<1>1. DOMAIN result = 1..Len(result) /\ DOMAIN result' = 1..(Len(result) + 1)
    BY ResultGrows
<1>2. \A i \in 1..(Len(result) + 1) : i \in 1..Len(result) \/ i = Len(result) + 1
    BY ResultGrows
<1> QED BY <1>1, <1>2, ResultGrows DEF Rows

LEMMA OldGrows ==
    ASSUME result \in Seq(DiffLine), NEW line \in DiffLine, result' = Append(result, line),
           NEW n \in Nat, OldShown(n), oldLines' = oldLines,
           line.kind \in {"equal", "remove"}, OldNumber(line) = n + 1, line.text = oldLines[n + 1]
    PROVE  OldShown(n + 1)'
<1> DEFINE rows == Rows({"equal", "remove"})
           last == Len(result) + 1
<1>1. rows' = rows \cup {last} /\ rows \subseteq 1..Len(result) /\ last \in Nat
    BY RowsGrow, RowsAre, ResultGrows
<1>2. \A i \in rows : result'[i] = result[i] /\ i < last
    BY <1>1, ResultGrows
<1>3. result'[last] = line
    BY ResultGrows
<1>4. /\ \A i \in rows : /\ OldNumber(result[i]) \in 1..n
                         /\ result[i].text = oldLines[OldNumber(result[i])]
      /\ \A k \in 1..n : \E i \in rows : OldNumber(result[i]) = k
      /\ \A i, j \in rows : i < j => OldNumber(result[i]) < OldNumber(result[j])
    BY DEF OldShown, ShowsUpTo
<1> HIDE DEF rows, last
<1>a. OldNumber(result'[last]) = n + 1 /\ result'[last].text = oldLines[n + 1]
    BY <1>3
<1>b. \A i \in rows : /\ OldNumber(result'[i]) = OldNumber(result[i])
                     /\ result'[i].text = result[i].text
    BY <1>2
<1>c. n \in Nat
    OBVIOUS
<1>5. ASSUME NEW i \in rows'
      PROVE  /\ OldNumber(result'[i]) \in 1..(n + 1)
             /\ result'[i].text = oldLines[OldNumber(result'[i])]
    <2>1. CASE i = last
        BY ONLY <1>a, <1>c, <2>1
    <2>2. CASE i \in rows
        <3>1. /\ OldNumber(result[i]) \in 1..n
              /\ result[i].text = oldLines[OldNumber(result[i])]
            BY <1>4, <2>2
        <3> QED BY ONLY <1>b, <1>c, <2>2, <3>1
    <2> QED BY <1>1, <2>1, <2>2
<1>6. \A k \in 1..(n + 1) : \E i \in rows' : OldNumber(result'[i]) = k
    <2>1. ASSUME NEW k \in 1..(n + 1) PROVE k \in 1..n \/ k = n + 1
        OBVIOUS
    <2> QED BY <2>1, <1>1, <1>2, <1>3, <1>4
<1>7. ASSUME NEW i \in rows', NEW j \in rows', i < j
      PROVE  OldNumber(result'[i]) < OldNumber(result'[j])
    <2>1. CASE j = last
        <3>1. i \in rows /\ OldNumber(result[i]) \in 1..n
            BY <1>1, <1>4, <1>7, <2>1
        <3> QED BY ONLY <3>1, <2>1, <1>a, <1>b, <1>c
    <2>2. CASE j \in rows
        <3>1. i \in rows
            BY <1>1, <1>2, <1>7, <2>2
        <3>2. OldNumber(result[i]) < OldNumber(result[j])
            BY <3>1, <2>2, <1>4, <1>7
        <3> QED BY ONLY <3>1, <3>2, <2>2, <1>b
    <2> QED BY <2>1, <2>2, <1>1
<1> QED BY <1>5, <1>6, <1>7 DEF OldShown, ShowsUpTo, rows, OldNumber

LEMMA OldStays ==
    ASSUME result \in Seq(DiffLine), NEW line \in DiffLine, result' = Append(result, line),
           NEW n \in Nat, OldShown(n), oldLines' = oldLines, line.kind \notin {"equal", "remove"}
    PROVE  OldShown(n)'
<1>1. Rows({"equal", "remove"})' = Rows({"equal", "remove"})
    BY RowsGrow
<1>2. \A i \in Rows({"equal", "remove"}) : result'[i] = result[i]
    BY RowsAre, ResultGrows
<1> DEFINE rows == Rows({"equal", "remove"})
<1>3. /\ \A i \in rows : /\ OldNumber(result[i]) \in 1..n
                         /\ result[i].text = oldLines[OldNumber(result[i])]
      /\ \A k \in 1..n : \E i \in rows : OldNumber(result[i]) = k
      /\ \A i, j \in rows : i < j => OldNumber(result[i]) < OldNumber(result[j])
    BY DEF OldShown, ShowsUpTo
<1>4. /\ \A i \in rows : /\ OldNumber(result'[i]) \in 1..n
                         /\ result'[i].text = oldLines[OldNumber(result'[i])]
      /\ \A k \in 1..n : \E i \in rows : OldNumber(result'[i]) = k
      /\ \A i, j \in rows : i < j => OldNumber(result'[i]) < OldNumber(result'[j])
    <2> HIDE DEF rows
    <2> QED BY <1>2, <1>3 DEF rows
<1> QED BY <1>1, <1>4, ZenonT(60) DEF OldShown, ShowsUpTo, OldNumber

LEMMA NewGrows ==
    ASSUME result \in Seq(DiffLine), NEW line \in DiffLine, result' = Append(result, line),
           NEW n \in Nat, NewShown(n), newLines' = newLines,
           line.kind \in {"equal", "add"}, NewNumber(line) = n + 1, line.text = newLines[n + 1]
    PROVE  NewShown(n + 1)'
<1> DEFINE rows == Rows({"equal", "add"})
           last == Len(result) + 1
<1>1. rows' = rows \cup {last} /\ rows \subseteq 1..Len(result) /\ last \in Nat
    BY RowsGrow, RowsAre, ResultGrows
<1>2. \A i \in rows : result'[i] = result[i] /\ i < last
    BY <1>1, ResultGrows
<1>3. result'[last] = line
    BY ResultGrows
<1>4. /\ \A i \in rows : /\ NewNumber(result[i]) \in 1..n
                         /\ result[i].text = newLines[NewNumber(result[i])]
      /\ \A k \in 1..n : \E i \in rows : NewNumber(result[i]) = k
      /\ \A i, j \in rows : i < j => NewNumber(result[i]) < NewNumber(result[j])
    BY DEF NewShown, ShowsUpTo
<1> HIDE DEF rows, last
<1>a. NewNumber(result'[last]) = n + 1 /\ result'[last].text = newLines[n + 1]
    BY <1>3
<1>b. \A i \in rows : /\ NewNumber(result'[i]) = NewNumber(result[i])
                     /\ result'[i].text = result[i].text
    BY <1>2
<1>c. n \in Nat
    OBVIOUS
<1>5. ASSUME NEW i \in rows'
      PROVE  /\ NewNumber(result'[i]) \in 1..(n + 1)
             /\ result'[i].text = newLines[NewNumber(result'[i])]
    <2>1. CASE i = last
        BY ONLY <1>a, <1>c, <2>1
    <2>2. CASE i \in rows
        <3>1. /\ NewNumber(result[i]) \in 1..n
              /\ result[i].text = newLines[NewNumber(result[i])]
            BY <1>4, <2>2
        <3> QED BY ONLY <1>b, <1>c, <2>2, <3>1
    <2> QED BY <1>1, <2>1, <2>2
<1>6. \A k \in 1..(n + 1) : \E i \in rows' : NewNumber(result'[i]) = k
    <2>1. ASSUME NEW k \in 1..(n + 1) PROVE k \in 1..n \/ k = n + 1
        OBVIOUS
    <2> QED BY <2>1, <1>1, <1>2, <1>3, <1>4
<1>7. ASSUME NEW i \in rows', NEW j \in rows', i < j
      PROVE  NewNumber(result'[i]) < NewNumber(result'[j])
    <2>1. CASE j = last
        <3>1. i \in rows /\ NewNumber(result[i]) \in 1..n
            BY <1>1, <1>4, <1>7, <2>1
        <3> QED BY ONLY <3>1, <2>1, <1>a, <1>b, <1>c
    <2>2. CASE j \in rows
        <3>1. i \in rows
            BY <1>1, <1>2, <1>7, <2>2
        <3>2. NewNumber(result[i]) < NewNumber(result[j])
            BY <3>1, <2>2, <1>4, <1>7
        <3> QED BY ONLY <3>1, <3>2, <2>2, <1>b
    <2> QED BY <2>1, <2>2, <1>1
<1> QED BY <1>5, <1>6, <1>7 DEF NewShown, ShowsUpTo, rows, NewNumber

LEMMA NewStays ==
    ASSUME result \in Seq(DiffLine), NEW line \in DiffLine, result' = Append(result, line),
           NEW n \in Nat, NewShown(n), newLines' = newLines, line.kind \notin {"equal", "add"}
    PROVE  NewShown(n)'
<1>1. Rows({"equal", "add"})' = Rows({"equal", "add"})
    BY RowsGrow
<1>2. \A i \in Rows({"equal", "add"}) : result'[i] = result[i]
    BY RowsAre, ResultGrows
<1> DEFINE rows == Rows({"equal", "add"})
<1>3. /\ \A i \in rows : /\ NewNumber(result[i]) \in 1..n
                         /\ result[i].text = newLines[NewNumber(result[i])]
      /\ \A k \in 1..n : \E i \in rows : NewNumber(result[i]) = k
      /\ \A i, j \in rows : i < j => NewNumber(result[i]) < NewNumber(result[j])
    BY DEF NewShown, ShowsUpTo
<1>4. /\ \A i \in rows : /\ NewNumber(result'[i]) \in 1..n
                         /\ result'[i].text = newLines[NewNumber(result'[i])]
      /\ \A k \in 1..n : \E i \in rows : NewNumber(result'[i]) = k
      /\ \A i, j \in rows : i < j => NewNumber(result'[i]) < NewNumber(result'[j])
    <2> HIDE DEF rows
    <2> QED BY <1>2, <1>3 DEF rows
<1> QED BY <1>1, <1>4, ZenonT(60) DEF NewShown, ShowsUpTo, NewNumber

(* Texts that are too large for the table. *)

LEMMA PrefixIs ==
    ASSUME NEW old \in Seq(Lines), NEW new \in Seq(Lines)
    PROVE  /\ Prefix(old, new) \in 0..Len(old) /\ Prefix(old, new) <= Len(new)
           /\ \A i \in 1..Prefix(old, new) : old[i] = new[i]
<1> DEFINE Ends(n) == n <= Len(new)
                      /\ (n = Len(old) \/ n = Len(new) \/ old[n + 1] # new[n + 1])
           T == {n \in 0..Len(old) : Ends(n)}
<1>0. Len(old) \in Nat /\ Len(new) \in Nat
    OBVIOUS
<1>1. T \in SUBSET Nat /\ T # {}
    <2>1. CASE Len(old) <= Len(new)
        <3>1. Len(old) \in T
            BY <1>0, <2>1
        <3> QED BY <3>1, <1>0
    <2>2. CASE Len(new) < Len(old)
        <3>1. Len(new) \in T
            BY <1>0, <2>2
        <3> QED BY <3>1, <1>0
    <2> QED BY <1>0, <2>1, <2>2
<1>2. PICK n \in T : \A m \in T : n <= m
    <2> HIDE DEF T
    <2> QED BY <1>1, Least
<1>3. ASSUME NEW i \in 1..n PROVE old[i] = new[i]
    <2>1. i - 1 \in 0..Len(old) /\ i - 1 < Len(old) /\ i - 1 < Len(new) /\ i - 1 < n
        BY <1>0
    <2>2. i - 1 \notin T
        <3> HIDE DEF T
        <3> QED BY <2>1, <1>1, <1>2
    <2>3. old[(i - 1) + 1] = new[(i - 1) + 1]
        BY <1>0, <2>1, <2>2
    <2> QED BY <2>3
<1>4. /\ n \in 0..Len(old) /\ n <= Len(new) /\ \A i \in 1..n : old[i] = new[i]
      /\ n = Len(old) \/ n = Len(new) \/ old[n + 1] # new[n + 1]
    BY <1>2, <1>3
<1> QED BY <1>4 DEF Prefix

LEMMA SuffixIs ==
    ASSUME NEW old \in Seq(Lines), NEW new \in Seq(Lines)
    PROVE  /\ Suffix(old, new) \in 0..(Len(old) - Prefix(old, new))
           /\ Suffix(old, new) <= Len(new) - Prefix(old, new)
           /\ \A i \in 1..Suffix(old, new) : old[Len(old) + 1 - i] = new[Len(new) + 1 - i]
<1> DEFINE a == Len(old) - Prefix(old, new)
           b == Len(new) - Prefix(old, new)
           T == {n \in 0..a : n <= b /\ (n = a \/ n = b
                                         \/ old[Len(old) - n] # new[Len(new) - n])}
<1>0. Len(old) \in Nat /\ Len(new) \in Nat /\ a \in Nat /\ b \in Nat
    BY PrefixIs
<1>1. T \in SUBSET Nat /\ T # {}
    <2> HIDE DEF a, b
    <2>0. T \in SUBSET Nat
        BY <1>0
    <2>1. CASE a <= b
        <3>1. a \in T
            BY <1>0, <2>1
        <3> QED BY <3>1, <2>0
    <2>2. CASE b < a
        <3>1. b \in T
            BY <1>0, <2>2
        <3> QED BY <3>1, <2>0
    <2> QED BY <1>0, <2>0, <2>1, <2>2
<1>2. PICK n \in T : \A m \in T : n <= m
    <2> HIDE DEF T
    <2> QED BY <1>1, Least
<1>3. ASSUME NEW i \in 1..n PROVE old[Len(old) + 1 - i] = new[Len(new) + 1 - i]
    <2> HIDE DEF a, b
    <2>1. i - 1 \in 0..a /\ i - 1 < a /\ i - 1 < b /\ i - 1 < n
        BY <1>0
    <2>2. i - 1 \notin T
        <3> HIDE DEF T
        <3> QED BY <2>1, <1>1, <1>2
    <2>3. old[Len(old) - (i - 1)] = new[Len(new) - (i - 1)]
        BY <1>0, <2>1, <2>2
    <2>4. Len(old) - (i - 1) = Len(old) + 1 - i /\ Len(new) - (i - 1) = Len(new) + 1 - i
        BY <1>0
    <2> QED BY <2>3, <2>4
<1>4. /\ n \in 0..a /\ n <= b
      /\ \A i \in 1..n : old[Len(old) + 1 - i] = new[Len(new) + 1 - i]
      /\ n = a \/ n = b \/ old[Len(old) - n] # new[Len(new) - n]
    BY <1>2, <1>3
<1>5. Suffix(old, new) = CHOOSE m \in 0..a :
          /\ m <= b
          /\ \A i \in 1..m : old[Len(old) + 1 - i] = new[Len(new) + 1 - i]
          /\ m = a \/ m = b \/ old[Len(old) - m] # new[Len(new) - m]
    BY DEF Suffix
<1> QED
    <2> HIDE DEF a, b
    <2>1. /\ Suffix(old, new) \in 0..a /\ Suffix(old, new) <= b
          /\ \A i \in 1..Suffix(old, new) : old[Len(old) + 1 - i] = new[Len(new) + 1 - i]
        BY <1>4, <1>5
    <2> QED BY <2>1 DEF a, b

LEMMA FunctionIsText ==
    ASSUME NEW S, NEW n \in Nat, NEW f \in [1..n -> S]
    PROVE  f \in Seq(S) /\ Len(f) = n
BY SeqDef, LenProperties

LEMMA Joined ==
    ASSUME NEW S, NEW x \in Seq(S), NEW y \in Seq(S), NEW m, NEW n, Len(x) = m, Len(y) = n
    PROVE  /\ x \o y \in Seq(S) /\ Len(x \o y) = m + n
           /\ \A i \in 1..m : (x \o y)[i] = x[i]
           /\ \A i \in 1..n : (x \o y)[m + i] = y[i]
<1>1. m \in Nat /\ n \in Nat
    OBVIOUS
<1>2. /\ x \o y \in Seq(S) /\ Len(x \o y) = m + n
      /\ \A i \in 1..(m + n) : (x \o y)[i] = IF i <= m THEN x[i] ELSE y[i - m]
    BY ConcatProperties
<1>3. ASSUME NEW i \in 1..m PROVE (x \o y)[i] = x[i]
    <2>1. i \in 1..(m + n) /\ i <= m
        BY <1>1
    <2> QED BY <2>1, <1>2
<1>4. ASSUME NEW i \in 1..n PROVE (x \o y)[m + i] = y[i]
    <2>1. m + i \in 1..(m + n) /\ ~(m + i <= m) /\ (m + i) - m = i
        BY <1>1
    <2> QED BY <2>1, <1>2
<1> QED BY <1>2, <1>3, <1>4

\* The rows of such a comparison, p at the start and s at the end.
EndRows(old, new, p, s) ==
    LET Same(i, j) == [kind |-> "equal", text |-> old[i], oldNumber |-> i, newNumber |-> j]
    IN  [i \in 1..p |-> Same(i, i)]
        \o [i \in 1..(Len(old) - s - p) |-> Removed(old, p + i)]
        \o [j \in 1..(Len(new) - s - p) |-> Added(new, p + j)]
        \o [k \in 1..s |-> Same(Len(old) - s + k, Len(new) - s + k)]

\* What such rows hold: p equal ones, a removed ones, b added ones, and s equal ones.
EndRow(rows, old, new, p, a, b, s) ==
    /\ \A i \in 1..p :
          /\ rows[i].kind = "equal" /\ rows[i].text = old[i]
          /\ rows[i].oldNumber = i /\ rows[i].newNumber = i
    /\ \A i \in 1..a :
          /\ rows[p + i].kind = "remove" /\ rows[p + i].text = old[p + i]
          /\ rows[p + i].oldNumber = p + i
    /\ \A i \in 1..b :
          /\ rows[p + a + i].kind = "add" /\ rows[p + a + i].text = new[p + i]
          /\ rows[p + a + i].newNumber = p + i
    /\ \A i \in 1..s :
          /\ rows[p + a + b + i].kind = "equal" /\ rows[p + a + b + i].text = old[p + a + i]
          /\ rows[p + a + b + i].oldNumber = p + a + i
          /\ rows[p + a + b + i].newNumber = p + b + i

LEMMA EndRowsAre ==
    ASSUME NEW old \in Texts, NEW new \in Texts, NEW p \in Nat, NEW s \in Nat,
           NEW a \in Nat, NEW b \in Nat, Len(old) = p + a + s, Len(new) = p + b + s
    PROVE  /\ EndRows(old, new, p, s) \in Seq(DiffLine)
           /\ Len(EndRows(old, new, p, s)) = p + a + b + s
           /\ EndRow(EndRows(old, new, p, s), old, new, p, a, b, s)
<1> DEFINE Same(i, j) == [kind |-> "equal", text |-> old[i], oldNumber |-> i, newNumber |-> j]
           r1 == [i \in 1..p |-> Same(i, i)]
           r2 == [i \in 1..a |-> Removed(old, p + i)]
           r3 == [i \in 1..b |-> Added(new, p + i)]
           r4 == [i \in 1..s |-> Same(Len(old) - s + i, Len(new) - s + i)]
<1>0. /\ old \in Seq(Lines) /\ new \in Seq(Lines) /\ MaxLines \in Nat
      /\ Len(old) \in 1..MaxLines /\ Len(new) \in 1..MaxLines
      /\ \A i \in 1..Len(old) : old[i] \in Lines
      /\ \A i \in 1..Len(new) : new[i] \in Lines
    BY TextsAre, DiffConstants
<1>1. p \in Nat /\ s \in Nat /\ a \in Nat /\ b \in Nat
    BY <1>0
<1>2. r1 \in Seq(DiffLine) /\ Len(r1) = p
    <2>1. \A i \in 1..p : Same(i, i) \in DiffLine
        BY <1>0, <1>1 DEF DiffLine
    <2>2. r1 \in [1..p -> DiffLine]
        BY <2>1
    <2> HIDE DEF r1
    <2> QED BY <1>1, <2>2, FunctionIsText
<1>3. r2 \in Seq(DiffLine) /\ Len(r2) = a
    <2>1. ASSUME NEW i \in 1..a PROVE Removed(old, p + i) \in DiffLine
        <3>1. p + i \in 1..Len(old) /\ p + i \in 0..MaxLines /\ 0 \in 0..MaxLines
            BY <1>0, <1>1
        <3>2. old[p + i] \in Lines
            BY <1>0, <3>1
        <3> QED BY <3>1, <3>2 DEF DiffLine, Removed
    <2>2. r2 \in [1..a -> DiffLine]
        BY <2>1
    <2> HIDE DEF r2
    <2> QED BY <1>1, <2>2, FunctionIsText
<1>4. r3 \in Seq(DiffLine) /\ Len(r3) = b
    <2>1. ASSUME NEW i \in 1..b PROVE Added(new, p + i) \in DiffLine
        <3>1. p + i \in 1..Len(new) /\ p + i \in 0..MaxLines /\ 0 \in 0..MaxLines
            BY <1>0, <1>1
        <3>2. new[p + i] \in Lines
            BY <1>0, <3>1
        <3> QED BY <3>1, <3>2 DEF DiffLine, Added
    <2>2. r3 \in [1..b -> DiffLine]
        BY <2>1
    <2> HIDE DEF r3
    <2> QED BY <1>1, <2>2, FunctionIsText
<1>5. r4 \in Seq(DiffLine) /\ Len(r4) = s
    <2>1. ASSUME NEW i \in 1..s
          PROVE  Same(Len(old) - s + i, Len(new) - s + i) \in DiffLine
        <3>1. /\ Len(old) - s + i \in 1..Len(old) /\ Len(old) - s + i \in 0..MaxLines
              /\ Len(new) - s + i \in 0..MaxLines
            BY <1>0, <1>1
        <3>2. old[Len(old) - s + i] \in Lines
            BY <1>0, <3>1
        <3> QED BY <3>1, <3>2 DEF DiffLine
    <2>2. r4 \in [1..s -> DiffLine]
        BY <2>1
    <2> HIDE DEF r4
    <2> QED BY <1>1, <2>2, FunctionIsText
<1>6. EndRows(old, new, p, s) = r1 \o r2 \o r3 \o r4
    <2>1. Len(old) - s - p = a /\ Len(new) - s - p = b
        BY <1>0
    <2> QED BY <2>1 DEF EndRows
<1>7. /\ \A i \in 1..p : r1[i] = Same(i, i)
      /\ \A i \in 1..a : r2[i] = Removed(old, p + i)
      /\ \A i \in 1..b : r3[i] = Added(new, p + i)
      /\ \A i \in 1..s : r4[i] = Same(Len(old) - s + i, Len(new) - s + i)
    OBVIOUS
<1> HIDE DEF r1, r2, r3, r4
<1> DEFINE c2 == r1 \o r2
           c3 == c2 \o r3
           c4 == c3 \o r4
<1>8. /\ c2 \in Seq(DiffLine) /\ Len(c2) = p + a
      /\ \A i \in 1..p : c2[i] = r1[i]
      /\ \A i \in 1..a : c2[p + i] = r2[i]
    BY ONLY <1>2, <1>3, Joined
<1> HIDE DEF c2
<1>9. /\ c3 \in Seq(DiffLine) /\ Len(c3) = p + a + b
      /\ \A i \in 1..(p + a) : c3[i] = c2[i]
      /\ \A i \in 1..b : c3[p + a + i] = r3[i]
    <2>1. PICK n \in Nat : n = p + a
        BY <1>1
    <2>2. /\ c3 \in Seq(DiffLine) /\ Len(c3) = n + b
          /\ \A i \in 1..n : c3[i] = c2[i]
          /\ \A i \in 1..b : c3[n + i] = r3[i]
        <3>1. c2 \in Seq(DiffLine) /\ Len(c2) = n
            BY <1>8, <2>1
        <3> QED BY ONLY <3>1, <1>4, Joined
    <2> QED BY ONLY <2>1, <2>2
<1> HIDE DEF c3
<1>10. /\ c4 \in Seq(DiffLine) /\ Len(c4) = p + a + b + s
       /\ \A i \in 1..(p + a + b) : c4[i] = c3[i]
       /\ \A i \in 1..s : c4[p + a + b + i] = r4[i]
    <2>1. PICK n \in Nat : n = p + a + b
        BY <1>1
    <2>2. /\ c4 \in Seq(DiffLine) /\ Len(c4) = n + s
          /\ \A i \in 1..n : c4[i] = c3[i]
          /\ \A i \in 1..s : c4[n + i] = r4[i]
        <3>1. c3 \in Seq(DiffLine) /\ Len(c3) = n
            BY <1>9, <2>1
        <3> QED BY ONLY <3>1, <1>5, Joined
    <2> QED BY ONLY <2>1, <2>2
<1> HIDE DEF c4
<1>11. /\ \A i \in 1..p : c4[i] = Same(i, i)
       /\ \A i \in 1..a : c4[p + i] = Removed(old, p + i)
       /\ \A i \in 1..b : c4[p + a + i] = Added(new, p + i)
       /\ \A i \in 1..s : c4[p + a + b + i] = Same(Len(old) - s + i, Len(new) - s + i)
    <2> HIDE DEF Same
    <2>1. /\ \A i \in 1..p : i \in 1..(p + a) /\ i \in 1..(p + a + b)
          /\ \A i \in 1..a : p + i \in 1..(p + a) /\ p + i \in 1..(p + a + b)
          /\ \A i \in 1..b : p + a + i \in 1..(p + a + b)
        BY <1>1
    <2> QED BY <2>1, <1>7, <1>8, <1>9, <1>10, ZenonT(60)
<1>12. EndRows(old, new, p, s) = c4
    BY <1>6 DEF c4, c3, c2
<1>13. EndRow(c4, old, new, p, a, b, s)
    <2>1. Len(old) - s = p + a /\ Len(new) - s = p + b
        BY <1>0
    <2>2. \A i \in 1..s : c4[p + a + b + i] = Same(p + a + i, p + b + i)
        <3> HIDE DEF Same
        <3> QED BY ONLY <1>11, <2>1
    <2>3. ASSUME NEW i \in 1..p
          PROVE  /\ c4[i].kind = "equal" /\ c4[i].text = old[i]
             /\ c4[i].oldNumber = i
             /\ c4[i].newNumber = i
        <3>1. c4[i] = Same(i, i)
            BY <1>11
        <3> QED BY ONLY <3>1
    <2>4. ASSUME NEW i \in 1..a
          PROVE  /\ c4[p + i].kind = "remove" /\ c4[p + i].text = old[p + i]
             /\ c4[p + i].oldNumber = p + i
        <3>1. c4[p + i] = Removed(old, p + i)
            BY <1>11
        <3> QED BY ONLY <3>1 DEF Removed
    <2>5. ASSUME NEW i \in 1..b
          PROVE  /\ c4[p + a + i].kind = "add" /\ c4[p + a + i].text = new[p + i]
             /\ c4[p + a + i].newNumber = p + i
        <3>1. c4[p + a + i] = Added(new, p + i)
            BY <1>11
        <3> QED BY ONLY <3>1 DEF Added
    <2>6. ASSUME NEW i \in 1..s
          PROVE  /\ c4[p + a + b + i].kind = "equal" /\ c4[p + a + b + i].text = old[p + a + i]
             /\ c4[p + a + b + i].oldNumber = p + a + i
             /\ c4[p + a + b + i].newNumber = p + b + i
        <3>1. c4[p + a + b + i] = Same(p + a + i, p + b + i)
            BY <2>2
        <3> QED BY ONLY <3>1
    <2> QED BY ONLY <2>3, <2>4, <2>5, <2>6 DEF EndRow
<1> QED BY <1>10, <1>12, <1>13

LEMMA BoundedIs ==
    ASSUME NEW old \in Texts, NEW new \in Texts
    PROVE  \E p, s \in Nat :
               /\ p + s <= Len(old) /\ p + s <= Len(new)
               /\ \A i \in 1..p : old[i] = new[i]
               /\ \A i \in 1..s : old[Len(old) - s + i] = new[Len(new) - s + i]
               /\ BoundedDiff(old, new) = EndRows(old, new, p, s)
<1> DEFINE p == Prefix(old, new)
           s == Suffix(old, new)
<1>1. old \in Seq(Lines) /\ new \in Seq(Lines) /\ Len(old) \in Nat /\ Len(new) \in Nat
    BY TextsAre
<1>2. /\ p \in 0..Len(old) /\ p <= Len(new) /\ \A i \in 1..p : old[i] = new[i]
      /\ s \in 0..(Len(old) - p) /\ s <= Len(new) - p
      /\ \A i \in 1..s : old[Len(old) + 1 - i] = new[Len(new) + 1 - i]
    BY <1>1, PrefixIs, SuffixIs
<1>3. BoundedDiff(old, new) = EndRows(old, new, p, s)
    BY DEF BoundedDiff, EndRows
<1> HIDE DEF p, s
<1>4. p \in Nat /\ s \in Nat /\ p + s <= Len(old) /\ p + s <= Len(new)
    BY <1>1, <1>2
<1>5. ASSUME NEW i \in 1..s PROVE old[Len(old) - s + i] = new[Len(new) - s + i]
    <2> DEFINE k == s + 1 - i
    <2>1. /\ k \in 1..s
          /\ Len(old) + 1 - k = Len(old) - s + i /\ Len(new) + 1 - k = Len(new) - s + i
        BY <1>1, <1>4
    <2>2. old[Len(old) + 1 - k] = new[Len(new) + 1 - k]
        <3> HIDE DEF k
        <3> QED BY <2>1, <1>2
    <2> QED BY ONLY <2>1, <2>2
<1> QED BY <1>2, <1>3, <1>4, <1>5

\* The rows show x lines, then come y other ones, and they show z lines again.
Blocks(rows, num, shown, text, x, y, z) ==
    /\ rows \in SUBSET (1..(x + y + z))
    /\ \A i \in 1..x : i \in rows /\ num[i] = i /\ shown[i] = text[i]
    /\ \A i \in 1..y : x + i \notin rows
    /\ \A i \in 1..z : /\ x + y + i \in rows
                       /\ num[x + y + i] = x + i /\ shown[x + y + i] = text[x + i]

\* The rows show n lines in order.
InOrder(rows, num, shown, text, n) ==
    /\ \A i \in rows : num[i] \in 1..n /\ shown[i] = text[num[i]]
    /\ \A k \in 1..n : \E i \in rows : num[i] = k
    /\ \A i, j \in rows : i < j => num[i] < num[j]

LEMMA BlocksShow ==
    ASSUME NEW x \in Nat, NEW y \in Nat, NEW z \in Nat, NEW rows, NEW num, NEW shown, NEW text,
           Blocks(rows, num, shown, text, x, y, z)
    PROVE  InOrder(rows, num, shown, text, x + z)
<1> USE DEF Blocks
<1>1. ASSUME NEW i \in rows
      PROVE  \/ i \in 1..x /\ num[i] = i /\ shown[i] = text[i]
             \/ /\ i \in (x + y + 1)..(x + y + z) /\ num[i] = i - y
                /\ shown[i] = text[i - y]
    <2>1. CASE i \in 1..x
        BY <2>1
    <2>2. CASE i \in (x + 1)..(x + y)
        <3>1. i - x \in 1..y /\ x + (i - x) = i
            BY <2>2
        <3> QED BY <3>1
    <2>3. CASE i \in (x + y + 1)..(x + y + z)
        <3> DEFINE k == i - (x + y)
        <3>1. k \in 1..z /\ x + y + k = i /\ x + k = i - y
            BY <2>3
        <3>2. num[x + y + k] = x + k /\ shown[x + y + k] = text[x + k]
            <4> HIDE DEF k
            <4> QED BY <3>1
        <3> QED BY ONLY <2>3, <3>1, <3>2
    <2> QED BY <2>1, <2>2, <2>3
<1>2. \A i \in rows : num[i] \in 1..(x + z) /\ shown[i] = text[num[i]]
    BY <1>1
<1>3. ASSUME NEW n \in 1..(x + z) PROVE \E i \in rows : num[i] = n
    <2>1. CASE n \in 1..x
        BY <2>1
    <2>2. CASE n \in (x + 1)..(x + z)
        <3>1. n - x \in 1..z /\ x + (n - x) = n
            BY <2>2
        <3>2. x + y + (n - x) \in rows /\ num[x + y + (n - x)] = n
            BY <3>1
        <3> QED BY <3>2
    <2> QED BY <2>1, <2>2
<1>4. ASSUME NEW i \in rows, NEW j \in rows, i < j PROVE num[i] < num[j]
    <2>1. i \in Int /\ j \in Int
        OBVIOUS
    <2>2. /\ \/ i \in 1..x /\ num[i] = i
             \/ i \in (x + y + 1)..(x + y + z) /\ num[i] = i - y
          /\ \/ j \in 1..x /\ num[j] = j
             \/ j \in (x + y + 1)..(x + y + z) /\ num[j] = j - y
        BY <1>1
    <2> QED BY <1>4, <2>1, <2>2
<1> QED BY <1>2, <1>3, <1>4 DEF InOrder

LEMMA BoundedShows ==
    ASSUME NEW old \in Texts, NEW new \in Texts, oldLines' = old, newLines' = new,
           result' = BoundedDiff(old, new)
    PROVE  result' \in Seq(DiffLine) /\ SidesAreShown'
<1> DEFINE r == result'
<1>1. PICK p, s \in Nat :
          /\ p + s <= Len(old) /\ p + s <= Len(new)
          /\ \A i \in 1..p : old[i] = new[i]
          /\ \A i \in 1..s : old[Len(old) - s + i] = new[Len(new) - s + i]
          /\ r = EndRows(old, new, p, s)
    BY BoundedIs
<1> DEFINE a == Len(old) - s - p
           b == Len(new) - s - p
<1>2. /\ a \in Nat /\ b \in Nat /\ Len(old) = p + a + s /\ Len(new) = p + b + s
      /\ Len(old) - s = p + a /\ Len(new) - s = p + b
    BY <1>1, TextsAre
<1>3. /\ r \in Seq(DiffLine) /\ Len(r) = p + a + b + s
      /\ EndRow(r, old, new, p, a, b, s)
    <2>1. p \in Nat /\ s \in Nat /\ p + s <= Len(old) /\ p + s <= Len(new)
        BY <1>1
    <2>2. old \in Texts /\ new \in Texts
        OBVIOUS
    <2>3. r = EndRows(old, new, p, s)
        BY <1>1
    <2> HIDE DEF r, a, b
    <2> QED BY ONLY <1>2, <2>1, <2>2, <2>3, EndRowsAre
<1>4. DOMAIN r = 1..(p + a + b + s)
    BY <1>3
<1> HIDE DEF r, a, b
<1>a. /\ p \in Nat /\ s \in Nat
      /\ \A i \in 1..p : old[i] = new[i]
      /\ \A i \in 1..s : old[p + a + i] = new[p + b + i]
    BY <1>1, <1>2
<1>5. \A i \in 1..p : /\ r[i].kind = "equal" /\ r[i].oldNumber = i /\ r[i].newNumber = i
                      /\ r[i].text = old[i] /\ r[i].text = new[i]
    BY ONLY <1>a, <1>3 DEF EndRow
<1>6. \A i \in 1..a : /\ r[p + i].kind = "remove" /\ r[p + i].oldNumber = p + i
                      /\ r[p + i].text = old[p + i]
    BY ONLY <1>3 DEF EndRow
<1>7. \A i \in 1..b : /\ r[p + a + i].kind = "add" /\ r[p + a + i].newNumber = p + i
                      /\ r[p + a + i].text = new[p + i]
    BY ONLY <1>3 DEF EndRow
<1>8. \A i \in 1..s :
          /\ r[p + a + b + i].kind = "equal"
          /\ r[p + a + b + i].oldNumber = p + a + i /\ r[p + a + b + i].newNumber = p + b + i
          /\ r[p + a + b + i].text = old[p + a + i] /\ r[p + a + b + i].text = new[p + b + i]
    BY ONLY <1>a, <1>3 DEF EndRow
<1>9. Shows(Rows({"equal", "remove"}), OldNumber, oldLines)'
    <2> DEFINE rows == {i \in 1..(p + a + b + s) : r[i].kind \in {"equal", "remove"}}
               num == [i \in 1..(p + a + b + s) |-> r[i].oldNumber]
               shown == [i \in 1..(p + a + b + s) |-> r[i].text]
    <2>1. \A i \in 1..(p + a) : i \in rows /\ num[i] = i /\ shown[i] = old[i]
        <3>1. ASSUME NEW i \in 1..(p + a)
              PROVE  r[i].kind \in {"equal", "remove"} /\ r[i].oldNumber = i /\ r[i].text = old[i]
            <4>1. CASE i \in 1..p
                BY <1>5, <4>1
            <4>2. CASE i \in (p + 1)..(p + a)
                <5>1. i - p \in 1..a /\ p + (i - p) = i
                    BY <1>2, <4>2
                <5> QED BY <5>1, <1>6
            <4> QED BY <1>2, <4>1, <4>2
        <3> QED BY <3>1, <1>2
    <2>2. PICK x \in Nat : x = p + a
        BY <1>2
    <2>3. \A i \in 1..x : i \in rows /\ num[i] = i /\ shown[i] = old[i]
        <3> HIDE DEF rows, num, shown
        <3> QED BY <2>1, <2>2
    <2>4. \A i \in 1..b : x + i \notin rows
        BY <1>2, <1>7, <2>2
    <2>5. ASSUME NEW i \in 1..s
          PROVE  /\ x + b + i \in rows
                 /\ num[x + b + i] = x + i /\ shown[x + b + i] = old[x + i]
        <3>1. p + a + b + i \in 1..(p + a + b + s)
            BY <1>2
        <3>2. /\ p + a + b + i \in rows /\ num[p + a + b + i] = p + a + i
              /\ shown[p + a + b + i] = old[p + a + i]
            BY <1>8, <3>1
        <3>3. x + b + i = p + a + b + i /\ x + i = p + a + i
            BY <1>2, <2>2
        <3> HIDE DEF rows, num, shown
        <3> QED BY ONLY <3>2, <3>3
    <2>6. rows \in SUBSET (1..(x + b + s))
        BY <1>2, <2>2
    <2>7. /\ \A i \in rows : num[i] \in 1..(x + s) /\ shown[i] = old[num[i]]
          /\ \A n \in 1..(x + s) : \E i \in rows : num[i] = n
          /\ \A i, j \in rows : i < j => num[i] < num[j]
        <3>1. x \in Nat /\ b \in Nat /\ s \in Nat
            BY <1>2
        <3> HIDE DEF rows, num, shown
        <3>2. Blocks(rows, num, shown, old, x, b, s)
            BY ONLY <2>3, <2>4, <2>5, <2>6 DEF Blocks
        <3>3. InOrder(rows, num, shown, old, x + s)
            BY ONLY <3>1, <3>2, BlocksShow
        <3> QED BY <3>3 DEF InOrder
    <2>8. Rows({"equal", "remove"})' = rows
        BY <1>4 DEF Rows, r
    <2>9. \A i \in rows : num[i] = r[i].oldNumber /\ shown[i] = r[i].text
        OBVIOUS
    <2>10. DOMAIN old = 1..(x + s)
        BY <1>2, <2>2, TextsAre
    <2> HIDE DEF rows, num, shown
    <2>11. /\ \A i \in rows : r[i].oldNumber \in DOMAIN old /\ r[i].text = old[r[i].oldNumber]
           /\ \A n \in DOMAIN old : \E i \in rows : r[i].oldNumber = n
           /\ \A i, j \in rows : i < j => r[i].oldNumber < r[j].oldNumber
        BY ONLY <2>7, <2>9, <2>10
    <2> QED BY <2>8, <2>11 DEF Shows, OldNumber, r
<1>10. Shows(Rows({"equal", "add"}), NewNumber, newLines)'
    <2> DEFINE rows == {i \in 1..(p + a + b + s) : r[i].kind \in {"equal", "add"}}
               num == [i \in 1..(p + a + b + s) |-> r[i].newNumber]
               shown == [i \in 1..(p + a + b + s) |-> r[i].text]
    <2>1. \A i \in 1..p : i \in rows /\ num[i] = i /\ shown[i] = new[i]
        BY <1>2, <1>5
    <2>2. \A i \in 1..a : p + i \notin rows
        BY <1>2, <1>6
    <2>3. \A i \in 1..(b + s) : /\ p + a + i \in rows
                                /\ num[p + a + i] = p + i
                                /\ shown[p + a + i] = new[p + i]
        <3>1. ASSUME NEW i \in 1..(b + s)
              PROVE  /\ r[p + a + i].kind \in {"equal", "add"} /\ r[p + a + i].newNumber = p + i
                     /\ r[p + a + i].text = new[p + i]
            <4>1. CASE i \in 1..b
                BY <1>7, <4>1
            <4>2. CASE i \in (b + 1)..(b + s)
                <5>1. i - b \in 1..s /\ p + a + b + (i - b) = p + a + i /\ p + b + (i - b) = p + i
                    BY <1>2, <4>2
                <5> QED BY <5>1, <1>8
            <4> QED BY <1>2, <4>1, <4>2
        <3>2. \A i \in 1..(b + s) : p + a + i \in 1..(p + a + b + s)
            BY <1>2
        <3> QED BY <3>1, <3>2
    <2>4. PICK z \in Nat : z = b + s
        BY <1>2
    <2>5. \A i \in 1..z : /\ p + a + i \in rows
                          /\ num[p + a + i] = p + i /\ shown[p + a + i] = new[p + i]
        <3> HIDE DEF rows, num, shown
        <3> QED BY <2>3, <2>4
    <2>6. rows \in SUBSET (1..(p + a + z))
        BY <1>2, <2>4
    <2>7. /\ \A i \in rows : num[i] \in 1..(p + z) /\ shown[i] = new[num[i]]
          /\ \A n \in 1..(p + z) : \E i \in rows : num[i] = n
          /\ \A i, j \in rows : i < j => num[i] < num[j]
        <3>1. p \in Nat /\ a \in Nat /\ z \in Nat
            BY <1>2
        <3> HIDE DEF rows, num, shown
        <3>2. Blocks(rows, num, shown, new, p, a, z)
            BY ONLY <2>1, <2>2, <2>5, <2>6 DEF Blocks
        <3>3. InOrder(rows, num, shown, new, p + z)
            BY ONLY <3>1, <3>2, BlocksShow
        <3> QED BY <3>3 DEF InOrder
    <2>8. Rows({"equal", "add"})' = rows
        BY <1>4 DEF Rows, r
    <2>9. \A i \in rows : num[i] = r[i].newNumber /\ shown[i] = r[i].text
        OBVIOUS
    <2>10. DOMAIN new = 1..(p + z)
        BY <1>2, <2>4, TextsAre
    <2> HIDE DEF rows, num, shown
    <2>11. /\ \A i \in rows : r[i].newNumber \in DOMAIN new /\ r[i].text = new[r[i].newNumber]
           /\ \A n \in DOMAIN new : \E i \in rows : r[i].newNumber = n
           /\ \A i, j \in rows : i < j => r[i].newNumber < r[j].newNumber
        BY ONLY <2>7, <2>9, <2>10
    <2> QED BY <2>8, <2>11 DEF Shows, NewNumber, r
<1> QED BY <1>3, <1>9, <1>10 DEF SidesAreShown, r

(* The invariant. *)

LEMMA DiffStarts == DiffInit => DiffInv
<1> SUFFICES ASSUME DiffInit PROVE DiffInv
    OBVIOUS
<1>1. /\ oldLines = <<>> /\ newLines = <<>> /\ oldIndex = 0 /\ newIndex = 0
      /\ result = <<>> /\ walking = FALSE
    BY DEF DiffInit
<1>2. result \in Seq(DiffLine) /\ \A i \in DOMAIN result : result[i] \in DiffLine
    BY ONLY <1>1
<1>3. oldIndex \in 0..Len(oldLines) /\ newIndex \in 0..Len(newLines)
    BY ONLY <1>1
<1>4. DiffTypeOK
    BY <1>1, <1>2, <1>3 DEF DiffTypeOK
<1> QED BY <1>1, <1>2, <1>4 DEF DiffInv, DiffShowsBothTexts

\* The entries that a step of the walk compares.
LEMMA TableAt ==
    ASSUME NEW old \in Seq(Lines), NEW new \in Seq(Lines),
           NEW i \in 0..Len(old), NEW j \in 0..Len(new)
    PROVE  /\ Table(old, new)[<<i, j>>] \in Nat
           /\ Table(old, new)[<<i, j>>] = Entry(Table(old, new), old, new, <<i, j>>)
BY TableIs, PlacesAre

LEMMA CompareKeeps ==
    ASSUME DiffInv, NEW old \in Texts, NEW new \in Texts, Compare(old, new)
    PROVE  DiffInv'
<1>0. /\ ~walking /\ result = <<>> /\ oldLines' = old /\ newLines' = new
      /\ oldIndex' = oldIndex /\ newIndex' = newIndex
    BY DEF Compare
<1>1. oldIndex' = 0 /\ newIndex' = 0
    BY <1>0 DEF DiffInv
<1>2. /\ old \in Seq(Lines) /\ Len(old) \in Nat /\ new \in Seq(Lines) /\ Len(new) \in Nat
      /\ Len(old) * Len(new) \in Nat /\ MaxCells \in Nat
    BY TextsAre, DiffConstants
<1>3. CASE Len(old) * Len(new) > MaxCells
    <2>1. result' = BoundedDiff(old, new) /\ walking' = FALSE
        BY <1>0, <1>3 DEF Compare, DiffInv, DiffTypeOK
    <2>2. result' \in Seq(DiffLine) /\ SidesAreShown'
        BY <1>0, <2>1, BoundedShows
    <2>3. DiffTypeOK'
        <3>1. \A i \in DOMAIN result' : result'[i] \in DiffLine
            BY ONLY <2>2
        <3>2. oldIndex' \in 0..Len(oldLines') /\ newIndex' \in 0..Len(newLines')
            BY ONLY <1>0, <1>1, <1>2
        <3> QED BY <1>0, <2>1, <3>1, <3>2 DEF DiffTypeOK
    <2>4. DiffShowsBothTexts'
        BY <1>0, <1>2, <1>3, <2>2 DEF DiffShowsBothTexts
    <2> QED BY <1>1, <2>1, <2>2, <2>3, <2>4 DEF DiffInv
<1>4. CASE Len(old) * Len(new) <= MaxCells
    <2>1. result' = <<>> /\ walking' = TRUE
        BY <1>0, <1>2, <1>4 DEF Compare
    <2>2. result' \in Seq(DiffLine) /\ \A kinds : Rows(kinds)' = {}
        BY <2>1 DEF Rows
    <2>3. DiffTypeOK'
        BY <1>0, <1>1, <1>2, <2>1 DEF DiffTypeOK
    <2>4. OldShown(oldIndex)' /\ NewShown(newIndex)'
        BY <1>1, <2>2 DEF OldShown, NewShown, ShowsUpTo
    <2>5. Cardinality(Rows({"equal"})') = 0
        BY <2>2, FS_EmptySet
    <2>6. Table(old, new)[<<0, 0>>] \in Nat
        BY <1>2, TableAt
    <2>7. DiffShowsBothTexts'
        BY <2>1 DEF DiffShowsBothTexts
    <2>8. LET table == Table(oldLines', newLines') IN
          table[<<0, 0>>] <= Cardinality(Rows({"equal"})') + table[<<oldIndex', newIndex'>>]
        BY <1>0, <1>1, <2>5, <2>6
    <2> QED BY <1>0, <1>4, <2>1, <2>2, <2>3, <2>4, <2>7, <2>8 DEF DiffInv
<1> QED BY <1>2, <1>3, <1>4

\* What every step of the walk has in common.
LEMMA WalkKeeps ==
    ASSUME DiffInv, walking, NEW line \in DiffLine, NEW i \in 0..Len(oldLines),
           NEW j \in 0..Len(newLines), Walk(line, i, j), OldShown(i)', NewShown(j)',
           LET table == Table(oldLines, newLines) IN
           table[<<oldIndex, newIndex>>]
               <= table[<<i, j>>] + (IF line.kind = "equal" THEN 1 ELSE 0)
    PROVE  DiffInv'
<1>1. /\ result' = Append(result, line) /\ oldIndex' = i /\ newIndex' = j
      /\ oldLines' = oldLines /\ newLines' = newLines /\ walking' = walking
    BY DEF Walk
<1>2. result \in Seq(DiffLine) /\ oldLines \in Texts /\ newLines \in Texts
    BY DEF DiffInv
<1>3. result' \in Seq(DiffLine) /\ \A k \in DOMAIN result' : result'[k] \in DiffLine
    BY <1>1, <1>2, AppendProperties
<1>4. DiffTypeOK'
    BY <1>1, <1>3 DEF DiffInv, DiffTypeOK
<1>5. Cardinality(Rows({"equal"})') =
          Cardinality(Rows({"equal"})) + (IF line.kind = "equal" THEN 1 ELSE 0)
    <2>1. Rows({"equal"})' = IF line.kind \in {"equal"} THEN Rows({"equal"}) \cup {Len(result) + 1}
                                                       ELSE Rows({"equal"})
        BY <1>1, <1>2, RowsGrow
    <2>2. /\ Rows({"equal"}) \subseteq 1..Len(result) /\ IsFiniteSet(Rows({"equal"}))
          /\ Cardinality(Rows({"equal"})) \in Nat /\ Len(result) \in Nat
        BY <1>2, RowsAre
    <2>3. Len(result) + 1 \notin Rows({"equal"})
        BY <2>2
    <2>4. Cardinality(Rows({"equal"}) \cup {Len(result) + 1}) = Cardinality(Rows({"equal"})) + 1
        BY ONLY <2>2, <2>3, FS_AddElement
    <2> QED BY ONLY <2>1, <2>2, <2>4
<1>6. LET table == Table(oldLines, newLines) IN
      table[<<0, 0>>] <= Cardinality(Rows({"equal"})') + table[<<i, j>>]
    <2> DEFINE table == Table(oldLines, newLines)
               equal == Cardinality(Rows({"equal"}))
               one == IF line.kind = "equal" THEN 1 ELSE 0
    <2>1. /\ oldLines \in Seq(Lines) /\ newLines \in Seq(Lines)
          /\ oldIndex \in 0..Len(oldLines) /\ newIndex \in 0..Len(newLines)
          /\ 0 \in 0..Len(oldLines) /\ 0 \in 0..Len(newLines)
        BY <1>2, TextsAre DEF DiffInv, DiffTypeOK
    <2>2. /\ table[<<0, 0>>] \in Nat /\ table[<<oldIndex, newIndex>>] \in Nat
          /\ table[<<i, j>>] \in Nat
        BY <2>1, TableAt
    <2>3. equal \in Nat /\ one \in Nat
        BY <1>2, RowsAre
    <2>4. table[<<0, 0>>] <= equal + table[<<oldIndex, newIndex>>]
        BY DEF DiffInv
    <2>5. table[<<oldIndex, newIndex>>] <= table[<<i, j>>] + one
        OBVIOUS
    <2>6. Cardinality(Rows({"equal"})') = equal + one
        BY <1>5
    <2> HIDE DEF table, equal, one
    <2>7. table[<<0, 0>>] <= (equal + one) + table[<<i, j>>]
        BY ONLY <2>2, <2>3, <2>4, <2>5
    <2> QED BY <2>6, <2>7 DEF table
<1>7. DiffShowsBothTexts'
    BY <1>1 DEF DiffShowsBothTexts
<1>8. Len(oldLines) * Len(newLines) <= MaxCells
    BY DEF DiffInv
<1> QED BY <1>1, <1>2, <1>3, <1>4, <1>6, <1>7, <1>8 DEF DiffInv

\* Where a walk is, in constants.
LEMMA WalkIsAt ==
    ASSUME DiffInv, walking
    PROVE  /\ oldLines \in Texts /\ newLines \in Texts /\ result \in Seq(DiffLine)
           /\ oldLines \in Seq(Lines) /\ Len(oldLines) \in 1..MaxLines /\ MaxLines \in Nat
           /\ newLines \in Seq(Lines) /\ Len(newLines) \in 1..MaxLines
           /\ oldIndex \in 0..Len(oldLines) /\ newIndex \in 0..Len(newLines)
           /\ OldShown(oldIndex) /\ NewShown(newIndex)
           /\ \E m, n \in Nat : m = oldIndex /\ n = newIndex
<1>1. /\ oldLines \in Texts /\ newLines \in Texts /\ result \in Seq(DiffLine)
      /\ oldIndex \in 0..Len(oldLines) /\ newIndex \in 0..Len(newLines)
      /\ OldShown(oldIndex) /\ NewShown(newIndex)
    BY DEF DiffInv, DiffTypeOK
<1>2. /\ oldLines \in Seq(Lines) /\ Len(oldLines) \in 1..MaxLines /\ MaxLines \in Nat
      /\ newLines \in Seq(Lines) /\ Len(newLines) \in 1..MaxLines
    BY <1>1, TextsAre, DiffConstants
<1>3. oldIndex \in Nat /\ newIndex \in Nat
    BY ONLY <1>1, <1>2
<1> QED BY <1>1, <1>2, <1>3

LEMMA WalkEqualKeeps == ASSUME DiffInv, WalkEqual PROVE DiffInv'
<1>1. /\ walking /\ oldIndex < Len(oldLines) /\ newIndex < Len(newLines)
      /\ oldLines[oldIndex + 1] = newLines[newIndex + 1]
      /\ Walk(Equal(oldIndex + 1, newIndex + 1), oldIndex + 1, newIndex + 1)
    BY DEF WalkEqual, BothLeft
<1>2. /\ oldLines \in Texts /\ newLines \in Texts /\ result \in Seq(DiffLine)
      /\ oldLines \in Seq(Lines) /\ Len(oldLines) \in 1..MaxLines /\ MaxLines \in Nat
      /\ newLines \in Seq(Lines) /\ Len(newLines) \in 1..MaxLines
      /\ oldIndex \in 0..Len(oldLines) /\ newIndex \in 0..Len(newLines)
      /\ OldShown(oldIndex) /\ NewShown(newIndex)
    BY <1>1, WalkIsAt
<1>3. PICK m, n \in Nat : m = oldIndex /\ n = newIndex
    BY <1>1, WalkIsAt
<1>4. /\ m + 1 \in 1..Len(oldLines) /\ n + 1 \in 1..Len(newLines)
      /\ m + 1 \in 0..Len(oldLines) /\ n + 1 \in 0..Len(newLines)
      /\ m + 1 \in 0..MaxLines /\ n + 1 \in 0..MaxLines
      /\ m < Len(oldLines) /\ n < Len(newLines)
      /\ m \in 0..Len(oldLines) /\ n \in 0..Len(newLines)
    BY ONLY <1>1, <1>2, <1>3
<1>5. PICK line : line = Equal(m + 1, n + 1)
    OBVIOUS
<1>6. line \in DiffLine
    <2>1. oldLines[m + 1] \in Lines
        BY <1>2, <1>4, TextsAre
    <2> QED BY ONLY <1>4, <1>5, <2>1 DEF Equal, DiffLine
<1>7. /\ line.kind = "equal" /\ OldNumber(line) = m + 1 /\ NewNumber(line) = n + 1
      /\ line.text = oldLines[m + 1] /\ line.text = newLines[n + 1]
    BY <1>1, <1>3, <1>5 DEF Equal, OldNumber, NewNumber
<1>8. Walk(line, m + 1, n + 1)
    BY <1>1, <1>3, <1>5
<1>9. result' = Append(result, line) /\ oldLines' = oldLines /\ newLines' = newLines
    BY <1>8 DEF Walk
<1>10. OldShown(m) /\ NewShown(n)
    BY <1>2, <1>3
<1>11. OldShown(m + 1)'
    BY <1>2, <1>6, <1>7, <1>9, <1>10, OldGrows
<1>12. NewShown(n + 1)'
    BY <1>2, <1>6, <1>7, <1>9, <1>10, NewGrows
<1>13. LET table == Table(oldLines, newLines) IN
       table[<<oldIndex, newIndex>>]
           <= table[<<m + 1, n + 1>>] + (IF line.kind = "equal" THEN 1 ELSE 0)
    <2> DEFINE table == Table(oldLines, newLines)
    <2>1. table[<<m, n>>] = Entry(table, oldLines, newLines, <<m, n>>)
        BY <1>2, <1>4, TableAt
    <2>2. table[<<m + 1, n + 1>>] \in Nat
        BY <1>2, <1>4, TableAt
    <2>3. oldLines[m + 1] = newLines[n + 1] /\ m # Len(oldLines) /\ n # Len(newLines)
        BY <1>1, <1>2, <1>3
    <2> HIDE DEF table
    <2>4. Entry(table, oldLines, newLines, <<m, n>>) = table[<<m + 1, n + 1>>] + 1
        BY ONLY <2>3 DEF Entry
    <2>5. table[<<oldIndex, newIndex>>]
              <= table[<<m + 1, n + 1>>] + (IF line.kind = "equal" THEN 1 ELSE 0)
        BY ONLY <1>3, <1>7, <2>1, <2>2, <2>4
    <2> QED BY <2>5 DEF table
<1> QED BY <1>1, <1>4, <1>6, <1>8, <1>11, <1>12, <1>13, WalkKeeps

LEMMA WalkRemoveKeeps == ASSUME DiffInv, WalkRemove PROVE DiffInv'
<1>1. /\ walking /\ oldIndex < Len(oldLines)
      /\ Walk(Removed(oldLines, oldIndex + 1), oldIndex + 1, newIndex)
      /\ BothLeft => /\ oldLines[oldIndex + 1] # newLines[newIndex + 1]
                     /\ LET table == Table(oldLines, newLines) IN
                        table[<<oldIndex + 1, newIndex>>] >= table[<<oldIndex, newIndex + 1>>]
    BY DEF WalkRemove
<1>2. /\ oldLines \in Texts /\ newLines \in Texts /\ result \in Seq(DiffLine)
      /\ oldLines \in Seq(Lines) /\ Len(oldLines) \in 1..MaxLines /\ MaxLines \in Nat
      /\ newLines \in Seq(Lines) /\ Len(newLines) \in 1..MaxLines
      /\ oldIndex \in 0..Len(oldLines) /\ newIndex \in 0..Len(newLines)
      /\ OldShown(oldIndex) /\ NewShown(newIndex)
    BY <1>1, WalkIsAt
<1>3. PICK m, n \in Nat : m = oldIndex /\ n = newIndex
    BY <1>1, WalkIsAt
<1>4. /\ m + 1 \in 1..Len(oldLines) /\ m + 1 \in 0..Len(oldLines) /\ m + 1 \in 0..MaxLines
      /\ 0 \in 0..MaxLines /\ m \in 0..Len(oldLines) /\ n \in 0..Len(newLines)
    BY ONLY <1>1, <1>2, <1>3
<1>5. PICK line : line = Removed(oldLines, m + 1)
    OBVIOUS
<1>6. line \in DiffLine
    <2>1. oldLines[m + 1] \in Lines
        BY <1>2, <1>4, TextsAre
    <2> QED BY ONLY <1>4, <1>5, <2>1 DEF Removed, DiffLine
<1>7. line.kind = "remove" /\ OldNumber(line) = m + 1 /\ line.text = oldLines[m + 1]
    BY <1>5 DEF Removed, OldNumber
<1>8. Walk(line, m + 1, n)
    BY <1>1, <1>3, <1>5
<1>9. result' = Append(result, line) /\ oldLines' = oldLines /\ newLines' = newLines
    BY <1>8 DEF Walk
<1>10. OldShown(m) /\ NewShown(n)
    BY <1>2, <1>3
<1>11. OldShown(m + 1)'
    BY <1>2, <1>6, <1>7, <1>9, <1>10, OldGrows
<1>12. NewShown(n)'
    BY <1>2, <1>6, <1>7, <1>9, <1>10, NewStays
<1>13. LET table == Table(oldLines, newLines) IN
       table[<<oldIndex, newIndex>>]
           <= table[<<m + 1, n>>] + (IF line.kind = "equal" THEN 1 ELSE 0)
    <2> DEFINE table == Table(oldLines, newLines)
    <2>1. table[<<m, n>>] = Entry(table, oldLines, newLines, <<m, n>>)
        BY <1>2, <1>4, TableAt
    <2>2. table[<<m + 1, n>>] \in Nat
        BY <1>2, <1>4, TableAt
    <2>3. CASE BothLeft
        <3>1. /\ m # Len(oldLines) /\ n # Len(newLines) /\ oldLines[m + 1] # newLines[n + 1]
              /\ table[<<m + 1, n>>] >= table[<<m, n + 1>>]
            BY <1>1, <1>2, <1>3, <2>3 DEF BothLeft
        <3>2. table[<<m + 1, n>>] \in Nat /\ table[<<m, n + 1>>] \in Nat
            <4>1. m + 1 \in 0..Len(oldLines) /\ n + 1 \in 0..Len(newLines)
                BY ONLY <1>2, <1>4, <3>1
            <4> QED BY <1>2, <1>4, <4>1, TableAt
        <3> HIDE DEF table
        <3>3. Entry(table, oldLines, newLines, <<m, n>>) = table[<<m + 1, n>>]
            BY ONLY <3>1, <3>2 DEF Entry
        <3> QED BY ONLY <1>3, <1>7, <2>1, <3>2, <3>3 DEF table
    <2>4. CASE ~BothLeft
        <3>1. n = Len(newLines)
            BY <1>1, <1>2, <1>3, <2>4 DEF BothLeft
        <3> HIDE DEF table
        <3>2. Entry(table, oldLines, newLines, <<m, n>>) = 0
            BY ONLY <3>1 DEF Entry
        <3> QED BY ONLY <1>3, <1>7, <2>1, <2>2, <3>2 DEF table
    <2> QED BY <2>3, <2>4
<1> QED BY <1>1, <1>4, <1>6, <1>8, <1>11, <1>12, <1>13, WalkKeeps

LEMMA WalkAddKeeps == ASSUME DiffInv, WalkAdd PROVE DiffInv'
<1>1. /\ walking /\ newIndex < Len(newLines)
      /\ Walk(Added(newLines, newIndex + 1), oldIndex, newIndex + 1)
      /\ BothLeft => /\ oldLines[oldIndex + 1] # newLines[newIndex + 1]
                     /\ LET table == Table(oldLines, newLines) IN
                        table[<<oldIndex + 1, newIndex>>] < table[<<oldIndex, newIndex + 1>>]
    BY DEF WalkAdd
<1>2. /\ oldLines \in Texts /\ newLines \in Texts /\ result \in Seq(DiffLine)
      /\ oldLines \in Seq(Lines) /\ Len(oldLines) \in 1..MaxLines /\ MaxLines \in Nat
      /\ newLines \in Seq(Lines) /\ Len(newLines) \in 1..MaxLines
      /\ oldIndex \in 0..Len(oldLines) /\ newIndex \in 0..Len(newLines)
      /\ OldShown(oldIndex) /\ NewShown(newIndex)
    BY <1>1, WalkIsAt
<1>3. PICK m, n \in Nat : m = oldIndex /\ n = newIndex
    BY <1>1, WalkIsAt
<1>4. /\ n + 1 \in 1..Len(newLines) /\ n + 1 \in 0..Len(newLines) /\ n + 1 \in 0..MaxLines
      /\ 0 \in 0..MaxLines /\ m \in 0..Len(oldLines) /\ n \in 0..Len(newLines)
    BY ONLY <1>1, <1>2, <1>3
<1>5. PICK line : line = Added(newLines, n + 1)
    OBVIOUS
<1>6. line \in DiffLine
    <2>1. newLines[n + 1] \in Lines
        BY <1>2, <1>4, TextsAre
    <2> QED BY ONLY <1>4, <1>5, <2>1 DEF Added, DiffLine
<1>7. line.kind = "add" /\ NewNumber(line) = n + 1 /\ line.text = newLines[n + 1]
    BY <1>5 DEF Added, NewNumber
<1>8. Walk(line, m, n + 1)
    BY <1>1, <1>3, <1>5
<1>9. result' = Append(result, line) /\ oldLines' = oldLines /\ newLines' = newLines
    BY <1>8 DEF Walk
<1>10. OldShown(m) /\ NewShown(n)
    BY <1>2, <1>3
<1>11. NewShown(n + 1)'
    BY <1>2, <1>6, <1>7, <1>9, <1>10, NewGrows
<1>12. OldShown(m)'
    BY <1>2, <1>6, <1>7, <1>9, <1>10, OldStays
<1>13. LET table == Table(oldLines, newLines) IN
       table[<<oldIndex, newIndex>>]
           <= table[<<m, n + 1>>] + (IF line.kind = "equal" THEN 1 ELSE 0)
    <2> DEFINE table == Table(oldLines, newLines)
    <2>1. table[<<m, n>>] = Entry(table, oldLines, newLines, <<m, n>>)
        BY <1>2, <1>4, TableAt
    <2>2. table[<<m, n + 1>>] \in Nat
        BY <1>2, <1>4, TableAt
    <2>3. CASE BothLeft
        <3>1. /\ m # Len(oldLines) /\ n # Len(newLines) /\ oldLines[m + 1] # newLines[n + 1]
              /\ table[<<m + 1, n>>] < table[<<m, n + 1>>]
            BY <1>1, <1>2, <1>3, <2>3 DEF BothLeft
        <3>2. table[<<m + 1, n>>] \in Nat /\ table[<<m, n + 1>>] \in Nat
            <4>1. m + 1 \in 0..Len(oldLines) /\ n + 1 \in 0..Len(newLines)
                BY ONLY <1>2, <1>4, <3>1
            <4> QED BY <1>2, <1>4, <4>1, TableAt
        <3> HIDE DEF table
        <3>3. Entry(table, oldLines, newLines, <<m, n>>) = table[<<m, n + 1>>]
            BY ONLY <3>1, <3>2 DEF Entry
        <3> QED BY ONLY <1>3, <1>7, <2>1, <3>2, <3>3 DEF table
    <2>4. CASE ~BothLeft
        <3>1. m = Len(oldLines)
            BY <1>1, <1>2, <1>3, <2>4 DEF BothLeft
        <3> HIDE DEF table
        <3>2. Entry(table, oldLines, newLines, <<m, n>>) = 0
            BY ONLY <3>1 DEF Entry
        <3> QED BY ONLY <1>3, <1>7, <2>1, <2>2, <3>2 DEF table
    <2> QED BY <2>3, <2>4
<1> QED BY <1>1, <1>4, <1>6, <1>8, <1>11, <1>12, <1>13, WalkKeeps

LEMMA WalkEndsKeeps == ASSUME DiffInv, WalkEnds PROVE DiffInv'
<1>1. /\ walking /\ oldIndex = Len(oldLines) /\ newIndex = Len(newLines) /\ walking' = FALSE
      /\ oldLines' = oldLines /\ newLines' = newLines /\ oldIndex' = oldIndex
      /\ newIndex' = newIndex /\ result' = result
    BY DEF WalkEnds
<1>2. /\ oldLines \in Texts /\ newLines \in Texts /\ result \in Seq(DiffLine)
      /\ OldShown(Len(oldLines)) /\ NewShown(Len(newLines))
    BY <1>1 DEF DiffInv
<1>3. /\ oldLines \in Seq(Lines) /\ DOMAIN oldLines = 1..Len(oldLines)
      /\ newLines \in Seq(Lines) /\ DOMAIN newLines = 1..Len(newLines)
      /\ Len(oldLines) \in Nat \ {0} /\ Len(newLines) \in Nat
    BY <1>2, TextsAre, DiffConstants
<1>4. SidesAreShown
    BY <1>2, <1>3 DEF OldShown, NewShown, ShowsUpTo, SidesAreShown, Shows
<1>5. result # <<>>
    <2>1. 1 \in 1..Len(oldLines)
        BY <1>3
    <2>2. Rows({"equal", "remove"}) # {}
        BY <1>2, <2>1 DEF OldShown, ShowsUpTo
    <2> QED BY <2>2 DEF Rows
<1>6. ASSUME NEW pairs \in Pairings(oldLines, newLines)
      PROVE  Cardinality(pairs) <= Cardinality(Rows({"equal"}))
    <2> DEFINE table == Table(oldLines, newLines)
    <2>1. After(pairs, 0, 0) /\ 0 \in 0..Len(oldLines) /\ 0 \in 0..Len(newLines)
        BY <1>3, PairingsAre DEF After
    <2>2. Cardinality(pairs) <= table[<<0, 0>>]
        BY <1>3, <2>1, TableBounds
    <2>3. table[<<0, 0>>] <= Cardinality(Rows({"equal"})) + table[<<oldIndex, newIndex>>]
        BY <1>1 DEF DiffInv
    <2>4. table[<<oldIndex, newIndex>>] = 0
        <3>1. oldIndex \in 0..Len(oldLines) /\ newIndex \in 0..Len(newLines)
            BY <1>1, <1>3
        <3>2. table[<<oldIndex, newIndex>>] =
                  Entry(table, oldLines, newLines, <<oldIndex, newIndex>>)
            BY <1>3, <3>1, TableAt
        <3> HIDE DEF table
        <3> QED BY ONLY <1>1, <3>2 DEF Entry
    <2>5. /\ Cardinality(pairs) \in Nat /\ table[<<0, 0>>] \in Nat
          /\ Cardinality(Rows({"equal"})) \in Nat
        BY <1>2, <1>3, <2>1, TableAt, RowsAre, PairingsAre
    <2> HIDE DEF table
    <2> QED BY ONLY <2>2, <2>3, <2>4, <2>5
<1>7. DiffShowsBothTexts'
    BY <1>1, <1>4, <1>6
       DEF DiffShowsBothTexts, SidesAreShown, Shows, Rows, OldNumber, NewNumber
<1>8. DiffTypeOK'
    BY <1>1 DEF DiffInv, DiffTypeOK
<1> QED BY <1>1, <1>2, <1>5, <1>7, <1>8 DEF DiffInv

\* Every step of a comparison keeps what it shows right.
LEMMA DiffKeeps == DiffInv /\ (DiffNext \/ UNCHANGED diffVars) => DiffInv'
<1>1. ASSUME DiffInv, UNCHANGED diffVars PROVE DiffInv'
    <2>1. /\ oldLines' = oldLines /\ newLines' = newLines /\ oldIndex' = oldIndex
          /\ newIndex' = newIndex /\ result' = result /\ walking' = walking
        BY <1>1 DEF diffVars
    <2>2. DiffTypeOK'
        BY <1>1, <2>1, ZenonT(30) DEF DiffInv, DiffTypeOK
    <2>3. walking => OldShown(oldIndex)' /\ NewShown(newIndex)'
        BY <1>1, <2>1, ZenonT(30)
           DEF DiffInv, OldShown, NewShown, ShowsUpTo, Rows, OldNumber, NewNumber
    <2>4. DiffShowsBothTexts'
        BY <1>1, <2>1, ZenonT(30)
           DEF DiffInv, DiffShowsBothTexts, SidesAreShown, Shows, Rows, OldNumber, NewNumber
    <2>5. Rows({"equal"})' = Rows({"equal"})
        BY <2>1, ZenonT(30) DEF Rows
    <2> QED BY <1>1, <2>1, <2>2, <2>3, <2>4, <2>5, ZenonT(30) DEF DiffInv
<1>2. ASSUME DiffInv, DiffNext PROVE DiffInv'
    <2>1. ASSUME NEW old \in Texts, NEW new \in Texts, Compare(old, new) PROVE DiffInv'
        BY <1>2, <2>1, CompareKeeps
    <2>2. CASE WalkEqual
        BY <1>2, <2>2, WalkEqualKeeps
    <2>3. CASE WalkRemove
        BY <1>2, <2>3, WalkRemoveKeeps
    <2>4. CASE WalkAdd
        BY <1>2, <2>4, WalkAddKeeps
    <2>5. CASE WalkEnds
        BY <1>2, <2>5, WalkEndsKeeps
    <2> QED BY <1>2, <2>1, <2>2, <2>3, <2>4, <2>5 DEF DiffNext
<1> QED BY <1>1, <1>2

-----------------------------------------------------------------------------
(* Sequences put together. *)

\* J[n] is the first n of the sequences, one after the other.
Joins(J, seqs, T) ==
    /\ J \in [0..Len(seqs) -> Seq(T)]
    /\ J[0] = <<>>
    /\ \A n \in 1..Len(seqs) : J[n] = J[n - 1] \o seqs[n]

LEMMA TwoJoined ==
    ASSUME NEW T, NEW s \in Seq(T), NEW t \in Seq(T)
    PROVE  /\ s \o t \in Seq(T) /\ Len(s \o t) = Len(s) + Len(t)
           /\ \A p \in 1..Len(s) : (s \o t)[p] = s[p] /\ p \in 1..Len(s \o t)
           /\ \A p \in 1..Len(t) :
                  (s \o t)[Len(s) + p] = t[p] /\ Len(s) + p \in 1..Len(s \o t)
OBVIOUS

LEMMA JoinsAt ==
    ASSUME NEW T, NEW seqs \in Seq(Seq(T)), NEW J, Joins(J, seqs, T), NEW n \in 1..Len(seqs)
    PROVE  /\ J[n - 1] \in Seq(T) /\ J[n] \in Seq(T) /\ seqs[n] \in Seq(T)
           /\ J[n] = J[n - 1] \o seqs[n]
<1>1. n - 1 \in 0..Len(seqs) /\ n \in 0..Len(seqs)
    OBVIOUS
<1>2. seqs[n] \in Seq(T)
    OBVIOUS
<1>3. J \in [0..Len(seqs) -> Seq(T)] /\ J[n] = J[n - 1] \o seqs[n]
    BY DEF Joins
<1> QED BY <1>1, <1>2, <1>3

JoinsUpTo(J, seqs, T, n) ==
    /\ J \in [0..n -> Seq(T)]
    /\ J[0] = <<>>
    /\ \A k \in 1..n : J[k] = J[k - 1] \o seqs[k]

LEMMA JoinsExist ==
    ASSUME NEW T, NEW seqs \in Seq(Seq(T))
    PROVE  \E J : Joins(J, seqs, T)
<1> DEFINE S == {n \in Nat : n <= Len(seqs) => \E J : JoinsUpTo(J, seqs, T, n)}
<1>1. 0 \in S
    <2>1. JoinsUpTo([n \in 0..0 |-> <<>>], seqs, T, 0)
        BY DEF JoinsUpTo
    <2> QED BY <2>1
<1>2. ASSUME NEW n \in S PROVE n + 1 \in S
    <2>1. SUFFICES ASSUME n + 1 <= Len(seqs) PROVE \E J : JoinsUpTo(J, seqs, T, n + 1)
        OBVIOUS
    <2>2. n \in Nat /\ n <= Len(seqs) /\ seqs[n + 1] \in Seq(T)
        BY <2>1
    <2>3. PICK J : JoinsUpTo(J, seqs, T, n)
        BY <2>2
    <2> DEFINE K == [k \in 0..(n + 1) |-> IF k <= n THEN J[k] ELSE J[n] \o seqs[n + 1]]
    <2>4. K \in [0..(n + 1) -> Seq(T)]
        BY <2>2, <2>3 DEF JoinsUpTo
    <2>5. K[0] = <<>>
        BY <2>2, <2>3 DEF JoinsUpTo
    <2>6. ASSUME NEW k \in 1..(n + 1) PROVE K[k] = K[k - 1] \o seqs[k]
        <3>1. k \in 0..(n + 1) /\ k - 1 \in 0..(n + 1) /\ k - 1 <= n
            BY <2>2
        <3>2. K[k - 1] = J[k - 1] /\ K[k] = IF k <= n THEN J[k] ELSE J[n] \o seqs[n + 1]
            BY <3>1
        <3>3. CASE k <= n
            <4>1. k \in 1..n
                BY <2>2, <3>3
            <4>2. J[k] = J[k - 1] \o seqs[k]
                BY <2>3, <4>1 DEF JoinsUpTo
            <4> HIDE DEF K
            <4> QED BY <3>2, <3>3, <4>2
        <3>4. CASE ~(k <= n)
            <4>1. k = n + 1 /\ k - 1 = n
                BY <2>2, <3>4
            <4> HIDE DEF K
            <4> QED BY <3>2, <3>4, <4>1
        <3> QED BY <3>3, <3>4
    <2>7. JoinsUpTo(K, seqs, T, n + 1)
        <3> HIDE DEF K
        <3> QED BY <2>4, <2>5, <2>6 DEF JoinsUpTo
    <2> QED BY <2>7
<1>3. S = Nat
    <2> HIDE DEF S
    <2>1. S \in SUBSET Nat
        BY DEF S
    <2> QED BY <1>1, <1>2, <2>1, Induction
<1>4. Len(seqs) \in Nat /\ Len(seqs) <= Len(seqs)
    OBVIOUS
<1>5. \E J : JoinsUpTo(J, seqs, T, Len(seqs))
    BY <1>3, <1>4
<1> QED BY <1>5 DEF JoinsUpTo, Joins

\* FlattenSeq puts all of them together.
LEMMA FlattenIs ==
    ASSUME NEW T, NEW seqs \in Seq(Seq(T)), NEW J, Joins(J, seqs, T)
    PROVE  FlattenSeq(seqs) = J[Len(seqs)]
<1>1. CASE Len(seqs) = 0
    BY <1>1 DEF FlattenSeq, Joins
<1>2. CASE Len(seqs) # 0
    <2> DEFINE D == 1..Len(seqs)
               Next(g) == [i \in D |-> IF i = 1 THEN seqs[i] ELSE g[i - 1] \o seqs[i]]
               F == CHOOSE g : g = Next(g)
               G == [i \in D |-> J[i]]
    <2>1. FlattenSeq(seqs) = F[Len(seqs)]
        BY <1>2 DEF FlattenSeq
    <2>2. \A i \in D : /\ seqs[i] \in Seq(T) /\ J[i - 1] \in Seq(T)
                       /\ J[i] = J[i - 1] \o seqs[i]
        BY JoinsAt
    <2>0. J[0] = <<>>
        BY DEF Joins
    <2>3. G = Next(G)
        <3>1. ASSUME NEW i \in D PROVE G[i] = IF i = 1 THEN seqs[i] ELSE G[i - 1] \o seqs[i]
            <4>1. J[i] = J[i - 1] \o seqs[i] /\ G[i] = J[i]
                BY <2>2
            <4>2. CASE i = 1
                <5>1. J[i - 1] = <<>> /\ seqs[i] \in Seq(T)
                    BY <4>2, <2>0, <2>2
                <5>2. J[i - 1] \o seqs[i] = seqs[i]
                    BY <5>1
                <5> QED BY <4>1, <4>2, <5>2
            <4>3. CASE i # 1
                <5>1. i - 1 \in D
                    BY <4>3
                <5>2. G[i - 1] = J[i - 1]
                    BY <5>1
                <5> QED BY <4>1, <4>3, <5>2
            <4> QED BY <4>2, <4>3
        <3> QED BY <3>1
    <2>4. F = Next(F)
        <3> HIDE DEF Next
        <3> QED BY <2>3
    <2>5. \A i \in D : F[i] = IF i = 1 THEN seqs[i] ELSE F[i - 1] \o seqs[i]
        <3> HIDE DEF F
        <3> QED BY <2>4
    <2> DEFINE S == {n \in Nat : n + 1 \in D => F[n + 1] = J[n + 1]}
    <2> HIDE DEF F, Next, G
    <2>6. 0 \in S
        <3>1. SUFFICES ASSUME 1 \in D PROVE F[1] = J[1]
            OBVIOUS
        <3>2. F[1] = seqs[1]
            BY <3>1, <2>5
        <3>3. PICK i \in D : i = 1
            BY <3>1
        <3>6. i - 1 = 0
            BY <3>3
        <3>4. J[i] = J[0] \o seqs[i] /\ seqs[i] \in Seq(T)
            BY <2>2, <3>6
        <3>5. ASSUME NEW t \in Seq(T) PROVE <<>> \o t = t
            OBVIOUS
        <3> QED BY <3>2, <3>3, <3>4, <3>5, <2>0
    <2>7. ASSUME NEW n \in S PROVE n + 1 \in S
        <3>1. SUFFICES ASSUME n + 2 \in D PROVE F[n + 2] = J[n + 2]
            OBVIOUS
        <3>2. n + 1 \in D /\ F[n + 1] = J[n + 1]
            BY <3>1
        <3>3. PICK i \in D : i = n + 2
            BY <3>1
        <3>4. i # 1 /\ i - 1 = n + 1
            BY <3>3
        <3>5. F[i] = F[i - 1] \o seqs[i]
            BY <3>4, <2>5
        <3>6. J[i] = J[i - 1] \o seqs[i]
            BY <2>2
        <3> QED BY <3>2, <3>3, <3>4, <3>5, <3>6
    <2>8. S = Nat
        <3> HIDE DEF S
        <3>1. S \in SUBSET Nat
            BY DEF S
        <3> QED BY <2>6, <2>7, <3>1, Induction
    <2>9. PICK n \in Nat : n + 1 = Len(seqs)
        <3>1. Len(seqs) \in Nat
            OBVIOUS
        <3>2. Len(seqs) - 1 \in Nat /\ (Len(seqs) - 1) + 1 = Len(seqs)
            BY ONLY <3>1, <1>2
        <3> QED BY <3>2
    <2>10. n + 1 \in D => F[n + 1] = J[n + 1]
        BY <2>8
    <2>11. n + 1 \in D
        BY <2>9
    <2> QED BY <2>1, <2>9, <2>10, <2>11
<1> QED BY <1>1, <1>2

BeginsWith(t, s) == Len(s) <= Len(t) /\ \A p \in 1..Len(s) : t[p] = s[p]

LEMMA LongerBegins ==
    ASSUME NEW T, NEW s \in Seq(T), NEW t \in Seq(T), NEW u \in Seq(T), BeginsWith(t, s)
    PROVE  BeginsWith(t \o u, s)
<1>1. Len(s) \in Nat /\ Len(t) \in Nat /\ Len(u) \in Nat /\ Len(t \o u) = Len(t) + Len(u)
    OBVIOUS
<1>2. Len(s) <= Len(t)
    BY DEF BeginsWith
<1>3. Len(s) <= Len(t \o u)
    BY ONLY <1>1, <1>2
<1>4. ASSUME NEW p \in 1..Len(s) PROVE (t \o u)[p] = s[p]
    <2>1. p \in 1..Len(t)
        BY <1>1, <1>2
    <2>2. (t \o u)[p] = t[p]
        BY <2>1
    <2> QED BY <2>2 DEF BeginsWith
<1> QED BY <1>3, <1>4 DEF BeginsWith

\* What the first n hold, all of them hold at the same place.
LEMMA JoinsGrow ==
    ASSUME NEW T, NEW seqs \in Seq(Seq(T)), NEW J, Joins(J, seqs, T), NEW n \in 0..Len(seqs)
    PROVE  BeginsWith(J[Len(seqs)], J[n])
<1> DEFINE S == {d \in Nat : n + d <= Len(seqs) => BeginsWith(J[n + d], J[n])}
<1>0. J[n] \in Seq(T)
    BY DEF Joins
<1>1. 0 \in S
    BY <1>0 DEF BeginsWith
<1>2. ASSUME NEW d \in S PROVE d + 1 \in S
    <2>1. SUFFICES ASSUME n + (d + 1) <= Len(seqs) PROVE BeginsWith(J[n + (d + 1)], J[n])
        OBVIOUS
    <2>2. PICK m \in 1..Len(seqs) : m = n + (d + 1)
        BY <2>1
    <2>3. J[m - 1] \in Seq(T) /\ seqs[m] \in Seq(T) /\ J[m] = J[m - 1] \o seqs[m]
        BY JoinsAt
    <2>4. BeginsWith(J[m - 1], J[n])
        <3>1. n + d <= Len(seqs) /\ m - 1 = n + d
            BY <2>1, <2>2
        <3>2. BeginsWith(J[n + d], J[n])
            BY <3>1
        <3> QED BY <3>1, <3>2
    <2>5. BeginsWith(J[m - 1] \o seqs[m], J[n])
        BY <1>0, <2>3, <2>4, LongerBegins
    <2> QED BY <2>2, <2>3, <2>5
<1>3. S = Nat
    <2> HIDE DEF S
    <2>1. S \in SUBSET Nat
        BY DEF S
    <2> QED BY <1>1, <1>2, <2>1, Induction
<1>4. Len(seqs) \in Nat /\ Len(seqs) - n \in Nat /\ n + (Len(seqs) - n) = Len(seqs)
    OBVIOUS
<1>5. ASSUME NEW d \in Nat, n + d = Len(seqs) PROVE BeginsWith(J[Len(seqs)], J[n])
    <2>1. d \in S /\ n + d <= Len(seqs)
        <3> HIDE DEF S
        <3> QED BY <1>3, <1>4, <1>5
    <2>2. BeginsWith(J[n + d], J[n])
        BY <2>1
    <2> QED BY <2>2, <1>5
<1> QED BY <1>4, <1>5

\* So each of them can be found in the whole.
HoldsAt(J, seqs, T, n) ==
    /\ J[n - 1] \in Seq(T) /\ J[n] \in Seq(T) /\ seqs[n] \in Seq(T)
    /\ J[n] = J[n - 1] \o seqs[n]
    /\ Len(J[n]) = Len(J[n - 1]) + Len(seqs[n])
    /\ Len(J[n]) <= Len(J[Len(seqs)])
    /\ \A p \in 1..Len(seqs[n]) : J[Len(seqs)][Len(J[n - 1]) + p] = seqs[n][p]

LEMMA JoinsHold ==
    ASSUME NEW T, NEW seqs \in Seq(Seq(T)), NEW J, Joins(J, seqs, T), NEW n \in 1..Len(seqs)
    PROVE  HoldsAt(J, seqs, T, n)
<1>1. J[n - 1] \in Seq(T) /\ J[n] \in Seq(T) /\ seqs[n] \in Seq(T) /\ J[n] = J[n - 1] \o seqs[n]
    BY JoinsAt
<1>2. Len(J[n]) = Len(J[n - 1]) + Len(seqs[n])
    BY <1>1
<1>3. Len(J[n]) <= Len(J[Len(seqs)]) /\ \A p \in 1..Len(J[n]) : J[Len(seqs)][p] = J[n][p]
    <2>1. n \in 0..Len(seqs)
        OBVIOUS
    <2>2. BeginsWith(J[Len(seqs)], J[n])
        BY <2>1, JoinsGrow
    <2> QED BY ONLY <2>2 DEF BeginsWith
<1>4. \A p \in 1..Len(seqs[n]) : /\ J[n][Len(J[n - 1]) + p] = seqs[n][p]
                                  /\ Len(J[n - 1]) + p \in 1..Len(J[n])
    <2>1. \A p \in 1..Len(seqs[n]) :
              /\ (J[n - 1] \o seqs[n])[Len(J[n - 1]) + p] = seqs[n][p]
              /\ Len(J[n - 1]) + p \in 1..Len(J[n - 1] \o seqs[n])
        BY ONLY <1>1, TwoJoined
    <2> QED BY ONLY <1>1, <2>1
<1> QED BY <1>1, <1>2, <1>3, <1>4 DEF HoldsAt

(* Words that are quoted. *)

Special(style) == IF style = Space THEN Chars \ {"a"}
                  ELSE IF style = Single THEN {} ELSE {Double, Escape}

\* Where each character of the word ends in what is written for it.
IsWritten(body, at, word, special) ==
    /\ body \in Seq(Chars)
    /\ at \in [0..Len(word) -> Nat] /\ at[0] = 0 /\ at[Len(word)] = Len(body)
    /\ \A m \in 1..Len(word) :
          /\ at[m] <= Len(body) /\ body[at[m]] = word[m]
          /\ at[m] = at[m - 1] + (IF word[m] \in special THEN 2 ELSE 1)
          /\ word[m] \in special => body[at[m - 1] + 1] = Escape

LEMMA WordsAre ==
    ASSUME NEW word \in Words
    PROVE  word \in Seq(Chars)
BY DEF Words

LEMMA EscapedIs ==
    ASSUME NEW word \in Seq(Chars), NEW special \in SUBSET Chars
    PROVE  \E at : IsWritten(Escaped(word, special), at, word, special)
<1> DEFINE codes == [i \in DOMAIN word |->
                        IF word[i] \in special THEN <<Escape, word[i]>> ELSE <<word[i]>>]
<1>1. codes \in Seq(Seq(Chars)) /\ Len(codes) = Len(word)
    <2>1. Escape \in Chars /\ Len(word) \in Nat /\ DOMAIN word = 1..Len(word)
        BY DEF Chars
    <2>2. ASSUME NEW i \in 1..Len(word) PROVE codes[i] \in Seq(Chars)
        <3>1. word[i] \in Chars
            OBVIOUS
        <3>2. <<Escape, word[i]>> \in Seq(Chars) /\ <<word[i]>> \in Seq(Chars)
            BY <2>1, <3>1
        <3> QED BY <2>1, <3>2
    <2>3. codes \in [1..Len(word) -> Seq(Chars)]
        BY <2>1, <2>2
    <2> HIDE DEF codes
    <2> QED BY <2>1, <2>3
<1>2. ASSUME NEW m \in 1..Len(word)
      PROVE  /\ word[m] \in special => /\ Len(codes[m]) = 2 /\ codes[m][1] = Escape
                                      /\ codes[m][2] = word[m]
             /\ word[m] \notin special => Len(codes[m]) = 1 /\ codes[m][1] = word[m]
    <2>1. codes[m] = IF word[m] \in special THEN <<Escape, word[m]>> ELSE <<word[m]>>
        OBVIOUS
    <2> HIDE DEF codes
    <2> QED BY <2>1
<1>3. Escaped(word, special) = FlattenSeq(codes)
    BY DEF Escaped
<1> HIDE DEF codes
<1>4. PICK J : Joins(J, codes, Chars)
    BY <1>1, JoinsExist
<1>5. FlattenSeq(codes) = J[Len(word)]
    BY <1>1, <1>4, FlattenIs
<1> DEFINE at == [m \in 0..Len(word) |-> Len(J[m])]
<1>6. J[0] = <<>> /\ J \in [0..Len(word) -> Seq(Chars)]
    BY <1>1, <1>4 DEF Joins
<1>7. at \in [0..Len(word) -> Nat] /\ at[0] = 0 /\ at[Len(word)] = Len(J[Len(word)])
      /\ J[Len(word)] \in Seq(Chars)
    BY <1>6
<1>8. ASSUME NEW m \in 1..Len(word)
      PROVE  /\ at[m] <= Len(J[Len(word)]) /\ J[Len(word)][at[m]] = word[m]
             /\ at[m] = at[m - 1] + (IF word[m] \in special THEN 2 ELSE 1)
             /\ word[m] \in special => J[Len(word)][at[m - 1] + 1] = Escape
    <2>1. m \in 1..Len(codes)
        BY <1>1
    <2>2. /\ J[m - 1] \in Seq(Chars)
          /\ Len(J[m]) = Len(J[m - 1]) + Len(codes[m])
          /\ Len(J[m]) <= Len(J[Len(word)])
          /\ \A p \in 1..Len(codes[m]) : J[Len(word)][Len(J[m - 1]) + p] = codes[m][p]
        <3>1. /\ J[m - 1] \in Seq(Chars)
              /\ Len(J[m]) = Len(J[m - 1]) + Len(codes[m])
              /\ Len(J[m]) <= Len(J[Len(codes)])
              /\ \A p \in 1..Len(codes[m]) : J[Len(codes)][Len(J[m - 1]) + p] = codes[m][p]
            <4>1. HoldsAt(J, codes, Chars, m)
                BY <1>1, <1>4, <2>1, JoinsHold
            <4> QED BY ONLY <4>1 DEF HoldsAt
        <3> QED BY <1>1, <3>1
    <2>3. at[m] = Len(J[m]) /\ at[m - 1] = Len(J[m - 1])
        OBVIOUS
    <2> HIDE DEF at
    <2>4. CASE word[m] \in special
        <3>1. Len(codes[m]) = 2 /\ codes[m][1] = Escape /\ codes[m][2] = word[m]
            BY <1>2, <2>4
        <3> QED BY <2>2, <2>3, <2>4, <3>1
    <2>5. CASE word[m] \notin special
        <3>1. Len(codes[m]) = 1 /\ codes[m][1] = word[m]
            BY <1>2, <2>5
        <3> QED BY <2>2, <2>3, <2>5, <3>1
    <2> QED BY <2>4, <2>5
<1> HIDE DEF at
<1>9. IsWritten(J[Len(word)], at, word, special)
    BY <1>7, <1>8 DEF IsWritten
<1> QED BY <1>3, <1>5, <1>9

LEMMA PlainIs ==
    ASSUME NEW word \in Seq(Chars)
    PROVE  \E at : IsWritten(word, at, word, {})
<1>1. IsWritten(word, [m \in 0..Len(word) |-> m], word, {})
    BY DEF IsWritten
<1> QED BY <1>1

\* The same with the quotes around it and the space behind it.
Opening(style) == IF style = Space THEN 0 ELSE 1
IsQuoted(q, at, word, style) ==
    /\ q \in Seq(Chars)
    /\ at \in [0..Len(word) -> Nat] /\ at[0] = Opening(style)
    /\ Len(q) = at[Len(word)] + Opening(style) + 1
    /\ q[Len(q)] = Space
    /\ style # Space => q[1] = style /\ q[at[Len(word)] + 1] = style
    /\ \A m \in 1..Len(word) :
          /\ at[m] <= at[Len(word)] /\ q[at[m]] = word[m]
          /\ at[m] = at[m - 1] + (IF word[m] \in Special(style) THEN 2 ELSE 1)
          /\ word[m] \in Special(style) => q[at[m - 1] + 1] = Escape

Wrapped(q, body, style) ==
    /\ q \in Seq(Chars) /\ Len(q) = Len(body) + 2 * Opening(style) + 1
    /\ \A p \in 1..Len(body) : q[p + Opening(style)] = body[p]
    /\ q[Len(q)] = Space
    /\ style # Space => q[1] = style /\ q[Len(body) + 2] = style

LEMMA MarksDiffer ==
    /\ Single # Double /\ Single # Space /\ Double # Space
    /\ Escape \notin {Single, Double, Space} /\ "a" \notin {Single, Double, Space, Escape}
    /\ {Space, Single, Double, Escape} \subseteq Chars
BY DEF Single, Double, Space, Escape, Chars

LEMMA OneBefore ==
    ASSUME NEW T, NEW c \in T, NEW s \in Seq(T), NEW n \in Nat, Len(s) = n
    PROVE  /\ <<c>> \o s \in Seq(T) /\ Len(<<c>> \o s) = n + 1
           /\ (<<c>> \o s)[1] = c
           /\ \A p \in 1..n : (<<c>> \o s)[p + 1] = s[p]
OBVIOUS

LEMMA OneBehind ==
    ASSUME NEW T, NEW c \in T, NEW s \in Seq(T), NEW n \in Nat, Len(s) = n
    PROVE  /\ s \o <<c>> \in Seq(T) /\ Len(s \o <<c>>) = n + 1
           /\ (s \o <<c>>)[n + 1] = c
           /\ \A p \in 1..n : (s \o <<c>>)[p] = s[p]
OBVIOUS

LEMMA WrappedIs ==
    ASSUME NEW body \in Seq(Chars), NEW style \in Styles,
           NEW quoted, quoted = IF style = Space THEN body ELSE <<style>> \o body \o <<style>>
    PROVE  Wrapped(quoted \o <<Space>>, body, style)
<1>1. Space \in Chars /\ style \in Chars /\ Len(body) \in Nat
    BY MarksDiffer DEF Styles
<1>2. <<Space>> \in Seq(Chars) /\ Len(<<Space>>) = 1 /\ <<Space>>[1] = Space
    BY <1>1
<1>3. CASE style = Space
    <2>1. quoted = body
        BY <1>3
    <2>2. /\ body \o <<Space>> \in Seq(Chars) /\ Len(body \o <<Space>>) = Len(body) + 1
          /\ \A p \in 1..Len(body) : (body \o <<Space>>)[p] = body[p]
          /\ \A p \in 1..1 : (body \o <<Space>>)[Len(body) + p] = <<Space>>[p]
        BY <1>2, Joined
    <2>3. (body \o <<Space>>)[Len(body) + 1] = Space
        BY <2>2, <1>2
    <2>4. Opening(style) = 0
        BY <1>3 DEF Opening
    <2> QED BY ONLY <1>1, <1>3, <2>1, <2>2, <2>3, <2>4 DEF Wrapped
<1>4. CASE style # Space
    <2>2. PICK n \in Nat : n = Len(body)
        BY <1>1
    <2>3. /\ <<style>> \o body \in Seq(Chars) /\ Len(<<style>> \o body) = n + 1
          /\ (<<style>> \o body)[1] = style
          /\ \A p \in 1..n : (<<style>> \o body)[p + 1] = body[p]
        BY <1>1, <2>2, OneBefore
    <2>4. PICK x \in Seq(Chars) : x = <<style>> \o body
        BY <2>3
    <2>5. /\ x \o <<style>> \in Seq(Chars) /\ Len(x \o <<style>>) = (n + 1) + 1
          /\ (x \o <<style>>)[(n + 1) + 1] = style
          /\ \A p \in 1..(n + 1) : (x \o <<style>>)[p] = x[p]
        <3>1. n + 1 \in Nat /\ Len(x) = n + 1
            BY <2>3, <2>4
        <3> QED BY <1>1, <3>1, OneBehind
    <2>6. PICK y \in Seq(Chars) : y = x \o <<style>>
        BY <2>5
    <2>11. /\ y \o <<Space>> \in Seq(Chars) /\ Len(y \o <<Space>>) = ((n + 1) + 1) + 1
           /\ (y \o <<Space>>)[((n + 1) + 1) + 1] = Space
           /\ \A p \in 1..((n + 1) + 1) : (y \o <<Space>>)[p] = y[p]
        <3>1. (n + 1) + 1 \in Nat /\ Len(y) = (n + 1) + 1
            BY <2>5, <2>6
        <3> QED BY <1>1, <3>1, OneBehind
    <2>12. PICK z \in Seq(Chars) : z = y \o <<Space>>
        BY <2>11
    <2>13. quoted \o <<Space>> = z
        BY <1>4, <2>4, <2>6, <2>12
    <2>7. Opening(style) = 1
        BY <1>4 DEF Opening
    <2>8. ASSUME NEW p \in 1..n PROVE z[p + 1] = body[p]
        <3>1. p + 1 \in 1..(n + 1) /\ p + 1 \in 1..((n + 1) + 1)
            OBVIOUS
        <3>2. x[p + 1] = body[p]
            BY <2>3, <2>4
        <3>3. y[p + 1] = x[p + 1]
            BY <2>5, <2>6, <3>1
        <3>4. z[p + 1] = y[p + 1]
            BY <2>11, <2>12, <3>1
        <3> QED BY <3>2, <3>3, <3>4
    <2>9. z[1] = style /\ z[n + 2] = style /\ z[n + 3] = Space /\ Len(z) = n + 3
        <3>1. 1 \in 1..(n + 1) /\ 1 \in 1..((n + 1) + 1) /\ (n + 1) + 1 \in 1..((n + 1) + 1)
              /\ (n + 1) + 1 = n + 2 /\ ((n + 1) + 1) + 1 = n + 3
            OBVIOUS
        <3>2. x[1] = style /\ y[1] = x[1] /\ y[(n + 1) + 1] = style
            BY <3>1, <2>3, <2>4, <2>5, <2>6
        <3>3. z[1] = y[1] /\ z[(n + 1) + 1] = y[(n + 1) + 1] /\ z[((n + 1) + 1) + 1] = Space
              /\ Len(z) = ((n + 1) + 1) + 1
            BY <3>1, <2>11, <2>12
        <3> QED BY ONLY <3>1, <3>2, <3>3
    <2>10. Wrapped(z, body, style)
        BY ONLY <1>4, <2>2, <2>7, <2>8, <2>9, n \in Nat, z \in Seq(Chars) DEF Wrapped
    <2> QED BY <2>13, <2>10
<1> QED BY <1>3, <1>4

LEMMA QuotedIs ==
    ASSUME NEW word \in Seq(Chars), NEW style \in Styles
    PROVE  \E at : IsQuoted(QuotedAs(word, style) \o <<Space>>, at, word, style)
<1>1. PICK body, off :
          /\ QuotedAs(word, style) = IF style = Space THEN body ELSE <<style>> \o body \o <<style>>
          /\ IsWritten(body, off, word, Special(style))
    <2>1. CASE style = Space
        <3>1. Special(style) = Chars \ {"a"}
            BY <2>1 DEF Special
        <3>2. QuotedAs(word, style) = Escaped(word, Special(style))
            BY <2>1, <3>1 DEF QuotedAs
        <3>3. PICK off : IsWritten(Escaped(word, Special(style)), off, word, Special(style))
            BY <3>1, EscapedIs
        <3> QED BY <2>1, <3>2, <3>3
    <2>2. CASE style = Single
        <3>1. Special(style) = {} /\ style # Space
            BY <2>2, MarksDiffer DEF Special
        <3>2. QuotedAs(word, style) = <<style>> \o word \o <<style>>
            BY <2>2, <3>1 DEF QuotedAs
        <3>3. PICK off : IsWritten(word, off, word, Special(style))
            BY <3>1, PlainIs
        <3> QED BY <3>1, <3>2, <3>3
    <2>3. CASE style = Double
        <3>1. Special(style) = {Double, Escape} /\ style # Space /\ style # Single
            BY <2>3, MarksDiffer DEF Special
        <3>2. QuotedAs(word, style) = <<style>> \o Escaped(word, Special(style)) \o <<style>>
            BY <3>1 DEF QuotedAs
        <3>3. PICK off : IsWritten(Escaped(word, Special(style)), off, word, Special(style))
            BY <3>1, MarksDiffer, EscapedIs
        <3> QED BY <3>1, <3>2, <3>3
    <2> QED BY <2>1, <2>2, <2>3 DEF Styles
<1>2. PICK q : q = QuotedAs(word, style) \o <<Space>>
    OBVIOUS
<1>3. Wrapped(q, body, style)
    BY <1>1, <1>2, WrappedIs DEF IsWritten
<1>4. PICK k \in Nat : k = Opening(style)
    BY DEF Opening
<1> DEFINE at == [m \in 0..Len(word) |-> off[m] + k]
<1>5. /\ Len(body) \in Nat /\ off \in [0..Len(word) -> Nat] /\ off[0] = 0
      /\ off[Len(word)] = Len(body)
    BY <1>1 DEF IsWritten
<1>6. /\ at \in [0..Len(word) -> Nat] /\ at[0] = k /\ at[Len(word)] = Len(body) + k
    BY <1>5
<1>7. ASSUME NEW m \in 1..Len(word)
      PROVE  /\ at[m] <= at[Len(word)] /\ q[at[m]] = word[m]
             /\ at[m] = at[m - 1] + (IF word[m] \in Special(style) THEN 2 ELSE 1)
             /\ word[m] \in Special(style) => q[at[m - 1] + 1] = Escape
    <2>1. at[m] = off[m] + k /\ at[m - 1] = off[m - 1] + k /\ off[m] \in Nat /\ off[m - 1] \in Nat
        <3>1. m \in 0..Len(word) /\ m - 1 \in 0..Len(word)
            OBVIOUS
        <3>2. at[m] = off[m] + k /\ at[m - 1] = off[m - 1] + k
            BY <3>1
        <3> HIDE DEF at
        <3>3. off[m] \in Nat /\ off[m - 1] \in Nat
            BY <1>5, <3>1
        <3> QED BY <3>2, <3>3
    <2>2. /\ off[m] <= Len(body) /\ body[off[m]] = word[m]
          /\ off[m] = off[m - 1] + (IF word[m] \in Special(style) THEN 2 ELSE 1)
          /\ word[m] \in Special(style) => body[off[m - 1] + 1] = Escape
        BY <1>1 DEF IsWritten
    <2>3. off[m] \in 1..Len(body) /\ off[m - 1] + 1 \in 1..Len(body)
        <3>1. off[m] \in Nat /\ off[m - 1] \in Nat /\ Len(body) \in Nat /\ off[m] <= Len(body)
              /\ (off[m] = off[m - 1] + 1 \/ off[m] = off[m - 1] + 2)
            BY <2>1, <2>2, <1>5
        <3> QED BY ONLY <3>1
    <2>4. q[off[m] + k] = body[off[m]] /\ q[(off[m - 1] + 1) + k] = body[off[m - 1] + 1]
        BY <1>3, <1>4, <2>3 DEF Wrapped
    <2> HIDE DEF at
    <2>5. (off[m - 1] + 1) + k = at[m - 1] + 1
        BY ONLY <2>1, k \in Nat
    <2> QED BY <2>1, <2>2, <2>4, <2>5, <1>5, <1>6, SMTT(30)
<1> HIDE DEF at
<1>8. IsQuoted(q, at, word, style)
    <2>1. q \in Seq(Chars) /\ Len(q) = Len(body) + 2 * k + 1 /\ q[Len(q)] = Space
          /\ (style # Space => q[1] = style /\ q[Len(body) + 2] = style)
        BY <1>3, <1>4 DEF Wrapped
    <2>2. Len(q) = at[Len(word)] + Opening(style) + 1 /\ at[0] = Opening(style)
        BY <1>4, <1>5, <1>6, <2>1
    <2>3. style # Space => q[at[Len(word)] + 1] = style
        <3>1. style # Space => k = 1 /\ at[Len(word)] + 1 = Len(body) + 2
            BY <1>4, <1>5, <1>6 DEF Opening
        <3> QED BY <2>1, <3>1
    <2> QED BY <1>6, <1>7, <2>1, <2>2, <2>3 DEF IsQuoted
<1> QED BY <1>2, <1>8

(* The loop. *)

Written(ws, styles) == [i \in DOMAIN ws |-> QuotedAs(ws[i], styles[i]) \o <<Space>>]
AsRead(ws) == [i \in DOMAIN ws |-> IF ws[i] = <<>> THEN <<>> ELSE <<ws[i]>>]

\* What the line holds, and what is to be read from it.
IsLine(ws, styles, J, K) ==
    /\ ws \in Seq(Words)
    /\ styles \in [1..Len(ws) -> Styles]
    /\ \A i \in 1..Len(ws) : CanTake(ws[i], styles[i])
    /\ Joins(J, Written(ws, styles), Chars)
    /\ Joins(K, AsRead(ws), Words)

Rest(line, k) == SubSeq(line, k + 1, Len(line))
Left(ws, J, k) == Rest(J[Len(ws)], k)

\* The loop has read n words; m characters of the n-th; or its closing quote.
Between(ws, J, K, n) ==
    /\ n \in 0..Len(ws)
    /\ words = K[n] /\ value = <<>> /\ quote = Space /\ escaping = FALSE
    /\ unread = Left(ws, J, Len(J[n]))

Inside(ws, styles, J, K, n, at, m) ==
    /\ n \in 1..Len(ws) /\ m \in 0..Len(ws[n])
    /\ IsQuoted(Written(ws, styles)[n], at, ws[n], styles[n])
    /\ words = K[n - 1] /\ value = SubSeq(ws[n], 1, m) /\ quote = styles[n]
    /\ escaping \in BOOLEAN
    /\ escaping => m < Len(ws[n]) /\ ws[n][m + 1] \in Special(styles[n])
    /\ unread = Left(ws, J, Len(J[n - 1]) + (at[m] + (IF escaping THEN 1 ELSE 0)))

PastQuote(ws, styles, J, K, n) ==
    /\ n \in 1..Len(ws) /\ styles[n] # Space
    /\ words = K[n - 1] /\ value = ws[n] /\ quote = Space /\ escaping = FALSE
    /\ unread = Left(ws, J, Len(J[n]) - 1)

IsRead(ws, styles, J, K) ==
    \/ \E n : Between(ws, J, K, n)
    \/ \E n, at, m : Inside(ws, styles, J, K, n, at, m)
    \/ \E n : PastQuote(ws, styles, J, K, n)

WordInv ==
    /\ argv \in Seq(Words) /\ Len(argv) <= MaxWords
    /\ unread \in Seq(Chars) /\ value \in Seq(Chars) /\ words \in Seq(Seq(Chars) \ {<<>>})
    /\ quote \in Styles /\ escaping \in BOOLEAN /\ reading \in BOOLEAN
    /\ argv = <<>> =>
           words = <<>> /\ value = <<>> /\ quote = Space /\ escaping = FALSE /\ reading = FALSE
    /\ reading => \E styles, J, K : IsLine(argv, styles, J, K) /\ IsRead(argv, styles, J, K)
    /\ QuotedWordsAreRead

LEMMA RestIs ==
    ASSUME NEW T, NEW line \in Seq(T), NEW k \in 0..Len(line)
    PROVE  /\ Rest(line, k) \in Seq(T)
           /\ Rest(line, k) = <<>> <=> k = Len(line)
           /\ k < Len(line) => /\ Head(Rest(line, k)) = line[k + 1]
                               /\ Tail(Rest(line, k)) = Rest(line, k + 1)
<1>1. Len(line) \in Nat
    OBVIOUS
<1>2. /\ Rest(line, k) \in Seq(T) /\ Len(Rest(line, k)) = Len(line) - k
      /\ \A i \in 1..(Len(line) - k) : Rest(line, k)[i] = line[k + i]
    BY <1>1, SubSeqProperties DEF Rest
<1>3. Rest(line, k) = <<>> <=> k = Len(line)
    BY <1>1, <1>2
<1>4. ASSUME k < Len(line)
      PROVE  /\ Head(Rest(line, k)) = line[k + 1]
             /\ Tail(Rest(line, k)) = Rest(line, k + 1)
    <2>1. PICK m \in 1..Len(line) : m = k + 1
        BY <1>1, <1>4
    <2>2. Len(line) \in m..Len(line)
        BY <1>1
    <2>3. Head(SubSeq(line, m, Len(line))) = line[m]
          /\ Tail(SubSeq(line, m, Len(line))) = SubSeq(line, m + 1, Len(line))
        BY <2>2, HeadTailOfSubSeq
    <2> QED BY <2>1, <2>3 DEF Rest
<1> QED BY <1>2, <1>3, <1>4

WordStep(c) == \/ WordEscaped(c) \/ WordBackslash(c) \/ WordQuoted(c)
               \/ WordQuote(c) \/ WordBlank(c) \/ WordOther(c)

\* Where the next character comes from.
LEMMA WrittenAre ==
    ASSUME NEW ws, NEW styles, NEW J, NEW K, IsLine(ws, styles, J, K)
    PROVE  /\ ws \in Seq(Words) /\ Len(ws) \in Nat
           /\ \A i \in 1..Len(ws) : ws[i] \in Seq(Chars) /\ styles[i] \in Styles
           /\ Written(ws, styles) \in Seq(Seq(Chars)) /\ Len(Written(ws, styles)) = Len(ws)
           /\ AsRead(ws) \in Seq(Seq(Words)) /\ Len(AsRead(ws)) = Len(ws)
           /\ \A i \in 1..Len(ws) : \E at : IsQuoted(Written(ws, styles)[i], at, ws[i], styles[i])
<1>1. ws \in Seq(Words) /\ Len(ws) \in Nat /\ DOMAIN ws = 1..Len(ws)
    BY DEF IsLine
<1>2. \A i \in 1..Len(ws) : ws[i] \in Words /\ ws[i] \in Seq(Chars) /\ styles[i] \in Styles
    <2>1. ASSUME NEW i \in 1..Len(ws)
          PROVE  ws[i] \in Words /\ ws[i] \in Seq(Chars) /\ styles[i] \in Styles
        <3>1. ws[i] \in Words
            BY <1>1
        <3>2. ws[i] \in Seq(Chars)
            BY <3>1, WordsAre
        <3>3. styles \in [1..Len(ws) -> Styles]
            BY DEF IsLine
        <3> QED BY <3>1, <3>2, <3>3
    <2> QED BY <2>1
<1>3. ASSUME NEW i \in 1..Len(ws)
      PROVE  /\ Written(ws, styles)[i] \in Seq(Chars)
             /\ \E at : IsQuoted(Written(ws, styles)[i], at, ws[i], styles[i])
    <2>1. Written(ws, styles)[i] = QuotedAs(ws[i], styles[i]) \o <<Space>>
        BY <1>1 DEF Written
    <2>2. PICK at : IsQuoted(Written(ws, styles)[i], at, ws[i], styles[i])
        BY <1>2, <2>1, QuotedIs
    <2> QED BY <2>2 DEF IsQuoted
<1>4. Written(ws, styles) \in [1..Len(ws) -> Seq(Chars)]
    BY <1>1, <1>3 DEF Written
<1>5. AsRead(ws) \in [1..Len(ws) -> Seq(Words)]
    <2>1. ASSUME NEW i \in 1..Len(ws) PROVE AsRead(ws)[i] \in Seq(Words)
        <3>1. ws[i] \in Words
            BY <1>2
        <3>2. <<>> \in Seq(Words) /\ <<ws[i]>> \in Seq(Words)
            BY <3>1
        <3> QED BY <1>1, <3>2 DEF AsRead
    <2> QED BY <1>1, <2>1 DEF AsRead
<1>6. Written(ws, styles) \in Seq(Seq(Chars)) /\ Len(Written(ws, styles)) = Len(ws)
    BY <1>1, <1>4, FunctionIsText
<1>7. AsRead(ws) \in Seq(Seq(Words)) /\ Len(AsRead(ws)) = Len(ws)
    BY <1>1, <1>5, FunctionIsText
<1> QED BY <1>1, <1>2, <1>3, <1>6, <1>7

\* The next character, p characters into the n-th word as it is written.
IsAt(ws, styles, J, n, q, p) ==
    /\ n \in 1..Len(ws) /\ q = Written(ws, styles)[n] /\ p \in 0..(Len(q) - 1)
    /\ unread = Left(ws, J, Len(J[n - 1]) + p)

LEMMA NextIs ==
    ASSUME NEW ws, NEW styles, NEW J, NEW K, IsLine(ws, styles, J, K),
           NEW n, NEW q, NEW p, IsAt(ws, styles, J, n, q, p)
    PROVE  /\ unread # <<>> /\ Head(unread) = q[p + 1]
           /\ Tail(unread) = Left(ws, J, Len(J[n - 1]) + (p + 1))
           /\ Len(J[n]) = Len(J[n - 1]) + Len(q)
           /\ Len(J[n - 1]) \in Nat
<1>0. /\ n \in 1..Len(ws) /\ q = Written(ws, styles)[n] /\ p \in 0..(Len(q) - 1)
      /\ unread = Left(ws, J, Len(J[n - 1]) + p)
    BY DEF IsAt
<1>1. HoldsAt(J, Written(ws, styles), Chars, n)
    BY <1>0, WrittenAre, JoinsHold DEF IsLine
<1>2. J[Len(ws)] \in Seq(Chars)
    <2>1. J \in [0..Len(Written(ws, styles)) -> Seq(Chars)]
        BY DEF IsLine, Joins
    <2>2. Len(Written(ws, styles)) = Len(ws) /\ Len(ws) \in 0..Len(ws)
        BY WrittenAre
    <2> QED BY ONLY <2>1, <2>2
<1>3. /\ J[n - 1] \in Seq(Chars) /\ q \in Seq(Chars)
      /\ Len(J[n]) = Len(J[n - 1]) + Len(q) /\ Len(J[n]) <= Len(J[Len(ws)])
      /\ \A r \in 1..Len(q) : J[Len(ws)][Len(J[n - 1]) + r] = q[r]
    <2>1. Len(Written(ws, styles)) = Len(ws)
        BY WrittenAre
    <2> QED BY ONLY <1>0, <1>1, <2>1 DEF HoldsAt
<1>4. PICK k \in 0..Len(J[Len(ws)]) :
          /\ k = Len(J[n - 1]) + p /\ k < Len(J[Len(ws)])
          /\ k + 1 = Len(J[n - 1]) + (p + 1)
    <2>1. Len(J[n - 1]) \in Nat /\ Len(q) \in Nat /\ Len(J[Len(ws)]) \in Nat
        BY <1>2, <1>3
    <2>2. /\ Len(J[n - 1]) + p \in 0..Len(J[Len(ws)]) /\ Len(J[n - 1]) + p < Len(J[Len(ws)])
          /\ (Len(J[n - 1]) + p) + 1 = Len(J[n - 1]) + (p + 1)
        <3>1. PICK a \in Nat, b \in Nat, c \in Nat :
                  a = Len(J[n - 1]) /\ b = Len(q) /\ c = Len(J[Len(ws)])
            BY <2>1
        <3>2. p \in 0..(b - 1) /\ a + b <= c
            BY <1>0, <1>3, <3>1
        <3>3. a + p \in 0..c /\ a + p < c /\ (a + p) + 1 = a + (p + 1)
            BY ONLY <3>2, a \in Nat, b \in Nat, c \in Nat
        <3> QED BY ONLY <3>1, <3>3
    <2> QED BY ONLY <2>2
<1>5. p + 1 \in 1..Len(q)
    BY <1>0, <1>3
<1>6. J[Len(ws)][k + 1] = q[p + 1]
    BY <1>3, <1>4, <1>5
<1>7. unread = Rest(J[Len(ws)], k)
    BY <1>0, <1>4 DEF Left
<1>8. /\ Rest(J[Len(ws)], k) # <<>>
      /\ Head(Rest(J[Len(ws)], k)) = J[Len(ws)][k + 1]
      /\ Tail(Rest(J[Len(ws)], k)) = Rest(J[Len(ws)], k + 1)
    <2>1. k # Len(J[Len(ws)])
        BY <1>4, <1>2
    <2> QED BY <1>2, <1>4, <2>1, RestIs
<1>9. Len(J[n - 1]) \in Nat
    BY <1>3
<1> QED BY <1>3, <1>4, <1>6, <1>7, <1>8, <1>9 DEF Left

\* What a branch of the loop does with the character.
StepDoes(c) ==
    /\ unread # <<>> /\ c = Head(unread) /\ unread' = Tail(unread)
    /\ argv' = argv /\ reading' = reading /\ reading = TRUE
    /\ escaping => /\ escaping' = FALSE /\ value' = Append(value, c)
                   /\ words' = words /\ quote' = quote
    /\ ~escaping /\ c = Escape /\ quote # Single =>
           escaping' = TRUE /\ value' = value /\ words' = words /\ quote' = quote
    /\ ~escaping /\ ~(c = Escape /\ quote # Single) =>
           /\ escaping' = FALSE
           /\ quote # Space /\ c = quote => quote' = Space /\ value' = value /\ words' = words
           /\ quote # Space /\ c # quote =>
                  quote' = quote /\ value' = Append(value, c) /\ words' = words
           /\ quote = Space /\ c \in {Single, Double} =>
                  quote' = c /\ value' = value /\ words' = words
           /\ quote = Space /\ c = Space => quote' = Space /\ value' = <<>> /\ words' = Finished
           /\ quote = Space /\ c = "a" =>
                  quote' = quote /\ value' = Append(value, c) /\ words' = words

LEMMA StepIs ==
    ASSUME NEW c \in Chars, WordStep(c), escaping \in BOOLEAN
    PROVE  StepDoes(c)
<1> USE DEF Escapes, Unquoted
<1>1. unread # <<>> /\ c = Head(unread) /\ unread' = Tail(unread)
      /\ argv' = argv /\ reading' = reading /\ reading = TRUE
    BY DEF WordStep, WordEscaped, WordBackslash, WordQuoted, WordQuote, WordBlank, WordOther, Takes
<1>2. ASSUME escaping
      PROVE  escaping' = FALSE /\ value' = Append(value, c) /\ words' = words /\ quote' = quote
    BY <1>2 DEF WordStep, WordEscaped, WordBackslash, WordQuoted, WordQuote, WordBlank,
                WordOther, Keeps
<1>3. ASSUME ~escaping, c = Escape, quote # Single
      PROVE  escaping' = TRUE /\ value' = value /\ words' = words /\ quote' = quote
    BY <1>3 DEF WordStep, WordEscaped, WordBackslash, WordQuoted, WordQuote, WordBlank, WordOther
<1>4. ASSUME ~escaping, ~(c = Escape /\ quote # Single), quote # Space
      PROVE  /\ escaping' = FALSE
             /\ c = quote => quote' = Space /\ value' = value /\ words' = words
             /\ c # quote => quote' = quote /\ value' = Append(value, c) /\ words' = words
    <2>1. WordQuoted(c)
        BY <1>4 DEF WordStep, WordEscaped, WordBackslash, WordQuote, WordBlank, WordOther
    <2> QED BY <1>4, <2>1 DEF WordQuoted, Keeps
<1>5. ASSUME ~escaping, ~(c = Escape /\ quote # Single), quote = Space
      PROVE  /\ escaping' = FALSE
             /\ c \in {Single, Double} => quote' = c /\ value' = value /\ words' = words
             /\ c = Space => quote' = Space /\ value' = <<>> /\ words' = Finished
             /\ c = "a" => quote' = quote /\ value' = Append(value, c) /\ words' = words
    <2>1. WordQuote(c) \/ WordBlank(c) \/ WordOther(c)
        BY <1>5 DEF WordStep, WordEscaped, WordBackslash, WordQuoted
    <2>2. /\ WordQuote(c) => c \in {Single, Double} /\ c # Space /\ c # "a"
          /\ WordBlank(c) => c = Space /\ c \notin {Single, Double} /\ c # "a"
          /\ WordOther(c) => c = "a" /\ c \notin {Single, Double} /\ c # Space
        BY MarksDiffer DEF WordQuote, WordBlank, WordOther
    <2> QED BY <1>5, <2>1, <2>2 DEF WordQuote, WordBlank, WordOther, Keeps
<1> QED BY <1>1, <1>2, <1>3, <1>4, <1>5 DEF StepDoes

\* Where a word ends, it is one of those that were read, unless it is empty.
LEMMA FinishedIs ==
    ASSUME NEW ws, NEW styles, NEW J, NEW K, IsLine(ws, styles, J, K),
           NEW n \in 1..Len(ws), words = K[n - 1], value = ws[n]
    PROVE  Finished = K[n]
<1>1. /\ K[n - 1] \in Seq(Words) /\ AsRead(ws)[n] \in Seq(Words)
      /\ K[n] = K[n - 1] \o AsRead(ws)[n]
    <2>1. HoldsAt(K, AsRead(ws), Words, n)
        BY WrittenAre, JoinsHold DEF IsLine
    <2> QED BY <2>1 DEF HoldsAt
<1>2. AsRead(ws)[n] = IF value = <<>> THEN <<>> ELSE <<value>>
    BY WrittenAre DEF AsRead
<1>3. CASE value = <<>>
    <2>1. K[n - 1] \o <<>> = K[n - 1]
        BY <1>1
    <2> QED BY <1>1, <1>2, <1>3, <2>1 DEF Finished
<1>4. CASE value # <<>>
    <2>1. value \in Words
        BY WrittenAre
    <2>2. K[n - 1] \o <<value>> = Append(K[n - 1], value)
        BY <1>1, <2>1
    <2> QED BY <1>1, <1>2, <1>4, <2>2 DEF Finished
<1> QED BY <1>3, <1>4

\* Places of a word as it is written.
LEMMA PlacesInWord ==
    ASSUME NEW q, NEW at, NEW word \in Seq(Chars), NEW style \in Styles,
           IsQuoted(q, at, word, style), NEW m \in 0..Len(word)
    PROVE  /\ at[m] \in Nat /\ at[m] <= at[Len(word)] /\ at[Len(word)] \in Nat
           /\ Len(q) = at[Len(word)] + Opening(style) + 1 /\ Opening(style) \in {0, 1}
           /\ m < Len(word) =>
                  /\ at[m + 1] \in Nat /\ at[m + 1] <= at[Len(word)] /\ q[at[m + 1]] = word[m + 1]
                  /\ at[m + 1] = at[m] + (IF word[m + 1] \in Special(style) THEN 2 ELSE 1)
                  /\ word[m + 1] \in Special(style) => q[at[m] + 1] = Escape
<1>1. at \in [0..Len(word) -> Nat] /\ Len(word) \in 0..Len(word)
    BY DEF IsQuoted
<1>2. at[m] \in Nat /\ at[Len(word)] \in Nat
    BY <1>1
<1>3. Len(q) = at[Len(word)] + Opening(style) + 1 /\ Opening(style) \in {0, 1}
    BY DEF IsQuoted, Opening
<1>4. ASSUME NEW k \in 1..Len(word)
      PROVE  /\ at[k] \in Nat /\ at[k - 1] \in Nat /\ at[k] <= at[Len(word)] /\ q[at[k]] = word[k]
             /\ at[k] = at[k - 1] + (IF word[k] \in Special(style) THEN 2 ELSE 1)
             /\ word[k] \in Special(style) => q[at[k - 1] + 1] = Escape
    <2>1. k \in 0..Len(word) /\ k - 1 \in 0..Len(word)
        OBVIOUS
    <2> QED BY <1>1, <2>1 DEF IsQuoted
<1>5. at[m] <= at[Len(word)]
    <2>1. CASE m = Len(word)
        BY <1>2, <2>1
    <2>2. CASE m # Len(word)
        <3>1. PICK k \in 1..Len(word) : k - 1 = m
            <4>1. m + 1 \in 1..Len(word) /\ (m + 1) - 1 = m
                BY <2>2
            <4> QED BY <4>1
        <3> QED BY <1>2, <1>4, <3>1
    <2> QED BY <2>1, <2>2
<1>6. ASSUME m < Len(word)
      PROVE  /\ at[m + 1] \in Nat /\ at[m + 1] <= at[Len(word)] /\ q[at[m + 1]] = word[m + 1]
             /\ at[m + 1] = at[m] + (IF word[m + 1] \in Special(style) THEN 2 ELSE 1)
             /\ word[m + 1] \in Special(style) => q[at[m] + 1] = Escape
    <2>1. m + 1 \in 1..Len(word) /\ (m + 1) - 1 = m
        BY <1>6
    <2> QED BY <1>4, <2>1
<1> QED BY <1>2, <1>3, <1>5, <1>6

\* Before the end of a word, there is a character to be read.
LEMMA BetweenIsAt ==
    ASSUME NEW ws, NEW styles, NEW J, NEW K, IsLine(ws, styles, J, K),
           NEW n \in 1..Len(ws), Between(ws, J, K, n - 1)
    PROVE  IsAt(ws, styles, J, n, Written(ws, styles)[n], 0)
<1>1. PICK q, word, style : q = Written(ws, styles)[n] /\ word = ws[n] /\ style = styles[n]
    OBVIOUS
<1>2. PICK at : IsQuoted(q, at, word, style)
    BY <1>1, WrittenAre
<1>3. word \in Seq(Chars)
    BY <1>1, WrittenAre
<1>4. 0 \in 0..(Len(q) - 1)
    <2>1. at \in [0..Len(word) -> Nat] /\ Len(word) \in 0..Len(word)
        BY <1>2, <1>3 DEF IsQuoted
    <2>2. /\ at[Len(word)] \in Nat /\ Opening(style) \in {0, 1}
          /\ Len(q) = at[Len(word)] + Opening(style) + 1
        BY <1>2, <2>1 DEF IsQuoted, Opening
    <2> QED BY ONLY <2>2
<1>5. Len(J[n - 1]) \in Nat
    <2>1. HoldsAt(J, Written(ws, styles), Chars, n)
        BY WrittenAre, JoinsHold DEF IsLine
    <2> QED BY <2>1 DEF HoldsAt
<1>6. unread = Left(ws, J, Len(J[n - 1]) + 0)
    BY <1>5 DEF Between
<1> QED BY <1>1, <1>4, <1>6 DEF IsAt

LEMMA InsideIsAt ==
    ASSUME NEW ws, NEW styles, NEW J, NEW K, IsLine(ws, styles, J, K),
           NEW n, NEW at, NEW m, Inside(ws, styles, J, K, n, at, m)
    PROVE  IsAt(ws, styles, J, n, Written(ws, styles)[n], at[m] + (IF escaping THEN 1 ELSE 0))
<1>1. PICK q : q = Written(ws, styles)[n]
    OBVIOUS
<1>2. PICK word, style : word = ws[n] /\ style = styles[n]
    OBVIOUS
<1>3. /\ n \in 1..Len(ws) /\ m \in 0..Len(word) /\ IsQuoted(q, at, word, style)
      /\ words = K[n - 1] /\ value = SubSeq(word, 1, m) /\ quote = style /\ escaping \in BOOLEAN
      /\ escaping => m < Len(word) /\ word[m + 1] \in Special(style)
    BY <1>1, <1>2 DEF Inside
<1>4. word \in Seq(Chars) /\ style \in Styles /\ CanTake(word, style) /\ Len(word) \in Nat
    BY <1>2, <1>3, WrittenAre DEF IsLine
<1>5. /\ at[m] \in Nat /\ at[m] <= at[Len(word)] /\ at[Len(word)] \in Nat
      /\ Len(q) = at[Len(word)] + Opening(style) + 1 /\ Opening(style) \in {0, 1}
      /\ m < Len(word) =>
             /\ at[m + 1] \in Nat /\ at[m + 1] <= at[Len(word)] /\ q[at[m + 1]] = word[m + 1]
             /\ at[m + 1] = at[m] + (IF word[m + 1] \in Special(style) THEN 2 ELSE 1)
             /\ word[m + 1] \in Special(style) => q[at[m] + 1] = Escape
    BY <1>3, <1>4, PlacesInWord
<1>6. PICK p : p = at[m] + (IF escaping THEN 1 ELSE 0)
    OBVIOUS
<1>7. p \in 0..(Len(q) - 1)
    <2>1. PICK a \in Nat, b \in Nat : a = at[m] /\ b = at[Len(word)]
        BY <1>5
    <2>2. a <= b /\ Len(q) = b + Opening(style) + 1
        BY <1>5, <2>1
    <2>3. CASE ~escaping
        <3>1. p = a
            BY <1>6, <2>1, <2>3
        <3> QED BY ONLY <1>5, <2>2, <3>1, a \in Nat, b \in Nat
    <2>4. CASE escaping
        <3>1. p = a + 1
            BY <1>6, <2>1, <2>4
        <3>2. a + 2 <= b
            BY <1>3, <1>5, <2>1, <2>4
        <3> QED BY ONLY <1>5, <2>2, <3>1, <3>2, a \in Nat, b \in Nat
    <2> QED BY <1>3, <2>3, <2>4
<1>8. unread = Left(ws, J, Len(J[n - 1]) + p)
    BY <1>6 DEF Inside
<1> QED BY <1>1, <1>3, <1>6, <1>7, <1>8 DEF IsAt

LEMMA PastQuoteIsAt ==
    ASSUME NEW ws, NEW styles, NEW J, NEW K, IsLine(ws, styles, J, K),
           NEW n, PastQuote(ws, styles, J, K, n)
    PROVE  IsAt(ws, styles, J, n, Written(ws, styles)[n], Len(Written(ws, styles)[n]) - 1)
<1>1. PICK q : q = Written(ws, styles)[n]
    OBVIOUS
<1>2. n \in 1..Len(ws) /\ unread = Left(ws, J, Len(J[n]) - 1)
    BY DEF PastQuote
<1>3. PICK at : IsQuoted(q, at, ws[n], styles[n])
    BY <1>1, <1>2, WrittenAre
<1>4. Len(q) \in Nat /\ Len(q) # 0
    <2>1. PICK word, style : word = ws[n] /\ style = styles[n]
        OBVIOUS
    <2>2. word \in Seq(Chars) /\ IsQuoted(q, at, word, style)
        BY <1>2, <1>3, <2>1, WrittenAre
    <2>3. at \in [0..Len(word) -> Nat] /\ Len(word) \in 0..Len(word)
        BY <2>2 DEF IsQuoted
    <2>4. at[Len(word)] \in Nat /\ Len(q) = at[Len(word)] + Opening(style) + 1
          /\ Opening(style) \in {0, 1}
        BY <2>2, <2>3 DEF IsQuoted, Opening
    <2> QED BY ONLY <2>4
<1>5. Len(J[n - 1]) \in Nat /\ Len(J[n]) = Len(J[n - 1]) + Len(q)
    <2>1. HoldsAt(J, Written(ws, styles), Chars, n)
        BY <1>2, WrittenAre, JoinsHold DEF IsLine
    <2> QED BY <1>1, <2>1 DEF HoldsAt
<1>6. Len(J[n]) - 1 = Len(J[n - 1]) + (Len(q) - 1) /\ Len(q) - 1 \in 0..(Len(q) - 1)
    BY ONLY <1>4, <1>5
<1> QED BY <1>1, <1>2, <1>6 DEF IsAt

\* Each place in the line has a next one.
LEMMA WordBegins ==
    ASSUME NEW ws, NEW styles, NEW J, NEW K, IsLine(ws, styles, J, K),
           NEW n \in 1..Len(ws), Between(ws, J, K, n - 1),
           NEW c, StepDoes(c)
    PROVE  \/ \E at : Inside(ws, styles, J, K, n, at, 0)
           \/ IsRead(ws, styles, J, K)'
<1>1. PICK q : q = Written(ws, styles)[n]
    OBVIOUS
<1>2. PICK at : IsQuoted(q, at, ws[n], styles[n])
    BY <1>1, WrittenAre
<1>3. /\ ws[n] \in Seq(Chars) /\ styles[n] \in Styles /\ 0 \in 0..Len(ws[n])
      /\ SubSeq(ws[n], 1, 0) = <<>>
    BY WrittenAre
<1>4. at[0] = Opening(styles[n])
    BY <1>2 DEF IsQuoted
<1>5. /\ words = K[n - 1] /\ value = <<>> /\ quote = Space /\ escaping = FALSE
      /\ unread = Left(ws, J, Len(J[n - 1]))
    BY DEF Between
<1>6. Len(J[n - 1]) \in Nat
    <2>1. HoldsAt(J, Written(ws, styles), Chars, n)
        BY WrittenAre, JoinsHold DEF IsLine
    <2> QED BY <2>1 DEF HoldsAt
<1>7. CASE styles[n] = Space
    <2>1. unread = Left(ws, J, Len(J[n - 1]) + (at[0] + 0))
        BY <1>4, <1>5, <1>6, <1>7 DEF Opening
    <2>2. Inside(ws, styles, J, K, n, at, 0)
        BY <1>1, <1>2, <1>3, <1>5, <1>7, <2>1 DEF Inside
    <2> QED BY <2>2
<1>8. CASE styles[n] # Space
    <2>3. Head(unread) = q[0 + 1] /\ Tail(unread) = Left(ws, J, Len(J[n - 1]) + (0 + 1))
        BY <1>1, BetweenIsAt, NextIs
    <2>4. c = styles[n] /\ unread' = Left(ws, J, Len(J[n - 1]) + 1)
        BY <1>2, <1>8, <2>3 DEF StepDoes, IsQuoted
    <2>5. c \in {Single, Double} /\ c # Escape
        BY <1>3, <1>8, <2>4, MarksDiffer DEF Styles
    <2>6. quote' = styles[n] /\ value' = <<>> /\ words' = K[n - 1] /\ escaping' = FALSE
        BY <1>5, <2>4, <2>5 DEF StepDoes
    <2>7. unread' = Left(ws, J, Len(J[n - 1]) + (at[0] + 0))
        BY <1>4, <1>8, <2>4 DEF Opening
    <2>8. Inside(ws, styles, J, K, n, at, 0)'
        BY <1>1, <1>2, <1>3, <2>6, <2>7 DEF Inside
    <2> QED BY <2>8 DEF IsRead
<1> QED BY <1>7, <1>8

LEMMA InsideGoesOn ==
    ASSUME NEW ws, NEW styles, NEW J, NEW K, IsLine(ws, styles, J, K),
           NEW n, NEW at, NEW m, Inside(ws, styles, J, K, n, at, m),
           NEW c \in Chars, StepDoes(c)
    PROVE  IsRead(ws, styles, J, K)'
<1>1. PICK q : q = Written(ws, styles)[n]
    OBVIOUS
<1>2. PICK word, style : word = ws[n] /\ style = styles[n]
    OBVIOUS
<1>3. /\ n \in 1..Len(ws) /\ m \in 0..Len(word) /\ IsQuoted(q, at, word, style)
      /\ words = K[n - 1] /\ value = SubSeq(word, 1, m) /\ quote = style /\ escaping \in BOOLEAN
      /\ escaping => m < Len(word) /\ word[m + 1] \in Special(style)
    BY <1>1, <1>2 DEF Inside
<1>4. word \in Seq(Chars) /\ style \in Styles /\ CanTake(word, style) /\ Len(word) \in Nat
    BY <1>2, <1>3, WrittenAre DEF IsLine
<1>5. /\ at[m] \in Nat /\ at[m] <= at[Len(word)] /\ at[Len(word)] \in Nat
      /\ Len(q) = at[Len(word)] + Opening(style) + 1 /\ Opening(style) \in {0, 1}
      /\ m < Len(word) =>
             /\ at[m + 1] \in Nat /\ at[m + 1] <= at[Len(word)] /\ q[at[m + 1]] = word[m + 1]
             /\ at[m + 1] = at[m] + (IF word[m + 1] \in Special(style) THEN 2 ELSE 1)
             /\ word[m + 1] \in Special(style) => q[at[m] + 1] = Escape
    BY <1>3, <1>4, PlacesInWord
<1>6. PICK p : p = at[m] + (IF escaping THEN 1 ELSE 0)
    OBVIOUS
<1>7. IsAt(ws, styles, J, n, q, p)
    BY <1>1, <1>6, InsideIsAt
<1>8. p \in 0..(Len(q) - 1)
    BY <1>7 DEF IsAt
<1>9. /\ c = q[p + 1] /\ unread' = Left(ws, J, Len(J[n - 1]) + (p + 1))
      /\ Len(J[n]) = Len(J[n - 1]) + Len(q) /\ Len(J[n - 1]) \in Nat
    BY <1>7, NextIs DEF StepDoes
<1>10. ASSUME m < Len(word)
       PROVE  Append(SubSeq(word, 1, m), word[m + 1]) = SubSeq(word, 1, m + 1)
    BY <1>3, <1>4, <1>10
<1>11. ASSUME m < Len(word), c = word[m + 1], p + 1 = at[m + 1],
              escaping' = FALSE, value' = Append(value, c), words' = words, quote' = quote
       PROVE  IsRead(ws, styles, J, K)'
    <2>1. PICK k \in 0..Len(word) : k = m + 1
        BY <1>3, <1>4, <1>11
    <2>2. value' = SubSeq(word, 1, k)
        BY <1>3, <1>10, <1>11, <2>1
    <2>3. unread' = Left(ws, J, Len(J[n - 1]) + (at[k] + 0))
        BY <1>5, <1>9, <1>11, <2>1
    <2>4. Inside(ws, styles, J, K, n, at, k)'
        BY <1>1, <1>2, <1>3, <1>11, <2>1, <2>2, <2>3 DEF Inside
    <2> QED BY <2>4 DEF IsRead
<1>12. CASE escaping
    <2>1. p + 1 = at[m + 1] /\ c = word[m + 1] /\ m < Len(word)
        <3>1. /\ m < Len(word) /\ p = at[m] + 1 /\ at[m + 1] = at[m] + 2
              /\ q[at[m + 1]] = word[m + 1]
            BY <1>3, <1>5, <1>6, <1>12
        <3>2. p + 1 = at[m + 1]
            BY <1>5, <3>1
        <3> QED BY <1>9, <3>1, <3>2
    <2>2. escaping' = FALSE /\ value' = Append(value, c) /\ words' = words /\ quote' = quote
        BY <1>12 DEF StepDoes
    <2> QED BY <1>11, <2>1, <2>2
<1>13. CASE ~escaping /\ m < Len(word) /\ word[m + 1] \in Special(style)
    <2>1. p = at[m] /\ c = Escape
        BY <1>5, <1>6, <1>9, <1>13
    <2>2. style # Single
        BY <1>13, MarksDiffer DEF Special
    <2>3. escaping' = TRUE /\ value' = value /\ words' = words /\ quote' = quote
        BY <1>3, <1>13, <2>1, <2>2 DEF StepDoes
    <2>4. unread' = Left(ws, J, Len(J[n - 1]) + (at[m] + 1))
        BY <1>9, <2>1
    <2>5. Inside(ws, styles, J, K, n, at, m)'
        BY <1>1, <1>2, <1>3, <1>13, <2>3, <2>4 DEF Inside
    <2> QED BY <2>5 DEF IsRead
<1>14. CASE ~escaping /\ m < Len(word) /\ word[m + 1] \notin Special(style)
    <2>1. p + 1 = at[m + 1] /\ c = word[m + 1]
        BY <1>5, <1>6, <1>9, <1>14
    <2>2. escaping' = FALSE /\ value' = Append(value, c) /\ words' = words /\ quote' = quote
        <3>1. CASE style = Space
            <4>1. c = "a"
                BY <1>14, <2>1, <3>1 DEF Special
            <4>2. c # Escape
                BY <4>1, MarksDiffer
            <4> QED BY <1>3, <1>14, <3>1, <4>1, <4>2 DEF StepDoes
        <3>2. CASE style = Double
            <4>1. c # Double /\ c # Escape /\ style # Space
                BY <1>14, <2>1, <3>2, MarksDiffer DEF Special
            <4> QED BY <1>3, <1>14, <3>2, <4>1 DEF StepDoes
        <3>3. CASE style = Single
            <4>1. c # Single /\ style # Space
                <5>1. m + 1 \in DOMAIN word
                    BY <1>3, <1>4, <1>14
                <5> QED BY <1>4, <2>1, <3>3, <5>1, MarksDiffer DEF CanTake, Range
            <4> QED BY <1>3, <1>14, <3>3, <4>1 DEF StepDoes
        <3> QED BY <1>4, <3>1, <3>2, <3>3 DEF Styles
    <2> QED BY <1>11, <1>14, <2>1, <2>2
<1>15. CASE ~escaping /\ m = Len(word)
    <2>1. value = word /\ p = at[Len(word)]
        <3>1. SubSeq(word, 1, Len(word)) = word
            BY <1>4
        <3> QED BY <1>3, <1>5, <1>6, <1>15, <3>1
    <2>2. CASE style = Space
        <3>1. Len(q) = p + 1
            BY <1>5, <2>1, <2>2 DEF Opening
        <3>2. c = Space
            BY <1>3, <1>9, <3>1 DEF IsQuoted
        <3>3. words' = Finished /\ value' = <<>> /\ quote' = Space /\ escaping' = FALSE
            BY <1>3, <1>15, <2>2, <3>2, MarksDiffer DEF StepDoes
        <3>4. Finished = K[n]
            BY <1>2, <1>3, <2>1, FinishedIs
        <3>5. unread' = Left(ws, J, Len(J[n]))
            BY <1>9, <3>1
        <3>6. Between(ws, J, K, n)'
            <4>1. n \in 0..Len(ws)
                BY <1>3
            <4> QED BY <3>3, <3>4, <3>5, <4>1 DEF Between
        <3> QED BY <3>6 DEF IsRead
    <2>3. CASE style # Space
        <3>1. Len(q) - 1 = p + 1
            BY <1>5, <2>1, <2>3 DEF Opening
        <3>2. c = style
            BY <1>3, <1>9, <2>1, <2>3 DEF IsQuoted
        <3>3. c # Escape
            BY <1>4, <3>2, MarksDiffer DEF Styles
        <3>4. quote' = Space /\ value' = value /\ words' = words /\ escaping' = FALSE
            BY <1>3, <1>15, <2>3, <3>2, <3>3 DEF StepDoes
        <3>5. unread' = Left(ws, J, Len(J[n]) - 1)
            <4>1. Len(J[n]) - 1 = Len(J[n - 1]) + (p + 1)
                <5>1. PICK a \in Nat, b \in Nat, k \in Int :
                          a = Len(J[n - 1]) /\ b = Len(q) /\ k = p
                    BY <1>5, <1>8, <1>9
                <5>2. b - 1 = k + 1 /\ Len(J[n]) = a + b
                    BY <1>9, <3>1, <5>1
                <5>3. (a + b) - 1 = a + (k + 1)
                    BY ONLY <5>2, a \in Nat, b \in Nat, k \in Int
                <5> QED BY ONLY <5>1, <5>2, <5>3
            <4> QED BY <1>9, <4>1
        <3>6. PastQuote(ws, styles, J, K, n)'
            BY <1>2, <1>3, <2>1, <2>3, <3>4, <3>5 DEF PastQuote
        <3> QED BY <3>6 DEF IsRead
    <2> QED BY <2>2, <2>3
<1> QED BY <1>3, <1>4, <1>12, <1>13, <1>14, <1>15
LEMMA PastQuoteGoesOn ==
    ASSUME NEW ws, NEW styles, NEW J, NEW K, IsLine(ws, styles, J, K),
           NEW n, PastQuote(ws, styles, J, K, n),
           NEW c, StepDoes(c)
    PROVE  IsRead(ws, styles, J, K)'
<1>1. PICK q : q = Written(ws, styles)[n]
    OBVIOUS
<1>2. /\ n \in 1..Len(ws) /\ words = K[n - 1] /\ value = ws[n]
      /\ quote = Space /\ escaping = FALSE
    BY DEF PastQuote
<1>3. PICK p : p = Len(q) - 1 /\ IsAt(ws, styles, J, n, q, p)
    BY <1>1, PastQuoteIsAt
<1>4. /\ c = q[p + 1] /\ unread' = Left(ws, J, Len(J[n - 1]) + (p + 1))
      /\ Len(J[n]) = Len(J[n - 1]) + Len(q)
    BY <1>3, NextIs DEF StepDoes
<1>5. PICK at : IsQuoted(q, at, ws[n], styles[n])
    BY <1>1, <1>2, WrittenAre
<1>6. q \in Seq(Chars) /\ q[Len(q)] = Space
    BY <1>5 DEF IsQuoted
<1>7. p + 1 = Len(q)
    <2>1. Len(q) \in Nat
        BY <1>6
    <2> QED BY ONLY <1>3, <2>1
<1>8. c = Space
    BY <1>4, <1>6, <1>7
<1>9. words' = Finished /\ value' = <<>> /\ quote' = Space /\ escaping' = FALSE
    BY <1>2, <1>8, MarksDiffer DEF StepDoes
<1>10. Finished = K[n]
    BY <1>2, FinishedIs
<1>11. unread' = Left(ws, J, Len(J[n]))
    BY <1>4, <1>7
<1>12. n \in 0..Len(ws)
    BY <1>2
<1>13. Between(ws, J, K, n)'
    BY <1>9, <1>10, <1>11, <1>12 DEF Between
<1> QED BY <1>13 DEF IsRead

\* So one character after the other is read.
LEMMA ReadingGoesOn ==
    ASSUME NEW ws, NEW styles, NEW J, NEW K, IsLine(ws, styles, J, K),
           IsRead(ws, styles, J, K), NEW c \in Chars, StepDoes(c)
    PROVE  IsRead(ws, styles, J, K)'
<1>1. CASE \E n, at, m : Inside(ws, styles, J, K, n, at, m)
    BY <1>1, InsideGoesOn
<1>2. CASE \E n : PastQuote(ws, styles, J, K, n)
    BY <1>2, PastQuoteGoesOn
<1>3. ASSUME NEW n, Between(ws, J, K, n)
      PROVE  IsRead(ws, styles, J, K)'
    <2>1. n \in 0..Len(ws) /\ unread = Left(ws, J, Len(J[n]))
        BY <1>3 DEF Between
    <2>2. n # Len(ws)
        <3>1. J[Len(ws)] \in Seq(Chars)
            <4>1. J \in [0..Len(Written(ws, styles)) -> Seq(Chars)]
                BY DEF IsLine, Joins
            <4>2. Len(Written(ws, styles)) = Len(ws) /\ Len(ws) \in 0..Len(ws)
                BY WrittenAre
            <4> QED BY ONLY <4>1, <4>2
        <3>2. Len(J[Len(ws)]) \in 0..Len(J[Len(ws)])
            BY <3>1
        <3>3. Rest(J[Len(ws)], Len(J[Len(ws)])) = <<>>
            BY <3>1, <3>2, RestIs
        <3>4. unread # <<>>
            BY DEF StepDoes
        <3> QED BY <2>1, <3>3, <3>4 DEF Left
    <2>3. PICK k \in 1..Len(ws) : k - 1 = n
        <3>1. n + 1 \in 1..Len(ws) /\ (n + 1) - 1 = n
            BY <2>1, <2>2, WrittenAre
        <3> QED BY <3>1
    <2>4. \/ \E at : Inside(ws, styles, J, K, k, at, 0)
          \/ IsRead(ws, styles, J, K)'
        BY <1>3, <2>3, WordBegins
    <2> QED BY <2>4, InsideGoesOn
<1> QED BY <1>1, <1>2, <1>3 DEF IsRead

\* Nothing is left to be read only behind the last word.
LEMMA ReadingEnds ==
    ASSUME NEW ws, NEW styles, NEW J, NEW K, IsLine(ws, styles, J, K),
           IsRead(ws, styles, J, K), unread = <<>>
    PROVE  words = NotEmpty(ws) /\ value = <<>>
<1>1. ~\E n, at, m : Inside(ws, styles, J, K, n, at, m)
    BY InsideIsAt, NextIs
<1>2. ~\E n : PastQuote(ws, styles, J, K, n)
    BY PastQuoteIsAt, NextIs
<1>3. PICK n : Between(ws, J, K, n)
    BY <1>1, <1>2 DEF IsRead
<1>4. n = Len(ws)
    <2>1. SUFFICES ASSUME n # Len(ws) PROVE FALSE
        OBVIOUS
    <2>2. PICK k \in 1..Len(ws) : k - 1 = n
        <3>1. n + 1 \in 1..Len(ws) /\ (n + 1) - 1 = n
            BY <1>3, <2>1, WrittenAre DEF Between
        <3> QED BY <3>1
    <2> QED BY <1>3, <2>2, BetweenIsAt, NextIs
<1>5. FlattenSeq(AsRead(ws)) = K[Len(ws)]
    <2>1. Joins(K, AsRead(ws), Words) /\ AsRead(ws) \in Seq(Seq(Words)) /\ Len(AsRead(ws)) = Len(ws)
        BY WrittenAre DEF IsLine
    <2> QED BY <2>1, FlattenIs
<1>6. NotEmpty(ws) = FlattenSeq(AsRead(ws))
    BY DEF NotEmpty, AsRead
<1> QED BY <1>3, <1>4, <1>5, <1>6 DEF Between

LEMMA WordsStart == WordInit => WordInv
<1> SUFFICES ASSUME WordInit PROVE WordInv
    OBVIOUS
<1>1. /\ <<>> \in Seq(Words) /\ <<>> \in Seq(Chars) /\ <<>> \in Seq(Seq(Chars) \ {<<>>})
      /\ Len(<<>>) = 0
    OBVIOUS
<1>2. MaxWords \in Nat
    BY WordConstants DEF WordConstants
<1>3. Len(argv) <= MaxWords /\ argv = <<>>
    BY <1>1, <1>2 DEF WordInit
<1>4. argv \in Seq(Words) /\ unread \in Seq(Chars) /\ value \in Seq(Chars)
      /\ words \in Seq(Seq(Chars) \ {<<>>})
    BY <1>1 DEF WordInit
<1>5. words = <<>> /\ value = <<>> /\ quote = Space /\ escaping = FALSE /\ reading = FALSE
    BY DEF WordInit
<1> QED BY <1>3, <1>4, <1>5 DEF WordInv, Styles, QuotedWordsAreRead

LEMMA LineIsGiven ==
    ASSUME WordInv, argv = <<>>, NEW n \in 1..MaxWords,
           NEW ws \in [1..n -> Words], NEW styles \in [1..n -> Styles], ParseWords(ws, styles)
    PROVE  WordInv'
<1>1. /\ argv' = ws /\ unread' = FlattenSeq(Written(ws, styles)) /\ reading' = TRUE
      /\ words' = <<>> /\ value' = <<>> /\ quote' = Space /\ escaping' = FALSE
      /\ \A i \in DOMAIN ws : CanTake(ws[i], styles[i])
    BY DEF WordInv, ParseWords, Written
<1>2. n \in Nat /\ n <= MaxWords /\ n # 0
    OBVIOUS
<1>3. ws \in Seq(Words) /\ Len(ws) = n
    BY <1>2, FunctionIsText
<1>4. Written(ws, styles) \in Seq(Seq(Chars)) /\ Len(Written(ws, styles)) = n
    <2>1. ASSUME NEW i \in 1..n PROVE Written(ws, styles)[i] \in Seq(Chars)
        <3>1. ws[i] \in Seq(Chars) /\ styles[i] \in Styles
            BY WordsAre
        <3>2. PICK at : IsQuoted(QuotedAs(ws[i], styles[i]) \o <<Space>>, at, ws[i], styles[i])
            BY <3>1, QuotedIs
        <3>3. Written(ws, styles)[i] = QuotedAs(ws[i], styles[i]) \o <<Space>>
            BY DEF Written
        <3> QED BY <3>2, <3>3 DEF IsQuoted
    <2>2. Written(ws, styles) \in [1..n -> Seq(Chars)]
        BY <2>1 DEF Written
    <2> QED BY <1>2, <2>2, FunctionIsText
<1>5. AsRead(ws) \in Seq(Seq(Words)) /\ Len(AsRead(ws)) = n
    <2>1. ASSUME NEW i \in 1..n PROVE AsRead(ws)[i] \in Seq(Words)
        <3>1. <<>> \in Seq(Words) /\ <<ws[i]>> \in Seq(Words)
            OBVIOUS
        <3> QED BY <3>1 DEF AsRead
    <2>2. AsRead(ws) \in [1..n -> Seq(Words)]
        BY <2>1 DEF AsRead
    <2> QED BY <1>2, <2>2, FunctionIsText
<1>6. PICK J : Joins(J, Written(ws, styles), Chars)
    BY <1>4, JoinsExist
<1>7. PICK K : Joins(K, AsRead(ws), Words)
    BY <1>5, JoinsExist
<1>8. IsLine(ws, styles, J, K)
    BY <1>1, <1>3, <1>6, <1>7 DEF IsLine
<1>9. J[0] = <<>> /\ K[0] = <<>> /\ J[n] \in Seq(Chars) /\ unread' = J[n]
    <2>1. n \in 0..n
        BY <1>2
    <2>2. J[n] \in Seq(Chars)
        BY <1>4, <1>6, <2>1 DEF Joins
    <2>3. unread' = J[n]
        BY <1>1, <1>4, <1>6, FlattenIs
    <2> QED BY <1>6, <1>7, <2>2, <2>3 DEF Joins
<1>10. J[n] = Left(ws, J, Len(J[0]))
    <2>1. PICK t \in Seq(Chars) : t = J[n]
        BY <1>9
    <2>2. SubSeq(t, 0 + 1, Len(t)) = t
        OBVIOUS
    <2>3. Len(J[0]) = 0
        BY <1>9
    <2> QED BY <1>3, <2>1, <2>2, <2>3 DEF Left, Rest
<1>11. Between(ws, J, K, 0)'
    <2>1. 0 \in 0..Len(ws)
        BY <1>2, <1>3
    <2> QED BY <1>1, <1>9, <1>10, <2>1 DEF Between
<1>12. ws # <<>>
    BY <1>2, <1>3
<1>13. \E x, y, z : IsLine(argv', x, y, z) /\ IsRead(argv, x, y, z)'
    BY <1>1, <1>8, <1>11 DEF IsRead
<1>14. <<>> \in Seq(Chars) /\ <<>> \in Seq(Seq(Chars) \ {<<>>})
    OBVIOUS
<1> QED BY <1>1, <1>2, <1>3, <1>9, <1>12, <1>13, <1>14
       DEF WordInv, QuotedWordsAreRead, Styles

LEMMA FinishedType ==
    ASSUME value \in Seq(Chars), words \in Seq(Seq(Chars) \ {<<>>})
    PROVE  Finished \in Seq(Seq(Chars) \ {<<>>})
BY DEF Finished

LEMMA CharacterIsRead ==
    ASSUME WordInv, NEW c \in Chars, WordStep(c)
    PROVE  WordInv'
<1>1. /\ argv \in Seq(Words) /\ Len(argv) <= MaxWords
      /\ unread \in Seq(Chars) /\ value \in Seq(Chars) /\ words \in Seq(Seq(Chars) \ {<<>>})
      /\ quote \in Styles /\ escaping \in BOOLEAN
    BY DEF WordInv
<1>2. StepDoes(c)
    BY <1>1, StepIs
<1>3. /\ unread # <<>> /\ unread' = Tail(unread) /\ argv' = argv
      /\ reading' = TRUE /\ reading = TRUE
    BY <1>2 DEF StepDoes
<1>4. unread' \in Seq(Chars)
    BY <1>1, <1>3
<1>5. /\ value' \in {value, Append(value, c), <<>>} /\ words' \in {words, Finished}
      /\ quote' \in {quote, Single, Double, Space} /\ escaping' \in BOOLEAN
    <2>1. CASE escaping \/ (c = Escape /\ quote # Single) \/ quote # Space
        BY <1>1, <1>2, <2>1 DEF StepDoes
    <2>2. CASE ~escaping /\ ~(c = Escape /\ quote # Single) /\ quote = Space
        <3>1. c \in {"a", Space, Single, Double}
            BY <2>2, MarksDiffer DEF Chars
        <3> QED BY <1>2, <2>2, <3>1 DEF StepDoes
    <2> QED BY <2>1, <2>2
<1>6. value' \in Seq(Chars) /\ words' \in Seq(Seq(Chars) \ {<<>>}) /\ quote' \in Styles
    <2>1. Append(value, c) \in Seq(Chars) /\ <<>> \in Seq(Chars)
        BY <1>1
    <2>2. Finished \in Seq(Seq(Chars) \ {<<>>})
        BY <1>1, FinishedType
    <2>3. {quote, Single, Double, Space} \subseteq Styles
        BY <1>1 DEF Styles
    <2> QED BY <1>1, <1>5, <2>1, <2>2, <2>3
<1>7. PICK styles, J, K : IsLine(argv, styles, J, K) /\ IsRead(argv, styles, J, K)
    BY <1>3 DEF WordInv
<1>8. PICK ws : ws = argv
    OBVIOUS
<1>9. IsRead(ws, styles, J, K)'
    BY <1>2, <1>7, <1>8, ReadingGoesOn
<1>10. argv # <<>>
    BY <1>3 DEF WordInv
<1>11. \E x, y, z : IsLine(argv', x, y, z) /\ IsRead(argv, x, y, z)'
    BY <1>3, <1>7, <1>8, <1>9
<1> QED BY <1>1, <1>3, <1>4, <1>5, <1>6, <1>10, <1>11 DEF WordInv, QuotedWordsAreRead

LEMMA LineEnds ==
    ASSUME WordInv, WordsEnd
    PROVE  WordInv'
<1>1. /\ reading = TRUE /\ unread = <<>> /\ words' = Finished /\ value' = <<>> /\ reading' = FALSE
      /\ argv' = argv /\ unread' = unread /\ quote' = quote /\ escaping' = escaping
    BY DEF WordsEnd, WordInv
<1>2. PICK styles, J, K : IsLine(argv, styles, J, K) /\ IsRead(argv, styles, J, K)
    BY <1>1 DEF WordInv
<1>3. PICK ws : ws = argv
    OBVIOUS
<1>4. words = NotEmpty(ws) /\ value = <<>>
    BY <1>1, <1>2, <1>3, ReadingEnds
<1>5. words' = words
    BY <1>1, <1>4 DEF Finished
<1>6. QuotedWordsAreRead'
    BY <1>1, <1>3, <1>4, <1>5 DEF QuotedWordsAreRead
<1>7. argv # <<>> /\ value' = value
    BY <1>1, <1>4 DEF WordInv
<1> QED BY <1>1, <1>5, <1>6, <1>7 DEF WordInv

LEMMA WordsKeep == WordInv /\ (WordNext \/ UNCHANGED wordVars) => WordInv'
<1>1. ASSUME WordInv, UNCHANGED wordVars PROVE WordInv'
    <2>1. /\ argv' = argv /\ unread' = unread /\ value' = value /\ quote' = quote
          /\ escaping' = escaping /\ words' = words /\ reading' = reading
        BY <1>1 DEF wordVars
    <2>2. ASSUME NEW styles, NEW J, NEW K, IsRead(argv, styles, J, K)
          PROVE  IsRead(argv, styles, J, K)'
        <3>1. PICK ws : ws = argv
            OBVIOUS
        <3>2. CASE \E n : Between(ws, J, K, n)
            BY <2>1, <3>1, <3>2 DEF IsRead, Between
        <3>3. CASE \E n, at, m : Inside(ws, styles, J, K, n, at, m)
            BY <2>1, <3>1, <3>3, ZenonT(60) DEF IsRead, Inside
        <3>4. CASE \E n : PastQuote(ws, styles, J, K, n)
            BY <2>1, <3>1, <3>4 DEF IsRead, PastQuote
        <3> QED BY <2>2, <3>1, <3>2, <3>3, <3>4 DEF IsRead
    <2> QED BY <1>1, <2>1, <2>2 DEF WordInv, QuotedWordsAreRead
<1>2. ASSUME WordInv, WordNext PROVE WordInv'
    <2>1. ASSUME argv = <<>>, NEW n \in 1..MaxWords, NEW ws \in [1..n -> Words],
                 NEW styles \in [1..n -> Styles], ParseWords(ws, styles)
          PROVE  WordInv'
        BY <1>2, <2>1, LineIsGiven
    <2>2. ASSUME NEW c \in Chars, WordStep(c) PROVE WordInv'
        BY <1>2, <2>2, CharacterIsRead
    <2>3. CASE WordsEnd
        BY <1>2, <2>3, LineEnds
    <2> QED BY <1>2, <2>1, <2>2, <2>3 DEF WordNext, WordStep
<1> QED BY <1>1, <1>2
=============================================================================
