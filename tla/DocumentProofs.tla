---------------------------- MODULE DocumentProofs ----------------------------
(***************************************************************************)
(* What MCDocuments checks of Plan, Halve, Select, FormatPages and the     *)
(* member order of a merge, for inputs of any length; and where a merge    *)
(* puts the pages, items and pointers of its parts, for any parts.         *)
(***************************************************************************)
EXTENDS MCDocuments, PdfSplitProofs, SequenceTheorems, FiniteSetTheorems, WellFoundedInduction

\* Lists of some of the names, each once.
Listings(names) == {s \in Seq(names) : IsInjective(s)}

\* An order has each name once.
LEMMA OrderLists ==
    ASSUME NEW order \in Orders
    PROVE  order \in Listings(Names)
  <1>1. PICK s \in SUBSET Names : order \in [1 .. Cardinality(s) -> s] /\ IsInjective(order)
    BY DEF Orders
  <1>2. Cardinality(s) \in Nat
    BY NamesAssumption, FS_Subset, FS_CardinalityType
  <1>3. order \in [1 .. Cardinality(s) -> Names]
    BY <1>1
  <1>4. order \in Seq(Names)
    BY <1>2, <1>3, SeqDef
  <1> QED BY <1>1, <1>4 DEF Listings

\* The inputs are of their types.
InputOk ==
    /\ n \in Nat \ {0} /\ max \in Nat \ {0}
    /\ ranges \in Seq([First : Nat, Last : Nat])
    /\ lists \in Seq(Seq(Names))

\* Every input reached is of its type.
LEMMA InputInv == Spec => []InputOk
  <1>1. Init => InputOk
    BY DEF Init, InputOk
  <1>2. InputOk /\ [Next]_<<n, max, ranges, items, unit, lists>> => InputOk'
    <2> SUFFICES ASSUME InputOk, [Next]_<<n, max, ranges, items, unit, lists>> PROVE InputOk'
      OBVIOUS
    <2>1. CASE AddTerm
      <3>1. PICK t \in Terms : ranges' = Append(ranges, t)
        BY <2>1 DEF AddTerm
      <3>2. t \in [First : Nat, Last : Nat]
        BY DEF Terms
      <3> QED BY <2>1, <3>1, <3>2 DEF AddTerm, InputOk
    <2>2. CASE AddItem
      BY <2>2 DEF AddItem, InputOk
    <2>4. CASE AddPart
      <3>1. PICK order \in Orders : lists' = Append(lists, order)
        BY <2>4 DEF AddPart
      <3>2. order \in Seq(Names)
        BY OrderLists DEF Listings
      <3> QED BY <2>4, <3>1, <3>2 DEF AddPart, InputOk
    <2>3. CASE UNCHANGED <<n, max, ranges, items, unit, lists>>
      BY <2>3 DEF InputOk
    <2> QED BY <2>1, <2>2, <2>3, <2>4 DEF Next
  <1> QED BY <1>1, <1>2, PTL DEF Spec

\* "Balancing, rather than filling parts to max and leaving a remainder": the parts
\* of a plan hold each page once and differ by a page at most, and none is a sliver,
\* for any number of pages and any SPLIT_PAGES (Plan, plan.go).
THEOREM AllPlansBalanced == Spec => []PlanBalanced
  <1>1. InputOk => PlanBalanced
    BY PlanSound DEF InputOk, PlanBalanced
  <1> QED BY <1>1, InputInv, PTL

\* Halve gives a part's pages to two halves that both have one, for parts of any
\* size: a part that keeps failing ends in single pages (Part.Halve, plan.go).
THEOREM AllHalvesToPages == Spec => []HalvesToPages
  <1>1. InputOk => HalvesToPages
    <2> SUFFICES ASSUME InputOk, NEW a \in 1 .. n, NEW b \in a + 1 .. n PROVE Halved(a, b)
      BY DEF HalvesToPages
    <2>1. a \in Nat /\ b \in Nat /\ a < b
      BY DEF InputOk
    <2> QED BY <2>1, HalvesSound
  <1> QED BY <1>1, InputInv, PTL

-----------------------------------------------------------------------------
\* Induction over the natural numbers, for a set instead of a predicate.
LEMMA Induct ==
    ASSUME NEW S \in SUBSET Nat, 0 \in S, \A m \in S : m + 1 \in S
    PROVE  S = Nat
  <1> SUFFICES ASSUME Nat \ S # {} PROVE FALSE
    OBVIOUS
  <1>1. PICK m \in Nat \ S : \A k \in Nat \ S : ~(<<k, m>> \in OpToRel(<, Nat))
    BY NatLessThanWellFounded, WFMin
  <1>2. \A k \in Nat \ S : ~(k < m)
    BY <1>1 DEF OpToRel
  <1>3. m # 0 /\ m - 1 \in Nat
    OBVIOUS
  <1>4. m - 1 \in S
    BY <1>2, <1>3
  <1>5. (m - 1) + 1 \in S
    BY <1>4
  <1> QED BY <1>3, <1>5

\* A set of naturals that has a member has a least one.
LEMMA Least ==
    ASSUME NEW S \in SUBSET Nat, S # {}
    PROVE  \E m \in S : \A k \in S : m <= k
  <1>1. PICK m \in S : \A k \in S : ~(<<k, m>> \in OpToRel(<, Nat))
    BY NatLessThanWellFounded, WFMin
  <1>2. \A k \in S : ~(k < m)
    BY <1>1 DEF OpToRel
  <1> QED BY <1>2

\* The last of some positions is one of them.
LEMMA MaxIn ==
    ASSUME NEW N \in Nat, NEW s \in SUBSET (1 .. N), s # {}
    PROVE  Max(s) \in s /\ \A y \in s : y <= Max(s)
  <1> DEFINE rest == {k \in Nat : N - k \in s}
  <1>1. \A y \in s : y \in Int /\ N - y \in rest
    <2> SUFFICES ASSUME NEW y \in s PROVE y \in Int /\ N - y \in rest
      OBVIOUS
    <2>1. y \in 1 .. N
      OBVIOUS
    <2>2. N - y \in Nat /\ N - (N - y) = y
      BY <2>1
    <2> QED BY <2>1, <2>2
  <1>2. PICK k \in rest : \A j \in rest : k <= j
    <2>1. rest \in SUBSET Nat /\ rest # {}
      BY <1>1
    <2> HIDE DEF rest
    <2> QED BY <2>1, Least
  <1>3. k \in Nat /\ N - k \in s
    BY <1>2
  <1> HIDE DEF rest
  <1>4. \A y \in s : N - k >= y
    BY <1>1, <1>2, <1>3
  <1>5. Max(s) \in s /\ \A y \in s : Max(s) >= y
    BY <1>3, <1>4 DEF Max
  <1> QED BY <1>1, <1>5

\* Of the first positions, the last is i and the rest are the first i - 1.
LEMMA Initial ==
    ASSUME NEW N \in Nat, NEW i \in 1 .. N
    PROVE  /\ 1 .. i \in SUBSET (1 .. N) /\ 1 .. i # {} /\ Max(1 .. i) = i
           /\ (1 .. i) \ {i} = 1 .. i - 1 /\ i - 1 \in 0 .. N
  <1>1. i \in Nat /\ i \in 1 .. i /\ 1 .. i \in SUBSET (1 .. i)
    OBVIOUS
  <1>2. Max(1 .. i) \in 1 .. i /\ \A y \in 1 .. i : y <= Max(1 .. i)
    BY <1>1, MaxIn
  <1>3. Max(1 .. i) = i
    BY <1>1, <1>2
  <1>4. (1 .. i) \ {i} = 1 .. i - 1 /\ 1 .. i \in SUBSET (1 .. N)
    BY <1>1
  <1>5. 1 .. i # {} /\ i - 1 \in 0 .. N
    BY <1>1
  <1> QED BY <1>3, <1>4, <1>5

\* g has the value of a fold for each subset of 1..n: step for its last, from base.
IsTable(g, N, base, step) ==
    \A s \in SUBSET (1 .. N) : g[s] = IF s = {} THEN base ELSE step[Max(s)][g[s \ {Max(s)}]]

\* There is a table of what each set of positions folds to.
LEMMA TableExists ==
    ASSUME NEW A, NEW base \in A, NEW N \in Nat, NEW step \in [1 .. N -> [A -> A]]
    PROVE  \E g \in [SUBSET (1 .. N) -> A] : IsTable(g, N, base, step)
  <1> DEFINE Table(m, g) == \A s \in SUBSET (1 .. m) :
                                g[s] = IF s = {} THEN base ELSE step[Max(s)][g[s \ {Max(s)}]]
             Has(m) == \E g \in [SUBSET (1 .. m) -> A] : Table(m, g)
             S == {m \in Nat : m <= N => Has(m)}
  <1>1. Has(0)
    <2> DEFINE g == [s \in SUBSET (1 .. 0) |-> base]
    <2>1. g \in [SUBSET (1 .. 0) -> A]
      OBVIOUS
    <2>2. Table(0, g)
      OBVIOUS
    <2> QED BY <2>1, <2>2
  <1>2. ASSUME NEW m \in Nat, m + 1 <= N, Has(m) PROVE Has(m + 1)
    <2>1. PICK g \in [SUBSET (1 .. m) -> A] : Table(m, g)
      BY <1>2
    <2> DEFINE h == [s \in SUBSET (1 .. m + 1) |->
                        IF m + 1 \in s THEN step[m + 1][g[s \ {m + 1}]] ELSE g[s]]
    <2>2. \A s \in SUBSET (1 .. m + 1) : /\ s \ {m + 1} \in SUBSET (1 .. m)
                                         /\ m + 1 \notin s => s \in SUBSET (1 .. m)
      OBVIOUS
    <2>3. h \in [SUBSET (1 .. m + 1) -> A]
      <3>1. m + 1 \in 1 .. N
        BY <1>2
      <3> QED BY <2>1, <2>2, <3>1
    <2>4. ASSUME NEW s \in SUBSET (1 .. m + 1), s # {} PROVE h[s] = step[Max(s)][h[s \ {Max(s)}]]
      <3>1. Max(s) \in s /\ \A y \in s : y <= Max(s)
        <4>1. m + 1 \in Nat
          OBVIOUS
        <4> HIDE DEF h, Table
        <4> QED BY <2>4, <4>1, MaxIn
      <3>2. CASE m + 1 \in s
        <4>1. Max(s) = m + 1
          <5>1. Max(s) \in 1 .. m + 1 /\ m + 1 <= Max(s)
            BY <3>1, <3>2
          <5> QED BY <5>1
        <4>2. s \ {m + 1} \in SUBSET (1 .. m) /\ s \ {m + 1} \in SUBSET (1 .. m + 1) /\ m + 1 \notin s \ {m + 1}
          BY <2>2
        <4>3. h[s] = step[m + 1][g[s \ {m + 1}]] /\ h[s \ {m + 1}] = g[s \ {m + 1}]
          BY <3>2, <4>2
        <4> HIDE DEF h
        <4> QED BY <4>1, <4>3
      <3>3. CASE m + 1 \notin s
        <4>1. s \in SUBSET (1 .. m) /\ s \ {Max(s)} \in SUBSET (1 .. m + 1) /\ m + 1 \notin s \ {Max(s)}
          BY <2>2, <3>3
        <4>2. g[s] = step[Max(s)][g[s \ {Max(s)}]]
          BY <2>1, <2>4, <4>1
        <4>3. h[s] = g[s] /\ h[s \ {Max(s)}] = g[s \ {Max(s)}]
          BY <3>3, <4>1
        <4> HIDE DEF h
        <4> QED BY <4>2, <4>3
      <3> QED BY <3>2, <3>3
    <2>5. h[{}] = base
      BY <2>1
    <2>6. Table(m + 1, h)
      <3> HIDE DEF h
      <3> QED BY <2>4, <2>5
    <2> QED BY <2>3, <2>6
  <1> HIDE DEF Has
  <1>3. S = Nat
    <2>1. S \in SUBSET Nat /\ 0 \in S
      BY <1>1
    <2>2. ASSUME NEW m \in S PROVE m + 1 \in S
      BY <1>2
    <2> HIDE DEF S
    <2> QED BY <2>1, <2>2, Induct
  <1>4. Has(N)
    BY <1>3
  <1> QED BY <1>4 DEF Has, IsTable

Term == [First : Nat, Last : Nat]

\* Ranges can be put in the order of their first pages.
LEMMA SortExists ==
    ASSUME NEW s \in Seq(Term)
    PROVE  \E p \in [DOMAIN s -> DOMAIN s] :
               /\ ToSet(p) = DOMAIN s
               /\ \A i, j \in DOMAIN s : i < j => s[p[i]].First <= s[p[j]].First
  <1> DEFINE Sorts(m, p) == /\ \A w \in 1 .. m : \E v \in 1 .. m : p[v] = w
                            /\ \A i, j \in 1 .. m : i < j => s[p[i]].First <= s[p[j]].First
             Has(m) == \E p \in [1 .. m -> 1 .. m] : Sorts(m, p)
             S == {m \in Nat : m <= Len(s) => Has(m)}
  <1>1. Len(s) \in Nat /\ DOMAIN s = 1 .. Len(s) /\ \A i \in 1 .. Len(s) : s[i].First \in Nat
    <2>1. Len(s) \in Nat /\ DOMAIN s = 1 .. Len(s)
      BY LenProperties
    <2>2. \A i \in 1 .. Len(s) : s[i] \in Term
      BY ElementOfSeq
    <2> QED BY <2>1, <2>2 DEF Term
  <1>2. Has(0)
    <2>1. Sorts(0, <<>>) /\ <<>> \in [1 .. 0 -> 1 .. 0]
      OBVIOUS
    <2> QED BY <2>1
  <1>3. ASSUME NEW m \in Nat, m + 1 <= Len(s), Has(m) PROVE Has(m + 1)
    <2>1. PICK p \in [1 .. m -> 1 .. m] : Sorts(m, p)
      BY <1>3
    <2>0. m + 1 \in 1 .. Len(s) /\ \A x \in 1 .. m : x \in 1 .. Len(s)
      BY <1>1, <1>3
    <2> DEFINE late == {i \in 1 .. m + 1 : i = m + 1 \/ s[p[i]].First > s[m + 1].First}
    <2>2. PICK k \in late : \A i \in late : k <= i
      <3>1. late \in SUBSET Nat /\ m + 1 \in late
        OBVIOUS
      <3> HIDE DEF late
      <3> QED BY <3>1, Least
    <2> DEFINE q == [i \in 1 .. m + 1 |-> IF i < k THEN p[i] ELSE IF i = k THEN m + 1 ELSE p[i - 1]]
    <2>3. k \in 1 .. m + 1 /\ (k = m + 1 \/ s[p[k]].First > s[m + 1].First)
      OBVIOUS
    <2>4. \A i \in 1 .. m : i < k => s[p[i]].First <= s[m + 1].First
      <3> SUFFICES ASSUME NEW i \in 1 .. m, i < k PROVE s[p[i]].First <= s[m + 1].First
        OBVIOUS
      <3>1. i \notin late
        BY <2>2, <2>3
      <3>2. p[i] \in 1 .. Len(s) /\ m + 1 \in 1 .. Len(s)
        BY <2>1, <2>0
      <3>3. s[p[i]].First \in Nat /\ s[m + 1].First \in Nat
        BY <1>1, <3>2
      <3>4. ~(s[p[i]].First > s[m + 1].First)
        <4>1. i \in 1 .. m + 1
          OBVIOUS
        <4> QED BY <3>1, <4>1
      <3> DEFINE x == s[p[i]].First
                 y == s[m + 1].First
      <3>5. x \in Nat /\ y \in Nat /\ ~(x > y)
        BY <3>3, <3>4
      <3> HIDE DEF x, y
      <3>6. x <= y
        BY <3>5
      <3> QED BY <3>6 DEF x, y
    <2>5. q \in [1 .. m + 1 -> 1 .. m + 1]
      <3> HIDE DEF late, Sorts
      <3> SUFFICES ASSUME NEW i \in 1 .. m + 1
                   PROVE  (IF i < k THEN p[i] ELSE IF i = k THEN m + 1 ELSE p[i - 1]) \in 1 .. m + 1
        OBVIOUS
      <3>1. \A j \in 1 .. m : p[j] \in 1 .. m + 1
        BY <2>1
      <3>2. i < k => i \in 1 .. m
        BY <2>3
      <3>3. i > k => i - 1 \in 1 .. m
        BY <2>3
      <3> QED BY <2>3, <3>1, <3>2, <3>3
    <2>6. \A i \in 1 .. m + 1 : /\ i < k => i \in 1 .. m /\ q[i] = p[i]
                                /\ i = k => q[i] = m + 1
                                /\ i > k => i - 1 \in 1 .. m /\ q[i] = p[i - 1]
      BY <2>3
    <2> HIDE DEF late, q
    <2>7. ASSUME NEW w \in 1 .. m + 1 PROVE \E v \in 1 .. m + 1 : q[v] = w
      <3>1. CASE w = m + 1
        BY <2>3, <2>6, <3>1
      <3>2. CASE w # m + 1
        <4>1. w \in 1 .. m
          BY <3>2
        <4>2. PICK v \in 1 .. m : p[v] = w
          BY <2>1, <4>1
        <4>3. CASE v < k
          BY <2>6, <4>2, <4>3
        <4>4. CASE v >= k
          <5>1. v + 1 \in 1 .. m + 1 /\ v + 1 > k /\ (v + 1) - 1 = v
            BY <2>3, <4>4
          <5> QED BY <2>6, <4>2, <5>1
        <4> QED BY <2>3, <4>3, <4>4
      <3> QED BY <3>1, <3>2
    <2>8. ASSUME NEW i \in 1 .. m + 1, NEW j \in 1 .. m + 1, i < j
          PROVE  s[q[i]].First <= s[q[j]].First
      <3> HIDE DEF Sorts
      <3>1. \A a \in 1 .. m : p[a] \in 1 .. Len(s) /\ s[p[a]].First \in Nat
        BY <1>1, <2>0, <2>1
      <3>2. \A a, b \in 1 .. m : a <= b => s[p[a]].First <= s[p[b]].First
        <4> SUFFICES ASSUME NEW a \in 1 .. m, NEW b \in 1 .. m, a <= b
                     PROVE  s[p[a]].First <= s[p[b]].First
          OBVIOUS
        <4>1. CASE a < b
          BY <2>1, <4>1 DEF Sorts
        <4>2. CASE a = b
          BY <3>1, <4>2
        <4> QED BY <4>1, <4>2
      <3>3. s[m + 1].First \in Nat
        BY <1>1, <1>3
      <3>4. k <= m => \A b \in 1 .. m : k <= b => s[m + 1].First <= s[p[b]].First
        <4> SUFFICES ASSUME k <= m, NEW b \in 1 .. m, k <= b PROVE s[m + 1].First <= s[p[b]].First
          OBVIOUS
        <4>1. k \in 1 .. m /\ s[p[k]].First > s[m + 1].First
          BY <2>3
        <4>2. s[p[k]].First <= s[p[b]].First /\ s[p[k]].First \in Nat /\ s[p[b]].First \in Nat
          BY <3>1, <3>2, <4>1
        <4> DEFINE x == s[m + 1].First
                   y == s[p[k]].First
                   z == s[p[b]].First
        <4>3. x \in Nat /\ y \in Nat /\ z \in Nat /\ y > x /\ y <= z
          BY <3>3, <4>1, <4>2
        <4> HIDE DEF x, y, z
        <4>4. x <= z
          BY <4>3
        <4> QED BY <4>4 DEF x, z
      <3>5. CASE j < k
        <4>1. k \in Int /\ i \in Int /\ j \in Int /\ i < k /\ i <= j
          BY <2>3, <2>8, <3>5
        <4>2. i \in 1 .. m /\ j \in 1 .. m /\ q[i] = p[i] /\ q[j] = p[j]
          BY <2>6, <3>5, <4>1
        <4> QED BY <3>2, <4>1, <4>2
      <3>6. CASE j = k
        <4>1. i < k /\ i \in 1 .. m /\ q[i] = p[i] /\ q[j] = m + 1
          BY <2>3, <2>6, <2>8, <3>6
        <4> QED BY <2>4, <4>1
      <3>7. CASE j > k
        <4>1. j - 1 \in 1 .. m /\ q[j] = p[j - 1] /\ k <= j - 1 /\ k <= m
          BY <2>3, <2>6, <3>7
        <4>2. CASE i < k
          <5>1. i \in 1 .. m /\ q[i] = p[i] /\ i <= j - 1
            BY <2>3, <2>6, <3>7, <4>2
          <5> QED BY <3>2, <4>1, <5>1
        <4>3. CASE i = k
          <5>1. q[i] = m + 1
            BY <2>6, <4>3
          <5> QED BY <3>4, <4>1, <5>1
        <4>4. CASE i > k
          <5>1. i - 1 \in 1 .. m /\ q[i] = p[i - 1] /\ i - 1 <= j - 1
            BY <2>3, <2>6, <2>8, <4>4
          <5> QED BY <3>2, <4>1, <5>1
        <4> QED BY <2>3, <4>2, <4>3, <4>4
      <3> QED BY <2>3, <3>5, <3>6, <3>7
    <2>9. Sorts(m + 1, q)
      BY <2>7, <2>8
    <2> HIDE DEF Sorts
    <2> QED BY <2>5, <2>9
  <1> HIDE DEF Has
  <1>4. S = Nat
    <2>1. S \in SUBSET Nat /\ 0 \in S
      BY <1>2
    <2>2. ASSUME NEW m \in S PROVE m + 1 \in S
      BY <1>1, <1>3
    <2> HIDE DEF S
    <2> QED BY <2>1, <2>2, Induct
  <1>5. PICK p \in [1 .. Len(s) -> 1 .. Len(s)] : Sorts(Len(s), p)
    <2>1. Has(Len(s))
      BY <1>1, <1>4
    <2> HIDE DEF Sorts
    <2> QED BY <2>1 DEF Has
  <1>6. ToSet(p) = DOMAIN s
    BY <1>1, <1>5 DEF ToSet, Range
  <1> QED BY <1>1, <1>5, <1>6

Acc == [pages : Seq(Nat), next : Nat]

\* The run of pages that a range adds.
LEMMA RunOfPages ==
    ASSUME NEW from \in Nat, NEW to \in Nat
    PROVE  LET run == [i \in 1 .. to - from + 1 |-> from + i - 1]
               more == IF from <= to THEN to - from + 1 ELSE 0
           IN  run \in Seq(Nat) /\ Len(run) = more /\ \A i \in 1 .. more : run[i] = from + i - 1
  <1> DEFINE run == [i \in 1 .. to - from + 1 |-> from + i - 1]
             more == IF from <= to THEN to - from + 1 ELSE 0
  <1>1. more \in Nat /\ 1 .. to - from + 1 = 1 .. more
    OBVIOUS
  <1> HIDE DEF more
  <1>2. run = [i \in 1 .. more |-> from + i - 1]
    BY <1>1
  <1>3. \A i \in 1 .. more : from + i - 1 \in Nat
    OBVIOUS
  <1> HIDE DEF run
  <1>4. run \in Seq(Nat) /\ Len(run) = more /\ \A i \in 1 .. more : run[i] = from + i - 1
    BY <1>1, <1>2, <1>3
  <1> QED BY <1>4 DEF run, more

\* A range adds its pages from the first that no range before had.
LEMMA AddRangeRuns ==
    ASSUME NEW acc \in Acc, NEW r \in Term
    PROVE  LET new == AddRange(acc, r)
               from == IF r.First > acc.next THEN r.First ELSE acc.next
               more == IF from <= r.Last THEN r.Last - from + 1 ELSE 0
           IN  /\ new \in Acc
               /\ Len(new.pages) = Len(acc.pages) + more
               /\ \A i \in 1 .. Len(acc.pages) : new.pages[i] = acc.pages[i]
               /\ \A i \in 1 .. more : new.pages[Len(acc.pages) + i] = from + i - 1
               /\ new.next = IF r.Last + 1 > acc.next THEN r.Last + 1 ELSE acc.next
  <1> DEFINE from == IF r.First > acc.next THEN r.First ELSE acc.next
             more == IF from <= r.Last THEN r.Last - from + 1 ELSE 0
             run == [i \in 1 .. r.Last - from + 1 |-> from + i - 1]
             new == AddRange(acc, r)
  <1>1. acc.pages \in Seq(Nat) /\ acc.next \in Nat /\ r.First \in Nat /\ r.Last \in Nat
    BY DEF Acc, Term
  <1>2. from \in Nat /\ more \in Nat
    BY <1>1
  <1>3. run \in Seq(Nat) /\ Len(run) = more /\ \A i \in 1 .. more : run[i] = from + i - 1
    <2> HIDE DEF from
    <2> QED BY <1>1, <1>2, RunOfPages
  <1>4. /\ new.pages = acc.pages \o run
        /\ new.next = IF r.Last + 1 > acc.next THEN r.Last + 1 ELSE acc.next
        /\ new = [pages |-> new.pages, next |-> new.next]
    BY DEF AddRange
  <1> HIDE DEF new, run, from, more
  <1>5. new.pages \in Seq(Nat) /\ Len(new.pages) = Len(acc.pages) + more
    BY <1>1, <1>3, <1>4, ConcatProperties
  <1>6. \A i \in 1 .. Len(acc.pages) : new.pages[i] = acc.pages[i]
    BY <1>1, <1>3, <1>4, ConcatProperties
  <1>7. \A i \in 1 .. more : new.pages[Len(acc.pages) + i] = from + i - 1
    <2> SUFFICES ASSUME NEW i \in 1 .. more PROVE new.pages[Len(acc.pages) + i] = from + i - 1
      OBVIOUS
    <2>1. Len(acc.pages) \in Nat
      BY <1>1, LenProperties
    <2>2. new.pages[Len(acc.pages) + i] = run[i]
      <3>1. /\ Len(acc.pages) + i \in 1 .. Len(acc.pages) + Len(run)
            /\ Len(acc.pages) + i > Len(acc.pages) /\ (Len(acc.pages) + i) - Len(acc.pages) = i
        BY <1>2, <1>3, <2>1
      <3>2. (acc.pages \o run)[Len(acc.pages) + i] = run[(Len(acc.pages) + i) - Len(acc.pages)]
        BY <1>1, <1>3, <2>1, <3>1, ConcatProperties
      <3> QED BY <1>4, <3>1, <3>2
    <2> QED BY <1>3, <2>2
  <1>8. new.next \in Nat
    BY <1>1, <1>4
  <1>9. new \in Acc
    BY <1>4, <1>5, <1>8 DEF Acc
  <1> QED BY <1>4, <1>5, <1>6, <1>7, <1>9 DEF new, from, more

\* The fold of Select, one range after another.
LEMMA SelectRuns ==
    ASSUME NEW sorted \in Seq(Term)
    PROVE  \E f : /\ f[0] = [pages |-> <<>>, next |-> 1]
                  /\ \A i \in 1 .. Len(sorted) : f[i] = AddRange(f[i - 1], sorted[i])
                  /\ SelectFrom(sorted) = f[Len(sorted)].pages
  <1> DEFINE N == Len(sorted)
             base == [pages |-> <<>>, next |-> 1]
             step == [i \in 1 .. N |-> [acc \in Acc |-> AddRange(acc, sorted[i])]]
             iter == CHOOSE it : it = [s \in SUBSET (1 .. N) |->
                                         IF s = {} THEN base
                                         ELSE AddRange(it[s \ {Max(s)}], sorted[Max(s)])]
  <1>1. N \in Nat /\ DOMAIN sorted = 1 .. N
    BY LenProperties
  <1>2. \A i \in 1 .. N : sorted[i] \in Term
    BY ElementOfSeq
  <1>3. base \in Acc
    BY DEF Acc
  <1>4. step \in [1 .. N -> [Acc -> Acc]]
    <2>1. \A i \in 1 .. N : \A acc \in Acc : AddRange(acc, sorted[i]) \in Acc
      <3> HIDE DEF N
      <3> QED BY <1>2, AddRangeRuns
    <2> QED BY <2>1
  <1>5. SelectFrom(sorted) = iter[1 .. N].pages
    <2>1. SelectFrom(sorted) = iter[DOMAIN sorted].pages
      BY <1>1 DEF SelectFrom, FoldLeft, MapThenFoldSet
    <2> QED BY <1>1, <2>1
  <1> HIDE DEF N, base
  <1>6. iter = [s \in SUBSET (1 .. N) |->
                   IF s = {} THEN base ELSE AddRange(iter[s \ {Max(s)}], sorted[Max(s)])]
    <2> HIDE DEF step
    <2> HIDE DEF iter
    <2>1. PICK g \in [SUBSET (1 .. N) -> Acc] : IsTable(g, N, base, step)
      BY <1>1, <1>3, <1>4, TableExists
    <2>2. \A s \in SUBSET (1 .. N) : g[s] = IF s = {} THEN base ELSE AddRange(g[s \ {Max(s)}], sorted[Max(s)])
      <3> SUFFICES ASSUME NEW s \in SUBSET (1 .. N), s # {}
                   PROVE  g[s] = AddRange(g[s \ {Max(s)}], sorted[Max(s)])
        BY <2>1 DEF IsTable
      <3>1. Max(s) \in 1 .. N
        BY <1>1, MaxIn
      <3>2. g[s \ {Max(s)}] \in Acc
        BY <2>1
      <3> QED BY <2>1, <3>1, <3>2 DEF step, IsTable
    <2>3. g = [s \in SUBSET (1 .. N) |->
                  IF s = {} THEN base ELSE AddRange(g[s \ {Max(s)}], sorted[Max(s)])]
      BY <2>1, <2>2
    <2> QED BY <2>3 DEF iter
  <1> HIDE DEF iter, step
  <1> DEFINE f == [i \in 0 .. N |-> iter[1 .. i]]
  <1>7. f[0] = base
    <2>1. 1 .. 0 = {} /\ 0 \in 0 .. N
      BY <1>1
    <2> QED BY <1>6, <2>1
  <1>8. ASSUME NEW i \in 1 .. N PROVE f[i] = AddRange(f[i - 1], sorted[i])
    <2>1. /\ 1 .. i \in SUBSET (1 .. N) /\ 1 .. i # {} /\ Max(1 .. i) = i
          /\ (1 .. i) \ {i} = 1 .. i - 1 /\ i - 1 \in 0 .. N
      BY <1>1, Initial
    <2>2. iter[1 .. i] = AddRange(iter[(1 .. i) \ {Max(1 .. i)}], sorted[Max(1 .. i)])
      BY <1>6, <2>1
    <2>3. i \in 0 .. N
      OBVIOUS
    <2> QED BY <2>1, <2>2, <2>3
  <1>9. f[N] = iter[1 .. N]
    BY <1>1
  <1> HIDE DEF f
  <1> QED BY <1>5, <1>7, <1>8, <1>9 DEF base, N

Ascending(s) == \A a, b \in 1 .. Len(s) : a < b => s[a] < s[b]

\* The pages that the first i terms name.
Named(terms, i) == UNION {terms[j].First .. terms[j].Last : j \in 1 .. i}

\* What Select has when it is through the first i ranges.
Selected(acc, sorted, i) ==
    /\ acc \in Acc /\ acc.next >= 1 /\ Ascending(acc.pages)
    /\ ToSet(acc.pages) = Named(sorted, i)
    /\ \A x \in ToSet(acc.pages) : x < acc.next
    /\ acc.next = 1 \/ \E j \in 1 .. i : acc.next = sorted[j].Last + 1

\* One more term names its own pages besides.
LEMMA NamedNext ==
    ASSUME NEW terms, NEW i \in Nat
    PROVE  Named(terms, i + 1) = Named(terms, i) \union (terms[i + 1].First .. terms[i + 1].Last)
  <1>1. 1 .. i + 1 = (1 .. i) \union {i + 1}
    OBVIOUS
  <1> QED BY <1>1 DEF Named

LEMMA SelectStep ==
    ASSUME NEW sorted \in Seq(Term), NEW i \in Nat, i + 1 \in 1 .. Len(sorted),
           \A j \in 1 .. Len(sorted) : 1 <= sorted[j].First /\ sorted[j].First <= sorted[j].Last,
           \A j, k \in 1 .. Len(sorted) : j < k => sorted[j].First <= sorted[k].First,
           NEW acc, Selected(acc, sorted, i)
    PROVE  Selected(AddRange(acc, sorted[i + 1]), sorted, i + 1)
  <1> DEFINE r == sorted[i + 1]
             new == AddRange(acc, r)
             from == IF r.First > acc.next THEN r.First ELSE acc.next
             more == IF from <= r.Last THEN r.Last - from + 1 ELSE 0
             L == Len(acc.pages)
  <1>1. r \in Term /\ r.First \in Nat /\ r.Last \in Nat /\ 1 <= r.First /\ r.First <= r.Last
    <2>1. r \in Term
      BY ElementOfSeq
    <2> QED BY <2>1 DEF Term
  <1>2. acc \in Acc /\ acc.pages \in Seq(Nat) /\ acc.next \in Nat /\ acc.next >= 1 /\ L \in Nat
    <2>1. acc \in Acc /\ acc.next >= 1
      BY DEF Selected
    <2>2. acc.pages \in Seq(Nat) /\ acc.next \in Nat
      BY <2>1 DEF Acc
    <2> QED BY <2>1, <2>2, LenProperties
  <1>3. /\ from \in Nat /\ more \in Nat /\ from >= acc.next /\ from >= r.First
        /\ from = r.First \/ from = acc.next
    BY <1>1, <1>2
  <1>4. /\ new \in Acc /\ Len(new.pages) = L + more
        /\ \A a \in 1 .. L : new.pages[a] = acc.pages[a]
        /\ \A a \in 1 .. more : new.pages[L + a] = from + a - 1
        /\ new.next = IF r.Last + 1 > acc.next THEN r.Last + 1 ELSE acc.next
    <2> HIDE DEF r
    <2> QED BY <1>1, <1>2, AddRangeRuns
  <1>5. \A a \in 1 .. L : acc.pages[a] \in Nat /\ acc.pages[a] < acc.next
    <2>1. \A a \in 1 .. L : acc.pages[a] \in Nat /\ acc.pages[a] \in ToSet(acc.pages)
      BY <1>2, ElementOfSeq, LenProperties DEF ToSet
    <2> QED BY <2>1 DEF Selected
  <1>6. more = 0 \/ more = r.Last - from + 1
    BY <1>1, <1>3
  <1>7. from <= r.Last => more = r.Last - from + 1
    OBVIOUS
  <1> HIDE DEF new, from, more, r, L
  <1>8. \A a \in 1 .. L + more : a > L => a - L \in 1 .. more /\ new.pages[a] = from + (a - L) - 1
    <2> SUFFICES ASSUME NEW a \in 1 .. L + more, a > L
                 PROVE  a - L \in 1 .. more /\ new.pages[a] = from + (a - L) - 1
      OBVIOUS
    <2>1. a - L \in 1 .. more /\ L + (a - L) = a
      BY <1>2, <1>3
    <2> QED BY <1>4, <2>1
  <1>9. Ascending(new.pages)
    <2> SUFFICES ASSUME NEW a \in 1 .. L + more, NEW b \in 1 .. L + more, a < b
                 PROVE  new.pages[a] < new.pages[b]
      BY <1>4 DEF Ascending
    <2>1. CASE b <= L
      <3>1. acc.pages[a] < acc.pages[b]
        <4>1. a \in 1 .. L /\ b \in 1 .. L
          BY <1>2, <1>3, <2>1
        <4> QED BY <4>1 DEF Selected, Ascending, L
      <3>2. new.pages[a] = acc.pages[a] /\ new.pages[b] = acc.pages[b]
        <4>1. a \in 1 .. L /\ b \in 1 .. L
          BY <1>2, <1>3, <2>1
        <4> QED BY <1>4, <4>1
      <3> QED BY <3>1, <3>2
    <2>2. CASE b > L
      <3>1. b - L \in 1 .. more /\ new.pages[b] = from + (b - L) - 1
        BY <1>2, <1>8, <2>2
      <3>2. CASE a <= L
        <4>1. new.pages[a] = acc.pages[a] /\ acc.pages[a] \in Nat /\ acc.pages[a] < acc.next
          BY <1>2, <1>4, <1>5, <3>2
        <4> QED BY <1>2, <1>3, <3>1, <4>1
      <3>3. CASE a > L
        <4>1. a - L \in 1 .. more /\ new.pages[a] = from + (a - L) - 1
          BY <1>2, <1>8, <3>3
        <4> QED BY <1>2, <1>3, <3>1, <4>1
      <3> QED BY <1>2, <3>2, <3>3
    <2> QED BY <1>2, <2>1, <2>2
  <1>10. ToSet(new.pages) = ToSet(acc.pages) \union (from .. r.Last)
    <2>1. DOMAIN new.pages = 1 .. L + more /\ DOMAIN acc.pages = 1 .. L
      <3>1. new.pages \in Seq(Nat)
        BY <1>4 DEF Acc
      <3> QED BY <1>2, <1>4, <3>1, LenProperties DEF L
    <2>2. ASSUME NEW a \in 1 .. L + more PROVE new.pages[a] \in ToSet(acc.pages) \union (from .. r.Last)
      <3>1. CASE a <= L
        <4>1. a \in 1 .. L /\ new.pages[a] = acc.pages[a]
          BY <1>2, <1>4, <3>1
        <4> QED BY <2>1, <4>1 DEF ToSet
      <3>2. CASE a > L
        <4>1. a - L \in 1 .. more /\ new.pages[a] = from + (a - L) - 1
          BY <1>2, <1>8, <3>2
        <4> QED BY <1>1, <1>2, <1>3, <1>6, <4>1
      <3> QED BY <1>2, <3>1, <3>2
    <2>3. ASSUME NEW x \in ToSet(acc.pages) PROVE x \in ToSet(new.pages)
      <3>1. PICK a \in 1 .. L : x = acc.pages[a]
        BY <2>1 DEF ToSet
      <3>2. a \in 1 .. L + more /\ new.pages[a] = x
        BY <1>2, <1>3, <1>4, <3>1
      <3> QED BY <2>1, <3>2 DEF ToSet
    <2>4. ASSUME NEW x \in from .. r.Last PROVE x \in ToSet(new.pages)
      <3>1. x - from + 1 \in 1 .. more /\ from + (x - from + 1) - 1 = x
        BY <1>1, <1>3, <1>7
      <3>2. L + (x - from + 1) \in 1 .. L + more
        BY <1>2, <1>3, <3>1
      <3>3. new.pages[L + (x - from + 1)] = x
        BY <1>4, <3>1
      <3> QED BY <2>1, <3>2, <3>3 DEF ToSet
    <2>5. ToSet(new.pages) \subseteq ToSet(acc.pages) \union (from .. r.Last)
      BY <2>1, <2>2 DEF ToSet
    <2> QED BY <2>3, <2>4, <2>5
  <1>11. r.First .. r.Last \subseteq Named(sorted, i) \union (from .. r.Last)
    <2> SUFFICES ASSUME NEW x \in r.First .. r.Last, x < from PROVE x \in Named(sorted, i)
      BY <1>1, <1>3
    <2>1. from = acc.next /\ acc.next # 1
      BY <1>1, <1>2, <1>3
    <2>2. PICK j \in 1 .. i : acc.next = sorted[j].Last + 1
      BY <2>1 DEF Selected
    <2>3. j \in 1 .. Len(sorted) /\ j < i + 1
      <3>1. Len(sorted) \in Nat
        BY LenProperties
      <3> QED BY <3>1
    <2>4. sorted[j].First <= r.First /\ sorted[j].First \in Nat /\ sorted[j].Last \in Nat
      <3>1. sorted[j] \in Term
        BY <2>3, ElementOfSeq
      <3> QED BY <2>3, <3>1 DEF r, Term
    <2>5. x \in sorted[j].First .. sorted[j].Last
      BY <1>1, <2>1, <2>2, <2>4
    <2> QED BY <2>2, <2>5 DEF Named
  <1>12. ToSet(new.pages) = Named(sorted, i + 1)
    <2>1. Named(sorted, i + 1) = Named(sorted, i) \union (r.First .. r.Last)
      BY NamedNext DEF r
    <2>2. from .. r.Last \subseteq r.First .. r.Last
      BY <1>1, <1>3
    <2>3. ToSet(acc.pages) = Named(sorted, i)
      BY DEF Selected
    <2> QED BY <1>10, <1>11, <2>1, <2>2, <2>3
  <1>13. new.next \in Nat /\ new.next >= acc.next /\ new.next >= r.Last + 1
    BY <1>1, <1>2, <1>4
  <1>14. \A x \in ToSet(new.pages) : x < new.next
    <2>1. \A x \in from .. r.Last : x < new.next
      BY <1>1, <1>3, <1>13
    <2>2. \A x \in ToSet(acc.pages) : x < new.next
      <3> SUFFICES ASSUME NEW x \in ToSet(acc.pages) PROVE x < new.next
        OBVIOUS
      <3>1. PICK a \in 1 .. L : x = acc.pages[a]
        BY <1>2, LenProperties DEF ToSet, L
      <3>2. x \in Nat /\ x < acc.next
        BY <1>5, <3>1
      <3> QED BY <1>2, <1>13, <3>2
    <2> QED BY <1>10, <2>1, <2>2
  <1>15. new.next = 1 \/ \E j \in 1 .. i + 1 : new.next = sorted[j].Last + 1
    <2>1. CASE new.next = r.Last + 1
      <3>1. i + 1 \in 1 .. i + 1 /\ new.next = sorted[i + 1].Last + 1
        BY <2>1 DEF r
      <3> QED BY <3>1
    <2>2. CASE new.next = acc.next
      <3>1. \A j \in 1 .. i : j \in 1 .. i + 1
        OBVIOUS
      <3> QED BY <2>2, <3>1 DEF Selected
    <2> QED BY <1>4, <2>1, <2>2
  <1>16. Selected(new, sorted, i + 1)
    BY <1>2, <1>4, <1>9, <1>12, <1>13, <1>14, <1>15 DEF Selected
  <1> QED BY <1>16 DEF new, r

\* Of well-formed ranges in order, SelectFrom has each page named once, ascending.
LEMMA SelectFromExact ==
    ASSUME NEW sorted \in Seq(Term),
           \A j \in 1 .. Len(sorted) : 1 <= sorted[j].First /\ sorted[j].First <= sorted[j].Last,
           \A j, k \in 1 .. Len(sorted) : j < k => sorted[j].First <= sorted[k].First
    PROVE  LET pages == SelectFrom(sorted)
           IN  /\ pages \in Seq(Nat) /\ Ascending(pages)
               /\ ToSet(pages) = Named(sorted, Len(sorted))
  <1>1. PICK f : /\ f[0] = [pages |-> <<>>, next |-> 1]
                 /\ \A i \in 1 .. Len(sorted) : f[i] = AddRange(f[i - 1], sorted[i])
                 /\ SelectFrom(sorted) = f[Len(sorted)].pages
    BY SelectRuns
  <1>2. Len(sorted) \in Nat
    BY LenProperties
  <1> DEFINE S == {i \in Nat : i <= Len(sorted) => Selected(f[i], sorted, i)}
  <1>3. 0 \in S
    <2>1. f[0] \in Acc /\ f[0].next = 1 /\ f[0].pages = <<>>
      BY <1>1 DEF Acc
    <2>2. Ascending(<<>>) /\ ToSet(<<>>) = {}
      BY DEF Ascending, ToSet
    <2>3. Named(sorted, 0) = {}
      BY DEF Named
    <2>4. /\ f[0] \in Acc /\ f[0].next >= 1 /\ Ascending(f[0].pages)
          /\ ToSet(f[0].pages) = Named(sorted, 0) /\ \A x \in ToSet(f[0].pages) : x < f[0].next
      BY <2>1, <2>2, <2>3
    <2>5. Selected(f[0], sorted, 0)
      BY <2>1, <2>4 DEF Selected
    <2> HIDE DEF Selected
    <2> QED BY <2>5
  <1>4. ASSUME NEW i \in S PROVE i + 1 \in S
    <2> SUFFICES ASSUME i + 1 <= Len(sorted) PROVE Selected(f[i + 1], sorted, i + 1)
      OBVIOUS
    <2>1. i \in Nat /\ Selected(f[i], sorted, i) /\ i + 1 \in 1 .. Len(sorted)
      BY <1>2
    <2>2. f[i + 1] = AddRange(f[i], sorted[i + 1])
      <3>1. (i + 1) - 1 = i
        BY <2>1
      <3> QED BY <1>1, <2>1, <3>1
    <2> QED BY <2>1, <2>2, SelectStep
  <1>5. S = Nat
    <2>1. S \in SUBSET Nat
      OBVIOUS
    <2> HIDE DEF S
    <2> QED BY <1>3, <1>4, <2>1, Induct
  <1>6. Selected(f[Len(sorted)], sorted, Len(sorted))
    BY <1>2, <1>5
  <1> QED BY <1>1, <1>6 DEF Selected, Acc

\* The sorted ranges are the ranges.
LEMMA SortedProperties ==
    ASSUME NEW s \in Seq(Term)
    PROVE  LET sorted == SortedByFirst(s)
           IN  /\ sorted \in Seq(Term) /\ Len(sorted) = Len(s)
               /\ \A i \in 1 .. Len(s) : \E j \in 1 .. Len(s) : sorted[i] = s[j]
               /\ \A j \in 1 .. Len(s) : \E i \in 1 .. Len(s) : sorted[i] = s[j]
               /\ \A i, j \in 1 .. Len(s) : i < j => sorted[i].First <= sorted[j].First
  <1> DEFINE Sorting(p) == /\ ToSet(p) = DOMAIN s
                         /\ \A i, j \in DOMAIN s : i < j => s[p[i]].First <= s[p[j]].First
             place == CHOOSE p \in [DOMAIN s -> DOMAIN s] : Sorting(p)
  <1>1. SortedByFirst(s) = [i \in DOMAIN s |-> s[place[i]]]
    BY DEF SortedByFirst
  <1>2. \E p \in [DOMAIN s -> DOMAIN s] : Sorting(p)
    BY SortExists
  <1>3. place \in [DOMAIN s -> DOMAIN s] /\ Sorting(place)
    <2> HIDE DEF Sorting
    <2> QED BY <1>2
  <1> HIDE DEF place
  <1>4. Len(s) \in Nat /\ DOMAIN s = 1 .. Len(s) /\ \A i \in 1 .. Len(s) : s[i] \in Term
    BY LenProperties, ElementOfSeq
  <1> DEFINE sorted == [i \in 1 .. Len(s) |-> s[place[i]]]
  <1>5. \A i \in 1 .. Len(s) : place[i] \in 1 .. Len(s) /\ sorted[i] = s[place[i]] /\ sorted[i] \in Term
    BY <1>3, <1>4
  <1>6. sorted \in Seq(Term) /\ Len(sorted) = Len(s)
    BY <1>4, <1>5
  <1>7. \A j \in 1 .. Len(s) : \E i \in 1 .. Len(s) : place[i] = j
    BY <1>3, <1>4 DEF ToSet
  <1>8. \A i, j \in 1 .. Len(s) : i < j => s[place[i]].First <= s[place[j]].First
    BY <1>3, <1>4
  <1>9. SortedByFirst(s) = sorted
    BY <1>1, <1>4
  <1> HIDE DEF sorted, Sorting
  <1>10. ASSUME NEW j \in 1 .. Len(s) PROVE \E i \in 1 .. Len(s) : sorted[i] = s[j]
    <2>1. PICK i \in 1 .. Len(s) : place[i] = j
      BY <1>7
    <2>2. sorted[i] = s[place[i]]
      BY <1>5
    <2> QED BY <2>1, <2>2
  <1>11. \A i, j \in 1 .. Len(s) : i < j => sorted[i].First <= sorted[j].First
    BY <1>5, <1>8
  <1> QED BY <1>5, <1>6, <1>9, <1>10, <1>11

\* Select, of any ranges it does not refuse.
LEMMA SelectProperties ==
    ASSUME NEW s \in Seq(Term), NEW count, Legal(s, count)
    PROVE  LET pages == Select(s, count).pages
           IN  pages \in Seq(Nat) /\ Ascending(pages) /\ ToSet(pages) = Named(s, Len(s))
  <1> DEFINE sorted == SortedByFirst(s)
  <1>1. Select(s, count).pages = SelectFrom(sorted)
    BY DEF Select
  <1>2. /\ sorted \in Seq(Term) /\ Len(sorted) = Len(s)
        /\ \A i \in 1 .. Len(s) : \E j \in 1 .. Len(s) : sorted[i] = s[j]
        /\ \A j \in 1 .. Len(s) : \E i \in 1 .. Len(s) : sorted[i] = s[j]
        /\ \A i, j \in 1 .. Len(s) : i < j => sorted[i].First <= sorted[j].First
    BY SortedProperties
  <1> HIDE DEF sorted
  <1>3. \A j \in 1 .. Len(s) : 1 <= s[j].First /\ s[j].First <= s[j].Last
    BY LenProperties DEF Legal
  <1>4. \A j \in 1 .. Len(sorted) : 1 <= sorted[j].First /\ sorted[j].First <= sorted[j].Last
    <2> SUFFICES ASSUME NEW i \in 1 .. Len(sorted)
                 PROVE  1 <= sorted[i].First /\ sorted[i].First <= sorted[i].Last
      OBVIOUS
    <2>1. PICK j \in 1 .. Len(s) : sorted[i] = s[j]
      BY <1>2
    <2> QED BY <1>3, <2>1
  <1>5. Named(sorted, Len(sorted)) = Named(s, Len(s))
    <2>1. ASSUME NEW i \in 1 .. Len(s) PROVE sorted[i].First .. sorted[i].Last \subseteq Named(s, Len(s))
      <3>1. PICK j \in 1 .. Len(s) : sorted[i] = s[j]
        BY <1>2
      <3> QED BY <3>1 DEF Named
    <2>2. ASSUME NEW j \in 1 .. Len(s) PROVE s[j].First .. s[j].Last \subseteq Named(sorted, Len(s))
      <3>1. PICK i \in 1 .. Len(s) : sorted[i] = s[j]
        BY <1>2
      <3> QED BY <3>1 DEF Named
    <2>3. Named(sorted, Len(s)) \subseteq Named(s, Len(s))
      BY <2>1 DEF Named
    <2>4. Named(s, Len(s)) \subseteq Named(sorted, Len(s))
      BY <2>2 DEF Named
    <2> QED BY <1>2, <2>3, <2>4
  <1>6. /\ SelectFrom(sorted) \in Seq(Nat) /\ Ascending(SelectFrom(sorted))
        /\ ToSet(SelectFrom(sorted)) = Named(sorted, Len(sorted))
    BY <1>2, <1>4, SelectFromExact
  <1> QED BY <1>1, <1>5, <1>6

LEMMA AddPageTerms ==
    ASSUME NEW pages \in Seq(Nat), NEW terms \in Seq(Term), NEW i \in 1 .. Len(pages)
    PROVE  AddPage(terms, pages, i) \in Seq(Term)
  <1>1. pages[i] \in Nat
    BY ElementOfSeq
  <1>2. CASE Continues(pages, i)
    <2> DEFINE new == [terms EXCEPT ![Len(terms)].Last = pages[i]]
    <2>1. Len(terms) \in Nat /\ DOMAIN terms = 1 .. Len(terms) /\ \A j \in 1 .. Len(terms) : terms[j] \in Term
      BY LenProperties, ElementOfSeq
    <2>2. new = [j \in 1 .. Len(terms) |-> IF j = Len(terms) THEN [terms[j] EXCEPT !.Last = pages[i]]
                                           ELSE terms[j]]
      BY <2>1
    <2>3. \A j \in 1 .. Len(terms) : [terms[j] EXCEPT !.Last = pages[i]] \in Term
      <3> SUFFICES ASSUME NEW j \in 1 .. Len(terms) PROVE [terms[j] EXCEPT !.Last = pages[i]] \in Term
        OBVIOUS
      <3>1. terms[j] \in [First : Nat, Last : Nat]
        BY <2>1 DEF Term
      <3> QED BY <1>1, <3>1 DEF Term
    <2>4. new \in [1 .. Len(terms) -> Term]
      <3> HIDE DEF new
      <3> DEFINE L == Len(terms)
      <3>1. L \in Nat /\ \A j \in 1 .. L : terms[j] \in Term /\ [terms[j] EXCEPT !.Last = pages[i]] \in Term
        BY <2>1, <2>3
      <3>2. new = [j \in 1 .. L |-> IF j = L THEN [terms[j] EXCEPT !.Last = pages[i]] ELSE terms[j]]
        BY <2>2
      <3> HIDE DEF L
      <3>3. new \in [1 .. L -> Term]
        BY <3>1, <3>2
      <3> QED BY <3>3 DEF L
    <2>5. new \in Seq(Term)
      <3> DEFINE L == Len(terms)
      <3>1. L \in Nat /\ new \in [1 .. L -> Term]
        BY <2>1, <2>4
      <3> HIDE DEF new, L
      <3> QED BY <3>1, SeqDef
    <2> QED BY <1>2, <2>5 DEF AddPage
  <1>3. CASE ~Continues(pages, i)
    <2>1. [First |-> pages[i], Last |-> pages[i]] \in Term
      BY <1>1 DEF Term
    <2> QED BY <1>3, <2>1, AppendProperties DEF AddPage
  <1> QED BY <1>2, <1>3

\* The fold of FormatPages, one page after another.
LEMMA FormatRuns ==
    ASSUME NEW pages \in Seq(Nat)
    PROVE  \E f : /\ f[0] = <<>>
                  /\ \A i \in 1 .. Len(pages) : f[i] = AddPage(f[i - 1], pages, i)
                  /\ FormatPages(pages) = f[Len(pages)]
  <1> DEFINE N == Len(pages)
             base == <<>>
             index == [i \in 1 .. N |-> i]
             step == [i \in 1 .. N |-> [terms \in Seq(Term) |-> AddPage(terms, pages, i)]]
             iter == CHOOSE it : it = [s \in SUBSET (1 .. N) |->
                                         IF s = {} THEN base
                                         ELSE AddPage(it[s \ {Max(s)}], pages, index[Max(s)])]
  <1>1. N \in Nat /\ DOMAIN pages = 1 .. N /\ DOMAIN index = 1 .. N /\ \A i \in 1 .. N : index[i] = i
    BY LenProperties
  <1>3. base \in Seq(Term)
    BY EmptySeq
  <1>4. step \in [1 .. N -> [Seq(Term) -> Seq(Term)]]
    <2>1. \A i \in 1 .. N : \A terms \in Seq(Term) : AddPage(terms, pages, i) \in Seq(Term)
      BY AddPageTerms
    <2> QED BY <2>1
  <1>5. FormatPages(pages) = iter[1 .. N]
    <2>1. index = [i \in DOMAIN pages |-> i]
      BY <1>1
    <2> HIDE DEF index
    <2>2. FormatPages(pages) = FoldLeft(LAMBDA terms, i : AddPage(terms, pages, i), <<>>, index)
      BY <2>1 DEF FormatPages, FoldLeftDomain
    <2>3. FormatPages(pages) = iter[DOMAIN index]
      BY <1>1, <2>2 DEF FoldLeft, MapThenFoldSet
    <2> QED BY <1>1, <2>3
  <1> HIDE DEF N, base
  <1>6. iter = [s \in SUBSET (1 .. N) |->
                   IF s = {} THEN base ELSE AddPage(iter[s \ {Max(s)}], pages, index[Max(s)])]
    <2> HIDE DEF step
    <2> HIDE DEF iter, index
    <2>1. PICK g \in [SUBSET (1 .. N) -> Seq(Term)] : IsTable(g, N, base, step)
      BY <1>1, <1>3, <1>4, TableExists
    <2>2. \A s \in SUBSET (1 .. N) : g[s] = IF s = {} THEN base ELSE AddPage(g[s \ {Max(s)}], pages, index[Max(s)])
      <3> SUFFICES ASSUME NEW s \in SUBSET (1 .. N), s # {}
                   PROVE  g[s] = AddPage(g[s \ {Max(s)}], pages, index[Max(s)])
        BY <2>1 DEF IsTable
      <3>1. Max(s) \in 1 .. N /\ index[Max(s)] = Max(s)
        BY <1>1, MaxIn
      <3>2. g[s \ {Max(s)}] \in Seq(Term)
        BY <2>1
      <3> QED BY <2>1, <3>1, <3>2 DEF step, IsTable
    <2>3. g = [s \in SUBSET (1 .. N) |->
                  IF s = {} THEN base ELSE AddPage(g[s \ {Max(s)}], pages, index[Max(s)])]
      BY <2>1, <2>2
    <2> QED BY <2>3 DEF iter
  <1> HIDE DEF iter, step, index
  <1> DEFINE f == [i \in 0 .. N |-> iter[1 .. i]]
  <1>7. f[0] = base
    <2>1. 1 .. 0 = {} /\ 0 \in 0 .. N
      BY <1>1
    <2> QED BY <1>6, <2>1
  <1>8. ASSUME NEW i \in 1 .. N PROVE f[i] = AddPage(f[i - 1], pages, i)
    <2>1. /\ 1 .. i \in SUBSET (1 .. N) /\ 1 .. i # {} /\ Max(1 .. i) = i
          /\ (1 .. i) \ {i} = 1 .. i - 1 /\ i - 1 \in 0 .. N
      BY <1>1, Initial
    <2>2. iter[1 .. i] = AddPage(iter[(1 .. i) \ {Max(1 .. i)}], pages, index[Max(1 .. i)])
      BY <1>6, <2>1
    <2>3. i \in 0 .. N /\ index[i] = i
      BY <1>1
    <2> QED BY <2>1, <2>2, <2>3
  <1>9. f[N] = iter[1 .. N]
    BY <1>1
  <1> HIDE DEF f
  <1> QED BY <1>5, <1>7, <1>8, <1>9 DEF base, N

\* What FormatPages has when it is through the first i pages.
Formatted(terms, pages, i) ==
    /\ terms \in Seq(Term)
    /\ i = 0 => terms = <<>>
    /\ i > 0 => Len(terms) > 0 /\ terms[Len(terms)].Last = pages[i]
    /\ \A j \in 1 .. Len(terms) : terms[j].First <= terms[j].Last
    /\ Named(terms, Len(terms)) = {pages[a] : a \in 1 .. i}

\* The names of as many terms are the same if the terms are.
LEMMA NamedSame ==
    ASSUME NEW s, NEW t, NEW k, \A j \in 1 .. k : s[j] = t[j]
    PROVE  Named(s, k) = Named(t, k)
  BY DEF Named

\* One more page.
LEMMA PagesNext ==
    ASSUME NEW pages, NEW i \in Nat
    PROVE  {pages[a] : a \in 1 .. i + 1} = {pages[a] : a \in 1 .. i} \union {pages[i + 1]}
  <1>1. 1 .. i + 1 = (1 .. i) \union {i + 1}
    OBVIOUS
  <1> QED BY <1>1

LEMMA SameEnd ==
    ASSUME NEW a \in Nat, NEW b \in Nat, 1 .. a = 1 .. b
    PROVE  a = b
  <1>1. a <= b
    <2>1. a = 0 \/ a \in 1 .. b
      OBVIOUS
    <2> QED BY <2>1
  <1>2. b <= a
    <2>1. b = 0 \/ b \in 1 .. a
      OBVIOUS
    <2> QED BY <2>1
  <1> QED BY <1>1, <1>2

LEMMA FormatStep ==
    ASSUME NEW pages \in Seq(Nat), NEW i \in Nat, i + 1 \in 1 .. Len(pages),
           NEW terms, Formatted(terms, pages, i)
    PROVE  Formatted(AddPage(terms, pages, i + 1), pages, i + 1)
  <1> DEFINE new == AddPage(terms, pages, i + 1)
             L == Len(terms)
             x == pages[i + 1]
  <1>1. terms \in Seq(Term) /\ new \in Seq(Term) /\ L \in Nat /\ x \in Nat
    <2>1. terms \in Seq(Term)
      BY DEF Formatted
    <2> QED BY <2>1, AddPageTerms, LenProperties, ElementOfSeq
  <1>2. \A j \in 1 .. L : terms[j] \in Term /\ terms[j].First \in Nat /\ terms[j].Last \in Nat
    <2>1. \A j \in 1 .. L : terms[j] \in Term
      BY <1>1, ElementOfSeq
    <2> QED BY <2>1 DEF Term
  <1>3. /\ i > 0 => L > 0 /\ terms[L].Last = pages[i]
        /\ \A j \in 1 .. L : terms[j].First <= terms[j].Last
        /\ Named(terms, L) = {pages[a] : a \in 1 .. i}
    BY DEF Formatted
  <1>4. {pages[a] : a \in 1 .. i + 1} = Named(terms, L) \union {x}
    BY <1>3, PagesNext
  <1>5. CASE Continues(pages, i + 1)
    <2>1. i > 0 /\ x = pages[i] + 1
      <3>1. i + 1 > 1 /\ pages[i + 1] = pages[(i + 1) - 1] + 1
        BY <1>5 DEF Continues
      <3>2. (i + 1) - 1 = i
        OBVIOUS
      <3> QED BY <3>1, <3>2
    <2>2. L > 0 /\ L \in 1 .. L /\ terms[L].Last + 1 = x /\ terms[L].First <= terms[L].Last
      <3>1. L > 0 /\ terms[L].Last = pages[i]
        BY <1>3, <2>1
      <3>2. L \in 1 .. L
        BY <1>1, <3>1
      <3> QED BY <1>3, <2>1, <3>1, <3>2
    <2>3. new = [terms EXCEPT ![L].Last = x]
      BY <1>5 DEF AddPage
    <2>4. /\ Len(new) = L
          /\ \A j \in 1 .. L : j # L => new[j] = terms[j]
          /\ new[L].First = terms[L].First /\ new[L].Last = x
      <3>1. DOMAIN terms = 1 .. L /\ DOMAIN new = 1 .. Len(new) /\ Len(new) \in Nat
        BY <1>1, LenProperties
      <3> HIDE DEF L, x
      <3>2. DOMAIN new = DOMAIN terms /\ \A j \in 1 .. L : j # L => new[j] = terms[j]
        BY <2>3, <3>1
      <3>3. terms[L] \in [First : Nat, Last : Nat]
        BY <1>2, <2>2 DEF Term
      <3>4. new[L] = [terms[L] EXCEPT !.Last = x]
        BY <2>2, <2>3, <3>1
      <3>5. new[L].First = terms[L].First /\ new[L].Last = x
        <4> HIDE DEF new
        <4> QED BY <3>3, <3>4
      <3>6. Len(new) = L
        <4> HIDE DEF new
        <4>1. 1 .. Len(new) = 1 .. L
          BY <3>1, <3>2
        <4> QED BY <1>1, <3>1, <4>1, SameEnd
      <3> QED BY <3>2, <3>5, <3>6
    <2> HIDE DEF new, L, x
    <2>5. \A j \in 1 .. L : new[j].First <= new[j].Last
      <3> SUFFICES ASSUME NEW j \in 1 .. L PROVE new[j].First <= new[j].Last
        OBVIOUS
      <3>1. CASE j # L
        BY <1>3, <2>4, <3>1
      <3>2. CASE j = L
        <4>1. terms[L].First \in Nat /\ terms[L].Last \in Nat
          BY <1>2, <2>2
        <4> QED BY <2>2, <2>4, <3>2, <4>1
      <3> QED BY <3>1, <3>2
    <2>6. Named(new, L) = Named(terms, L) \union {x}
      <3>1. L - 1 \in Nat /\ (L - 1) + 1 = L
        BY <1>1, <2>2
      <3>2. /\ Named(new, L) = Named(new, L - 1) \union (new[L].First .. new[L].Last)
            /\ Named(terms, L) = Named(terms, L - 1) \union (terms[L].First .. terms[L].Last)
        <4>1. \A s : Named(s, (L - 1) + 1) = Named(s, L - 1) \union (s[(L - 1) + 1].First .. s[(L - 1) + 1].Last)
          BY <3>1, NamedNext
        <4> QED BY <3>1, <4>1
      <3>3. Named(new, L - 1) = Named(terms, L - 1)
        <4>1. \A j \in 1 .. L - 1 : new[j] = terms[j]
          BY <1>1, <2>4
        <4> QED BY <4>1, NamedSame
      <3>4. new[L].First .. new[L].Last = (terms[L].First .. terms[L].Last) \union {x}
        <4>1. terms[L].First \in Nat /\ terms[L].Last \in Nat
          BY <1>2, <2>2
        <4> DEFINE f == terms[L].First
                   l == terms[L].Last
        <4>2. f \in Nat /\ l \in Nat /\ f <= l /\ x = l + 1
          BY <2>2, <4>1
        <4> HIDE DEF f, l
        <4>3. f .. x = (f .. l) \union {x}
          BY <4>2
        <4> QED BY <2>4, <4>3 DEF f, l
      <3> QED BY <3>2, <3>3, <3>4
    <2>7. /\ Named(new, Len(new)) = {pages[a] : a \in 1 .. i + 1}
          /\ Len(new) > 0 /\ new[Len(new)].Last = pages[i + 1]
          /\ \A j \in 1 .. Len(new) : new[j].First <= new[j].Last
      BY <1>4, <2>2, <2>4, <2>5, <2>6 DEF x
    <2>8. i + 1 # 0
      OBVIOUS
    <2>9. Formatted(new, pages, i + 1)
      BY <1>1, <2>7, <2>8 DEF Formatted
    <2> QED BY <2>9 DEF new
  <1>6. CASE ~Continues(pages, i + 1)
    <2> DEFINE e == [First |-> x, Last |-> x]
    <2>1. new = Append(terms, e)
      BY <1>6 DEF AddPage
    <2>2. e \in Term /\ e.First = x /\ e.Last = x
      BY <1>1 DEF Term
    <2> HIDE DEF new, x, e, L
    <2>3. Len(new) = L + 1 /\ new[L + 1] = e /\ \A j \in 1 .. L : new[j] = terms[j]
      <3>1. /\ Len(Append(terms, e)) = Len(terms) + 1
            /\ \A j \in 1 .. Len(terms) : Append(terms, e)[j] = terms[j]
            /\ Append(terms, e)[Len(terms) + 1] = e
        BY <1>1, <2>2, AppendProperties
      <3> QED BY <2>1, <3>1 DEF L
    <2>4. \A j \in 1 .. L + 1 : new[j].First <= new[j].Last
      <3> SUFFICES ASSUME NEW j \in 1 .. L + 1 PROVE new[j].First <= new[j].Last
        OBVIOUS
      <3>1. CASE j = L + 1
        BY <1>1, <2>2, <2>3, <3>1
      <3>2. CASE j # L + 1
        <4>1. j \in 1 .. L
          BY <1>1, <3>2
        <4> QED BY <1>3, <2>3, <4>1
      <3> QED BY <3>1, <3>2
    <2>5. Named(new, L + 1) = Named(terms, L) \union {x}
      <3>1. Named(new, L + 1) = Named(new, L) \union (new[L + 1].First .. new[L + 1].Last)
        BY <1>1, NamedNext
      <3>2. Named(new, L) = Named(terms, L)
        BY <2>3, NamedSame
      <3>3. x .. x = {x}
        BY <1>1
      <3> QED BY <2>2, <2>3, <3>1, <3>2, <3>3
    <2>6. /\ Named(new, Len(new)) = {pages[a] : a \in 1 .. i + 1}
          /\ Len(new) > 0 /\ new[Len(new)].Last = pages[i + 1]
          /\ \A j \in 1 .. Len(new) : new[j].First <= new[j].Last
      <3>1. L + 1 > 0
        BY <1>1
      <3> QED BY <1>4, <2>2, <2>3, <2>4, <2>5, <3>1 DEF x
    <2>7. i + 1 # 0
      OBVIOUS
    <2>8. Formatted(new, pages, i + 1)
      BY <1>1, <2>6, <2>7 DEF Formatted
    <2> QED BY <2>8 DEF new
  <1> QED BY <1>5, <1>6

LEMMA FormatProperties ==
    ASSUME NEW pages \in Seq(Nat)
    PROVE  LET terms == FormatPages(pages)
           IN  /\ terms \in Seq(Term)
               /\ pages # <<>> => terms # <<>>
               /\ \A j \in 1 .. Len(terms) : terms[j].First <= terms[j].Last
               /\ Named(terms, Len(terms)) = ToSet(pages)
  <1>1. PICK f : /\ f[0] = <<>>
                 /\ \A i \in 1 .. Len(pages) : f[i] = AddPage(f[i - 1], pages, i)
                 /\ FormatPages(pages) = f[Len(pages)]
    BY FormatRuns
  <1>2. Len(pages) \in Nat /\ DOMAIN pages = 1 .. Len(pages)
    BY LenProperties
  <1> DEFINE S == {i \in Nat : i <= Len(pages) => Formatted(f[i], pages, i)}
  <1>3. 0 \in S
    <2>1. <<>> \in Seq(Term) /\ Len(<<>>) = 0
      BY EmptySeq
    <2>2. Named(<<>>, 0) = {} /\ {pages[a] : a \in 1 .. 0} = {}
      BY DEF Named
    <2>3. Formatted(<<>>, pages, 0)
      BY <2>1, <2>2 DEF Formatted
    <2> HIDE DEF Formatted
    <2> QED BY <1>1, <2>3
  <1>4. ASSUME NEW i \in S PROVE i + 1 \in S
    <2> SUFFICES ASSUME i + 1 <= Len(pages) PROVE Formatted(f[i + 1], pages, i + 1)
      OBVIOUS
    <2>1. i \in Nat /\ Formatted(f[i], pages, i) /\ i + 1 \in 1 .. Len(pages)
      BY <1>2
    <2>2. f[i + 1] = AddPage(f[i], pages, i + 1)
      <3>1. (i + 1) - 1 = i
        BY <2>1
      <3> QED BY <1>1, <2>1, <3>1
    <2> QED BY <2>1, <2>2, FormatStep
  <1>5. S = Nat
    <2>1. S \in SUBSET Nat
      OBVIOUS
    <2> HIDE DEF S
    <2> QED BY <1>3, <1>4, <2>1, Induct
  <1>6. Formatted(f[Len(pages)], pages, Len(pages))
    BY <1>2, <1>5
  <1>7. ToSet(pages) = {pages[a] : a \in 1 .. Len(pages)}
    BY <1>2 DEF ToSet
  <1>8. pages # <<>> => Len(pages) > 0
    BY <1>2, EmptySeq
  <1> QED BY <1>1, <1>6, <1>7, <1>8 DEF Formatted

\* Two ascending lists of the same pages agree up to any page.
LEMMA NoEarlierPage ==
    ASSUME NEW s \in Seq(Nat), NEW t \in Seq(Nat), Ascending(s), Ascending(t),
           ToSet(t) \subseteq ToSet(s),
           NEW m \in 1 .. Len(s), m <= Len(t), \A k \in 1 .. m - 1 : s[k] = t[k]
    PROVE  s[m] <= t[m]
  <1>1. Len(s) \in Nat /\ Len(t) \in Nat /\ DOMAIN s = 1 .. Len(s) /\ DOMAIN t = 1 .. Len(t)
    BY LenProperties
  <1>2. m \in 1 .. Len(t) /\ m \in Nat
    BY <1>1
  <1>3. PICK a \in 1 .. Len(s) : s[a] = t[m]
    BY <1>1, <1>2 DEF ToSet
  <1>4. s[m] \in Nat /\ s[a] \in Nat
    BY ElementOfSeq
  <1>5. CASE a < m
    <2>1. a \in 1 .. m - 1 /\ a \in 1 .. Len(t)
      BY <1>1, <1>2, <1>5
    <2>2. s[a] = t[a] /\ t[a] < t[m]
      BY <1>2, <1>5, <2>1 DEF Ascending
    <2> QED BY <1>3, <1>4, <2>2
  <1>6. CASE a = m
    BY <1>3, <1>4, <1>6
  <1>7. CASE m < a
    <2>1. s[m] < s[a]
      BY <1>7 DEF Ascending
    <2> QED BY <1>3, <1>4, <2>1
  <1> QED BY <1>2, <1>5, <1>6, <1>7

LEMMA PageAtMost ==
    ASSUME NEW s \in Seq(Nat), NEW t \in Seq(Nat), Ascending(s), Ascending(t),
           ToSet(t) \subseteq ToSet(s), \A k \in Nat : k \in 1 .. Len(s) /\ k \in 1 .. Len(t) => s[k] = t[k]
    PROVE  Len(t) <= Len(s)
  <1>1. Len(s) \in Nat /\ Len(t) \in Nat /\ DOMAIN s = 1 .. Len(s) /\ DOMAIN t = 1 .. Len(t)
    BY LenProperties
  <1> SUFFICES ASSUME Len(s) < Len(t) PROVE FALSE
    BY <1>1
  <1>2. Len(t) \in 1 .. Len(t)
    BY <1>1
  <1>3. PICK a \in 1 .. Len(s) : s[a] = t[Len(t)]
    BY <1>1, <1>2 DEF ToSet
  <1>4. a \in 1 .. Len(t) /\ a < Len(t) /\ a \in Nat
    BY <1>1
  <1>5. t[a] < t[Len(t)] /\ s[a] = t[a] /\ t[a] \in Nat
    BY <1>2, <1>4, ElementOfSeq DEF Ascending
  <1> QED BY <1>3, <1>5

\* The same pages ascending are the same sequence.
LEMMA AscendingUnique ==
    ASSUME NEW s \in Seq(Nat), NEW t \in Seq(Nat), Ascending(s), Ascending(t), ToSet(s) = ToSet(t)
    PROVE  s = t
  <1>1. Len(s) \in Nat /\ Len(t) \in Nat /\ DOMAIN s = 1 .. Len(s) /\ DOMAIN t = 1 .. Len(t)
    BY LenProperties
  <1>2. \A k \in Nat : k \in 1 .. Len(s) /\ k \in 1 .. Len(t) => s[k] = t[k]
    <2> DEFINE differ == {k \in Nat : k \in 1 .. Len(s) /\ k \in 1 .. Len(t) /\ s[k] # t[k]}
    <2> SUFFICES ASSUME differ # {} PROVE FALSE
      OBVIOUS
    <2>1. PICK m \in differ : \A k \in differ : m <= k
      <3>1. differ \in SUBSET Nat
        OBVIOUS
      <3> HIDE DEF differ
      <3> QED BY <3>1, Least
    <2>2. m \in Nat /\ m \in 1 .. Len(s) /\ m \in 1 .. Len(t) /\ s[m] # t[m]
      BY <2>1
    <2>3. \A k \in 1 .. m - 1 : s[k] = t[k] /\ t[k] = s[k]
      <3> SUFFICES ASSUME NEW k \in 1 .. m - 1 PROVE s[k] = t[k]
        OBVIOUS
      <3>1. k \in Nat /\ k \in 1 .. Len(s) /\ k \in 1 .. Len(t) /\ ~(m <= k)
        BY <1>1, <2>2
      <3> QED BY <2>1, <3>1
    <2>4. /\ ToSet(s) \subseteq ToSet(t) /\ ToSet(t) \subseteq ToSet(s)
          /\ m <= Len(s) /\ m <= Len(t)
          /\ \A k \in 1 .. m - 1 : s[k] = t[k]
          /\ \A k \in 1 .. m - 1 : t[k] = s[k]
      BY <1>1, <2>2, <2>3
    <2> HIDE DEF differ
    <2>5. s[m] <= t[m]
      BY <2>2, <2>4, NoEarlierPage
    <2>7. t[m] <= s[m]
      BY <2>2, <2>4, NoEarlierPage
    <2>6. s[m] \in Nat /\ t[m] \in Nat
      BY <2>2, ElementOfSeq
    <2> QED BY <2>2, <2>5, <2>6, <2>7
  <1>3. Len(t) <= Len(s)
    BY <1>2, PageAtMost
  <1>4. Len(s) <= Len(t)
    BY <1>2, PageAtMost
  <1>5. Len(s) = Len(t)
    <2>1. \A x, y \in Nat : x <= y /\ y <= x => x = y
      OBVIOUS
    <2> QED BY <1>1, <1>3, <1>4, <2>1
  <1>6. \A k \in 1 .. Len(s) : s[k] = t[k]
    BY <1>1, <1>2, <1>5
  <1> QED BY <1>5, <1>6, SeqEqual

\* The terms written for the pages of legal ranges are legal, and select these pages.
LEMMA ReadBack ==
    ASSUME NEW s \in Seq(Term), NEW count \in Nat, Legal(s, count)
    PROVE  Select(FormatPages(Select(s, count).pages), count) = Select(s, count)
  <1> DEFINE pages == Select(s, count).pages
             terms == FormatPages(pages)
  <1>1. pages \in Seq(Nat) /\ Ascending(pages) /\ ToSet(pages) = Named(s, Len(s))
    BY SelectProperties
  <1>2. /\ Len(s) \in Nat /\ 1 \in 1 .. Len(s)
        /\ \A j \in 1 .. Len(s) : /\ s[j].First \in Nat /\ s[j].Last \in Nat
                                  /\ 1 <= s[j].First /\ s[j].First <= s[j].Last /\ s[j].Last <= count
    <2>1. Len(s) \in Nat /\ DOMAIN s = 1 .. Len(s) /\ Len(s) # 0
      BY LenProperties, EmptySeq DEF Legal
    <2>2. \A j \in 1 .. Len(s) : s[j] \in Term
      BY ElementOfSeq
    <2>3. \A j \in 1 .. Len(s) : s[j].First \in Nat /\ s[j].Last \in Nat
      BY <2>2 DEF Term
    <2>4. 1 \in 1 .. Len(s)
      BY <2>1
    <2> QED BY <2>1, <2>3, <2>4 DEF Legal
  <1>3. pages # <<>> /\ \A x \in ToSet(pages) : x \in 1 .. count
    <2> HIDE DEF pages
    <2>1. s[1].First \in ToSet(pages)
      <3>1. s[1].First \in s[1].First .. s[1].Last
        BY <1>2
      <3> QED BY <1>1, <1>2, <3>1 DEF Named
    <2>2. ToSet(<<>>) = {}
      BY DEF ToSet
    <2>3. ASSUME NEW x \in Named(s, Len(s)) PROVE x \in 1 .. count
      <3>1. PICK j \in 1 .. Len(s) : x \in s[j].First .. s[j].Last
        BY DEF Named
      <3>2. s[j].First \in Nat /\ s[j].Last \in Nat /\ 1 <= s[j].First /\ s[j].Last <= count
        BY <1>2
      <3> QED BY <3>1, <3>2
    <2>4. pages # <<>>
      BY <2>1, <2>2
    <2> QED BY <1>1, <2>3, <2>4
  <1>4. /\ terms \in Seq(Term) /\ terms # <<>>
        /\ \A j \in 1 .. Len(terms) : terms[j].First <= terms[j].Last
        /\ Named(terms, Len(terms)) = ToSet(pages)
    <2> HIDE DEF pages
    <2> QED BY <1>1, <1>3, FormatProperties
  <1> HIDE DEF pages, terms
  <1>5. Legal(terms, count)
    <2> SUFFICES ASSUME NEW j \in 1 .. Len(terms)
                 PROVE  1 <= terms[j].First /\ terms[j].First <= terms[j].Last /\ terms[j].Last <= count
      BY <1>4, LenProperties DEF Legal
    <2>1. terms[j].First \in Nat /\ terms[j].Last \in Nat /\ terms[j].First <= terms[j].Last
      <3>1. terms[j] \in Term
        BY <1>4, ElementOfSeq
      <3> QED BY <1>4, <3>1 DEF Term
    <2>2. /\ terms[j].First \in terms[j].First .. terms[j].Last
          /\ terms[j].Last \in terms[j].First .. terms[j].Last
      BY <2>1
    <2>3. terms[j].First \in Named(terms, Len(terms)) /\ terms[j].Last \in Named(terms, Len(terms))
      BY <2>2 DEF Named
    <2>4. terms[j].First \in 1 .. count /\ terms[j].Last \in 1 .. count
      BY <1>3, <1>4, <2>3
    <2> QED BY <2>1, <2>4
  <1> DEFINE again == Select(terms, count).pages
  <1>6. again \in Seq(Nat) /\ Ascending(again) /\ ToSet(again) = Named(terms, Len(terms))
    BY <1>4, <1>5, SelectProperties
  <1>7. again = pages
    <2> HIDE DEF again
    <2> QED BY <1>1, <1>4, <1>6, AscendingUnique
  <1>8. Select(terms, count) = [ok |-> TRUE, pages |-> again]
    BY <1>5 DEF Select
  <1>9. Select(s, count) = [ok |-> TRUE, pages |-> pages]
    BY DEF Select, pages
  <1> HIDE DEF again
  <1> QED BY <1>7, <1>8, <1>9 DEF pages, terms

-----------------------------------------------------------------------------
\* However many ranges a request has, however they overlap and whatever their order,
\* Select gives each page they name once, ascending (Select, ranges.go).
THEOREM AllSelectsExact == Spec => []SelectExact
  <1>1. InputOk => SelectExact
    <2> SUFFICES ASSUME InputOk, Select(ranges, MaxCount).ok PROVE SelectExact
      BY DEF SelectExact
    <2>1. ranges \in Seq(Term) /\ Legal(ranges, MaxCount)
      BY DEF InputOk, Select, Term
    <2> DEFINE pages == Select(ranges, MaxCount).pages
    <2>2. pages \in Seq(Nat) /\ Ascending(pages) /\ ToSet(pages) = Named(ranges, Len(ranges))
      BY <2>1, SelectProperties
    <2> HIDE DEF pages
    <2>3. ToSet(pages) = UNION {ranges[i].First .. ranges[i].Last : i \in DOMAIN ranges}
      BY <2>1, <2>2, LenProperties DEF Named
    <2>4. ASSUME NEW i \in DOMAIN pages \ {1} PROVE pages[i - 1] < pages[i]
      <3>1. i \in 1 .. Len(pages) /\ i - 1 \in 1 .. Len(pages) /\ i - 1 < i
        <4>1. Len(pages) \in Nat /\ DOMAIN pages = 1 .. Len(pages)
          BY <2>2, LenProperties
        <4> QED BY <4>1
      <3> QED BY <2>2, <3>1 DEF Ascending
    <2> QED BY <2>3, <2>4 DEF SelectExact, pages
  <1> QED BY <1>1, InputInv, PTL

\* What FormatPages writes of selected pages, read back, selects the same pages, for
\* a document of any length: a re-check is of the pages of its part
\* (fanout.recheck, FormatPages).
THEOREM AllFormatsReadBack == Spec => []FormatReadBack
  <1>1. InputOk => FormatReadBack
    <2> SUFFICES ASSUME InputOk, Select(ranges, MaxCount).ok PROVE FormatReadBack
      BY DEF FormatReadBack
    <2>1. ranges \in Seq(Term) /\ Legal(ranges, MaxCount)
      BY DEF InputOk, Select, Term
    <2>2. Select(FormatPages(Select(ranges, MaxCount).pages), MaxCount) = Select(ranges, MaxCount)
      BY <2>1, CountAssumption, ReadBack
    <2> QED BY <2>2 DEF FormatReadBack
  <1> QED BY <1>1, InputInv, PTL

-----------------------------------------------------------------------------
\* The first of some positions is one of them.
LEMMA FirstIn ==
    ASSUME NEW N \in Nat, NEW s \in SUBSET (1 .. N), s # {}
    PROVE  Min(s) \in s
  <1>1. s \in SUBSET Nat
    OBVIOUS
  <1>2. PICK m \in s : \A k \in s : m <= k
    BY <1>1, Least
  <1> QED BY <1>2 DEF Min

\* A name put at a position moves those after it.
LEMMA InsertProperties ==
    ASSUME NEW S, NEW seq \in Seq(S), NEW e \in S, NEW p \in Nat, 1 <= p, p <= Len(seq) + 1
    PROVE  LET new == InsertAt(seq, p, e)
           IN  /\ new \in Seq(S) /\ Len(new) = Len(seq) + 1
               /\ \A i \in 1 .. Len(seq) + 1 :
                      new[i] = IF i < p THEN seq[i] ELSE IF i = p THEN e ELSE seq[i - 1]
  <1> DEFINE L == Len(seq)
             s1 == SubSeq(seq, 1, p - 1)
             s2 == SubSeq(seq, p, L)
             s3 == s1 \o <<e>>
             new == InsertAt(seq, p, e)
  <1>1. L \in Nat /\ \A i \in 1 .. L : seq[i] \in S
    BY LenProperties, ElementOfSeq
  <1>2. p - 1 \in Nat /\ p <= L + 1 /\ p >= 1
    OBVIOUS
  <1> HIDE DEF L
  <1>3. s1 \in Seq(S) /\ Len(s1) = p - 1 /\ \A i \in 1 .. p - 1 : s1[i] = seq[i]
    <2>1. \A i \in 1 .. p - 1 : seq[i] \in S
      BY <1>1, <1>2
    <2>2. /\ s1 \in Seq(S) /\ Len(s1) = IF 1 <= p - 1 THEN (p - 1) - 1 + 1 ELSE 0
          /\ \A i \in 1 .. (p - 1) - 1 + 1 : s1[i] = seq[1 + i - 1]
      <3>1. p - 1 \in Int /\ 1 \in Int
        BY <1>2
      <3> QED BY <2>1, <3>1, SubSeqProperties
    <2> HIDE DEF s1
    <2>3. (p - 1) - 1 + 1 = p - 1 /\ (p - 1 = 0 \/ 1 <= p - 1)
      BY <1>2
    <2>4. \A i \in 1 .. p - 1 : 1 + i - 1 = i
      OBVIOUS
    <2> QED BY <2>2, <2>3, <2>4
  <1>4. s2 \in Seq(S) /\ Len(s2) = L - p + 1 /\ \A i \in 1 .. L - p + 1 : s2[i] = seq[p + i - 1]
    <2>1. \A i \in p .. L : seq[i] \in S
      BY <1>1, <1>2
    <2>2. /\ s2 \in Seq(S) /\ Len(s2) = IF p <= L THEN L - p + 1 ELSE 0
          /\ \A i \in 1 .. L - p + 1 : s2[i] = seq[p + i - 1]
      <3>1. p \in Int /\ L \in Int
        BY <1>1
      <3> QED BY <2>1, <3>1, SubSeqProperties
    <2> HIDE DEF s2
    <2>3. p <= L \/ L - p + 1 = 0
      BY <1>1, <1>2
    <2> QED BY <2>2, <2>3
  <1>5. <<e>> \in Seq(S) /\ Len(<<e>>) = 1 /\ <<e>>[1] = e
    OBVIOUS
  <1>6. new = s3 \o s2
    BY DEF InsertAt, L
  <1> HIDE DEF s1, s2, new
  <1>7. s3 \in Seq(S) /\ Len(s3) = p /\ \A i \in 1 .. p : s3[i] = IF i < p THEN seq[i] ELSE e
    <2>1. /\ s3 \in Seq(S) /\ Len(s3) = (p - 1) + 1
          /\ \A i \in 1 .. (p - 1) + 1 : s3[i] = IF i <= p - 1 THEN s1[i] ELSE <<e>>[i - (p - 1)]
      BY <1>3, <1>5, ConcatProperties
    <2> HIDE DEF s3
    <2>2. (p - 1) + 1 = p
      BY <1>2
    <2>3. ASSUME NEW i \in 1 .. p PROVE s3[i] = IF i < p THEN seq[i] ELSE e
      <3>1. CASE i < p
        <4>1. i \in 1 .. p - 1 /\ i <= p - 1
          BY <1>2, <3>1
        <4> QED BY <1>3, <2>1, <2>2, <3>1, <4>1
      <3>2. CASE i = p
        <4>1. ~(i <= p - 1) /\ i - (p - 1) = 1
          BY <1>2, <3>2
        <4> QED BY <1>5, <2>1, <2>2, <3>2, <4>1
      <3> QED BY <3>1, <3>2
    <2> QED BY <2>1, <2>2, <2>3
  <1> HIDE DEF s3
  <1>8. /\ new \in Seq(S) /\ Len(new) = p + (L - p + 1)
        /\ \A i \in 1 .. p + (L - p + 1) : new[i] = IF i <= p THEN s3[i] ELSE s2[i - p]
    <2>1. /\ s3 \o s2 \in Seq(S) /\ Len(s3 \o s2) = Len(s3) + Len(s2)
          /\ \A i \in 1 .. Len(s3) + Len(s2) : (s3 \o s2)[i] = IF i <= Len(s3) THEN s3[i] ELSE s2[i - Len(s3)]
      BY <1>4, <1>7, ConcatProperties
    <2>2. Len(s3) = p /\ Len(s2) = L - p + 1
      BY <1>4, <1>7
    <2> QED BY <1>6, <2>1, <2>2
  <1>9. p + (L - p + 1) = L + 1
    BY <1>1, <1>2
  <1>10. ASSUME NEW i \in 1 .. L + 1
         PROVE  new[i] = IF i < p THEN seq[i] ELSE IF i = p THEN e ELSE seq[i - 1]
    <2>1. CASE i <= p
      <3>1. i \in 1 .. p
        BY <2>1
      <3>2. new[i] = s3[i]
        BY <1>8, <1>9, <2>1
      <3> QED BY <1>7, <2>1, <3>1, <3>2
    <2>2. CASE i > p
      <3>1. i - p \in 1 .. L - p + 1 /\ p + (i - p) - 1 = i - 1
        BY <1>1, <1>2, <2>2
      <3>2. new[i] = s2[i - p]
        BY <1>8, <1>9, <2>2
      <3>3. s2[i - p] = seq[p + (i - p) - 1]
        BY <1>4, <3>1
      <3> QED BY <2>2, <3>1, <3>2, <3>3
    <2> QED BY <1>2, <2>1, <2>2
  <1> QED BY <1>8, <1>9, <1>10 DEF new, L

\* A name not in a listing yet can go anywhere in it.
LEMMA InsertNew ==
    ASSUME NEW S, NEW seq \in Listings(S), NEW e \in S, e \notin ToSet(seq),
           NEW p \in Nat, 1 <= p, p <= Len(seq) + 1
    PROVE  LET new == InsertAt(seq, p, e)
           IN  new \in Listings(S) /\ ToSet(new) = ToSet(seq) \union {e}
  <1> DEFINE L == Len(seq)
             new == InsertAt(seq, p, e)
  <1>1. seq \in Seq(S) /\ L \in Nat /\ DOMAIN seq = 1 .. L
    BY LenProperties DEF Listings
  <1>2. /\ new \in Seq(S) /\ Len(new) = L + 1
        /\ \A i \in 1 .. L + 1 : new[i] = IF i < p THEN seq[i] ELSE IF i = p THEN e ELSE seq[i - 1]
    <2> HIDE DEF L, new
    <2>1. /\ InsertAt(seq, p, e) \in Seq(S) /\ Len(InsertAt(seq, p, e)) = Len(seq) + 1
          /\ \A i \in 1 .. Len(seq) + 1 :
                 InsertAt(seq, p, e)[i] = IF i < p THEN seq[i] ELSE IF i = p THEN e ELSE seq[i - 1]
      <3>1. seq \in Seq(S)
        BY <1>1
      <3> QED BY <3>1, InsertProperties
    <2> QED BY <2>1 DEF new, L
  <1>3. DOMAIN new = 1 .. L + 1 /\ p <= L + 1
    BY <1>2, LenProperties
  <1>4. \A i \in 1 .. L : seq[i] \in ToSet(seq) /\ seq[i] # e
    BY <1>1 DEF ToSet
  <1>5. \A i, j \in 1 .. L : seq[i] = seq[j] => i = j
    BY <1>1 DEF Listings, IsInjective
  <1> HIDE DEF new, L
  <1>6. \A i \in 1 .. L + 1 : /\ i < p => i \in 1 .. L /\ new[i] = seq[i]
                              /\ i = p => new[i] = e
                              /\ i > p => i - 1 \in 1 .. L /\ new[i] = seq[i - 1]
    BY <1>1, <1>2, <1>3
  <1>7. IsInjective(new)
    <2> SUFFICES ASSUME NEW i \in 1 .. L + 1, NEW j \in 1 .. L + 1, new[i] = new[j] PROVE i = j
      BY <1>3 DEF IsInjective
    <2>1. (i = p) <=> (j = p)
      BY <1>4, <1>6
    <2>2. CASE i < p /\ j < p
      BY <1>5, <1>6, <2>2
    <2>3. CASE i > p /\ j > p
      <3>1. i - 1 = j - 1
        BY <1>5, <1>6, <2>3
      <3> QED BY <3>1
    <2>4. CASE i < p /\ j > p
      <3>1. i = j - 1
        BY <1>5, <1>6, <2>4
      <3> QED BY <2>4, <3>1
    <2>5. CASE i > p /\ j < p
      <3>1. i - 1 = j
        BY <1>5, <1>6, <2>5
      <3> QED BY <2>5, <3>1
    <2> QED BY <2>1, <2>2, <2>3, <2>4, <2>5
  <1>8. ToSet(new) = ToSet(seq) \union {e}
    <2>1. ASSUME NEW i \in 1 .. L + 1 PROVE new[i] \in ToSet(seq) \union {e}
      BY <1>4, <1>6
    <2>2. ASSUME NEW i \in 1 .. L PROVE \E j \in 1 .. L + 1 : new[j] = seq[i]
      <3>1. CASE i < p
        <4>1. i \in 1 .. L + 1
          BY <1>1
        <4> QED BY <1>6, <3>1, <4>1
      <3>2. CASE i >= p
        <4>1. i + 1 \in 1 .. L + 1 /\ i + 1 > p /\ (i + 1) - 1 = i
          BY <1>1, <3>2
        <4>2. new[i + 1] = seq[i]
          BY <1>6, <4>1
        <4> QED BY <4>1, <4>2
      <3> QED BY <3>1, <3>2
    <2>3. p \in 1 .. L + 1 /\ new[p] = e
      BY <1>1, <1>3, <1>6
    <2>4. ToSet(new) \subseteq ToSet(seq) \union {e}
      BY <1>3, <2>1 DEF ToSet
    <2>5. ToSet(seq) \subseteq ToSet(new) /\ e \in ToSet(new)
      BY <1>1, <1>3, <2>2, <2>3 DEF ToSet
    <2> QED BY <2>4, <2>5
  <1>9. new \in Listings(S)
    BY <1>2, <1>7 DEF Listings
  <1> QED BY <1>8, <1>9 DEF new

\* Prefer adds its name, unless it is there, and loses none.
LEMMA PreferAdds ==
    ASSUME NEW S, NEW acc \in Listings(S), NEW list \in Seq(S), NEW i \in 1 .. Len(list)
    PROVE  /\ Prefer(acc, list, i) \in Listings(S)
           /\ ToSet(Prefer(acc, list, i)) = ToSet(acc) \union {list[i]}
  <1>1. acc \in Seq(S) /\ Len(acc) \in Nat /\ DOMAIN acc = 1 .. Len(acc) /\ list[i] \in S
    BY LenProperties, ElementOfSeq DEF Listings
  <1>2. Contains(acc, list[i]) <=> list[i] \in ToSet(acc)
    BY <1>1 DEF Contains, ToSet
  <1>3. CASE Contains(acc, list[i])
    <2>1. Prefer(acc, list, i) = acc
      BY <1>3 DEF Prefer
    <2>2. list[i] \in ToSet(acc)
      BY <1>2, <1>3
    <2> QED BY <2>1, <2>2
  <1>4. CASE ~Contains(acc, list[i]) /\ i = 1
    <2>1. Prefer(acc, list, i) = <<list[1]>> \o acc
      BY <1>4 DEF Prefer
    <2>2. InsertAt(acc, 1, list[1]) = (SubSeq(acc, 1, 0) \o <<list[1]>>) \o SubSeq(acc, 1, Len(acc))
      <3>1. 1 - 1 = 0
        OBVIOUS
      <3> QED BY <3>1 DEF InsertAt
    <2>3. SubSeq(acc, 1, 0) = <<>> /\ SubSeq(acc, 1, Len(acc)) = acc
      BY <1>1, SubSeqEmpty, SubSeqFull
    <2>4. <<>> \o <<list[1]>> = <<list[1]>>
      <3>1. <<list[1]>> \in Seq(S)
        BY <1>1, <1>4
      <3> QED BY <3>1, ConcatEmptySeq
    <2>5. Prefer(acc, list, i) = InsertAt(acc, 1, list[1])
      BY <2>1, <2>2, <2>3, <2>4
    <2>6. /\ InsertAt(acc, 1, list[1]) \in Listings(S)
          /\ ToSet(InsertAt(acc, 1, list[1])) = ToSet(acc) \union {list[1]}
      <3>1. 1 \in Nat /\ 1 <= 1 /\ 1 <= Len(acc) + 1 /\ list[1] \in S /\ list[1] \notin ToSet(acc)
        BY <1>1, <1>2, <1>4
      <3> QED BY <3>1, InsertNew
    <2> QED BY <1>4, <2>5, <2>6
  <1>5. CASE ~Contains(acc, list[i]) /\ i # 1
    <2> DEFINE found == {j \in 1 .. Len(acc) : acc[j] = list[i - 1]}
               at == IF found # {} THEN Min(found) ELSE 0
    <2>1. Prefer(acc, list, i) = InsertAt(acc, at + 1, list[i])
      BY <1>5 DEF Prefer, SelectInSeq
    <2>2. found # {} => Min(found) \in found
      <3>1. found \in SUBSET (1 .. Len(acc))
        OBVIOUS
      <3> HIDE DEF found
      <3> QED BY <1>1, <3>1, FirstIn
    <2>3. at + 1 \in Nat /\ 1 <= at + 1 /\ at + 1 <= Len(acc) + 1
      <3>1. at = 0 \/ at \in 1 .. Len(acc)
        BY <2>2
      <3> HIDE DEF at
      <3> QED BY <1>1, <3>1
    <2> HIDE DEF at
    <2>4. list[i] \notin ToSet(acc)
      BY <1>2, <1>5
    <2> QED BY <1>1, <2>1, <2>3, <2>4, InsertNew
  <1> QED BY <1>3, <1>4, <1>5

\* The fold of one list, one name after another.
LEMMA PreferListRuns ==
    ASSUME NEW S, NEW pref \in Listings(S), NEW list \in Seq(S)
    PROVE  \E f : /\ f[0] = pref
                  /\ \A i \in 1 .. Len(list) : f[i] = Prefer(f[i - 1], list, i)
                  /\ PreferList(pref, list) = f[Len(list)]
  <1> DEFINE N == Len(list)
             index == [i \in 1 .. N |-> i]
             step == [i \in 1 .. N |-> [acc \in Listings(S) |-> Prefer(acc, list, i)]]
             iter == CHOOSE it : it = [s \in SUBSET (1 .. N) |->
                                         IF s = {} THEN pref
                                         ELSE Prefer(it[s \ {Max(s)}], list, index[Max(s)])]
  <1>1. N \in Nat /\ DOMAIN list = 1 .. N /\ DOMAIN index = 1 .. N /\ \A i \in 1 .. N : index[i] = i
    BY LenProperties
  <1>2. step \in [1 .. N -> [Listings(S) -> Listings(S)]]
    <2>1. \A i \in 1 .. N : \A acc \in Listings(S) : Prefer(acc, list, i) \in Listings(S)
      BY PreferAdds
    <2> QED BY <2>1
  <1>3. PreferList(pref, list) = iter[1 .. N]
    <2>1. index = [i \in DOMAIN list |-> i]
      BY <1>1
    <2> HIDE DEF index
    <2>2. PreferList(pref, list) = FoldLeft(LAMBDA acc, i : Prefer(acc, list, i), pref, index)
      BY <2>1 DEF PreferList, FoldLeftDomain
    <2>3. PreferList(pref, list) = iter[DOMAIN index]
      BY <1>1, <2>2 DEF FoldLeft, MapThenFoldSet
    <2> QED BY <1>1, <2>3
  <1> HIDE DEF N
  <1>4. iter = [s \in SUBSET (1 .. N) |->
                   IF s = {} THEN pref ELSE Prefer(iter[s \ {Max(s)}], list, index[Max(s)])]
    <2> HIDE DEF step
    <2> HIDE DEF iter, index
    <2>1. PICK g \in [SUBSET (1 .. N) -> Listings(S)] : IsTable(g, N, pref, step)
      BY <1>1, <1>2, TableExists
    <2>2. \A s \in SUBSET (1 .. N) : g[s] = IF s = {} THEN pref ELSE Prefer(g[s \ {Max(s)}], list, index[Max(s)])
      <3> SUFFICES ASSUME NEW s \in SUBSET (1 .. N), s # {}
                   PROVE  g[s] = Prefer(g[s \ {Max(s)}], list, index[Max(s)])
        BY <2>1 DEF IsTable
      <3>1. Max(s) \in 1 .. N /\ index[Max(s)] = Max(s)
        BY <1>1, MaxIn
      <3>2. g[s \ {Max(s)}] \in Listings(S)
        BY <2>1
      <3> QED BY <2>1, <3>1, <3>2 DEF step, IsTable
    <2>3. g = [s \in SUBSET (1 .. N) |->
                  IF s = {} THEN pref ELSE Prefer(g[s \ {Max(s)}], list, index[Max(s)])]
      BY <2>1, <2>2
    <2> QED BY <2>3 DEF iter
  <1> HIDE DEF iter, step, index
  <1> DEFINE f == [i \in 0 .. N |-> iter[1 .. i]]
  <1>5. f[0] = pref
    <2>1. 1 .. 0 = {} /\ 0 \in 0 .. N
      BY <1>1
    <2> QED BY <1>4, <2>1
  <1>6. ASSUME NEW i \in 1 .. N PROVE f[i] = Prefer(f[i - 1], list, i)
    <2>1. /\ 1 .. i \in SUBSET (1 .. N) /\ 1 .. i # {} /\ Max(1 .. i) = i
          /\ (1 .. i) \ {i} = 1 .. i - 1 /\ i - 1 \in 0 .. N
      BY <1>1, Initial
    <2>2. iter[1 .. i] = Prefer(iter[(1 .. i) \ {Max(1 .. i)}], list, index[Max(1 .. i)])
      BY <1>4, <2>1
    <2>3. i \in 0 .. N /\ index[i] = i
      BY <1>1
    <2> QED BY <2>1, <2>2, <2>3
  <1>7. f[N] = iter[1 .. N]
    BY <1>1
  <1> HIDE DEF f
  <1> QED BY <1>3, <1>5, <1>6, <1>7 DEF N

\* A list adds its names.
LEMMA PreferListAdds ==
    ASSUME NEW S, NEW pref \in Listings(S), NEW list \in Seq(S)
    PROVE  /\ PreferList(pref, list) \in Listings(S)
           /\ ToSet(PreferList(pref, list)) = ToSet(pref) \union ToSet(list)
  <1>1. PICK f : /\ f[0] = pref
                 /\ \A i \in 1 .. Len(list) : f[i] = Prefer(f[i - 1], list, i)
                 /\ PreferList(pref, list) = f[Len(list)]
    BY PreferListRuns
  <1>2. Len(list) \in Nat /\ DOMAIN list = 1 .. Len(list)
    BY LenProperties
  <1> DEFINE Added(i) == f[i] \in Listings(S) /\ ToSet(f[i]) = ToSet(pref) \union {list[a] : a \in 1 .. i}
             M == {i \in Nat : i <= Len(list) => Added(i)}
  <1>3. 0 \in M
    <2>1. {list[a] : a \in 1 .. 0} = {}
      OBVIOUS
    <2> QED BY <1>1, <2>1
  <1>4. ASSUME NEW i \in M PROVE i + 1 \in M
    <2> SUFFICES ASSUME i + 1 <= Len(list) PROVE Added(i + 1)
      OBVIOUS
    <2>1. i \in Nat /\ Added(i) /\ i + 1 \in 1 .. Len(list)
      BY <1>2
    <2>2. f[i + 1] = Prefer(f[i], list, i + 1)
      <3>1. (i + 1) - 1 = i
        BY <2>1
      <3> QED BY <1>1, <2>1, <3>1
    <2>3. /\ f[i + 1] \in Listings(S)
          /\ ToSet(f[i + 1]) = ToSet(f[i]) \union {list[i + 1]}
      BY <2>1, <2>2, PreferAdds
    <2>4. {list[a] : a \in 1 .. i + 1} = {list[a] : a \in 1 .. i} \union {list[i + 1]}
      BY <2>1, PagesNext
    <2> QED BY <2>1, <2>3, <2>4
  <1>5. M = Nat
    <2>1. M \in SUBSET Nat
      OBVIOUS
    <2> HIDE DEF M
    <2> QED BY <1>3, <1>4, <2>1, Induct
  <1>6. Added(Len(list))
    BY <1>2, <1>5
  <1>7. ToSet(list) = {list[a] : a \in 1 .. Len(list)}
    BY <1>2 DEF ToSet
  <1> QED BY <1>1, <1>6, <1>7

\* The fold of all lists, one after another.
LEMMA PreferredRuns ==
    ASSUME NEW S, NEW ls \in Seq(Seq(S))
    PROVE  \E f : /\ f[0] = <<>>
                  /\ \A i \in 1 .. Len(ls) : f[i] = PreferList(f[i - 1], ls[i])
                  /\ Preferred(ls) = f[Len(ls)]
  <1> DEFINE N == Len(ls)
             base == <<>>
             step == [i \in 1 .. N |-> [acc \in Listings(S) |-> PreferList(acc, ls[i])]]
             iter == CHOOSE it : it = [s \in SUBSET (1 .. N) |->
                                         IF s = {} THEN base
                                         ELSE PreferList(it[s \ {Max(s)}], ls[Max(s)])]
  <1>1. N \in Nat /\ DOMAIN ls = 1 .. N /\ \A i \in 1 .. N : ls[i] \in Seq(S)
    BY LenProperties, ElementOfSeq
  <1>2. base \in Listings(S)
    <2>1. <<>> \in Seq(S) /\ IsInjective(<<>>)
      BY EmptySeq DEF IsInjective
    <2> QED BY <2>1 DEF Listings
  <1>3. step \in [1 .. N -> [Listings(S) -> Listings(S)]]
    <2>1. \A i \in 1 .. N : \A acc \in Listings(S) : PreferList(acc, ls[i]) \in Listings(S)
      <3> HIDE DEF N
      <3> QED BY <1>1, PreferListAdds
    <2> QED BY <2>1
  <1>4. Preferred(ls) = iter[1 .. N]
    <2>1. Preferred(ls) = iter[DOMAIN ls]
      BY <1>1 DEF Preferred, FoldLeft, MapThenFoldSet
    <2> QED BY <1>1, <2>1
  <1> HIDE DEF N, base
  <1>5. iter = [s \in SUBSET (1 .. N) |->
                   IF s = {} THEN base ELSE PreferList(iter[s \ {Max(s)}], ls[Max(s)])]
    <2> HIDE DEF step
    <2> HIDE DEF iter
    <2>1. PICK g \in [SUBSET (1 .. N) -> Listings(S)] : IsTable(g, N, base, step)
      BY <1>1, <1>2, <1>3, TableExists
    <2>2. \A s \in SUBSET (1 .. N) : g[s] = IF s = {} THEN base ELSE PreferList(g[s \ {Max(s)}], ls[Max(s)])
      <3> SUFFICES ASSUME NEW s \in SUBSET (1 .. N), s # {}
                   PROVE  g[s] = PreferList(g[s \ {Max(s)}], ls[Max(s)])
        BY <2>1 DEF IsTable
      <3>1. Max(s) \in 1 .. N
        BY <1>1, MaxIn
      <3>2. g[s \ {Max(s)}] \in Listings(S)
        BY <2>1
      <3> QED BY <2>1, <3>1, <3>2 DEF step, IsTable
    <2>3. g = [s \in SUBSET (1 .. N) |->
                  IF s = {} THEN base ELSE PreferList(g[s \ {Max(s)}], ls[Max(s)])]
      BY <2>1, <2>2
    <2> QED BY <2>3 DEF iter
  <1> HIDE DEF iter, step
  <1> DEFINE f == [i \in 0 .. N |-> iter[1 .. i]]
  <1>6. f[0] = base
    <2>1. 1 .. 0 = {} /\ 0 \in 0 .. N
      BY <1>1
    <2> QED BY <1>5, <2>1
  <1>7. ASSUME NEW i \in 1 .. N PROVE f[i] = PreferList(f[i - 1], ls[i])
    <2>1. /\ 1 .. i \in SUBSET (1 .. N) /\ 1 .. i # {} /\ Max(1 .. i) = i
          /\ (1 .. i) \ {i} = 1 .. i - 1 /\ i - 1 \in 0 .. N
      BY <1>1, Initial
    <2>2. iter[1 .. i] = PreferList(iter[(1 .. i) \ {Max(1 .. i)}], ls[Max(1 .. i)])
      BY <1>5, <2>1
    <2>3. i \in 0 .. N
      OBVIOUS
    <2> QED BY <2>1, <2>2, <2>3
  <1>8. f[N] = iter[1 .. N]
    BY <1>1
  <1> HIDE DEF f
  <1> QED BY <1>4, <1>6, <1>7, <1>8 DEF base, N

NamesIn(ls) == UNION {ToSet(ls[k]) : k \in DOMAIN ls}

\* The order of first sight lists every name once.
LEMMA PreferredLists ==
    ASSUME NEW S, NEW ls \in Seq(Seq(S))
    PROVE  Preferred(ls) \in Listings(S) /\ ToSet(Preferred(ls)) = NamesIn(ls)
  <1>1. PICK f : /\ f[0] = <<>>
                 /\ \A i \in 1 .. Len(ls) : f[i] = PreferList(f[i - 1], ls[i])
                 /\ Preferred(ls) = f[Len(ls)]
    BY PreferredRuns
  <1>2. Len(ls) \in Nat /\ DOMAIN ls = 1 .. Len(ls) /\ \A i \in 1 .. Len(ls) : ls[i] \in Seq(S)
    BY LenProperties, ElementOfSeq
  <1> DEFINE Upto(i) == UNION {ToSet(ls[k]) : k \in 1 .. i}
             Added(i) == f[i] \in Listings(S) /\ ToSet(f[i]) = Upto(i)
             M == {i \in Nat : i <= Len(ls) => Added(i)}
  <1>3. 0 \in M
    <2>1. <<>> \in Seq(S) /\ IsInjective(<<>>)
      BY EmptySeq DEF IsInjective
    <2>2. ToSet(<<>>) = {} /\ Upto(0) = {}
      BY DEF ToSet
    <2>3. f[0] \in Listings(S)
      BY <1>1, <2>1 DEF Listings
    <2> HIDE DEF Upto
    <2> QED BY <1>1, <2>2, <2>3
  <1>4. ASSUME NEW i \in M PROVE i + 1 \in M
    <2> SUFFICES ASSUME i + 1 <= Len(ls) PROVE Added(i + 1)
      OBVIOUS
    <2>1. i \in Nat /\ Added(i) /\ i + 1 \in 1 .. Len(ls)
      BY <1>2
    <2>2. f[i + 1] = PreferList(f[i], ls[i + 1])
      <3>1. (i + 1) - 1 = i
        BY <2>1
      <3> QED BY <1>1, <2>1, <3>1
    <2>3. /\ f[i + 1] \in Listings(S)
          /\ ToSet(f[i + 1]) = ToSet(f[i]) \union ToSet(ls[i + 1])
      BY <1>2, <2>1, <2>2, PreferListAdds
    <2>4. Upto(i + 1) = Upto(i) \union ToSet(ls[i + 1])
      <3>1. 1 .. i + 1 = (1 .. i) \union {i + 1}
        BY <2>1
      <3> QED BY <3>1
    <2> HIDE DEF Upto
    <2> QED BY <2>1, <2>3, <2>4
  <1>5. M = Nat
    <2>1. M \in SUBSET Nat
      OBVIOUS
    <2> HIDE DEF M
    <2> QED BY <1>3, <1>4, <2>1, Induct
  <1>6. Added(Len(ls))
    <2>1. Len(ls) \in M
      <3> HIDE DEF M
      <3> QED BY <1>2, <1>5
    <2> HIDE DEF Upto
    <2> QED BY <1>2, <2>1
  <1>7. NamesIn(ls) = Upto(Len(ls))
    BY <1>2 DEF NamesIn
  <1> QED BY <1>1, <1>6, <1>7

\* A listing is as long as it has names.
LEMMA ListingLength ==
    ASSUME NEW S, NEW s \in Listings(S)
    PROVE  IsFiniteSet(ToSet(s)) /\ Cardinality(ToSet(s)) = Len(s)
  <1>1. s \in Seq(S) /\ Len(s) \in Nat /\ DOMAIN s = 1 .. Len(s) /\ IsInjective(s)
    BY LenProperties DEF Listings
  <1>2. s \in [1 .. Len(s) -> ToSet(s)]
    BY <1>1, LenProperties DEF ToSet
  <1>3. s \in Bijection(1 .. Len(s), ToSet(s))
    <2>1. \A x \in ToSet(s) : \E i \in 1 .. Len(s) : s[i] = x
      BY <1>1 DEF ToSet
    <2> QED BY <1>1, <1>2, <2>1 DEF Bijection, Injection, Surjection
  <1>4. ExistsBijection(1 .. Len(s), ToSet(s))
    BY <1>3 DEF ExistsBijection
  <1>5. Cardinality(ToSet(s)) = Len(s)
    BY <1>1, <1>4, FS_CountingElements
  <1>6. IsFiniteSet(ToSet(s))
    BY <1>1, <1>4, FS_NatBijection
  <1> QED BY <1>5, <1>6

\* A listing of some of the names that is as long as one of all has them all.
LEMMA ListingFull ==
    ASSUME NEW S, NEW s \in Listings(S), NEW t \in Listings(S),
           ToSet(s) \subseteq ToSet(t), Len(s) = Len(t)
    PROVE  ToSet(s) = ToSet(t)
  <1>1. /\ IsFiniteSet(ToSet(s)) /\ IsFiniteSet(ToSet(t))
        /\ Cardinality(ToSet(s)) = Cardinality(ToSet(t))
    BY ListingLength
  <1> QED BY <1>1, FS_Subset

LEMMA BeforeIs ==
    ASSUME NEW S, NEW ls \in Seq(Seq(S)), NEW name, NEW x
    PROVE  x \in RightBefore(ls, name) <=>
               \E k \in 1 .. Len(ls) : \E j \in 2 .. Len(ls[k]) : ls[k][j] = name /\ x = ls[k][j - 1]
  <1> DEFINE Has(list) == \E j \in 2 .. Len(list) : list[j] = name /\ x = list[j - 1]
             befores(list) == {list[i - 1] : i \in {j \in 2 .. Len(list) : list[j] = name}}
  <1>1. ToSet(ls) = {ls[k] : k \in 1 .. Len(ls)}
    BY LenProperties DEF ToSet
  <1>2. x \in RightBefore(ls, name) <=> \E list \in ToSet(ls) : x \in befores(list)
    BY DEF RightBefore
  <1>3. \A list : x \in befores(list) <=> Has(list)
    OBVIOUS
  <1> HIDE DEF Has, befores
  <1>4. x \in RightBefore(ls, name) <=> \E k \in 1 .. Len(ls) : Has(ls[k])
    BY <1>1, <1>2, <1>3
  <1> QED BY <1>4 DEF Has

\* Every name that a list puts right before a placed one is placed before it.
Grounded(order, ls) ==
    \A b \in 1 .. Len(order) : \A x \in RightBefore(ls, order[b]) : \E a \in 1 .. b - 1 : order[a] = x

\* Every name left waits for another.
Stuck(order, pref, ls) ==
    \A j \in 1 .. Len(pref) : pref[j] \in ToSet(order) \/ ~(RightBefore(ls, pref[j]) \subseteq ToSet(order))

\* Place stops, or puts a name whose predecessors are all placed.
LEMMA PlaceCases ==
    ASSUME NEW S, NEW order \in Listings(S), NEW pref \in Listings(S), NEW ls
    PROVE  \/ Place(order, pref, ls) = order /\ Stuck(order, pref, ls)
           \/ \E k \in 1 .. Len(pref) :
                  /\ Place(order, pref, ls) = Append(order, pref[k])
                  /\ pref[k] \notin ToSet(order) /\ RightBefore(ls, pref[k]) \subseteq ToSet(order)
  <1>1. /\ order \in Seq(S) /\ DOMAIN order = 1 .. Len(order)
        /\ pref \in Seq(S) /\ Len(pref) \in Nat
    BY LenProperties DEF Listings
  <1>2. \A x : Contains(order, x) <=> x \in ToSet(order)
    BY <1>1 DEF Contains, ToSet
  <1> DEFINE free == {i \in 1 .. Len(pref) : /\ ~Contains(order, pref[i])
                                             /\ RightBefore(ls, pref[i]) \subseteq ToSet(order)}
             next == IF free # {} THEN Min(free) ELSE 0
  <1>3. Place(order, pref, ls) = IF next = 0 THEN order ELSE Append(order, pref[next])
    BY DEF Place, SelectInSeq
  <1>4. free # {} => Min(free) \in free
    <2>1. free \in SUBSET (1 .. Len(pref))
      OBVIOUS
    <2> HIDE DEF free
    <2> QED BY <1>1, <2>1, FirstIn
  <1>5. CASE free = {}
    <2>1. Place(order, pref, ls) = order
      BY <1>3, <1>5
    <2>2. Stuck(order, pref, ls)
      BY <1>2, <1>5 DEF Stuck
    <2> QED BY <2>1, <2>2
  <1>6. CASE free # {}
    <2>1. next \in free /\ next \in 1 .. Len(pref) /\ next # 0
      BY <1>4, <1>6
    <2>2. pref[next] \notin ToSet(order) /\ RightBefore(ls, pref[next]) \subseteq ToSet(order)
      BY <1>2, <2>1
    <2> HIDE DEF next, free
    <2> QED BY <1>3, <2>1, <2>2
  <1> QED BY <1>5, <1>6

LEMMA AppendNew ==
    ASSUME NEW S, NEW order \in Listings(S), NEW e \in S, e \notin ToSet(order)
    PROVE  /\ Append(order, e) \in Listings(S)
           /\ ToSet(Append(order, e)) = ToSet(order) \union {e}
           /\ Len(Append(order, e)) = Len(order) + 1
           /\ \A i \in 1 .. Len(order) : Append(order, e)[i] = order[i]
           /\ Append(order, e)[Len(order) + 1] = e
  <1> DEFINE L == Len(order)
             new == Append(order, e)
  <1>1. order \in Seq(S) /\ L \in Nat /\ DOMAIN order = 1 .. L
    BY LenProperties DEF Listings
  <1>2. /\ new \in Seq(S) /\ Len(new) = L + 1
        /\ \A i \in 1 .. L : new[i] = order[i]
        /\ new[L + 1] = e
    BY <1>1, AppendProperties
  <1>3. DOMAIN new = 1 .. L + 1
    BY <1>2, LenProperties
  <1>4. \A i \in 1 .. L : order[i] \in ToSet(order) /\ order[i] # e
    BY <1>1 DEF ToSet
  <1>5. \A i, j \in 1 .. L : order[i] = order[j] => i = j
    BY <1>1 DEF Listings, IsInjective
  <1> HIDE DEF new, L
  <1>6. \A i \in 1 .. L + 1 : i \in 1 .. L \/ i = L + 1
    BY <1>1
  <1>7. IsInjective(new)
    <2> SUFFICES ASSUME NEW i \in 1 .. L + 1, NEW j \in 1 .. L + 1, new[i] = new[j] PROVE i = j
      BY <1>3 DEF IsInjective
    <2> QED BY <1>2, <1>4, <1>5, <1>6
  <1>8. ToSet(new) = ToSet(order) \union {e}
    <2>1. \A i \in 1 .. L + 1 : new[i] \in ToSet(order) \union {e}
      BY <1>2, <1>4, <1>6
    <2>2. \A i \in 1 .. L : i \in 1 .. L + 1
      BY <1>1
    <2>3. L + 1 \in 1 .. L + 1
      BY <1>1
    <2>4. ToSet(new) \subseteq ToSet(order) \union {e}
      BY <1>3, <2>1 DEF ToSet
    <2>5. ToSet(order) \subseteq ToSet(new) /\ e \in ToSet(new)
      BY <1>1, <1>2, <1>3, <2>2, <2>3 DEF ToSet
    <2> QED BY <2>4, <2>5
  <1>9. new \in Listings(S)
    BY <1>2, <1>7 DEF Listings
  <1> QED BY <1>2, <1>8, <1>9 DEF new, L

\* What has been placed stays a listing.
LEMMA PlaceLists ==
    ASSUME NEW S, NEW order \in Listings(S), NEW pref \in Listings(S), NEW ls
    PROVE  Place(order, pref, ls) \in Listings(S)
  <1>1. CASE Place(order, pref, ls) = order
    BY <1>1
  <1>2. ASSUME NEW k \in 1 .. Len(pref), Place(order, pref, ls) = Append(order, pref[k]),
               pref[k] \notin ToSet(order)
        PROVE  Place(order, pref, ls) \in Listings(S)
    <2>1. pref[k] \in S
      BY ElementOfSeq DEF Listings
    <2> QED BY <1>2, <2>1, AppendNew
  <1> QED BY <1>1, <1>2, PlaceCases

\* The order so far, when i names have been looked for.
Placing(order, pref, ls, S, i) ==
    /\ order \in Listings(S) /\ ToSet(order) \subseteq ToSet(pref)
    /\ Grounded(order, ls)
    /\ Len(order) = i \/ (Stuck(order, pref, ls) /\ Len(order) < i)

\* The folding invariant of MergeOrder goes on.
LEMMA PlaceStep ==
    ASSUME NEW S, NEW pref \in Listings(S), NEW ls, NEW i \in Nat, NEW order, Placing(order, pref, ls, S, i)
    PROVE  Placing(Place(order, pref, ls), pref, ls, S, i + 1)
  <1> DEFINE L == Len(order)
  <1>1. order \in Listings(S) /\ order \in Seq(S) /\ L \in Nat /\ DOMAIN order = 1 .. L
    <2>1. order \in Listings(S) /\ order \in Seq(S)
      BY DEF Placing, Listings
    <2> QED BY <2>1, LenProperties
  <1>2. CASE Place(order, pref, ls) = order /\ Stuck(order, pref, ls)
    <2>1. L = i \/ L < i
      BY DEF Placing
    <2>2. L < i + 1
      <3> HIDE DEF L
      <3> QED BY <1>1, <2>1
    <2> QED BY <1>2, <2>2 DEF Placing
  <1>3. ASSUME NEW k \in 1 .. Len(pref), Place(order, pref, ls) = Append(order, pref[k]),
               pref[k] \notin ToSet(order), RightBefore(ls, pref[k]) \subseteq ToSet(order)
        PROVE  Placing(Place(order, pref, ls), pref, ls, S, i + 1)
    <2> DEFINE new == Append(order, pref[k])
    <2>1. pref[k] \in S /\ pref[k] \in ToSet(pref)
      <3>1. pref \in Seq(S) /\ DOMAIN pref = 1 .. Len(pref)
        BY LenProperties DEF Listings
      <3> QED BY <3>1, ElementOfSeq DEF ToSet
    <2>2. /\ new \in Listings(S) /\ ToSet(new) = ToSet(order) \union {pref[k]}
          /\ Len(new) = L + 1 /\ \A a \in 1 .. L : new[a] = order[a]
          /\ new[L + 1] = pref[k]
      BY <1>1, <1>3, <2>1, AppendNew
    <2>3. L = i
      <3>1. ~Stuck(order, pref, ls)
        BY <1>3 DEF Stuck
      <3> QED BY <3>1 DEF Placing
    <2> HIDE DEF new, L
    <2>4. Grounded(new, ls)
      <3> SUFFICES ASSUME NEW b \in 1 .. L + 1, NEW x \in RightBefore(ls, new[b])
                   PROVE  \E a \in 1 .. b - 1 : new[a] = x
        BY <2>2 DEF Grounded
      <3>1. CASE b = L + 1
        <4>1. x \in ToSet(order)
          BY <1>3, <2>2, <3>1
        <4>2. PICK a \in 1 .. L : order[a] = x
          BY <1>1, <4>1 DEF ToSet
        <4>3. a \in 1 .. b - 1
          BY <1>1, <3>1
        <4> QED BY <2>2, <4>2, <4>3
      <3>2. CASE b # L + 1
        <4>1. b \in 1 .. L /\ \A a \in 1 .. b - 1 : a \in 1 .. L
          BY <1>1, <3>2
        <4>2. PICK a \in 1 .. b - 1 : order[a] = x
          <5>1. \A y \in RightBefore(ls, order[b]) : \E a \in 1 .. b - 1 : order[a] = y
            BY <4>1 DEF Placing, Grounded, L
          <5> QED BY <2>2, <4>1, <5>1
        <4> QED BY <2>2, <4>1, <4>2
      <3> QED BY <3>1, <3>2
    <2>5. ToSet(new) \subseteq ToSet(pref)
      BY <2>1, <2>2 DEF Placing
    <2>6. Placing(new, pref, ls, S, i + 1)
      BY <2>2, <2>3, <2>4, <2>5 DEF Placing
    <2> QED BY <1>3, <2>6 DEF new
  <1>4. pref \in Listings(S)
    OBVIOUS
  <1> QED BY <1>1, <1>2, <1>3, <1>4, PlaceCases

\* The fold that places the names, one after another.
LEMMA MergeRuns ==
    ASSUME NEW S, NEW ls \in Seq(Seq(S))
    PROVE  LET pref == Preferred(ls)
           IN  \E f : /\ f[0] = <<>>
                      /\ \A i \in 1 .. Len(pref) : f[i] = Place(f[i - 1], pref, ls)
                      /\ MergeOrder(ls).order = f[Len(pref)]
                      /\ MergeOrder(ls).ok <=> Len(f[Len(pref)]) = Len(pref)
  <1> DEFINE pref == Preferred(ls)
             N == Len(pref)
             base == <<>>
             step == [i \in 1 .. N |-> [acc \in Listings(S) |-> Place(acc, pref, ls)]]
             iter == CHOOSE it : it = [s \in SUBSET (1 .. N) |->
                                         IF s = {} THEN base ELSE Place(it[s \ {Max(s)}], pref, ls)]
             order == FoldLeft(LAMBDA acc, x : Place(acc, pref, ls), <<>>, pref)
  <1>4. MergeOrder(ls).order = order /\ (MergeOrder(ls).ok <=> Len(order) = N)
    BY DEF MergeOrder
  <1>10. pref \in Listings(S)
    BY PreferredLists
  <1> HIDE DEF pref
  <1>1. N \in Nat /\ DOMAIN pref = 1 .. N
    BY <1>10, LenProperties DEF Listings
  <1>2. base \in Listings(S)
    <2>1. <<>> \in Seq(S) /\ IsInjective(<<>>)
      BY EmptySeq DEF IsInjective
    <2> QED BY <2>1 DEF Listings
  <1>3. step \in [1 .. N -> [Listings(S) -> Listings(S)]]
    <2>1. \A acc \in Listings(S) : Place(acc, pref, ls) \in Listings(S)
      BY <1>10, PlaceLists
    <2> QED BY <2>1
  <1>5. order = iter[1 .. N]
    <2>1. order = iter[DOMAIN pref]
      BY <1>1 DEF FoldLeft, MapThenFoldSet
    <2> QED BY <1>1, <2>1
  <1> HIDE DEF N, base, order
  <1>6. iter = [s \in SUBSET (1 .. N) |-> IF s = {} THEN base ELSE Place(iter[s \ {Max(s)}], pref, ls)]
    <2> HIDE DEF step
    <2> HIDE DEF iter
    <2>1. PICK g \in [SUBSET (1 .. N) -> Listings(S)] : IsTable(g, N, base, step)
      BY <1>1, <1>2, <1>3, TableExists
    <2>2. \A s \in SUBSET (1 .. N) : g[s] = IF s = {} THEN base ELSE Place(g[s \ {Max(s)}], pref, ls)
      <3> SUFFICES ASSUME NEW s \in SUBSET (1 .. N), s # {}
                   PROVE  g[s] = Place(g[s \ {Max(s)}], pref, ls)
        BY <2>1 DEF IsTable
      <3>1. Max(s) \in 1 .. N
        BY <1>1, MaxIn
      <3>2. g[s \ {Max(s)}] \in Listings(S)
        BY <2>1
      <3> QED BY <2>1, <3>1, <3>2 DEF step, IsTable
    <2>3. g = [s \in SUBSET (1 .. N) |-> IF s = {} THEN base ELSE Place(g[s \ {Max(s)}], pref, ls)]
      BY <2>1, <2>2
    <2> QED BY <2>3 DEF iter
  <1> HIDE DEF iter, step
  <1> DEFINE f == [i \in 0 .. N |-> iter[1 .. i]]
  <1>7. f[0] = base
    <2>1. 1 .. 0 = {} /\ 0 \in 0 .. N
      BY <1>1
    <2> QED BY <1>6, <2>1
  <1>8. ASSUME NEW i \in 1 .. N PROVE f[i] = Place(f[i - 1], pref, ls)
    <2>1. /\ 1 .. i \in SUBSET (1 .. N) /\ 1 .. i # {} /\ Max(1 .. i) = i
          /\ (1 .. i) \ {i} = 1 .. i - 1 /\ i - 1 \in 0 .. N
      BY <1>1, Initial
    <2>2. iter[1 .. i] = Place(iter[(1 .. i) \ {Max(1 .. i)}], pref, ls)
      BY <1>6, <2>1
    <2>3. i \in 0 .. N
      OBVIOUS
    <2> QED BY <2>1, <2>2, <2>3
  <1>9. f[N] = iter[1 .. N]
    BY <1>1
  <1> HIDE DEF f
  <1> QED BY <1>4, <1>5, <1>7, <1>8, <1>9 DEF base, N, pref

\* The merge either places every name or stops when every name left waits.
LEMMA MergePlaces ==
    ASSUME NEW S, NEW ls \in Seq(Seq(S))
    PROVE  LET m == MergeOrder(ls)
               pref == Preferred(ls)
           IN  /\ m.order \in Listings(S) /\ ToSet(m.order) \subseteq NamesIn(ls)
               /\ Grounded(m.order, ls)
               /\ m.ok <=> ToSet(m.order) = NamesIn(ls)
               /\ m.ok \/ Stuck(m.order, pref, ls)
  <1> DEFINE pref == Preferred(ls)
             m == MergeOrder(ls)
  <1>1. pref \in Listings(S) /\ ToSet(pref) = NamesIn(ls)
    BY PreferredLists
  <1>2. Len(pref) \in Nat
    BY <1>1, LenProperties DEF Listings
  <1>3. PICK f : /\ f[0] = <<>>
                 /\ \A i \in 1 .. Len(pref) : f[i] = Place(f[i - 1], pref, ls)
                 /\ m.order = f[Len(pref)]
                 /\ m.ok <=> Len(f[Len(pref)]) = Len(pref)
    BY MergeRuns
  <1> HIDE DEF pref, m
  <1> DEFINE M == {i \in Nat : i <= Len(pref) => Placing(f[i], pref, ls, S, i)}
  <1>4. 0 \in M
    <2>1. <<>> \in Seq(S) /\ IsInjective(<<>>) /\ ToSet(<<>>) = {} /\ Len(<<>>) = 0
      BY EmptySeq DEF IsInjective, ToSet
    <2>2. <<>> \in Listings(S)
      BY <2>1 DEF Listings
    <2>3. Grounded(<<>>, ls)
      BY <2>1 DEF Grounded
    <2>4. Placing(<<>>, pref, ls, S, 0)
      BY <2>1, <2>2, <2>3 DEF Placing
    <2> QED BY <1>3, <2>4
  <1>5. ASSUME NEW i \in M PROVE i + 1 \in M
    <2> SUFFICES ASSUME i + 1 <= Len(pref) PROVE Placing(f[i + 1], pref, ls, S, i + 1)
      OBVIOUS
    <2>1. i \in Nat /\ Placing(f[i], pref, ls, S, i) /\ i + 1 \in 1 .. Len(pref)
      BY <1>2
    <2>2. f[i + 1] = Place(f[i], pref, ls)
      <3>1. (i + 1) - 1 = i
        BY <2>1
      <3> QED BY <1>3, <2>1, <3>1
    <2> QED BY <1>1, <2>1, <2>2, PlaceStep
  <1>6. M = Nat
    <2>1. M \in SUBSET Nat
      OBVIOUS
    <2> HIDE DEF M
    <2> QED BY <1>4, <1>5, <2>1, Induct
  <1>7. Placing(m.order, pref, ls, S, Len(pref))
    BY <1>2, <1>3, <1>6
  <1>8. /\ m.order \in Listings(S) /\ ToSet(m.order) \subseteq ToSet(pref) /\ Grounded(m.order, ls)
        /\ m.ok <=> Len(m.order) = Len(pref)
        /\ m.ok \/ Stuck(m.order, pref, ls)
    BY <1>3, <1>7 DEF Placing
  <1>9. m.ok <=> ToSet(m.order) = ToSet(pref)
    <2>1. m.ok => ToSet(m.order) = ToSet(pref)
      BY <1>1, <1>8, ListingFull
    <2>2. ToSet(m.order) = ToSet(pref) => m.ok
      <3>1. Len(m.order) = Cardinality(ToSet(m.order)) /\ Len(pref) = Cardinality(ToSet(pref))
        BY <1>1, <1>8, ListingLength
      <3> QED BY <1>8, <3>1
    <2> QED BY <2>1, <2>2
  <1> QED BY <1>1, <1>8, <1>9 DEF pref, m

\* Before is transitive in an order that has each name once.
LEMMA AheadTransitive ==
    ASSUME NEW order, IsInjective(order), DOMAIN order \subseteq Nat, NEW x, NEW y, NEW z,
           Ahead(order, x, y), Ahead(order, y, z)
    PROVE  Ahead(order, x, z)
  <1>1. PICK a, b \in DOMAIN order : a < b /\ order[a] = x /\ order[b] = y
    BY DEF Ahead
  <1>2. PICK c, d \in DOMAIN order : c < d /\ order[c] = y /\ order[d] = z
    BY DEF Ahead
  <1>3. b = c
    BY <1>1, <1>2 DEF IsInjective
  <1>4. a < d
    BY <1>1, <1>2, <1>3
  <1> QED BY <1>1, <1>2, <1>4 DEF Ahead

\* Neighbours of a list in its order are all of its names in its order.
LEMMA NeighboursEnough ==
    ASSUME NEW S, NEW order \in Listings(S), NEW list \in Seq(S),
           \A j \in 2 .. Len(list) : Ahead(order, list[j - 1], list[j])
    PROVE  \A i, j \in DOMAIN list : i < j => Ahead(order, list[i], list[j])
  <1>1. /\ Len(list) \in Nat /\ DOMAIN list = 1 .. Len(list)
        /\ IsInjective(order) /\ DOMAIN order \subseteq Nat
    <2>1. order \in Seq(S) /\ IsInjective(order)
      BY DEF Listings
    <2>2. DOMAIN order = 1 .. Len(order)
      BY <2>1, LenProperties
    <2> QED BY <2>1, <2>2, LenProperties
  <1> SUFFICES ASSUME NEW i \in 1 .. Len(list), NEW j \in 1 .. Len(list), i < j
               PROVE  Ahead(order, list[i], list[j])
    BY <1>1
  <1> DEFINE M == {d \in Nat : i + d + 1 <= Len(list) => Ahead(order, list[i], list[i + d + 1])}
  <1>2. 0 \in M
    <2> SUFFICES ASSUME i + 0 + 1 <= Len(list) PROVE Ahead(order, list[i], list[i + 0 + 1])
      OBVIOUS
    <2>1. i + 0 + 1 \in 2 .. Len(list) /\ (i + 0 + 1) - 1 = i
      OBVIOUS
    <2> QED BY <2>1
  <1>3. ASSUME NEW d \in M PROVE d + 1 \in M
    <2> SUFFICES ASSUME i + (d + 1) + 1 <= Len(list) PROVE Ahead(order, list[i], list[i + (d + 1) + 1])
      OBVIOUS
    <2>1. i + d + 1 <= Len(list) /\ d \in Nat
      BY <1>1
    <2>2. Ahead(order, list[i], list[i + d + 1])
      BY <2>1
    <2>3. i + (d + 1) + 1 \in 2 .. Len(list) /\ (i + (d + 1) + 1) - 1 = i + d + 1
      BY <2>1
    <2>4. Ahead(order, list[i + d + 1], list[i + (d + 1) + 1])
      BY <2>3
    <2> QED BY <1>1, <2>2, <2>4, AheadTransitive
  <1>4. M = Nat
    <2>1. M \in SUBSET Nat
      OBVIOUS
    <2> HIDE DEF M
    <2> QED BY <1>2, <1>3, <2>1, Induct
  <1>5. j - i - 1 \in Nat /\ i + (j - i - 1) + 1 = j /\ j <= Len(list)
    OBVIOUS
  <1>6. j - i - 1 \in M
    BY <1>4, <1>5
  <1> QED BY <1>5, <1>6

\* An order keeps a list when it has the list's names as the list has them.
Keeps(order, ls) ==
    \A k \in DOMAIN ls : \A i, j \in DOMAIN ls[k] : i < j => Ahead(order, ls[k][i], ls[k][j])

\* An order in which each name comes after its predecessors keeps every list.
LEMMA GroundedKeeps ==
    ASSUME NEW S, NEW ls \in Seq(Seq(S)), NEW order \in Listings(S), ToSet(order) = NamesIn(ls), Grounded(order, ls)
    PROVE  Keeps(order, ls)
  <1> SUFFICES ASSUME NEW k \in DOMAIN ls
               PROVE  \A i, j \in DOMAIN ls[k] : i < j => Ahead(order, ls[k][i], ls[k][j])
    BY DEF Keeps
  <1>1. k \in 1 .. Len(ls) /\ ls[k] \in Seq(S)
    BY LenProperties, ElementOfSeq
  <1>2. Len(ls[k]) \in Nat /\ DOMAIN ls[k] = 1 .. Len(ls[k])
    BY <1>1, LenProperties
  <1>3. DOMAIN order = 1 .. Len(order) /\ Len(order) \in Nat
    BY LenProperties DEF Listings
  <1>4. ASSUME NEW j \in 2 .. Len(ls[k]) PROVE Ahead(order, ls[k][j - 1], ls[k][j])
    <2>1. ls[k][j] \in ToSet(order)
      <3>1. j \in DOMAIN ls[k]
        BY <1>2
      <3>2. ls[k][j] \in ToSet(ls[k])
        BY <3>1 DEF ToSet
      <3> QED BY <3>2 DEF NamesIn
    <2>2. PICK b \in 1 .. Len(order) : order[b] = ls[k][j]
      BY <1>3, <2>1 DEF ToSet
    <2>3. ls[k][j - 1] \in RightBefore(ls, order[b])
      BY <1>1, <2>2, BeforeIs
    <2>4. PICK a \in 1 .. b - 1 : order[a] = ls[k][j - 1]
      BY <2>3 DEF Grounded
    <2>5. a \in DOMAIN order /\ b \in DOMAIN order /\ a < b
      BY <1>3
    <2> QED BY <2>2, <2>4, <2>5 DEF Ahead
  <1> QED BY <1>1, <1>4, NeighboursEnough

\* When the merge is stuck, no order keeps every list: the first of the names left in
\* it would be right after one that is left too.
LEMMA StuckImpossible ==
    ASSUME NEW S, NEW ls \in Seq(Seq(S)), NEW T, Stuck(T, Preferred(ls), ls),
           ToSet(T) # NamesIn(ls), ToSet(T) \subseteq NamesIn(ls),
           NEW q \in Listings(S), ToSet(q) = NamesIn(ls), Keeps(q, ls)
    PROVE  FALSE
  <1>1. q \in Seq(S) /\ Len(q) \in Nat /\ DOMAIN q = 1 .. Len(q) /\ IsInjective(q)
    BY LenProperties DEF Listings
  <1> DEFINE left == {i \in 1 .. Len(q) : q[i] \notin ToSet(T)}
  <1>2. left # {}
    <2>1. PICK x \in NamesIn(ls) : x \notin ToSet(T)
      OBVIOUS
    <2>2. PICK i \in 1 .. Len(q) : q[i] = x
      BY <1>1, <2>1 DEF ToSet
    <2> QED BY <2>1, <2>2
  <1>3. PICK i \in left : \A j \in left : i <= j
    <2>1. left \in SUBSET Nat
      OBVIOUS
    <2> HIDE DEF left
    <2> QED BY <1>2, <2>1, Least
  <1>4. i \in 1 .. Len(q) /\ q[i] \notin ToSet(T)
    BY <1>3
  <1> DEFINE pref == Preferred(ls)
  <1>5. PICK p \in 1 .. Len(pref) : pref[p] = q[i]
    <2>1. pref \in Listings(S) /\ ToSet(pref) = NamesIn(ls)
      BY PreferredLists
    <2> HIDE DEF pref
    <2>2. DOMAIN pref = 1 .. Len(pref)
      BY <2>1, LenProperties DEF Listings
    <2>3. q[i] \in ToSet(pref)
      BY <1>1, <1>4, <2>1 DEF ToSet
    <2> QED BY <2>2, <2>3 DEF ToSet
  <1>6. PICK x \in RightBefore(ls, q[i]) : x \notin ToSet(T)
    BY <1>4, <1>5 DEF Stuck
  <1>7. PICK k \in 1 .. Len(ls) : \E j \in 2 .. Len(ls[k]) : ls[k][j] = q[i] /\ x = ls[k][j - 1]
    BY <1>6, BeforeIs
  <1>12. PICK j \in 2 .. Len(ls[k]) : ls[k][j] = q[i] /\ x = ls[k][j - 1]
    BY <1>7
  <1>8. Ahead(q, x, q[i])
    <2>1. k \in DOMAIN ls /\ ls[k] \in Seq(S)
      BY LenProperties, ElementOfSeq
    <2>2. DOMAIN ls[k] = 1 .. Len(ls[k]) /\ Len(ls[k]) \in Nat
      BY <2>1, LenProperties
    <2>3. j \in DOMAIN ls[k] /\ j - 1 \in DOMAIN ls[k] /\ j - 1 < j
      BY <2>2
    <2>4. Ahead(q, ls[k][j - 1], ls[k][j])
      BY <2>1, <2>3 DEF Keeps
    <2> QED BY <1>12, <2>4
  <1>9. PICK a, b \in DOMAIN q : a < b /\ q[a] = x /\ q[b] = q[i]
    BY <1>8 DEF Ahead
  <1>10. b = i
    BY <1>1, <1>4, <1>9 DEF IsInjective
  <1>11. a \in left
    BY <1>1, <1>6, <1>9
  <1> QED BY <1>1, <1>3, <1>4, <1>9, <1>10, <1>11

\* Whatever members the parts' results have and in whatever order, the merge finds an
\* order that keeps every part's own if there is one, and refuses them only if not
\* (mergeOrder, order.go).
THEOREM AllOrdersKept == Spec => []OrderKept
  <1>1. InputOk => OrderKept
    <2> SUFFICES ASSUME InputOk PROVE OrderKept
      OBVIOUS
    <2> DEFINE m == MergeOrder(lists)
               possible == \E order \in Orders : ToSet(order) = NamesIn(lists) /\ Keeps(order, lists)
    <2>1. lists \in Seq(Seq(Names))
      BY DEF InputOk
    <2>2. /\ m.order \in Listings(Names) /\ ToSet(m.order) \subseteq NamesIn(lists)
          /\ Grounded(m.order, lists)
          /\ m.ok <=> ToSet(m.order) = NamesIn(lists)
          /\ m.ok \/ Stuck(m.order, Preferred(lists), lists)
      BY <2>1, MergePlaces
    <2> HIDE DEF m
    <2>3. m.ok => ToSet(m.order) = NamesIn(lists) /\ Keeps(m.order, lists) /\ IsInjective(m.order)
      BY <2>1, <2>2, GroundedKeeps DEF Listings
    <2>4. m.ok => m.order \in Orders
      <3> SUFFICES ASSUME m.ok PROVE m.order \in Orders
        OBVIOUS
      <3> DEFINE s == ToSet(m.order)
      <3>1. Cardinality(s) = Len(m.order) /\ m.order \in Seq(Names) /\ IsInjective(m.order)
        BY <2>2, ListingLength DEF Listings
      <3>2. DOMAIN m.order = 1 .. Len(m.order) /\ m.order \in [1 .. Len(m.order) -> Names]
        BY <3>1, LenProperties
      <3>3. m.order \in [1 .. Cardinality(s) -> s] /\ s \in SUBSET Names
        BY <3>1, <3>2 DEF ToSet
      <3> QED BY <3>1, <3>3 DEF Orders
    <2>5. m.ok => possible
      BY <2>3, <2>4
    <2>6. possible => m.ok
      <3> SUFFICES ASSUME NEW order \in Orders, ToSet(order) = NamesIn(lists), Keeps(order, lists), ~m.ok
                   PROVE  FALSE
        OBVIOUS
      <3>1. order \in Listings(Names)
        BY OrderLists
      <3>2. Stuck(m.order, Preferred(lists), lists) /\ ToSet(m.order) # NamesIn(lists)
        BY <2>2
      <3> QED BY <2>1, <2>2, <3>1, <3>2, StuckImpossible
    <2> QED BY <2>3, <2>5, <2>6 DEF OrderKept, m, Keeps, NamesIn
  <1> QED BY <1>1, InputInv, PTL

-----------------------------------------------------------------------------
(* Sums of sizes, and sequences one after another: where a merge puts things *)

\* f has the sums of the first sizes.
IsSum(f, N, sizes) == f \in [0 .. N -> Nat] /\ f[0] = 0 /\ \A i \in 1 .. N : f[i] = f[i - 1] + sizes[i]

\* Sizes have sums.
LEMMA SumExists ==
    ASSUME NEW N \in Nat, NEW sizes \in [1 .. N -> Nat]
    PROVE  \E f : IsSum(f, N, sizes)
  <1> DEFINE base == 0
             step == [i \in 1 .. N |-> [sum \in Nat |-> sum + sizes[i]]]
  <1>1. step \in [1 .. N -> [Nat -> Nat]] /\ base \in Nat
    <2>1. \A i \in 1 .. N : \A sum \in Nat : sum + sizes[i] \in Nat
      OBVIOUS
    <2> QED BY <2>1
  <1> HIDE DEF step, base
  <1>2. PICK g \in [SUBSET (1 .. N) -> Nat] : IsTable(g, N, base, step)
    BY <1>1, TableExists
  <1> DEFINE f == [i \in 0 .. N |-> g[1 .. i]]
  <1>3. f \in [0 .. N -> Nat]
    <2>1. \A i \in 0 .. N : 1 .. i \in SUBSET (1 .. N)
      OBVIOUS
    <2> QED BY <1>2, <2>1
  <1>4. f[0] = 0
    <2>1. 1 .. 0 = {} /\ 0 \in 0 .. N /\ {} \in SUBSET (1 .. N)
      OBVIOUS
    <2>2. g[{}] = base
      BY <1>2, <2>1 DEF IsTable
    <2> QED BY <2>1, <2>2 DEF base
  <1>5. ASSUME NEW i \in 1 .. N PROVE f[i] = f[i - 1] + sizes[i]
    <2>1. /\ 1 .. i \in SUBSET (1 .. N) /\ 1 .. i # {} /\ Max(1 .. i) = i
          /\ (1 .. i) \ {i} = 1 .. i - 1 /\ i - 1 \in 0 .. N /\ i \in 0 .. N
      <3>1. i \in 0 .. N
        OBVIOUS
      <3> HIDE DEF f
      <3>2. /\ 1 .. i \in SUBSET (1 .. N) /\ 1 .. i # {} /\ Max(1 .. i) = i
            /\ (1 .. i) \ {i} = 1 .. i - 1 /\ i - 1 \in 0 .. N
        BY Initial
      <3> QED BY <3>1, <3>2
    <2>2. g[1 .. i] = step[i][g[1 .. i - 1]]
      BY <1>2, <2>1 DEF IsTable
    <2>3. g[1 .. i - 1] \in Nat
      BY <1>3, <2>1
    <2>4. f[i] = g[1 .. i] /\ f[i - 1] = g[1 .. i - 1]
      BY <2>1
    <2> HIDE DEF f
    <2> QED BY <2>2, <2>3, <2>4 DEF step
  <1> HIDE DEF f
  <1> QED BY <1>3, <1>4, <1>5 DEF IsSum

\* Later sums are no less.
LEMMA SumGrows ==
    ASSUME NEW N \in Nat, NEW sizes \in [1 .. N -> Nat], NEW f, IsSum(f, N, sizes),
           NEW j \in 0 .. N, NEW k \in j .. N
    PROVE  f[j] <= f[k]
  <1> DEFINE M == {d \in Nat : j + d <= N => f[j] <= f[j + d]}
  <1>1. f \in [0 .. N -> Nat] /\ \A i \in 1 .. N : f[i] = f[i - 1] + sizes[i] /\ sizes[i] \in Nat
    BY DEF IsSum
  <1>2. 0 \in M
    BY <1>1
  <1>3. ASSUME NEW d \in M PROVE d + 1 \in M
    <2> SUFFICES ASSUME j + (d + 1) <= N PROVE f[j] <= f[j + (d + 1)]
      OBVIOUS
    <2>1. d \in Nat /\ j + d \in 0 .. N /\ j + (d + 1) \in 1 .. N /\ (j + (d + 1)) - 1 = j + d
      OBVIOUS
    <2>2. f[j] <= f[j + d]
      BY <2>1
    <2>3. f[j + (d + 1)] = f[j + d] + sizes[j + (d + 1)]
      BY <1>1, <2>1
    <2>4. f[j] \in Nat /\ f[j + d] \in Nat /\ sizes[j + (d + 1)] \in Nat
      BY <1>1, <2>1
    <2> HIDE DEF M
    <2> DEFINE x == f[j]
               y == f[j + d]
               z == sizes[j + (d + 1)]
    <2>5. x \in Nat /\ y \in Nat /\ z \in Nat /\ x <= y
      BY <2>2, <2>4
    <2> HIDE DEF x, y, z
    <2>6. x <= y + z
      BY <2>5
    <2> QED BY <2>3, <2>6 DEF x, y, z
  <1>4. M = Nat
    <2>1. M \in SUBSET Nat
      OBVIOUS
    <2> HIDE DEF M
    <2> QED BY <1>2, <1>3, <2>1, Induct
  <1>5. k - j \in Nat /\ j + (k - j) = k /\ k <= N
    OBVIOUS
  <1>6. k - j \in M
    BY <1>4, <1>5
  <1> QED BY <1>5, <1>6

\* Total is the sum of the sizes before.
LEMMA TotalRuns ==
    ASSUME NEW s \in Seq(Nat)
    PROVE  \E f : /\ f[0] = 0
                  /\ \A i \in 1 .. Len(s) : f[i] = f[i - 1] + s[i]
                  /\ FoldLeft(LAMBDA sum, size : sum + size, 0, s) = f[Len(s)]
  <1> DEFINE N == Len(s)
             base == 0
             step == [i \in 1 .. N |-> [sum \in Nat |-> sum + s[i]]]
             iter == CHOOSE it : it = [t \in SUBSET (1 .. N) |->
                                         IF t = {} THEN base ELSE it[t \ {Max(t)}] + s[Max(t)]]
             total == FoldLeft(LAMBDA sum, size : sum + size, 0, s)
  <1>1. N \in Nat /\ DOMAIN s = 1 .. N /\ \A i \in 1 .. N : s[i] \in Nat
    BY LenProperties, ElementOfSeq
  <1>2. step \in [1 .. N -> [Nat -> Nat]] /\ base \in Nat
    <2>1. \A i \in 1 .. N : \A sum \in Nat : sum + s[i] \in Nat
      <3> HIDE DEF N
      <3> QED BY <1>1
    <2> QED BY <2>1
  <1>3. total = iter[1 .. N]
    <2>1. total = iter[DOMAIN s]
      BY <1>1 DEF FoldLeft, MapThenFoldSet
    <2> QED BY <1>1, <2>1
  <1> HIDE DEF N, base, total
  <1>4. iter = [t \in SUBSET (1 .. N) |-> IF t = {} THEN base ELSE iter[t \ {Max(t)}] + s[Max(t)]]
    <2> HIDE DEF step
    <2> HIDE DEF iter
    <2>1. PICK g \in [SUBSET (1 .. N) -> Nat] : IsTable(g, N, base, step)
      BY <1>1, <1>2, TableExists
    <2>2. \A t \in SUBSET (1 .. N) : g[t] = IF t = {} THEN base ELSE g[t \ {Max(t)}] + s[Max(t)]
      <3> SUFFICES ASSUME NEW t \in SUBSET (1 .. N), t # {}
                   PROVE  g[t] = g[t \ {Max(t)}] + s[Max(t)]
        BY <2>1 DEF IsTable
      <3>1. Max(t) \in 1 .. N
        BY <1>1, MaxIn
      <3>2. g[t \ {Max(t)}] \in Nat
        BY <2>1
      <3> QED BY <2>1, <3>1, <3>2 DEF step, IsTable
    <2>3. g = [t \in SUBSET (1 .. N) |-> IF t = {} THEN base ELSE g[t \ {Max(t)}] + s[Max(t)]]
      BY <2>1, <2>2
    <2> QED BY <2>3 DEF iter
  <1> HIDE DEF iter, step
  <1> DEFINE f == [i \in 0 .. N |-> iter[1 .. i]]
  <1>5. f[0] = base
    <2>1. 1 .. 0 = {} /\ 0 \in 0 .. N
      BY <1>1
    <2> QED BY <1>4, <2>1
  <1>6. ASSUME NEW i \in 1 .. N PROVE f[i] = f[i - 1] + s[i]
    <2>1. /\ 1 .. i \in SUBSET (1 .. N) /\ 1 .. i # {} /\ Max(1 .. i) = i
          /\ (1 .. i) \ {i} = 1 .. i - 1 /\ i - 1 \in 0 .. N
      BY <1>1, Initial
    <2>2. iter[1 .. i] = iter[(1 .. i) \ {Max(1 .. i)}] + s[Max(1 .. i)]
      BY <1>4, <2>1
    <2>3. i \in 0 .. N
      OBVIOUS
    <2> QED BY <2>1, <2>2, <2>3
  <1>7. f[N] = iter[1 .. N]
    BY <1>1
  <1> HIDE DEF f
  <1> QED BY <1>3, <1>5, <1>6, <1>7 DEF base, N, total

\* The sum of the sizes before k.
LEMMA TotalIs ==
    ASSUME NEW sizes \in Seq(Nat), NEW f, IsSum(f, Len(sizes), sizes), NEW k \in 1 .. Len(sizes) + 1
    PROVE  Total(sizes, k) = f[k - 1]
  <1> DEFINE s == SubSeq(sizes, 1, k - 1)
             L == Len(sizes)
  <1>1. L \in Nat /\ \A i \in 1 .. L : sizes[i] \in Nat
    BY LenProperties, ElementOfSeq
  <1>2. k - 1 \in Nat /\ k - 1 <= L
    BY <1>1
  <1>3. s \in Seq(Nat) /\ Len(s) = k - 1 /\ \A i \in 1 .. k - 1 : s[i] = sizes[i]
    <2>1. \A i \in 1 .. k - 1 : sizes[i] \in Nat
      BY <1>1, <1>2
    <2>2. /\ s \in Seq(Nat) /\ Len(s) = IF 1 <= k - 1 THEN (k - 1) - 1 + 1 ELSE 0
          /\ \A i \in 1 .. (k - 1) - 1 + 1 : s[i] = sizes[1 + i - 1]
      <3>1. k - 1 \in Int /\ 1 \in Int
        BY <1>2
      <3> QED BY <2>1, <3>1, SubSeqProperties
    <2> HIDE DEF s
    <2>3. (k - 1) - 1 + 1 = k - 1 /\ (k - 1 = 0 \/ 1 <= k - 1)
      BY <1>2
    <2>4. \A i \in 1 .. k - 1 : 1 + i - 1 = i
      OBVIOUS
    <2> QED BY <2>2, <2>3, <2>4
  <1> HIDE DEF s
  <1>4. PICK g : /\ g[0] = 0
                 /\ \A i \in 1 .. Len(s) : g[i] = g[i - 1] + s[i]
                 /\ FoldLeft(LAMBDA sum, size : sum + size, 0, s) = g[Len(s)]
    BY <1>3, TotalRuns
  <1>5. Total(sizes, k) = g[k - 1]
    <2>1. Total(sizes, k) = FoldLeft(LAMBDA sum, size : sum + size, 0, s)
      BY DEF Total, s
    <2> QED BY <1>3, <1>4, <2>1
  <1>6. f \in [0 .. L -> Nat] /\ f[0] = 0 /\ \A i \in 1 .. L : f[i] = f[i - 1] + sizes[i]
    BY DEF IsSum
  <1> HIDE DEF L
  <1> DEFINE M == {i \in Nat : i <= k - 1 => g[i] = f[i]}
  <1>7. 0 \in M
    BY <1>4, <1>6
  <1>8. ASSUME NEW i \in M PROVE i + 1 \in M
    <2> SUFFICES ASSUME i + 1 <= k - 1 PROVE g[i + 1] = f[i + 1]
      OBVIOUS
    <2>1. i \in Nat /\ i + 1 \in 1 .. k - 1 /\ i + 1 \in 1 .. L /\ (i + 1) - 1 = i
      BY <1>1, <1>2
    <2>2. g[i] = f[i]
      BY <1>2, <2>1
    <2>3. g[i + 1] = g[i] + sizes[i + 1]
      BY <1>3, <1>4, <2>1
    <2>4. f[i + 1] = f[i] + sizes[i + 1]
      BY <1>6, <2>1
    <2> QED BY <2>2, <2>3, <2>4
  <1>9. M = Nat
    <2>1. M \in SUBSET Nat
      OBVIOUS
    <2> HIDE DEF M
    <2> QED BY <1>7, <1>8, <2>1, Induct
  <1>10. g[k - 1] = f[k - 1]
    BY <1>2, <1>9
  <1> QED BY <1>5, <1>10

\* What FlattenSeq is, one sequence after another.
LEMMA FlattenRuns ==
    ASSUME NEW S, NEW ss \in Seq(Seq(S))
    PROVE  \E f : /\ f[0] = <<>>
                  /\ \A i \in 1 .. Len(ss) : f[i] \in Seq(S) /\ f[i] = f[i - 1] \o ss[i]
                  /\ FlattenSeq(ss) = f[Len(ss)]
  <1> DEFINE N == Len(ss)
             base == <<>>
             step == [i \in 1 .. N |-> [acc \in Seq(S) |-> acc \o ss[i]]]
             flatten == CHOOSE fl : fl = [i \in 1 .. N |-> IF i = 1 THEN ss[i] ELSE fl[i - 1] \o ss[i]]
  <1>1. N \in Nat /\ \A i \in 1 .. N : ss[i] \in Seq(S)
    BY LenProperties, ElementOfSeq
  <1>2. base \in Seq(S)
    BY EmptySeq
  <1>3. step \in [1 .. N -> [Seq(S) -> Seq(S)]]
    <2>1. \A i \in 1 .. N : \A acc \in Seq(S) : acc \o ss[i] \in Seq(S)
      <3> HIDE DEF N
      <3> QED BY <1>1, ConcatProperties
    <2> QED BY <2>1
  <1>4. FlattenSeq(ss) = IF N = 0 THEN ss ELSE flatten[N]
    BY DEF FlattenSeq
  <1>5. N = 0 => ss = <<>>
    BY EmptySeq
  <1> HIDE DEF N, base
  <1> HIDE DEF flatten
  <1> HIDE DEF step
  <1>6. PICK g \in [SUBSET (1 .. N) -> Seq(S)] : IsTable(g, N, base, step)
    BY <1>1, <1>2, <1>3, TableExists
  <1> DEFINE h == [i \in 0 .. N |-> g[1 .. i]]
  <1>7. h[0] = base /\ \A i \in 0 .. N : h[i] \in Seq(S)
    <2>1. 1 .. 0 = {} /\ 0 \in 0 .. N /\ {} \in SUBSET (1 .. N) /\ \A i \in 0 .. N : 1 .. i \in SUBSET (1 .. N)
      BY <1>1
    <2>2. g[{}] = base
      BY <1>6, <2>1 DEF IsTable
    <2> QED BY <1>6, <2>1, <2>2
  <1>8. ASSUME NEW i \in 1 .. N PROVE h[i] = h[i - 1] \o ss[i]
    <2>1. /\ 1 .. i \in SUBSET (1 .. N) /\ 1 .. i # {} /\ Max(1 .. i) = i
          /\ (1 .. i) \ {i} = 1 .. i - 1 /\ i - 1 \in 0 .. N
      BY <1>1, Initial
    <2>5. i \in 0 .. N
      BY <1>1
    <2>2. g[1 .. i] = step[i][g[1 .. i - 1]]
      BY <1>6, <2>1 DEF IsTable
    <2>3. g[1 .. i - 1] \in Seq(S)
      BY <1>7, <2>1
    <2>4. h[i] = g[1 .. i] /\ h[i - 1] = g[1 .. i - 1]
      BY <2>1, <2>5
    <2> HIDE DEF h
    <2> QED BY <2>2, <2>3, <2>4 DEF step
  <1> HIDE DEF h
  <1>9. flatten = [i \in 1 .. N |-> IF i = 1 THEN ss[i] ELSE flatten[i - 1] \o ss[i]]
    <2> DEFINE g1 == [i \in 1 .. N |-> h[i]]
    <2>1. \A i \in 1 .. N : g1[i] = IF i = 1 THEN ss[i] ELSE g1[i - 1] \o ss[i]
      <3> SUFFICES ASSUME NEW i \in 1 .. N PROVE h[i] = IF i = 1 THEN ss[i] ELSE g1[i - 1] \o ss[i]
        OBVIOUS
      <3>1. CASE i = 1
        <4>1. h[1] = <<>> \o ss[1]
          <5>1. 1 - 1 = 0
            OBVIOUS
          <5> QED BY <1>7, <1>8, <3>1, <5>1 DEF base
        <4>2. <<>> \o ss[1] = ss[1]
          BY <1>1, <3>1, ConcatEmptySeq
        <4> QED BY <3>1, <4>1, <4>2
      <3>2. CASE i # 1
        <4>1. i - 1 \in 1 .. N
          BY <1>1, <3>2
        <4>2. g1[i - 1] = h[i - 1]
          BY <4>1
        <4> QED BY <1>8, <3>2, <4>2
      <3> QED BY <3>1, <3>2
    <2>2. g1 = [i \in 1 .. N |-> IF i = 1 THEN ss[i] ELSE g1[i - 1] \o ss[i]]
      <3>1. g1 = [i \in 1 .. N |-> g1[i]]
        OBVIOUS
      <3> HIDE DEF g1
      <3> QED BY <2>1, <3>1
    <2> HIDE DEF g1
    <2> QED BY <2>2 DEF flatten
  <1>10. N # 0 => flatten[N] = h[N]
    <2> DEFINE M == {i \in Nat : i \in 1 .. N => flatten[i] = h[i]}
    <2>1. 0 \in M
      OBVIOUS
    <2>2. ASSUME NEW i \in M PROVE i + 1 \in M
      <3> SUFFICES ASSUME i + 1 \in 1 .. N PROVE flatten[i + 1] = h[i + 1]
        OBVIOUS
      <3>1. flatten[i + 1] = IF i + 1 = 1 THEN ss[i + 1] ELSE flatten[(i + 1) - 1] \o ss[i + 1]
        BY <1>9
      <3>2. h[i + 1] = h[(i + 1) - 1] \o ss[i + 1] /\ (i + 1) - 1 = i /\ i \in Nat
        <4>1. i \in Nat
          OBVIOUS
        <4>2. (i + 1) - 1 = i
          BY <4>1
        <4>3. h[i + 1] = h[(i + 1) - 1] \o ss[i + 1]
          BY <1>8
        <4> QED BY <4>1, <4>2, <4>3
      <3>3. CASE i = 0
        <4>1. h[i + 1] = <<>> \o ss[i + 1]
          BY <1>7, <3>2, <3>3 DEF base
        <4>2. <<>> \o ss[i + 1] = ss[i + 1]
          BY <1>1, ConcatEmptySeq
        <4> QED BY <3>1, <3>3, <4>1, <4>2
      <3>4. CASE i # 0
        <4>1. i \in 1 .. N /\ i + 1 # 1
          BY <1>1, <3>2, <3>4
        <4>2. flatten[i] = h[i]
          BY <4>1
        <4> QED BY <3>1, <3>2, <4>1, <4>2
      <3> QED BY <3>3, <3>4
    <2>3. M = Nat
      <3>1. M \in SUBSET Nat
        OBVIOUS
      <3> HIDE DEF M
      <3> QED BY <2>1, <2>2, <3>1, Induct
    <2>4. N # 0 => N \in 1 .. N /\ N \in M
      BY <1>1, <2>3
    <2> QED BY <2>4
  <1>11. FlattenSeq(ss) = h[N]
    BY <1>4, <1>5, <1>7, <1>10 DEF base
  <1>12. \A i \in 1 .. N : i \in 0 .. N
    BY <1>1
  <1> QED BY <1>7, <1>8, <1>11, <1>12 DEF base, N

\* Each sequence of ss is in flat, past the sum of the sizes before.
Laid(ss, sum, flat) ==
    /\ Len(flat) = sum[Len(ss)]
    /\ \A k \in 1 .. Len(ss) : \A i \in 1 .. Len(ss[k]) :
           sum[k - 1] + i \in 1 .. Len(flat) /\ flat[sum[k - 1] + i] = ss[k][i]

\* Where the elements of each sequence are in all of them flattened.
LEMMA FlattenAt ==
    ASSUME NEW S, NEW ss \in Seq(Seq(S)), NEW sizes \in [1 .. Len(ss) -> Nat],
           \A k \in 1 .. Len(ss) : sizes[k] = Len(ss[k]),
           NEW sum, IsSum(sum, Len(ss), sizes)
    PROVE  FlattenSeq(ss) \in Seq(S) /\ Laid(ss, sum, FlattenSeq(ss))
  <1>1. PICK f : /\ f[0] = <<>>
                 /\ \A i \in 1 .. Len(ss) : f[i] \in Seq(S) /\ f[i] = f[i - 1] \o ss[i]
                 /\ FlattenSeq(ss) = f[Len(ss)]
    BY FlattenRuns
  <1> DEFINE N == Len(ss)
  <1>2. N \in Nat /\ \A i \in 1 .. N : ss[i] \in Seq(S) /\ Len(ss[i]) \in Nat /\ sizes[i] = Len(ss[i])
    <2>1. \A i \in 1 .. N : ss[i] \in Seq(S)
      BY ElementOfSeq
    <2> QED BY <2>1, LenProperties
  <1>4. sum \in [0 .. N -> Nat] /\ sum[0] = 0 /\ \A i \in 1 .. N : sum[i] = sum[i - 1] + Len(ss[i])
    BY <1>2 DEF IsSum
  <1>5. \A j \in 0 .. N : \A k \in j .. N : sum[j] <= sum[k]
    <2>1. IsSum(sum, N, sizes)
      OBVIOUS
    <2>2. sizes \in [1 .. N -> Nat]
      OBVIOUS
    <2> HIDE DEF N
    <2> QED BY <1>2, <2>1, <2>2, SumGrows
  <1> HIDE DEF N
  <1> DEFINE Flat(m) == /\ f[m] \in Seq(S) /\ Len(f[m]) = sum[m]
                        /\ \A k \in 1 .. m : \A i \in 1 .. Len(ss[k]) : f[m][sum[k - 1] + i] = ss[k][i]
             M == {m \in Nat : m <= N => Flat(m)}
  <1>6. 0 \in M
    <2>1. <<>> \in Seq(S) /\ Len(<<>>) = 0
      BY EmptySeq
    <2>2. Flat(0)
      BY <1>1, <1>4, <2>1
    <2> HIDE DEF Flat
    <2> QED BY <2>2
  <1>7. ASSUME NEW m \in M PROVE m + 1 \in M
    <2> SUFFICES ASSUME m + 1 <= N PROVE Flat(m + 1)
      OBVIOUS
    <2>1. m \in Nat /\ Flat(m) /\ m + 1 \in 1 .. N /\ (m + 1) - 1 = m /\ m \in 0 .. N
      BY <1>2
    <2> DEFINE t == ss[m + 1]
    <2>2. f[m + 1] = f[m] \o t
      BY <1>1, <2>1 DEF N
    <2>3. t \in Seq(S) /\ Len(t) \in Nat /\ f[m] \in Seq(S) /\ Len(f[m]) = sum[m] /\ sum[m] \in Nat
      BY <1>2, <1>4, <2>1
    <2>4. sum[m + 1] = sum[m] + Len(t)
      BY <1>4, <2>1
    <2> DEFINE u == f[m]
               L == sum[m]
               T == Len(t)
    <2>5. /\ u \o t \in Seq(S) /\ Len(u \o t) = Len(u) + Len(t)
          /\ \A i \in 1 .. Len(u) + Len(t) :
                 (u \o t)[i] = IF i <= Len(u) THEN u[i] ELSE t[i - Len(u)]
      <3>1. u \in Seq(S) /\ t \in Seq(S)
        BY <2>3
      <3> HIDE DEF u, t
      <3> QED BY <3>1, ConcatProperties
    <2>6. /\ f[m + 1] \in Seq(S) /\ Len(f[m + 1]) = L + T /\ L \in Nat /\ T \in Nat
          /\ \A i \in 1 .. L + T : f[m + 1][i] = IF i <= L THEN f[m][i] ELSE t[i - L]
      BY <2>2, <2>3, <2>5
    <2>7. ASSUME NEW k \in 1 .. m + 1, NEW i \in 1 .. Len(ss[k])
          PROVE  f[m + 1][sum[k - 1] + i] = ss[k][i]
      <3>1. CASE k = m + 1
        <4>1. k - 1 = m /\ i \in 1 .. T
          BY <2>1, <3>1
        <4> HIDE DEF L, T, t
        <4>2. L + i \in 1 .. L + T /\ ~(L + i <= L) /\ (L + i) - L = i
          BY <2>6, <4>1
        <4>3. f[m + 1][L + i] = t[i]
          BY <2>6, <4>2
        <4> QED BY <3>1, <4>1, <4>3 DEF L, t
      <3>2. CASE k # m + 1
        <4>1. k \in 1 .. m /\ k \in 1 .. N /\ k - 1 \in 0 .. N /\ k \in 0 .. N /\ m \in k .. N
          BY <1>2, <2>1, <3>2
        <4>2. sum[k] = sum[k - 1] + Len(ss[k]) /\ sum[k] <= sum[m] /\ sum[k - 1] \in Nat /\ Len(ss[k]) \in Nat
          BY <1>2, <1>4, <1>5, <2>1, <4>1
        <4> DEFINE x == sum[k - 1]
                   y == Len(ss[k])
        <4>3. x \in Nat /\ y \in Nat /\ x + y <= L /\ i \in 1 .. y
          BY <4>2
        <4>4. f[m][x + i] = ss[k][i]
          BY <2>1, <4>1
        <4> HIDE DEF L, T, t, x, y
        <4>5. x + i \in 1 .. L + T /\ x + i <= L
          BY <2>6, <4>3
        <4>6. f[m + 1][x + i] = f[m][x + i]
          BY <2>6, <4>5
        <4> QED BY <4>4, <4>6 DEF x
      <3> QED BY <3>1, <3>2
    <2>8. Flat(m + 1)
      BY <2>4, <2>6, <2>7
    <2> QED BY <2>8
  <1>8. M = Nat
    <2>1. M \in SUBSET Nat
      OBVIOUS
    <2> HIDE DEF M
    <2> QED BY <1>6, <1>7, <2>1, Induct
  <1>9. Flat(N)
    <2>1. N \in M
      <3> HIDE DEF M
      <3> QED BY <1>2, <1>8
    <2> HIDE DEF Flat
    <2> QED BY <1>2, <2>1
  <1>10. ASSUME NEW k \in 1 .. N, NEW i \in 1 .. Len(ss[k]) PROVE sum[k - 1] + i \in 1 .. sum[N]
    <2>1. k \in 0 .. N /\ k - 1 \in 0 .. N /\ N \in k .. N
      BY <1>2
    <2>2. sum[k] = sum[k - 1] + Len(ss[k]) /\ sum[k] <= sum[N]
      BY <1>2, <1>4, <1>5, <2>1
    <2>3. sum[k - 1] \in Nat /\ sum[N] \in Nat /\ Len(ss[k]) \in Nat
      BY <1>2, <1>4, <2>1
    <2> DEFINE x == sum[k - 1]
               y == Len(ss[k])
               z == sum[N]
    <2>4. x \in Nat /\ y \in Nat /\ z \in Nat /\ x + y <= z /\ i \in 1 .. y
      BY <2>2, <2>3
    <2> HIDE DEF x, y, z
    <2>5. x + i \in 1 .. z
      BY <2>4
    <2> QED BY <2>5 DEF x, z
  <1>11. FlattenSeq(ss) = f[N]
    BY <1>1 DEF N
  <1> QED BY <1>9, <1>10, <1>11 DEF N, Laid

\* Spans, and what is read of a part's result.
Spans == Seq(Nat \X Nat)
Page == [num : Nat, spans : Spans]
Item == [page : Nat, spans : Spans, head : BOOLEAN]

IsPart(part) ==
    /\ part.plan \in Seq(Nat) /\ part.result.length \in Nat
    /\ part.result.pages \in Seq(Page)
    /\ \A m \in Members : part.result.items[m] \in Seq(Item)

\* Position p of the whole is in one of its parts.
IsIn(N, sizes, f, p) == \E k \in 1 .. N : \E i \in 1 .. sizes[k] : p = f[k - 1] + i

\* Every position of the whole is in one of its parts.
LEMMA SumPlace ==
    ASSUME NEW N \in Nat, NEW sizes \in [1 .. N -> Nat], NEW f, IsSum(f, N, sizes),
           NEW p \in Nat, 1 <= p, p <= f[N]
    PROVE  IsIn(N, sizes, f, p)
  <1> DEFINE reach == {k \in Nat : k \in 0 .. N /\ p <= f[k]}
  <1>1. f \in [0 .. N -> Nat] /\ f[0] = 0 /\ \A i \in 1 .. N : f[i] = f[i - 1] + sizes[i]
    BY DEF IsSum
  <1>2. N \in 0 .. N /\ f[N] \in Nat /\ p \in Nat /\ p >= 1 /\ p <= f[N]
    <2>1. N \in 0 .. N
      OBVIOUS
    <2>2. f[N] \in Nat
      BY <1>1, <2>1
    <2> QED BY <2>1, <2>2
  <1>3. PICK k \in reach : \A j \in reach : k <= j
    <2>1. reach \in SUBSET Nat /\ N \in reach
      BY <1>2
    <2> HIDE DEF reach
    <2> QED BY <2>1, Least
  <1>4. k \in 0 .. N /\ p <= f[k]
    BY <1>3
  <1>5. k # 0
    BY <1>1, <1>2, <1>4
  <1>6. k \in 1 .. N /\ k - 1 \in 0 .. N /\ k - 1 \in Nat /\ ~(k <= k - 1)
    BY <1>4, <1>5
  <1>7. ~(p <= f[k - 1])
    BY <1>3, <1>6
  <1>8. f[k] = f[k - 1] + sizes[k] /\ f[k - 1] \in Nat /\ sizes[k] \in Nat
    BY <1>1, <1>6
  <1> DEFINE x == f[k - 1]
             y == sizes[k]
  <1>9. x \in Nat /\ y \in Nat /\ p <= x + y /\ ~(p <= x)
    BY <1>4, <1>7, <1>8
  <1> HIDE DEF x, y, reach
  <1>10. p - x \in 1 .. y /\ p = x + (p - x)
    BY <1>2, <1>9
  <1> QED BY <1>6, <1>10 DEF x, y, IsIn

\* A sequence whose neighbours ascend is ascending.
LEMMA NeighboursAscend ==
    ASSUME NEW s \in Seq(Nat), \A i \in 2 .. Len(s) : s[i - 1] < s[i]
    PROVE  Ascending(s)
  <1>1. Len(s) \in Nat /\ \A i \in 1 .. Len(s) : s[i] \in Nat
    BY LenProperties, ElementOfSeq
  <1> SUFFICES ASSUME NEW a \in 1 .. Len(s), NEW b \in 1 .. Len(s), a < b PROVE s[a] < s[b]
    BY DEF Ascending
  <1> DEFINE M == {d \in Nat : a + d + 1 <= Len(s) => s[a] < s[a + d + 1]}
  <1>2. 0 \in M
    <2> SUFFICES ASSUME a + 0 + 1 <= Len(s) PROVE s[a] < s[a + 0 + 1]
      OBVIOUS
    <2>1. a + 0 + 1 \in 2 .. Len(s) /\ (a + 0 + 1) - 1 = a
      BY <1>1
    <2> QED BY <2>1
  <1>3. ASSUME NEW d \in M PROVE d + 1 \in M
    <2> SUFFICES ASSUME a + (d + 1) + 1 <= Len(s) PROVE s[a] < s[a + (d + 1) + 1]
      OBVIOUS
    <2>1. d \in Nat
      OBVIOUS
    <2>2. a + d + 1 <= Len(s) /\ a + d + 1 \in 1 .. Len(s) /\ a + (d + 1) + 1 \in 2 .. Len(s)
          /\ a + (d + 1) + 1 \in 1 .. Len(s) /\ (a + (d + 1) + 1) - 1 = a + d + 1
      BY <1>1, <2>1
    <2>3. s[a] < s[a + d + 1]
      BY <2>2
    <2>4. s[a + d + 1] < s[a + (d + 1) + 1]
      BY <2>2
    <2>5. s[a] \in Nat /\ s[a + d + 1] \in Nat /\ s[a + (d + 1) + 1] \in Nat
      BY <1>1, <2>2
    <2>6. \A x, y, z \in Nat : x < y /\ y < z => x < z
      OBVIOUS
    <2> HIDE DEF M
    <2> QED BY <2>3, <2>4, <2>5, <2>6
  <1>4. M = Nat
    <2>1. M \in SUBSET Nat
      OBVIOUS
    <2> HIDE DEF M
    <2> QED BY <1>2, <1>3, <2>1, Induct
  <1>5. b - a - 1 \in Nat /\ a + (b - a - 1) + 1 = b /\ b <= Len(s)
    OBVIOUS
  <1>6. b - a - 1 \in M
    BY <1>4, <1>5
  <1> QED BY <1>5, <1>6

\* Plans that follow each other are ascending all together, and have all their pages.
LEMMA PlansAscend ==
    ASSUME NEW ss \in Seq(Seq(Nat)),
           \A k \in 1 .. Len(ss) : ValidPages(ss[k]),
           \A k \in 2 .. Len(ss) : Last(ss[k - 1]) < ss[k][1]
    PROVE  LET flat == FlattenSeq(ss)
           IN  flat \in Seq(Nat) /\ Ascending(flat) /\ ToSet(flat) = UNION {ToSet(ss[k]) : k \in 1 .. Len(ss)}
  <1> DEFINE N == Len(ss)
             flat == FlattenSeq(ss)
             sizes == [k \in 1 .. N |-> Len(ss[k])]
  <1>1. N \in Nat /\ \A k \in 1 .. N : /\ ss[k] \in Seq(Nat) /\ Len(ss[k]) \in Nat /\ sizes[k] = Len(ss[k])
                                       /\ DOMAIN ss[k] = 1 .. Len(ss[k])
    <2>1. \A k \in 1 .. N : ss[k] \in Seq(Nat)
      BY ElementOfSeq
    <2> QED BY <2>1, LenProperties
  <1>2. \A k \in 1 .. N : Len(ss[k]) >= 1 /\ \A i \in 2 .. Len(ss[k]) : ss[k][i - 1] < ss[k][i]
    <2> SUFFICES ASSUME NEW k \in 1 .. N
                 PROVE  Len(ss[k]) >= 1 /\ \A i \in 2 .. Len(ss[k]) : ss[k][i - 1] < ss[k][i]
      OBVIOUS
    <2>1. ss[k] # <<>> /\ \A i \in (1 .. Len(ss[k])) \ {1} : ss[k][i - 1] < ss[k][i]
      BY <1>1 DEF ValidPages
    <2>2. Len(ss[k]) \in Nat \ {0}
      BY <1>1, <2>1, EmptySeq
    <2>3. \A i \in 2 .. Len(ss[k]) : i \in (1 .. Len(ss[k])) \ {1}
      BY <2>2
    <2> QED BY <2>1, <2>2, <2>3
  <1>3. sizes \in [1 .. N -> Nat]
    BY <1>1
  <1>4. PICK sum : IsSum(sum, N, sizes)
    <2> HIDE DEF sizes, N
    <2> QED BY <1>1, <1>3, SumExists
  <1>5. /\ flat \in Seq(Nat) /\ Len(flat) = sum[N]
        /\ \A k \in 1 .. N : \A i \in 1 .. Len(ss[k]) :
               sum[k - 1] + i \in 1 .. Len(flat) /\ flat[sum[k - 1] + i] = ss[k][i]
    <2>1. \A k \in 1 .. Len(ss) : sizes[k] = Len(ss[k])
      BY <1>1
    <2>2. sizes \in [1 .. Len(ss) -> Nat] /\ IsSum(sum, Len(ss), sizes)
      BY <1>3, <1>4
    <2> HIDE DEF sizes
    <2>3. FlattenSeq(ss) \in Seq(Nat) /\ Laid(ss, sum, FlattenSeq(ss))
      BY <2>1, <2>2, FlattenAt
    <2> QED BY <2>3 DEF Laid
  <1>6. sum \in [0 .. N -> Nat] /\ sum[0] = 0 /\ \A i \in 1 .. N : sum[i] = sum[i - 1] + Len(ss[i])
    BY <1>1, <1>4 DEF IsSum
  <1> HIDE DEF flat, sizes, N
  <1>7. \A p \in 1 .. Len(flat) : \E k \in 1 .. N : \E i \in 1 .. Len(ss[k]) : p = sum[k - 1] + i
    <2> SUFFICES ASSUME NEW p \in 1 .. sum[N]
                 PROVE  \E k \in 1 .. N : \E i \in 1 .. Len(ss[k]) : p = sum[k - 1] + i
      BY <1>5
    <2>1. N \in Nat /\ N \in 0 .. N
      BY <1>1
    <2>2. p \in Nat /\ 1 <= p /\ p <= sum[N]
      BY <1>6, <2>1
    <2>3. IsIn(N, sizes, sum, p)
      BY <1>3, <1>4, <2>1, <2>2, SumPlace
    <2>5. PICK k \in 1 .. N : \E i \in 1 .. sizes[k] : p = sum[k - 1] + i
      BY <2>3 DEF IsIn
    <2>4. sizes[k] = Len(ss[k])
      BY <1>1
    <2> QED BY <2>5, <2>4
  <1>8. DOMAIN flat = 1 .. Len(flat) /\ Len(flat) \in Nat
    BY <1>5, LenProperties
  <1>9. ASSUME NEW p \in 2 .. Len(flat) PROVE flat[p - 1] < flat[p]
    <2>1. p - 1 \in 1 .. Len(flat) /\ p \in Int
      BY <1>8
    <2>2. PICK k \in 1 .. N : \E i \in 1 .. Len(ss[k]) : p - 1 = sum[k - 1] + i
      BY <1>7, <2>1
    <2>3. PICK i \in 1 .. Len(ss[k]) : p - 1 = sum[k - 1] + i
      BY <2>2
    <2>4. flat[p - 1] = ss[k][i]
      BY <1>5, <2>3
    <2>5. k - 1 \in 0 .. N /\ sum[k - 1] \in Nat /\ k \in 0 .. N /\ sum[k] \in Nat
      <3>1. k - 1 \in 0 .. N /\ k \in 0 .. N
        BY <1>1
      <3> QED BY <1>6, <3>1
    <2>6. i \in Int /\ Len(ss[k]) \in Nat /\ p = sum[k - 1] + (i + 1)
      <3>1. Len(ss[k]) \in Nat
        BY <1>1
      <3>2. i \in Int
        OBVIOUS
      <3>3. p \in Int /\ sum[k - 1] \in Int /\ p - 1 = sum[k - 1] + i
        BY <2>1, <2>3, <2>5
      <3>4. \A x, y, z \in Int : x - 1 = y + z => x = y + (z + 1)
        OBVIOUS
      <3> QED BY <3>1, <3>2, <3>3, <3>4
    <2>7. CASE i < Len(ss[k])
      <3>1. i + 1 \in 1 .. Len(ss[k]) /\ i + 1 \in 2 .. Len(ss[k]) /\ (i + 1) - 1 = i
        BY <2>6, <2>7
      <3>2. flat[p] = ss[k][i + 1]
        BY <1>5, <2>6, <3>1
      <3> QED BY <1>2, <2>4, <3>1, <3>2
    <2>8. CASE i = Len(ss[k])
      <3>1. sum[k] = sum[k - 1] + i /\ p = sum[k] + 1
        <4>1. sum[k] = sum[k - 1] + i
          BY <1>6, <2>8
        <4>2. \A x, y, z, q \in Int : x = y + z /\ q = y + (z + 1) => q = x + 1
          OBVIOUS
        <4>3. sum[k] \in Int /\ sum[k - 1] \in Int
          BY <2>5
        <4>4. p \in Int /\ i \in Int
          BY <2>1, <2>6
        <4> QED BY <2>6, <4>1, <4>2, <4>3, <4>4
      <3>2. k < N
        <4>1. k # N
          <5> SUFFICES ASSUME k = N PROVE FALSE
            OBVIOUS
          <5>1. p = Len(flat) + 1
            BY <1>5, <3>1
          <5> QED BY <1>8, <5>1
        <4> QED BY <1>1, <4>1
      <3>3. k + 1 \in 1 .. N /\ k + 1 \in 2 .. N /\ (k + 1) - 1 = k
        BY <1>1, <3>2
      <3>4. 1 \in 1 .. Len(ss[k + 1])
        BY <1>1, <1>2, <3>3
      <3>5. flat[p] = ss[k + 1][1]
        BY <1>5, <3>1, <3>3, <3>4
      <3>6. ss[k][i] = Last(ss[k])
        BY <2>8 DEF Last
      <3> QED BY <2>4, <3>3, <3>5, <3>6 DEF N
    <2> QED BY <2>6, <2>7, <2>8
  <1>10. Ascending(flat)
    BY <1>5, <1>9, NeighboursAscend
  <1>11. ToSet(flat) = UNION {ToSet(ss[k]) : k \in 1 .. N}
    <2>1. ASSUME NEW p \in 1 .. Len(flat) PROVE \E k \in 1 .. N : flat[p] \in ToSet(ss[k])
      <3>1. PICK k \in 1 .. N : \E i \in 1 .. Len(ss[k]) : p = sum[k - 1] + i
        BY <1>7
      <3>2. PICK i \in 1 .. Len(ss[k]) : p = sum[k - 1] + i
        BY <3>1
      <3>3. flat[p] = ss[k][i]
        BY <1>5, <3>2
      <3> QED BY <1>1, <3>3 DEF ToSet
    <2>2. ASSUME NEW k \in 1 .. N, NEW i \in 1 .. Len(ss[k]) PROVE ss[k][i] \in ToSet(flat)
      BY <1>5, <1>8 DEF ToSet
    <2>3. ToSet(flat) \subseteq UNION {ToSet(ss[k]) : k \in 1 .. N}
      BY <1>8, <2>1 DEF ToSet
    <2>4. \A k \in 1 .. N : ToSet(ss[k]) \subseteq ToSet(flat)
      <3> SUFFICES ASSUME NEW k \in 1 .. N, NEW x \in ToSet(ss[k]) PROVE x \in ToSet(flat)
        OBVIOUS
      <3>1. PICK i \in 1 .. Len(ss[k]) : x = ss[k][i]
        BY <1>1 DEF ToSet
      <3> QED BY <2>2, <3>1
    <2> QED BY <2>3, <2>4
  <1> QED BY <1>5, <1>10, <1>11 DEF flat, N

\* What the parts return are the pages of their plans.
LEMMA PagesAre ==
    ASSUME NEW T, NEW parts \in Seq(T), \A k \in 1 .. Len(parts) : IsPart(parts[k]), PagesMatch(parts)
    PROVE  LET nums == [k \in DOMAIN parts |-> [i \in DOMAIN parts[k].result.pages |->
                                                    MapPage(parts[k], parts[k].result.pages[i].num)]]
               plans == [k \in 1 .. Len(parts) |-> parts[k].plan]
           IN  /\ nums = plans /\ plans \in Seq(Seq(Nat)) /\ Len(plans) = Len(parts)
               /\ \A k \in 1 .. Len(plans) : ValidPages(plans[k])
               /\ \A k \in 2 .. Len(plans) : Last(plans[k - 1]) < plans[k][1]
  <1> DEFINE N == Len(parts)
             plans == [k \in 1 .. N |-> parts[k].plan]
             num(k) == [i \in DOMAIN parts[k].result.pages |-> MapPage(parts[k], parts[k].result.pages[i].num)]
             nums == [k \in DOMAIN parts |-> num(k)]
  <1>1. N \in Nat /\ DOMAIN parts = 1 .. N
    BY LenProperties
  <1>2. ASSUME NEW k \in 1 .. N
        PROVE  /\ parts[k].plan \in Seq(Nat) /\ ValidPages(parts[k].plan)
               /\ k > 1 => parts[k].plan[1] > Last(parts[k - 1].plan)
               /\ num(k) = parts[k].plan
    <2>1. parts[k].plan \in Seq(Nat) /\ parts[k].result.pages \in Seq(Page)
      BY DEF IsPart
    <2>2. /\ ValidPages(parts[k].plan)
          /\ k > 1 => parts[k].plan[1] > Last(parts[k - 1].plan)
          /\ Len(parts[k].result.pages) = Len(parts[k].plan)
          /\ \A i \in DOMAIN parts[k].plan : MapPage(parts[k], parts[k].result.pages[i].num) = parts[k].plan[i]
      BY <1>1 DEF PagesMatch
    <2>3. DOMAIN parts[k].result.pages = DOMAIN parts[k].plan
      BY <2>1, <2>2, LenProperties
    <2>4. num(k) = [i \in DOMAIN parts[k].plan |-> parts[k].plan[i]]
      BY <2>2, <2>3
    <2>5. parts[k].plan = [i \in DOMAIN parts[k].plan |-> parts[k].plan[i]]
      BY <2>1, LenProperties
    <2> QED BY <2>1, <2>2, <2>4, <2>5
  <1> HIDE DEF num, N
  <1>3. nums = plans
    BY <1>1, <1>2
  <1>4. plans \in Seq(Seq(Nat)) /\ Len(plans) = N
    BY <1>1, <1>2
  <1>5. \A k \in 1 .. N : ValidPages(plans[k])
    BY <1>2
  <1>6. ASSUME NEW k \in 2 .. N PROVE Last(plans[k - 1]) < plans[k][1]
    <2>1. k \in 1 .. N /\ k - 1 \in 1 .. N /\ k > 1
      BY <1>1
    <2>2. parts[k].plan[1] > Last(parts[k - 1].plan)
      BY <1>2, <2>1
    <2> QED BY <2>1, <2>2
  <1> HIDE DEF nums, plans
  <1>7. /\ nums = plans /\ plans \in Seq(Seq(Nat)) /\ Len(plans) = N
        /\ \A k \in 1 .. N : ValidPages(plans[k])
        /\ \A k \in 2 .. N : Last(plans[k - 1]) < plans[k][1]
    BY <1>3, <1>4, <1>5, <1>6
  <1> QED BY <1>7 DEF nums, plans, num, N

\* However many parts a document is cut into and however the service numbers their
\* pages, what the merge of Read results does not refuse has each page that was
\* planned once, ascending (merge.Read, checkPages).
THEOREM ReadPagesExact ==
    ASSUME NEW T, NEW parts \in Seq(T), \A k \in 1 .. Len(parts) : IsPart(parts[k]), Read(parts).ok
    PROVE  LET pages == Read(parts).pages
           IN  /\ pages \in Seq(Nat) /\ Ascending(pages)
               /\ ToSet(pages) = UNION {ToSet(parts[k].plan) : k \in 1 .. Len(parts)}
  <1> DEFINE nums == [k \in DOMAIN parts |-> [i \in DOMAIN parts[k].result.pages |->
                                                  MapPage(parts[k], parts[k].result.pages[i].num)]]
             plans == [k \in 1 .. Len(parts) |-> parts[k].plan]
  <1>1. PagesMatch(parts)
    BY DEF Read
  <1>2. Read(parts).pages = FlattenSeq(nums)
    BY DEF Read, WriteArray
  <1>3. /\ nums = plans /\ plans \in Seq(Seq(Nat)) /\ Len(plans) = Len(parts)
        /\ \A k \in 1 .. Len(plans) : ValidPages(plans[k])
        /\ \A k \in 2 .. Len(plans) : Last(plans[k - 1]) < plans[k][1]
    BY <1>1, PagesAre
  <1>4. UNION {ToSet(plans[k]) : k \in 1 .. Len(parts)} = UNION {ToSet(parts[k].plan) : k \in 1 .. Len(parts)}
    OBVIOUS
  <1> HIDE DEF nums, plans
  <1>5. /\ FlattenSeq(plans) \in Seq(Nat) /\ Ascending(FlattenSeq(plans))
        /\ ToSet(FlattenSeq(plans)) = UNION {ToSet(plans[k]) : k \in 1 .. Len(plans)}
    BY <1>3, PlansAscend
  <1> QED BY <1>2, <1>3, <1>4, <1>5

\* Total is the sum, and the flattened sequence has each element past the total of
\* the sequences before its own.
LEMMA TotalSums ==
    ASSUME NEW sizes \in Seq(Nat)
    PROVE  \E sum : /\ IsSum(sum, Len(sizes), sizes)
                    /\ \A k \in 1 .. Len(sizes) + 1 : Total(sizes, k) = sum[k - 1]
  <1> DEFINE N == Len(sizes)
  <1>1. N \in Nat /\ sizes \in [1 .. N -> Nat]
    BY LenProperties
  <1> HIDE DEF N
  <1>2. PICK sum : IsSum(sum, N, sizes)
    BY <1>1, SumExists
  <1>3. IsSum(sum, Len(sizes), sizes)
    BY <1>2 DEF N
  <1>4. \A k \in 1 .. Len(sizes) + 1 : Total(sizes, k) = sum[k - 1]
    BY <1>3, TotalIs
  <1> QED BY <1>3, <1>4

\* The total before k includes the size of each one before.
LEMMA TotalGrows ==
    ASSUME NEW sizes \in Seq(Nat), NEW j \in 1 .. Len(sizes), NEW k \in j + 1 .. Len(sizes) + 1
    PROVE  /\ Total(sizes, j) \in Nat /\ Total(sizes, k) \in Nat
           /\ Total(sizes, j) + sizes[j] <= Total(sizes, k)
  <1> DEFINE N == Len(sizes)
  <1>1. N \in Nat /\ sizes \in [1 .. N -> Nat]
    BY LenProperties
  <1>2. PICK sum : /\ IsSum(sum, N, sizes)
                   /\ \A i \in 1 .. N + 1 : Total(sizes, i) = sum[i - 1]
    BY TotalSums
  <1> HIDE DEF N
  <1>3. j \in 1 .. N /\ k \in j + 1 .. N + 1
    BY DEF N
  <1>4. sum \in [0 .. N -> Nat] /\ \A i \in 1 .. N : sum[i] = sum[i - 1] + sizes[i]
    BY <1>2 DEF IsSum
  <1>5. j \in 0 .. N /\ j - 1 \in 0 .. N /\ k - 1 \in j .. N /\ k - 1 \in 0 .. N
        /\ j \in 1 .. N + 1 /\ k \in 1 .. N + 1
    BY <1>1, <1>3
  <1>6. sum[j] <= sum[k - 1]
    BY <1>1, <1>2, <1>5, SumGrows
  <1>7. sum[j] = sum[j - 1] + sizes[j]
    BY <1>3, <1>4
  <1>8. Total(sizes, j) = sum[j - 1] /\ Total(sizes, k) = sum[k - 1]
    BY <1>2, <1>5
  <1>9. sum[j - 1] \in Nat /\ sum[k - 1] \in Nat
    BY <1>4, <1>5
  <1> QED BY <1>6, <1>7, <1>8, <1>9

\* Each sequence of ss is in flat, past the total of the sizes before.
Packed(sizes, ss, flat) ==
    /\ DOMAIN flat = 1 .. Len(flat) /\ Len(flat) = Total(sizes, Len(sizes) + 1)
    /\ \A k \in 1 .. Len(sizes) : \A i \in 1 .. sizes[k] :
           /\ Total(sizes, k) + i \in DOMAIN flat
           /\ flat[Total(sizes, k) + i] = ss[k][i]

\* Sequences flattened follow each other.
LEMMA FlattenTotal ==
    ASSUME NEW sizes \in Seq(Nat), NEW ss, ss = [k \in 1 .. Len(sizes) |-> ss[k]],
           \A k \in 1 .. Len(sizes) : ss[k] = [i \in 1 .. sizes[k] |-> ss[k][i]]
    PROVE  Packed(sizes, ss, FlattenSeq(ss))
  <1> DEFINE N == Len(sizes)
             S == UNION {{ss[k][i] : i \in 1 .. sizes[k]} : k \in 1 .. N}
  <1>1. N \in Nat /\ sizes \in [1 .. N -> Nat]
    BY LenProperties
  <1>2. \A k \in 1 .. N : \A i \in 1 .. sizes[k] : ss[k][i] \in S
    OBVIOUS
  <1> HIDE DEF N, S
  <1>3. ASSUME NEW k \in 1 .. N PROVE ss[k] \in Seq(S) /\ Len(ss[k]) = sizes[k]
    <2>1. sizes[k] \in Nat
      BY <1>1
    <2>2. ss[k] = [i \in 1 .. sizes[k] |-> ss[k][i]]
      BY DEF N
    <2>3. ss[k] \in [1 .. sizes[k] -> S]
      BY <1>2, <2>2
    <2> DEFINE t == ss[k]
               z == sizes[k]
    <2>4. t \in [1 .. z -> S] /\ z \in Nat
      BY <2>1, <2>3
    <2> HIDE DEF t, z
    <2>5. t \in Seq(S)
      BY <2>4, SeqDef
    <2>6. Len(t) \in Nat /\ DOMAIN t = 1 .. Len(t) /\ DOMAIN t = 1 .. z
      BY <2>4, <2>5, LenProperties
    <2>7. Len(t) = z
      BY <2>4, <2>6, SameEnd
    <2> QED BY <2>5, <2>7 DEF t, z
  <1>4. ss \in Seq(Seq(S)) /\ Len(ss) = N
    <2>1. ss = [k \in 1 .. N |-> ss[k]]
      BY DEF N
    <2>2. ss \in [1 .. N -> Seq(S)]
      BY <1>3, <2>1
    <2> QED BY <1>1, <2>2
  <1>5. PICK sum : /\ IsSum(sum, N, sizes)
                   /\ \A i \in 1 .. N + 1 : Total(sizes, i) = sum[i - 1]
    BY TotalSums DEF N
  <1>7. /\ FlattenSeq(ss) \in Seq(S) /\ Len(FlattenSeq(ss)) = sum[Len(ss)]
        /\ \A k \in 1 .. Len(ss) : \A i \in 1 .. Len(ss[k]) :
               /\ sum[k - 1] + i \in 1 .. Len(FlattenSeq(ss))
               /\ FlattenSeq(ss)[sum[k - 1] + i] = ss[k][i]
    <2>1. IsSum(sum, Len(ss), sizes) /\ sizes \in [1 .. Len(ss) -> Nat]
      BY <1>1, <1>4, <1>5
    <2>2. \A k \in 1 .. Len(ss) : sizes[k] = Len(ss[k])
      BY <1>3, <1>4
    <2>3. FlattenSeq(ss) \in Seq(S) /\ Laid(ss, sum, FlattenSeq(ss))
      BY <1>4, <2>1, <2>2, FlattenAt
    <2> QED BY <2>3 DEF Laid
  <1>8. Total(sizes, N + 1) = sum[N]
    BY <1>1, <1>5
  <1>9. ASSUME NEW k \in 1 .. N, NEW i \in 1 .. sizes[k]
        PROVE  /\ Total(sizes, k) + i \in 1 .. Len(FlattenSeq(ss))
               /\ FlattenSeq(ss)[Total(sizes, k) + i] = ss[k][i]
    <2>1. Total(sizes, k) = sum[k - 1]
      <3>1. k \in 1 .. N + 1
        BY <1>1
      <3> QED BY <1>5, <3>1
    <2>2. k \in 1 .. Len(ss) /\ i \in 1 .. Len(ss[k])
      BY <1>3, <1>4
    <2> QED BY <1>7, <2>1, <2>2
  <1>10. DOMAIN FlattenSeq(ss) = 1 .. Len(FlattenSeq(ss))
    BY <1>7, LenProperties
  <1> QED BY <1>4, <1>7, <1>8, <1>9, <1>10 DEF N, Packed

\* A pointer of a part's section names, with its merged number, the item it named: the
\* same item of the merged array, with its original page and its spans in the merged
\* content (merge.DI, diVisitor.pointer, checkPointers).
THEOREM PointersFollow ==
    ASSUME NEW T, NEW parts \in Seq(T), \A k \in 1 .. Len(parts) : IsPart(parts[k]),
           NEW counted, NEW format, DI(parts, counted, format).ok,
           NEW k \in 1 .. Len(parts), NEW s \in ToSet(parts[k].result.sections),
           NEW ptr \in ToSet(s.elements), ptr \in Members \X Nat
    PROVE  LET merged == DI(parts, counted, format).result.items[ptr[1]]
               new == Renumber(parts, PlanContinuations(parts).leads, k, ptr)
           IN  /\ new[1] = ptr[1] /\ new[2] + 1 \in DOMAIN merged
               /\ Nth(merged, new[2]) =
                      [Nth(parts[k].result.items[ptr[1]], ptr[2]) EXCEPT
                          !.page = MapPage(parts[k], @),
                          !.spans = Shift(parts, k, Separator(format), @)]
  <1> DEFINE N == Len(parts)
             m == ptr[1]
             sep == Separator(format)
             list(j) == parts[j].result.items[m]
             item(j, it) == [it EXCEPT !.page = MapPage(parts[j], @), !.spans = Shift(parts, j, sep, @)]
             sizes == [j \in 1 .. N |-> Len(list(j))]
             ss == [j \in 1 .. N |-> [i \in 1 .. sizes[j] |-> item(j, list(j)[i])]]
             merged == DI(parts, counted, format).result.items[m]
  <1>1. N \in Nat /\ DOMAIN parts = 1 .. N /\ m \in Members /\ ptr[2] \in Nat
    BY LenProperties
  <1>2. \A j \in 1 .. N : Len(list(j)) \in Nat /\ DOMAIN list(j) = 1 .. Len(list(j))
    <2>1. \A j \in 1 .. N : list(j) \in Seq(Item)
      BY <1>1 DEF IsPart
    <2> QED BY <2>1, LenProperties
  <1>3. merged = FlattenSeq(ss)
    <2>1. merged = WriteItems(parts, sep, m)
      BY <1>1 DEF DI
    <2>2. WriteItems(parts, sep, m)
              = FlattenSeq([j \in DOMAIN parts |-> [i \in DOMAIN list(j) |-> item(j, list(j)[i])]])
      BY DEF WriteItems, WriteArray
    <2>3. [j \in DOMAIN parts |-> [i \in DOMAIN list(j) |-> item(j, list(j)[i])]] = ss
      BY <1>1, <1>2
    <2> QED BY <2>1, <2>2, <2>3
  <1>4. sizes \in Seq(Nat) /\ Len(sizes) = N
    BY <1>1, <1>2
  <1>5. PtrBase(parts, k, m) = Total(sizes, k)
    <2>1. [i \in DOMAIN parts |-> Len(parts[i].result.items[m])] = sizes
      BY <1>1
    <2> QED BY <2>1 DEF PtrBase
  <1>6. ptr[2] < sizes[k]
    <2>1. PointersMatch(parts)
      BY DEF DI, Checked
    <2>2. ptr[2] < Count(parts[k].result, ptr[1])
      BY <1>1, <2>1 DEF PointersMatch
    <2>3. m # "sections"
      BY <1>1 DEF Members
    <2> QED BY <2>2, <2>3 DEF Count
  <1>7. ptr[2] + 1 \in 1 .. sizes[k]
    BY <1>1, <1>2, <1>6
  <1>8. Renumber(parts, PlanContinuations(parts).leads, k, ptr) = <<m, ptr[2] + Total(sizes, k)>>
    <2>1. ~IsSection(ptr)
      BY <1>1 DEF IsSection, Members
    <2> QED BY <1>5, <2>1 DEF Renumber
  <1>9. ss[k] = [i \in 1 .. sizes[k] |-> item(k, list(k)[i])]
    OBVIOUS
  <1>10. /\ ss = [j \in 1 .. Len(sizes) |-> ss[j]]
         /\ \A j \in 1 .. Len(sizes) : ss[j] = [i \in 1 .. sizes[j] |-> ss[j][i]]
    <2>1. ss = [j \in 1 .. N |-> ss[j]]
      OBVIOUS
    <2>2. \A j \in 1 .. N : ss[j] = [i \in 1 .. sizes[j] |-> ss[j][i]]
      OBVIOUS
    <2> HIDE DEF ss, sizes, N
    <2> QED BY <1>4, <2>1, <2>2
  <1>11. ss[k][ptr[2] + 1] = item(k, Nth(list(k), ptr[2]))
    <2>1. ss[k][ptr[2] + 1] = item(k, list(k)[ptr[2] + 1])
      <3> HIDE DEF item, list, sizes, ss
      <3> QED BY <1>7, <1>9
    <2> QED BY <2>1 DEF Nth
  <1> HIDE DEF N, list, item, ss, sizes, merged
  <1>12. /\ Total(sizes, k) + (ptr[2] + 1) \in DOMAIN FlattenSeq(ss)
         /\ FlattenSeq(ss)[Total(sizes, k) + (ptr[2] + 1)] = ss[k][ptr[2] + 1]
    <2>1. k \in 1 .. Len(sizes)
      BY <1>4 DEF N
    <2>2. Packed(sizes, ss, FlattenSeq(ss))
      BY <1>4, <1>10, FlattenTotal
    <2> QED BY <1>7, <2>1, <2>2 DEF Packed
  <1>13. Total(sizes, k) \in Nat /\ (ptr[2] + Total(sizes, k)) + 1 = Total(sizes, k) + (ptr[2] + 1)
    <2>1. Total(sizes, k) \in Nat
      <3>1. k \in 1 .. Len(sizes) /\ Len(sizes) \in Nat
        BY <1>1, <1>4 DEF N
      <3>2. k + 1 \in k + 1 .. Len(sizes) + 1
        BY <3>1
      <3> QED BY <1>4, <3>1, <3>2, TotalGrows
    <2> QED BY <1>1, <2>1
  <1> QED BY <1>3, <1>8, <1>11, <1>12, <1>13 DEF merged, item, list, Nth

\* The last of some numbers is no less than any of them.
LEMMA MaxBounds ==
    ASSUME NEW N \in Nat \ {0}, NEW f \in [1 .. N -> Nat]
    PROVE  LET S == {f[i] : i \in 1 .. N} IN Max(S) \in Nat /\ \A i \in 1 .. N : f[i] <= Max(S)
  <1> DEFINE S == {f[i] : i \in 1 .. N}
             M == {m \in Nat : m + 1 <= N => \E x \in 1 .. m + 1 : \A y \in 1 .. m + 1 : f[y] <= f[x]}
  <1>1. 0 \in M
    <2>1. 1 .. 0 + 1 = {1} /\ 1 \in 1 .. N /\ f[1] <= f[1]
      OBVIOUS
    <2> QED BY <2>1
  <1>2. ASSUME NEW m \in M PROVE m + 1 \in M
    <2> SUFFICES ASSUME (m + 1) + 1 <= N
                 PROVE  \E x \in 1 .. (m + 1) + 1 : \A y \in 1 .. (m + 1) + 1 : f[y] <= f[x]
      OBVIOUS
    <2>1. m \in Nat /\ m + 1 <= N
      OBVIOUS
    <2>2. PICK x \in 1 .. m + 1 : \A y \in 1 .. m + 1 : f[y] <= f[x]
      BY <2>1
    <2>3. /\ 1 .. (m + 1) + 1 = (1 .. m + 1) \union {m + 2}
          /\ 1 .. (m + 1) + 1 \subseteq 1 .. N /\ m + 2 \in 1 .. N /\ x \in 1 .. N
      BY <2>1
    <2>4. f[x] \in Nat /\ f[m + 2] \in Nat /\ \A y \in 1 .. m + 1 : f[y] \in Nat
      BY <2>3
    <2> HIDE DEF M
    <2>5. CASE f[m + 2] <= f[x]
      BY <2>2, <2>3, <2>5
    <2>6. CASE f[x] <= f[m + 2]
      <3>1. \A y \in 1 .. m + 1 : f[y] <= f[m + 2]
        BY <2>2, <2>4, <2>6
      <3>2. f[m + 2] <= f[m + 2]
        BY <2>4
      <3> QED BY <2>3, <3>1, <3>2
    <2> QED BY <2>4, <2>5, <2>6
  <1>3. M = Nat
    <2>1. M \in SUBSET Nat
      OBVIOUS
    <2> HIDE DEF M
    <2> QED BY <1>1, <1>2, <2>1, Induct
  <1>4. N - 1 \in M /\ (N - 1) + 1 = N
    <2> HIDE DEF M
    <2> QED BY <1>3
  <1>5. PICK x \in 1 .. N : \A y \in 1 .. N : f[y] <= f[x]
    BY <1>4
  <1>6. \A v \in S : v \in Nat
    OBVIOUS
  <1>7. f[x] \in S /\ \A v \in S : f[x] >= v
    BY <1>5, <1>6
  <1> HIDE DEF S, M
  <1>8. Max(S) \in S /\ \A v \in S : Max(S) >= v
    BY <1>7 DEF Max
  <1>9. Max(S) \in Nat /\ \A v \in S : v <= Max(S)
    BY <1>6, <1>8
  <1> QED BY <1>9 DEF S

\* No span ends past the furthest.
LEMMA FurthestBounds ==
    ASSUME NEW spans \in Spans, NEW i \in DOMAIN spans
    PROVE  Furthest(spans) \in Nat /\ EndOf(spans[i]) <= Furthest(spans)
  <1> DEFINE N == Len(spans)
             f == [j \in 1 .. N |-> EndOf(spans[j])]
  <1>1. N \in Nat /\ DOMAIN spans = 1 .. N /\ \A j \in 1 .. N : spans[j] \in Nat \X Nat
    BY LenProperties, ElementOfSeq DEF Spans
  <1>2. \A j \in 1 .. N : EndOf(spans[j]) \in Nat
    BY <1>1 DEF EndOf
  <1>3. N # 0 /\ spans # <<>>
    BY <1>1
  <1>4. f \in [1 .. N -> Nat]
    BY <1>2
  <1>5. {EndOf(spans[j]) : j \in DOMAIN spans} = {f[j] : j \in 1 .. N}
    BY <1>1
  <1>6. f[i] = EndOf(spans[i]) /\ i \in 1 .. N
    BY <1>1
  <1>7. Furthest(spans) = Max({f[j] : j \in 1 .. N})
    BY <1>3, <1>5 DEF Furthest
  <1> HIDE DEF N, f
  <1>8. N \in Nat \ {0}
    BY <1>1, <1>3
  <1> QED BY <1>4, <1>6, <1>7, <1>8, MaxBounds

\* No page of a part that was checked ends past the part's content.
LEMMA PageWithin ==
    ASSUME NEW T, NEW parts \in Seq(T), \A k \in 1 .. Len(parts) : IsPart(parts[k]), PageSpansMatch(parts),
           NEW k \in 1 .. Len(parts), NEW i \in DOMAIN parts[k].result.pages,
           NEW j \in DOMAIN parts[k].result.pages[i].spans
    PROVE  EndOf(parts[k].result.pages[i].spans[j]) <= parts[k].result.length
  <1> DEFINE pages == parts[k].result.pages
             N == Len(pages)
             ss == [x \in DOMAIN pages |-> pages[x].spans]
             sizes == [x \in 1 .. N |-> Len(ss[x])]
             flat == FlattenSeq(ss)
  <1>1. N \in Nat /\ DOMAIN pages = 1 .. N /\ \A x \in 1 .. N : pages[x].spans \in Spans
    <2>1. pages \in Seq(Page)
      BY DEF IsPart
    <2>2. N \in Nat /\ DOMAIN pages = 1 .. N /\ \A x \in 1 .. N : pages[x] \in Page
      BY <2>1, LenProperties, ElementOfSeq
    <2> QED BY <2>2 DEF Page
  <1>2. ss \in Seq(Spans) /\ Len(ss) = N /\ ss[i] = pages[i].spans
    BY <1>1
  <1>3. PageSpansMatch(parts) => LET end == Furthest(flat) IN
            IF end < 0 THEN parts[k].result.length = 0 ELSE end = parts[k].result.length
    <2>1. k \in DOMAIN parts
      BY LenProperties
    <2> QED BY <2>1 DEF PageSpansMatch
  <1>4. sizes \in [1 .. N -> Nat] /\ \A x \in 1 .. N : sizes[x] = Len(ss[x])
    <2>1. \A x \in 1 .. N : Len(ss[x]) \in Nat
      BY <1>1, LenProperties DEF Spans
    <2> QED BY <2>1
  <1> HIDE DEF sizes, ss, flat, N
  <1>5. PICK sum : IsSum(sum, N, sizes)
    BY <1>1, <1>4, SumExists
  <1>6. flat \in Spans /\ Laid(ss, sum, flat)
    <2>1. ss \in Seq(Seq(Nat \X Nat)) /\ IsSum(sum, Len(ss), sizes) /\ sizes \in [1 .. Len(ss) -> Nat]
      BY <1>2, <1>4, <1>5 DEF Spans
    <2>2. \A x \in 1 .. Len(ss) : sizes[x] = Len(ss[x])
      BY <1>2, <1>4
    <2>3. FlattenSeq(ss) \in Seq(Nat \X Nat) /\ Laid(ss, sum, FlattenSeq(ss))
      BY <2>1, <2>2, FlattenAt
    <2> QED BY <2>3 DEF flat, Spans
  <1>7. i \in 1 .. Len(ss) /\ j \in 1 .. Len(ss[i])
    <2>1. pages[i].spans \in Seq(Nat \X Nat)
      BY <1>1 DEF Spans
    <2>2. DOMAIN pages[i].spans = 1 .. Len(pages[i].spans)
      BY <2>1, LenProperties
    <2> QED BY <1>1, <1>2, <2>2
  <1> DEFINE p == sum[i - 1] + j
  <1>8. p \in 1 .. Len(flat) /\ flat[p] = pages[i].spans[j]
    BY <1>2, <1>6, <1>7 DEF Laid
  <1>9. p \in DOMAIN flat
    BY <1>6, <1>8, LenProperties DEF Spans
  <1> HIDE DEF p
  <1>10. Furthest(flat) \in Nat /\ EndOf(flat[p]) <= Furthest(flat)
    BY <1>6, <1>9, FurthestBounds
  <1>11. Furthest(flat) = parts[k].result.length
    BY <1>3, <1>10
  <1> QED BY <1>8, <1>10, <1>11

\* The content of a part and a separator come before the content of a later part.
LEMMA CharGrows ==
    ASSUME NEW T, NEW parts \in Seq(T), \A k \in 1 .. Len(parts) : IsPart(parts[k]), NEW sep \in Nat,
           NEW k \in 1 .. Len(parts)
    PROVE  /\ Char(parts, k, sep) \in Nat
           /\ \A j \in 1 .. k - 1 : Char(parts, j, sep) + (parts[j].result.length + sep) <= Char(parts, k, sep)
  <1> DEFINE N == Len(parts)
             sizes == [i \in DOMAIN parts |-> parts[i].result.length + sep]
  <1>1. N \in Nat /\ DOMAIN parts = 1 .. N
    BY LenProperties
  <1>2. \A i \in 1 .. N : parts[i].result.length \in Nat
    BY DEF IsPart
  <1>3. sizes \in Seq(Nat) /\ Len(sizes) = N /\ \A i \in 1 .. N : sizes[i] = parts[i].result.length + sep
    <2>1. \A i \in 1 .. N : parts[i].result.length + sep \in Nat
      BY <1>2
    <2> QED BY <1>1, <2>1
  <1>4. \A i \in 1 .. N : Char(parts, i, sep) = Total(sizes, i)
    BY DEF Char
  <1>5. k \in 1 .. N /\ k + 1 \in k + 1 .. N + 1
    BY <1>1
  <1> HIDE DEF sizes, N
  <1>6. Total(sizes, k) \in Nat
    <2>1. k \in 1 .. Len(sizes) /\ k + 1 \in k + 1 .. Len(sizes) + 1
      BY <1>3, <1>5
    <2> QED BY <1>3, <2>1, TotalGrows
  <1>7. ASSUME NEW j \in 1 .. k - 1 PROVE Total(sizes, j) + sizes[j] <= Total(sizes, k) /\ j \in 1 .. N
    <2>1. j \in 1 .. N /\ j \in 1 .. Len(sizes) /\ k \in j + 1 .. Len(sizes) + 1
      BY <1>1, <1>3, <1>5
    <2> QED BY <1>3, <2>1, TotalGrows
  <1> QED BY <1>3, <1>4, <1>5, <1>6, <1>7

\* Where a page of a part is in the merged pages, and where its text is.
LEMMA MergedPage ==
    ASSUME NEW T, NEW parts \in Seq(T), \A k \in 1 .. Len(parts) : IsPart(parts[k]),
           NEW counted, NEW format, DI(parts, counted, format).ok,
           NEW k \in 1 .. Len(parts), NEW i \in DOMAIN parts[k].result.pages
    PROVE  LET merged == DI(parts, counted, format).result.pages
               at == Total([x \in DOMAIN parts |-> Len(parts[x].result.pages)], k) + i
               start == Char(parts, k, Separator(format))
           IN  /\ at \in DOMAIN merged /\ merged[at].num = parts[k].plan[i]
               /\ \A s \in ToSet(merged[at].spans) :
                      /\ s[1] \in Nat /\ EndOf(s) \in Nat
                      /\ start <= s[1] /\ EndOf(s) <= start + parts[k].result.length
  <1> DEFINE N == Len(parts)
             sep == Separator(format)
             list(j) == parts[j].result.pages
             item(j, page) == [num |-> MapPage(parts[j], page.num), spans |-> Shift(parts, j, sep, page.spans)]
             sizes == [j \in 1 .. N |-> Len(list(j))]
             ss == [j \in 1 .. N |-> [x \in 1 .. sizes[j] |-> item(j, list(j)[x])]]
             merged == DI(parts, counted, format).result.pages
             spans == list(k)[i].spans
             start == Char(parts, k, sep)
  <1>1. N \in Nat /\ DOMAIN parts = 1 .. N
    BY LenProperties
  <1>2. \A j \in 1 .. N : list(j) \in Seq(Page) /\ Len(list(j)) \in Nat /\ DOMAIN list(j) = 1 .. Len(list(j))
    <2>1. \A j \in 1 .. N : list(j) \in Seq(Page)
      BY DEF IsPart
    <2> QED BY <2>1, LenProperties
  <1>3. merged = FlattenSeq(ss)
    <2>1. merged = WritePages(parts, sep)
      BY DEF DI
    <2>2. WritePages(parts, sep)
              = FlattenSeq([j \in DOMAIN parts |-> [x \in DOMAIN list(j) |-> item(j, list(j)[x])]])
      BY DEF WritePages, WriteArray
    <2>3. [j \in DOMAIN parts |-> [x \in DOMAIN list(j) |-> item(j, list(j)[x])]] = ss
      BY <1>1, <1>2
    <2> QED BY <2>1, <2>2, <2>3
  <1>4. sizes \in Seq(Nat) /\ Len(sizes) = N
    BY <1>1, <1>2
  <1>5. i \in 1 .. sizes[k]
    BY <1>1, <1>2
  <1>6. [x \in DOMAIN parts |-> Len(parts[x].result.pages)] = sizes
    BY <1>1
  <1>7. ss[k][i] = item(k, list(k)[i])
    BY <1>5
  <1>8. /\ ss = [j \in 1 .. Len(sizes) |-> ss[j]]
        /\ \A j \in 1 .. Len(sizes) : ss[j] = [x \in 1 .. sizes[j] |-> ss[j][x]]
    <2>1. ss = [j \in 1 .. N |-> ss[j]]
      OBVIOUS
    <2>2. \A j \in 1 .. N : ss[j] = [x \in 1 .. sizes[j] |-> ss[j][x]]
      OBVIOUS
    <2> HIDE DEF ss, sizes, N
    <2> QED BY <1>4, <2>1, <2>2
  <1>9. MapPage(parts[k], list(k)[i].num) = parts[k].plan[i]
    <2>1. PagesMatch(parts)
      BY DEF DI, Checked
    <2>2. /\ Len(list(k)) = Len(parts[k].plan)
          /\ \A x \in DOMAIN parts[k].plan : MapPage(parts[k], list(k)[x].num) = parts[k].plan[x]
      BY <1>1, <2>1 DEF PagesMatch
    <2>3. parts[k].plan \in Seq(Nat)
      BY DEF IsPart
    <2>4. i \in DOMAIN parts[k].plan
      BY <1>2, <2>2, <2>3, LenProperties
    <2> QED BY <2>2, <2>4
  <1>10. spans \in Spans
    <2>1. list(k)[i] \in Page
      BY <1>2, ElementOfSeq
    <2> QED BY <2>1 DEF Page
  <1>11. ASSUME NEW j \in DOMAIN spans
         PROVE  spans[j] \in Nat \X Nat /\ EndOf(spans[j]) <= parts[k].result.length
    <2>1. PageSpansMatch(parts)
      BY DEF DI, Checked
    <2>2. EndOf(spans[j]) <= parts[k].result.length
      BY <2>1, PageWithin
    <2>3. spans[j] \in Nat \X Nat
      BY <1>10, ElementOfSeq, LenProperties DEF Spans
    <2> QED BY <2>2, <2>3
  <1>12. sep \in Nat
    BY DEF Separator
  <1>13. start \in Nat /\ parts[k].result.length \in Nat
    <2>1. parts[k].result.length \in Nat
      BY DEF IsPart
    <2> HIDE DEF sep
    <2> QED BY <1>12, <2>1, CharGrows
  <1>14. ASSUME NEW s \in ToSet(Shift(parts, k, sep, spans))
         PROVE  /\ s[1] \in Nat /\ EndOf(s) \in Nat
                /\ start <= s[1] /\ EndOf(s) <= start + parts[k].result.length
    <2>1. PICK j \in DOMAIN spans : s = <<spans[j][1] + start, spans[j][2]>>
      BY DEF Shift, ToSet
    <2>2. spans[j][1] \in Nat /\ spans[j][2] \in Nat /\ spans[j][1] + spans[j][2] <= parts[k].result.length
      BY <1>11 DEF EndOf
    <2>3. s[1] = spans[j][1] + start /\ s[2] = spans[j][2]
      BY <2>1
    <2> DEFINE a == spans[j][1]
               b == spans[j][2]
               len == parts[k].result.length
    <2>4. a \in Nat /\ b \in Nat /\ start \in Nat /\ len \in Nat /\ a + b <= len
      BY <1>13, <2>2
    <2>5. EndOf(s) = (a + start) + b /\ s[1] = a + start
      BY <2>3 DEF EndOf
    <2> HIDE DEF a, b, len, start
    <2>6. start <= a + start /\ (a + start) + b <= start + len /\ a + start \in Nat /\ (a + start) + b \in Nat
      BY <2>4
    <2> QED BY <2>5, <2>6 DEF len
  <1> DEFINE at == Total(sizes, k) + i
  <1>15. at \in DOMAIN merged /\ merged[at] = item(k, list(k)[i])
    <2> HIDE DEF ss, sizes, N, merged, item, list
    <2>1. k \in 1 .. Len(sizes)
      BY <1>4 DEF N
    <2>2. Packed(sizes, ss, FlattenSeq(ss))
      BY <1>4, <1>8, FlattenTotal
    <2> QED BY <1>3, <1>5, <1>7, <2>1, <2>2 DEF Packed
  <1>16. merged[at].num = parts[k].plan[i] /\ merged[at].spans = Shift(parts, k, sep, spans)
    BY <1>9, <1>15
  <1> HIDE DEF merged, sizes, start, ss, item, list
  <1> QED BY <1>6, <1>14, <1>15, <1>16 DEF merged, start, at

\* Whichever parts two pages came back in, in the merged answer they have the pages
\* planned for them, and the text of the earlier part ends, with room for the page
\* separator, before the text of the later one starts; no text ends past the merged
\* content (merge.DI, offsets, diVisitor).
THEOREM MergedPagesApart ==
    ASSUME NEW T, NEW parts \in Seq(T), \A k \in 1 .. Len(parts) : IsPart(parts[k]),
           NEW counted, NEW format, DI(parts, counted, format).ok,
           NEW k \in 1 .. Len(parts), NEW j \in 1 .. k - 1,
           NEW a \in DOMAIN parts[j].result.pages, NEW b \in DOMAIN parts[k].result.pages
    PROVE  LET r == DI(parts, counted, format).result
               at(x) == Total([i \in DOMAIN parts |-> Len(parts[i].result.pages)], x)
               early == at(j) + a
               late == at(k) + b
           IN  /\ early \in DOMAIN r.pages /\ r.pages[early].num = parts[j].plan[a]
               /\ late \in DOMAIN r.pages /\ r.pages[late].num = parts[k].plan[b]
               /\ \A s \in ToSet(r.pages[early].spans), t \in ToSet(r.pages[late].spans) :
                      EndOf(s) + Separator(format) <= t[1] /\ EndOf(t) <= r.length
  <1> DEFINE N == Len(parts)
             sep == Separator(format)
             r == DI(parts, counted, format).result
             at(x) == Total([i \in DOMAIN parts |-> Len(parts[i].result.pages)], x)
             early == at(j) + a
             late == at(k) + b
             len(x) == parts[x].result.length
             start(x) == Char(parts, x, sep)
  <1>1. N \in Nat /\ sep \in Nat /\ j \in 1 .. N /\ k \in 1 .. N /\ N \in 1 .. N /\ k <= N
    <2>1. N \in Nat
      BY LenProperties
    <2>2. sep \in Nat
      BY DEF Separator
    <2> HIDE DEF sep
    <2> QED BY <2>1, <2>2
  <1>2. /\ early \in DOMAIN r.pages /\ r.pages[early].num = parts[j].plan[a]
        /\ \A s \in ToSet(r.pages[early].spans) :
               /\ s[1] \in Nat /\ EndOf(s) \in Nat
               /\ start(j) <= s[1] /\ EndOf(s) <= start(j) + len(j)
    BY <1>1, MergedPage
  <1>3. /\ late \in DOMAIN r.pages /\ r.pages[late].num = parts[k].plan[b]
        /\ \A t \in ToSet(r.pages[late].spans) :
               /\ t[1] \in Nat /\ EndOf(t) \in Nat
               /\ start(k) <= t[1] /\ EndOf(t) <= start(k) + len(k)
    BY MergedPage
  <1>4. start(j) \in Nat /\ start(k) \in Nat /\ start(N) \in Nat /\ start(j) + (len(j) + sep) <= start(k)
    <2> HIDE DEF sep
    <2> QED BY <1>1, CharGrows
  <1>5. k < N => start(k) + (len(k) + sep) <= start(N)
    <2>1. k < N => k \in 1 .. N - 1
      BY <1>1
    <2> HIDE DEF sep
    <2> QED BY <1>1, <2>1, CharGrows
  <1>6. r.length = start(N) + len(N)
    BY DEF DI
  <1>7. len(j) \in Nat /\ len(k) \in Nat /\ len(N) \in Nat
    BY <1>1 DEF IsPart
  <1> HIDE DEF r, early, late, len, start, sep, N
  <1>8. ASSUME NEW s \in ToSet(r.pages[early].spans), NEW t \in ToSet(r.pages[late].spans)
        PROVE  EndOf(s) + sep <= t[1] /\ EndOf(t) <= r.length
    <2> DEFINE x1 == start(j)
               x2 == len(j)
               y1 == start(k)
               y2 == len(k)
               z1 == start(N)
               z2 == len(N)
               u == EndOf(s)
               v == t[1]
               w == EndOf(t)
    <2>1. /\ x1 \in Nat /\ x2 \in Nat /\ y1 \in Nat /\ y2 \in Nat /\ z1 \in Nat /\ z2 \in Nat
          /\ sep \in Nat /\ u \in Nat /\ v \in Nat /\ w \in Nat
      BY <1>1, <1>2, <1>3, <1>4, <1>7
    <2>2. u <= x1 + x2 /\ x1 + (x2 + sep) <= y1 /\ y1 <= v /\ w <= y1 + y2
      BY <1>2, <1>3, <1>4
    <2>3. y1 + y2 <= z1 + z2
      <3>1. CASE k = N
        <4>1. y1 = z1 /\ y2 = z2
          BY <3>1
        <4> HIDE DEF x1, x2, y1, y2, z1, z2, u, v, w
        <4> QED BY <2>1, <4>1
      <3>2. CASE k < N
        <4>1. y1 + (y2 + sep) <= z1
          BY <1>5, <3>2
        <4> HIDE DEF x1, x2, y1, y2, z1, z2, u, v, w
        <4> QED BY <2>1, <4>1
      <3> QED BY <1>1, <3>1, <3>2
    <2>4. r.length = z1 + z2
      BY <1>6
    <2> HIDE DEF x1, x2, y1, y2, z1, z2
    <2>5. u + sep <= v
      <3> HIDE DEF u, v, w
      <3>1. u + sep <= (x1 + x2) + sep
        BY <2>1, <2>2
      <3>2. (x1 + x2) + sep <= v
        BY <2>1, <2>2
      <3> QED BY <2>1, <3>1, <3>2
    <2>6. w <= z1 + z2
      <3> HIDE DEF u, v, w
      <3> QED BY <2>1, <2>2, <2>3
    <2> QED BY <2>4, <2>5, <2>6
  <1> QED BY <1>2, <1>3, <1>8 DEF r, early, late, sep
=============================================================================
