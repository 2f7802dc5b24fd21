---------------------------- MODULE PdfSplitProofs ----------------------------
(***************************************************************************)
(* The parts of Plan and the halves of a part, for documents of any size.  *)
(***************************************************************************)
EXTENDS PdfSplit, TLAPS

\* The quotient and the remainder of a division by a positive number.
LEMMA Division ==
    ASSUME NEW n \in Nat, NEW k \in Nat \ {0}
    PROVE  /\ n \div k \in Nat /\ n % k \in 0 .. k - 1
           /\ n = k * (n \div k) + (n % k)
  OBVIOUS

\* PartCount rounds up: its parts of max pages hold all pages, one less would not.
LEMMA PartCountCeiling ==
    ASSUME NEW n \in Nat \ {0}, NEW max \in Nat \ {0}
    PROVE  LET k == PartCount(n, max)
           IN  k \in Nat \ {0} /\ k <= n /\ n <= k * max
  <1> DEFINE q == (n - 1) \div max
             r == (n - 1) % max
  <1>1. q \in Nat /\ r \in 0 .. max - 1 /\ n - 1 = max * q + r
    <2>1. n - 1 \in Nat
      OBVIOUS
    <2>2. /\ (n - 1) \div max \in Nat /\ (n - 1) % max \in 0 .. max - 1
          /\ n - 1 = max * ((n - 1) \div max) + ((n - 1) % max)
      BY <2>1, Division
    <2> QED BY <2>2
  <1> HIDE DEF q, r
  <1>2. max * q >= q
    BY <1>1
  <1>3. (q + 1) * max = max * q + max
    BY <1>1
  <1>4. PartCount(n, max) = q + 1
    BY DEF PartCount, q
  <1> QED BY <1>1, <1>2, <1>3, <1>4

\* From one part to the next, Before grows by the size of the part.
LEMMA BeforeGrows ==
    ASSUME NEW n \in Nat, NEW k \in Nat \ {0}, NEW i \in 0 .. k - 1
    PROVE  Before(i + 1, n, k) - Before(i, n, k) = n \div k + (IF i < n % k THEN 1 ELSE 0)
  <1> DEFINE q == n \div k
             e == n % k
  <1>1. q \in Nat /\ e \in 0 .. k - 1
    BY Division
  <1> HIDE DEF q, e
  <1>2. (i + 1) * q = i * q + q
    BY <1>1
  <1>3. i * q \in Nat /\ (i + 1) * q \in Nat
    BY <1>1
  <1>4. /\ Before(i + 1, n, k) = (i + 1) * q + (IF i + 1 < e THEN i + 1 ELSE e)
        /\ Before(i, n, k) = i * q + (IF i < e THEN i ELSE e)
    BY DEF Before, q, e
  <1>5. (IF i + 1 < e THEN i + 1 ELSE e) - (IF i < e THEN i ELSE e) = IF i < e THEN 1 ELSE 0
    BY <1>1
  <1>6. Before(i + 1, n, k) - Before(i, n, k) = q + (IF i < e THEN 1 ELSE 0)
    BY <1>1, <1>2, <1>3, <1>4, <1>5
  <1> QED BY <1>6 DEF q, e

\* Plan (plan.go) cuts any number of pages into parts that follow each other from
\* the first page to the last, each of at least one page and at most max pages.
THEOREM PlanCovers ==
    ASSUME NEW n \in Nat \ {0}, NEW max \in Nat \ {0}
    PROVE  LET k == PartCount(n, max)
               parts == Plan(n, max)
           IN  /\ parts[1][1] = 1 /\ parts[k][2] = n
               /\ \A i \in 1 .. k - 1 : parts[i + 1][1] = parts[i][2] + 1
               /\ \A i \in 1 .. k : Size(parts[i]) \in 1 .. max
  <1> DEFINE k == PartCount(n, max)
             parts == Plan(n, max)
             q == n \div k
             e == n % k
  <1>1. k \in Nat \ {0} /\ k <= n /\ n <= k * max
    BY PartCountCeiling
  <1>2. parts = [i \in 1 .. k |-> <<Before(i - 1, n, k) + 1, Before(i, n, k)>>]
    BY DEF Plan
  <1> HIDE DEF k, parts
  <1>3. q \in Nat /\ e \in 0 .. k - 1 /\ n = k * q + e
    BY <1>1, Division
  <1>4. Before(0, n, k) = 0 /\ Before(k, n, k) = n
    <2>1. 0 * q = 0
      BY <1>3
    <2> QED BY <1>1, <1>3, <2>1 DEF Before
  <1>5. parts[1][1] = 1 /\ parts[k][2] = n
    BY <1>1, <1>2, <1>4
  <1>6. ASSUME NEW i \in 1 .. k - 1 PROVE parts[i + 1][1] = parts[i][2] + 1
    BY <1>1, <1>2
  <1>7. q >= 1 /\ q + (IF 0 < e THEN 1 ELSE 0) <= max
    <2> HIDE DEF q, e
    <2>1. q >= 1
      <3>1. CASE q = 0
        BY <1>1, <1>3, <3>1
      <3> QED BY <1>3, <3>1
    <2>2. k * q <= k * max
      BY <1>1, <1>3
    <2>3. q <= max
      <3>1. ASSUME q >= max + 1 PROVE k * q >= k * max + k
        <4>1. k * q >= k * (max + 1)
          BY <1>1, <1>3, <3>1
        <4> QED BY <1>1, <4>1
      <3> QED BY <1>1, <1>3, <2>2, <3>1
    <2>4. CASE e = 0
      BY <1>3, <2>1, <2>3, <2>4
    <2>5. CASE e > 0
      <3>1. q # max
        BY <1>1, <1>3, <2>5
      <3> QED BY <1>3, <2>1, <2>3, <2>5, <3>1
    <2> QED BY <1>3, <2>4, <2>5
  <1>8. ASSUME NEW i \in 1 .. k PROVE Size(parts[i]) \in 1 .. max
    <2>1. i - 1 \in 0 .. k - 1 /\ (i - 1) + 1 = i
      BY <1>1
    <2>2. Before(i, n, k) - Before(i - 1, n, k) = q + (IF i - 1 < e THEN 1 ELSE 0)
      BY <1>1, <2>1, BeforeGrows
    <2>3. Before(i, n, k) \in Int /\ Before(i - 1, n, k) \in Int
      BY <1>1, <1>3, <2>1 DEF Before
    <2>4. Size(parts[i]) = Before(i, n, k) - Before(i - 1, n, k)
      BY <1>2, <2>3 DEF Size
    <2> HIDE DEF q, e
    <2> QED BY <1>3, <1>7, <2>1, <2>2, <2>4
  <1> QED BY <1>5, <1>6, <1>8 DEF k, parts

\* More parts together have no fewer pages.
LEMMA BeforeMonotone ==
    ASSUME NEW n \in Nat, NEW k \in Nat \ {0}, NEW i \in 0 .. k, NEW j \in 0 .. k, i <= j
    PROVE  Before(i, n, k) \in Nat /\ Before(j, n, k) \in Nat /\ Before(i, n, k) <= Before(j, n, k)
  <1> DEFINE q == n \div k
             e == n % k
  <1>1. q \in Nat /\ e \in 0 .. k - 1
    BY Division
  <1> HIDE DEF q, e
  <1>2. i * q \in Nat /\ j * q \in Nat /\ i * q <= j * q
    <2>1. PICK d \in Nat : j = i + d
      OBVIOUS
    <2>2. (i + d) * q = i * q + d * q /\ d * q \in Nat /\ i * q \in Nat
      BY <1>1, <2>1
    <2> QED BY <1>1, <2>1, <2>2
  <1> QED BY <1>1, <1>2 DEF Before, q, e

\* The parts of a plan lie within the document, in order, and none reaches into
\* the next.
LEMMA PlanApart ==
    ASSUME NEW n \in Nat \ {0}, NEW max \in Nat \ {0}
    PROVE  LET k == PartCount(n, max)
               parts == Plan(n, max)
           IN  /\ DOMAIN parts = 1 .. k
               /\ \A i \in 1 .. k : /\ parts[i] \in (1 .. n) \X (1 .. n)
                                    /\ parts[i][1] <= parts[i][2]
                                    /\ parts[i][2] - parts[i][1] < max
               /\ \A i, j \in 1 .. k : i < j => parts[i][2] < parts[j][1]
  <1> DEFINE k == PartCount(n, max)
             parts == Plan(n, max)
             B(i) == Before(i, n, k)
  <1>1. k \in Nat \ {0}
    BY PartCountCeiling
  <1>2. parts = [i \in 1 .. k |-> <<B(i - 1) + 1, B(i)>>]
    BY DEF Plan
  <1>3. \A i \in 1 .. k : Size(parts[i]) \in 1 .. max
    BY PlanCovers
  <1>4. B(k) = n
    BY <1>1, <1>2, PlanCovers
  <1> HIDE DEF k, parts
  <1>5. \A i, j \in 0 .. k : i <= j => B(i) \in Nat /\ B(j) \in Nat /\ B(i) <= B(j)
    BY <1>1, BeforeMonotone
  <1> HIDE DEF B
  <1>6. ASSUME NEW i \in 1 .. k
        PROVE  /\ parts[i] \in (1 .. n) \X (1 .. n)
               /\ parts[i][1] <= parts[i][2] /\ parts[i][2] - parts[i][1] < max
    <2>1. i - 1 \in 0 .. k /\ i \in 0 .. k /\ k \in 0 .. k /\ i <= k
      BY <1>1
    <2>2. B(i - 1) \in Nat /\ B(i) \in Nat /\ B(i) <= n
      BY <1>4, <1>5, <2>1
    <2>3. parts[i] = <<B(i - 1) + 1, B(i)>>
      BY <1>2
    <2>4. B(i) - B(i - 1) \in 1 .. max
      BY <1>3, <2>2, <2>3 DEF Size
    <2> QED BY <2>2, <2>3, <2>4
  <1>7. ASSUME NEW i \in 1 .. k, NEW j \in 1 .. k, i < j
        PROVE  parts[i][2] < parts[j][1]
    <2>1. i \in 0 .. k /\ j - 1 \in 0 .. k /\ i <= j - 1
      BY <1>1, <1>7
    <2>2. B(i) \in Nat /\ B(j - 1) \in Nat /\ B(i) <= B(j - 1)
      BY <1>5, <2>1
    <2> QED BY <1>2, <2>2
  <1> QED BY <1>2, <1>6, <1>7 DEF k, parts

\* Every page is in a part of the plan: among the first n % k, which have a page
\* more, or among the others.
LEMMA PlanReaches ==
    ASSUME NEW n \in Nat \ {0}, NEW max \in Nat \ {0}, NEW page \in 1 .. n
    PROVE  \E i \in 1 .. PartCount(n, max) : page \in Pages(Plan(n, max)[i])
  <1> DEFINE k == PartCount(n, max)
             q == n \div k
             e == n % k
             B(i) == Before(i, n, k)
  <1>1. k \in Nat \ {0}
    BY PartCountCeiling
  <1>2. Plan(n, max) = [i \in 1 .. k |-> <<B(i - 1) + 1, B(i)>>]
    BY DEF Plan
  <1> HIDE DEF k
  <1>3. q \in Nat /\ e \in 0 .. k - 1 /\ n = k * q + e
    BY <1>1, Division
  <1>4. \A i : B(i) = i * q + (IF i < e THEN i ELSE e)
    BY DEF Before
  <1> HIDE DEF q, e, B
  <1>5. SUFFICES \E i \in 0 .. k - 1 : B(i) + 1 <= page /\ page <= B(i + 1) /\ B(i) \in Int /\ B(i + 1) \in Int
    <2>1. PICK i \in 0 .. k - 1 : B(i) + 1 <= page /\ page <= B(i + 1) /\ B(i) \in Int /\ B(i + 1) \in Int
      BY <1>5
    <2>2. i + 1 \in 1 .. k /\ (i + 1) - 1 = i
      BY <1>1
    <2> QED BY <1>2, <2>1, <2>2 DEF Pages, k
  <1>6. CASE page <= e * (q + 1)
    <2> DEFINE i == (page - 1) \div (q + 1)
               r == (page - 1) % (q + 1)
    <2>1. i \in Nat /\ r \in 0 .. q /\ page - 1 = (q + 1) * i + r
      <3>1. page - 1 \in Nat /\ q + 1 \in Nat \ {0}
        BY <1>3
      <3>2. /\ (page - 1) \div (q + 1) \in Nat /\ (page - 1) % (q + 1) \in 0 .. (q + 1) - 1
            /\ page - 1 = (q + 1) * ((page - 1) \div (q + 1)) + ((page - 1) % (q + 1))
        BY <3>1, Division
      <3> QED BY <1>3, <3>2
    <2> HIDE DEF i, r
    <2>2. i < e
      <3> SUFFICES ASSUME i >= e PROVE FALSE
        BY <1>3, <2>1
      <3>1. PICK d \in Nat : i = e + d
        BY <1>3, <2>1
      <3>2. (q + 1) * (e + d) = e * (q + 1) + (q + 1) * d /\ (q + 1) * d \in Nat
        BY <1>3
      <3> QED BY <1>3, <1>6, <2>1, <3>1, <3>2
    <2>3. B(i) = i * q + i /\ B(i + 1) = (i + 1) * q + (i + 1)
      <3>1. (IF i < e THEN i ELSE e) = i /\ (IF i + 1 < e THEN i + 1 ELSE e) = i + 1
        BY <1>3, <2>1, <2>2
      <3> QED BY <1>4, <3>1
    <2>4. (i + 1) * q = i * q + q /\ (q + 1) * i = i * q + i /\ i * q \in Nat
      BY <1>3, <2>1
    <2>5. i \in 0 .. k - 1
      BY <1>1, <1>3, <2>1, <2>2
    <2> QED BY <1>3, <2>1, <2>3, <2>4, <2>5
  <1>7. CASE page > e * (q + 1)
    <2> DEFINE d == page - 1 - e * (q + 1)
               j == d \div q
               r == d % q
    <2>1. d \in Nat /\ q \in Nat \ {0}
      <3>1. e * (q + 1) = e * q + e /\ e * q \in Nat
        BY <1>3
      <3>2. q = 0 => e * q = 0 /\ k * q = 0
        BY <1>1, <1>3
      <3> QED BY <1>1, <1>3, <1>7, <3>1, <3>2
    <2>2. page = e * q + e + d + 1 /\ e * q \in Nat
      <3>1. e * (q + 1) = e * q + e /\ e * q \in Nat
        BY <1>3
      <3> QED BY <1>3, <3>1
    <2> HIDE DEF d
    <2>3. j \in Nat /\ r \in 0 .. q - 1 /\ d = q * j + r
      BY <2>1, Division
    <2> HIDE DEF j, r
    <2>4. j < k - e
      <3> SUFFICES ASSUME j >= k - e PROVE FALSE
        BY <1>1, <1>3, <2>3
      <3>1. PICK m \in Nat : e + j = k + m
        BY <1>1, <1>3, <2>3
      <3>2. q * (e + j) = e * q + q * j /\ q * (k + m) = k * q + q * m /\ q * m \in Nat
        BY <1>1, <1>3, <2>3
      <3> QED BY <1>1, <1>3, <2>1, <2>2, <2>3, <3>1, <3>2
    <2> DEFINE i == e + j
    <2>5. i \in 0 .. k - 1 /\ B(i) = i * q + e /\ B(i + 1) = (i + 1) * q + e
      BY <1>1, <1>3, <1>4, <2>3, <2>4
    <2>6. i * q = e * q + q * j /\ (i + 1) * q = e * q + q * j + q /\ q * j \in Nat
      BY <1>3, <2>3
    <2> HIDE DEF i
    <2> QED BY <1>3, <2>1, <2>2, <2>3, <2>5, <2>6
  <1> QED BY <1>3, <1>6, <1>7

\* Halve (plan.go) cuts a part of two pages or more so that each of its pages is
\* in exactly one half, and neither half is empty: halving ends.
THEOREM HalvesCover ==
    ASSUME NEW a \in Nat, NEW b \in Nat, a < b
    PROVE  LET first == FirstHalf(<<a, b>>)
               second == SecondHalf(<<a, b>>)
           IN  /\ Pages(first) \union Pages(second) = Pages(<<a, b>>)
               /\ Pages(first) \intersect Pages(second) = {}
               /\ Size(first) \in 1 .. Size(<<a, b>>) - 1
               /\ Size(second) \in 1 .. Size(<<a, b>>) - 1
  <1> DEFINE m == Middle(<<a, b>>)
  <1>1. m \in a .. b - 1
    BY DEF Middle, Size
  <1>2. FirstHalf(<<a, b>>) = <<a, m>> /\ SecondHalf(<<a, b>>) = <<m + 1, b>>
    BY DEF FirstHalf, SecondHalf
  <1> HIDE DEF m
  <1> QED BY <1>1, <1>2 DEF Pages, Size

\* Of ceil(n / max) parts of n > max pages none has less than ceil(max / 2): with
\* k parts, n is more than (k - 1) * max, which is k halves of max or more.
LEMMA NoSliver ==
    ASSUME NEW n \in Nat \ {0}, NEW max \in Nat \ {0}, n > max
    PROVE  n \div PartCount(n, max) >= (max + 1) \div 2
  <1> DEFINE k == PartCount(n, max)
             q == n \div k
             h == (max + 1) \div 2
             g == (n - 1) \div max
  <1>1. k \in Nat \ {0} /\ n <= k * max
    BY PartCountCeiling
  <1>2. q \in Nat /\ n % k \in 0 .. k - 1 /\ n = k * q + (n % k)
    BY <1>1, Division
  <1>3. h \in Nat /\ 2 * h <= max + 1 /\ h >= 1
    OBVIOUS
  <1>4. g \in Nat /\ (n - 1) % max \in 0 .. max - 1 /\ n - 1 = max * g + ((n - 1) % max) /\ k = g + 1
    <2>1. n - 1 \in Nat
      OBVIOUS
    <2>2. /\ (n - 1) \div max \in Nat /\ (n - 1) % max \in 0 .. max - 1
          /\ n - 1 = max * ((n - 1) \div max) + ((n - 1) % max)
      BY <2>1, Division
    <2> QED BY <2>2 DEF PartCount
  <1> HIDE DEF k, q, h, g
  <1>5. PICK m \in Nat : k = m + 2
    <2>1. g # 0
      <3> SUFFICES ASSUME g = 0 PROVE FALSE
        OBVIOUS
      <3>1. max * g = 0
        BY <1>4
      <3> QED BY <1>4, <3>1
    <2> QED BY <1>4, <2>1
  <1>6. n >= (m + 1) * max + 1
    BY <1>4, <1>5
  <1>7. (m + 1) * max + 1 >= k * h
    <2>1. k * h = m * h + 2 * h
      BY <1>3, <1>5
    <2>2. (m + 1) * max = m * max + max
      OBVIOUS
    <2>3. m * h <= m * max
      <3>1. PICK d \in Nat : max = h + d
        BY <1>3
      <3>2. m * (h + d) = m * h + m * d /\ m * d \in Nat
        BY <1>3
      <3> QED BY <1>3, <3>1, <3>2
    <2>4. m * h \in Nat /\ m * max \in Nat
      BY <1>3
    <2> QED BY <1>3, <2>1, <2>2, <2>3, <2>4
  <1>8. SUFFICES ASSUME q < h PROVE FALSE
    BY <1>2, <1>3 DEF k, q, h
  <1>9. k * q + k <= k * h
    <2>1. PICK d \in Nat : h = q + 1 + d
      BY <1>2, <1>3, <1>8
    <2>2. k * (q + 1 + d) = k * q + k + k * d /\ k * d \in Nat
      BY <1>1, <1>2
    <2> QED BY <1>1, <1>2, <2>1, <2>2
  <1>10. n % k < k /\ n % k \in Int /\ k * q \in Int /\ k * h \in Int /\ (m + 1) * max \in Int
    BY <1>1, <1>2, <1>3
  <1> QED BY <1>1, <1>2, <1>6, <1>7, <1>9, <1>10

\* "Balancing, rather than filling parts to max and leaving a remainder, keeps every
\* part between ceil(max/2) and max pages once a document is split at all" (Plan,
\* plan.go): for any document and any max, and no page is lost or in two parts.
THEOREM PlanSound ==
    ASSUME NEW n \in Nat \ {0}, NEW max \in Nat \ {0}
    PROVE  Balanced(n, max)
  <1> DEFINE k == PartCount(n, max)
             parts == Plan(n, max)
             q == n \div k
             e == n % k
  <1>1. k \in Nat \ {0} /\ q \in Nat /\ e \in 0 .. k - 1
    BY PartCountCeiling, Division
  <1>2. /\ DOMAIN parts = 1 .. k
        /\ \A i \in 1 .. k : parts[i] \in (1 .. n) \X (1 .. n) /\ parts[i][1] <= parts[i][2]
        /\ \A i \in 1 .. k : Size(parts[i]) <= max
        /\ \A i \in 1 .. k - 1 : parts[i + 1][1] = parts[i][2] + 1
    <2>1. /\ DOMAIN parts = 1 .. k
          /\ \A i \in 1 .. k : parts[i] \in (1 .. n) \X (1 .. n) /\ parts[i][1] <= parts[i][2]
      BY PlanApart
    <2>2. /\ \A i \in 1 .. k - 1 : parts[i + 1][1] = parts[i][2] + 1
          /\ \A i \in 1 .. k : Size(parts[i]) \in 1 .. max
      BY PlanCovers
    <2> HIDE DEF k, parts
    <2>3. \A i \in 1 .. k : Size(parts[i]) <= max
      BY <2>2
    <2> QED BY <2>1, <2>2, <2>3
  <1>3. \A i \in 1 .. k : Size(parts[i]) = q + (IF i - 1 < e THEN 1 ELSE 0)
    <2> SUFFICES ASSUME NEW i \in 1 .. k PROVE Size(parts[i]) = q + (IF i - 1 < e THEN 1 ELSE 0)
      OBVIOUS
    <2>1. parts[i] = <<Before(i - 1, n, k) + 1, Before(i, n, k)>>
      BY DEF Plan
    <2>2. i - 1 \in 0 .. k - 1 /\ (i - 1) + 1 = i /\ i \in 0 .. k /\ i - 1 \in 0 .. k
      BY <1>1
    <2>3. Before(i, n, k) - Before(i - 1, n, k) = q + (IF i - 1 < e THEN 1 ELSE 0)
      BY <1>1, <2>2, BeforeGrows
    <2>4. Before(i, n, k) \in Nat /\ Before(i - 1, n, k) \in Nat
      BY <1>1, <2>2, BeforeMonotone
    <2> HIDE DEF k, q, e, parts
    <2> QED BY <2>1, <2>3, <2>4 DEF Size
  <1>4. \A page \in 1 .. n : \E i \in 1 .. k : page \in Pages(parts[i])
    BY PlanReaches
  <1>5. n > max => q >= (max + 1) \div 2
    BY NoSliver
  <1> HIDE DEF k, parts, q, e
  <1>6. Partition(parts, 1, n)
    <2>1. UNION {Pages(parts[i]) : i \in 1 .. k} = 1 .. n
      <3>1. \A i \in 1 .. k : Pages(parts[i]) \subseteq 1 .. n
        BY <1>2 DEF Pages
      <3> QED BY <1>4, <3>1
    <2>2. \A i \in 1 .. k : Pages(parts[i]) # {}
      BY <1>2 DEF Pages
    <2>3. ASSUME NEW i \in (1 .. k) \ {1} PROVE parts[i][1] = parts[i - 1][2] + 1
      <3>1. i - 1 \in 1 .. k - 1 /\ (i - 1) + 1 = i
        BY <1>1
      <3> QED BY <1>2, <3>1
    <2> QED BY <1>2, <2>1, <2>2, <2>3 DEF Partition
  <1>7. \A i, j \in 1 .. k : Size(parts[i]) - Size(parts[j]) <= 1
    BY <1>1, <1>3
  <1>8. n > max => \A i \in 1 .. k : Size(parts[i]) >= (max + 1) \div 2
    <2>1. (max + 1) \div 2 \in Int
      OBVIOUS
    <2> QED BY <1>1, <1>3, <1>5, <2>1
  <1> QED BY <1>2, <1>6, <1>7, <1>8 DEF Balanced, parts

\* Halve gives the first half the page more: both halves together have each page of
\* the part once, in order (plan.go).
THEOREM HalvesSound ==
    ASSUME NEW a \in Nat, NEW b \in Nat, a < b
    PROVE  Halved(a, b)
  <1> DEFINE m == Middle(<<a, b>>)
             halves == <<<<a, m>>, <<m + 1, b>>>>
  <1>1. m \in a .. b - 1 /\ (m - a + 1) - (b - (m + 1) + 1) \in {0, 1}
    BY DEF Middle, Size
  <1>2. <<FirstHalf(<<a, b>>), SecondHalf(<<a, b>>)>> = halves
    BY DEF FirstHalf, SecondHalf
  <1> HIDE DEF m
  <1>3. DOMAIN halves = {1, 2} /\ halves[1] = <<a, m>> /\ halves[2] = <<m + 1, b>>
    OBVIOUS
  <1> HIDE DEF halves
  <1>4. Pages(halves[1]) = a .. m /\ Pages(halves[2]) = m + 1 .. b
    BY <1>3 DEF Pages
  <1>5. UNION {Pages(halves[i]) : i \in {1, 2}} = a .. b
    BY <1>1, <1>4
  <1>6. Partition(halves, a, b)
    BY <1>1, <1>3, <1>4, <1>5 DEF Partition
  <1>7. Size(halves[1]) - Size(halves[2]) \in {0, 1}
    BY <1>1, <1>3 DEF Size
  <1> QED BY <1>2, <1>6, <1>7 DEF Halved
=============================================================================
