------------------------------- MODULE PdfSplit -------------------------------
(***************************************************************************)
(* The page arithmetic of internal/pdfsplit.  Plan and Halve do not look   *)
(* at page numbers, only at positions in the list of selected pages: a     *)
(* part is a pair <<first, last>> of positions.  Select and FormatPages do *)
(* work on page numbers; a term of the pages grammar is a record [First,   *)
(* Last], its text is left out.                                            *)
(***************************************************************************)
EXTENDS Integers, Sequences, SequencesExt

Pages(part) == part[1] .. part[2]
Size(part) == part[2] - part[1] + 1

\* k = ceil(n / max) parts.
PartCount(n, max) == (n - 1) \div max + 1

\* Wrong: rounds down, as n \div max would.
PartCountDown(n, max) == IF n < max THEN 1 ELSE n \div max

\* Wrong: the pages that do not divide evenly are given to no part.
BeforeEven(i, n, k) == i * (n \div k)

\* How many pages the first i parts have: the first n % k parts get one more.
Before(i, n, k) == i * (n \div k) + (IF i < n % k THEN i ELSE n % k)

Plan(n, max) ==
    LET k == PartCount(n, max)
    IN  [i \in 1 .. k |-> <<Before(i - 1, n, k) + 1, Before(i, n, k)>>]

\* The first half gets ceil(n / 2) pages.
Middle(part) == part[1] + (Size(part) + 1) \div 2 - 1

FirstHalf(part) == <<part[1], Middle(part)>>

\* Wrong: the page in the middle is in both halves.
SecondHalfOverlaps(part) == <<Middle(part), part[2]>>
SecondHalf(part) == <<Middle(part) + 1, part[2]>>

-----------------------------------------------------------------------------
Partition(parts, first, last) ==
    /\ UNION {Pages(parts[i]) : i \in DOMAIN parts} = first .. last
    /\ \A i \in DOMAIN parts : Pages(parts[i]) # {}
    /\ \A i \in DOMAIN parts \ {1} : parts[i][1] = parts[i - 1][2] + 1

\* The sizes differ by at most one; once there is more than one part, none has
\* less than ceil(max/2) pages, a sliver not worth a call.
Balanced(n, max) ==
    LET parts == Plan(n, max) IN
    /\ Partition(parts, 1, n)
    /\ \A i, j \in DOMAIN parts : Size(parts[i]) <= max /\ Size(parts[i]) - Size(parts[j]) <= 1
    /\ n > max => \A i \in DOMAIN parts : Size(parts[i]) >= (max + 1) \div 2

Halved(a, b) ==
    LET halves == <<FirstHalf(<<a, b>>), SecondHalf(<<a, b>>)>>
    IN  Partition(halves, a, b) /\ Size(halves[1]) - Size(halves[2]) \in {0, 1}

-----------------------------------------------------------------------------
\* Wrong: the lowest page not selected yet moves back with a shorter range.
AddRangeForgets(acc, r) ==
    LET from == IF r.First > acc.next THEN r.First ELSE acc.next
    IN  [pages |-> acc.pages \o [i \in 1 .. r.Last - from + 1 |-> from + i - 1], next |-> r.Last + 1]

\* Ascending, each page once: next is the lowest page not selected yet.
AddRange(acc, r) ==
    LET from == IF r.First > acc.next THEN r.First ELSE acc.next
    IN  [pages |-> acc.pages \o [i \in 1 .. r.Last - from + 1 |-> from + i - 1],
         next |-> IF r.Last + 1 > acc.next THEN r.Last + 1 ELSE acc.next]

SelectFrom(sorted) == FoldLeft(AddRange, [pages |-> <<>>, next |-> 1], sorted).pages

\* SortFunc is not stable: ranges with the same first page stay in some order.
SortedByFirst(ranges) ==
    LET index == DOMAIN ranges
        place == CHOOSE p \in [index -> index] :
                     /\ ToSet(p) = index
                     /\ \A i, j \in index : i < j => ranges[p[i]].First <= ranges[p[j]].First
    IN  [i \in index |-> ranges[place[i]]]

Legal(ranges, count) ==
    /\ ranges # <<>>
    /\ \A i \in DOMAIN ranges : 1 <= ranges[i].First /\ ranges[i].First <= ranges[i].Last
                                /\ ranges[i].Last <= count

\* Refused ranges send the document whole.
Select(ranges, count) ==
    [ok |-> Legal(ranges, count),
     pages |-> IF Legal(ranges, count)
               THEN SelectFrom(SortedByFirst(ranges))
               ELSE <<>>]

\* The page continues the run of the page before it.
Continues(pages, i) == i > 1 /\ pages[i] = pages[i - 1] + 1

\* Wrong: only the first page of each run is named.
AddPageFirsts(terms, pages, i) ==
    IF Continues(pages, i) THEN terms
    ELSE Append(terms, [First |-> pages[i], Last |-> pages[i]])

\* A page continues the last term or starts one.
AddPage(terms, pages, i) ==
    IF Continues(pages, i) THEN [terms EXCEPT ![Len(terms)].Last = pages[i]]
    ELSE Append(terms, [First |-> pages[i], Last |-> pages[i]])

\* The terms of the text: each run of consecutive pages is one.
FormatPages(pages) == FoldLeftDomain(LAMBDA terms, i : AddPage(terms, pages, i), <<>>, pages)
=============================================================================
