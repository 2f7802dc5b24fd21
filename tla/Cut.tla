---------------------------------- MODULE Cut ----------------------------------
(***************************************************************************)
(* internal/realcut: a whole result cut into what its parts would have     *)
(* been answered, the inverse of Merge.  A whole result is one of Merge's, *)
(* with the units of its content that the gateway counts as two (wide).    *)
(* No page ends in a CR here: a CR and the separator's LF are one element, *)
(* which no cut can part.                                                  *)
(***************************************************************************)
EXTENDS Merge

PageNamed(whole, n) == whole.pages[SelectInSeq(whole.pages, LAMBDA page : page.num = n)]

\* Where the text of a part's pages starts and ends, from the pages' spans.
Starts(whole, pages) == Min({PageNamed(whole, n).spans[1][1] : n \in ToSet(pages)})
Ends(whole, pages) == Furthest(FlattenSeq([i \in DOMAIN pages |-> PageNamed(whole, pages[i]).spans]))

\* An item is in the part that has the page of its first region.
InPart(whole, pages, member, i) == Contains(pages, Nth(whole.items[member], i).page)

\* Which sections hold something of the part, themselves or further down.
Holds(whole, pages) ==
    LET holds[i \in 0 .. Len(whole.sections) - 1] ==
            \E ptr \in ToSet(Nth(whole.sections, i).elements) :
                IF IsSection(ptr) THEN holds[ptr[2]] ELSE InPart(whole, pages, ptr[1], ptr[2])
    IN  {i \in DOMAIN holds : holds[i]}

ClipSpans(spans, a, b) ==
    LET overlaps(s) == IF s[2] = 0 THEN a <= s[1] /\ s[1] <= b ELSE s[1] < b /\ a < EndOf(s)
        clip(s) == LET lo == Max({s[1], a}) IN <<lo, Min({EndOf(s), b}) - lo>>
        kept == SelectSeq(spans, overlaps)
    IN  [i \in DOMAIN kept |-> clip(kept[i])]

Less(spans, a) == [i \in DOMAIN spans |-> <<spans[i][1] - a, spans[i][2]>>]

\* The inverse of Renumber: the part's own items, and the sections it holds, are
\* numbered in the whole's order.
LocalPointer(whole, pages, ptr) ==
    IF IsSection(ptr)
    THEN <<"sections", Cardinality({i \in Holds(whole, pages) : 0 < i /\ i < ptr[2]}) + (IF ptr[2] = 0 THEN 0 ELSE 1)>>
    ELSE <<ptr[1], Cardinality({i \in 0 .. ptr[2] - 1 : InPart(whole, pages, ptr[1], i)})>>

\* A root with the part's top-level elements, then every section that holds
\* something of the part, with those elements only and its spans clipped.
CutSections(whole, pages) ==
    LET held == Holds(whole, pages)
        a == Starts(whole, pages)
        b == Ends(whole, pages)
        mine(ptr) == IF IsSection(ptr) THEN ptr[2] \in held ELSE InPart(whole, pages, ptr[1], ptr[2])
        cut(s) == [elements |-> LET kept == SelectSeq(s.elements, mine)
                                IN  [i \in DOMAIN kept |-> LocalPointer(whole, pages, kept[i])],
                   spans |-> Less(ClipSpans(s.spans, a, b), a)]
        copied == SelectSeq([i \in DOMAIN whole.sections |-> i],
                            LAMBDA i : i = 1 \/ (i - 1) \in held)
    IN  IF held = {} THEN <<>> ELSE [i \in DOMAIN copied |-> cut(whole.sections[copied[i]])]

\* Page i of the part is its i-th page.
CutPart(whole, pages) ==
    LET a == Starts(whole, pages)
        b == Ends(whole, pages)
        page(n) == SelectInSeq(pages, LAMBDA x : x = n)
        mine(member) == SelectSeq(whole.items[member], LAMBDA it : Contains(pages, it.page))
    IN  [length |-> b - a + Cardinality({x \in whole.wide : a <= x /\ x < b}),
         endsCR |-> FALSE,
         pages |-> [i \in DOMAIN pages |-> [num |-> i, spans |-> Less(PageNamed(whole, pages[i]).spans, a)]],
         items |-> [m \in Members |->
                       [i \in DOMAIN mine(m) |-> [mine(m)[i] EXCEPT !.page = page(@), !.spans = Less(@, a)]]],
         sections |-> CutSections(whole, pages)]

\* The parts of plan, a sequence of lists of pages, numbered from 1 each.
CutDI(whole, plan) ==
    [k \in DOMAIN plan |-> [plan |-> plan[k], result |-> CutPart(whole, plan[k])]]
=============================================================================
