----------------------------- MODULE MCDocuments -----------------------------
(***************************************************************************)
(* Evaluates PdfSplit, Merge and Cut on every input up to the bounds, one  *)
(* input a state.                                                          *)
(***************************************************************************)
EXTENDS Document, PdfSplit

CONSTANTS
    MaxPages,   \* bound: pages selected, and SPLIT_PAGES, for Plan and Halve
    MaxCount,   \* bound: pages of a document, for Select and FormatPages
    MaxRanges,  \* bound: terms of a pages= parameter
    Numbers,    \* bound: the pages selected of a document that is merged
    MaxItems,   \* bound: what these pages hold
    MaxMarked,  \* bound: the same, when one has a mark or units are UTF-16
    Names       \* bound: member names in the lists of two or three parts

ASSUME CountAssumption == MaxCount \in Nat
ASSUME NamesAssumption == IsFiniteSet(Names)

VARIABLES
    n, max,      \* pages selected and SPLIT_PAGES
    ranges,      \* a parsed pages= parameter
    items, unit, \* a document, and the unit its spans count
    lists        \* the member orders of its parts

MCNumbers == <<1, 2, 4>>

\* Ranges may be malformed, in any order, overlap, and reach past the document.
Terms == [First : 0 .. MaxCount + 1, Last : 0 .. MaxCount + 1]

Kinds == {"body", "figure", "h1", "h2", "furniture"}

\* At most one item has a mark.
Marks == IF Len(items) < MaxMarked /\ \A i \in DOMAIN items : items[i].mark = "none"
         THEN {"none", "cr", "wide"} ELSE {"none"}

\* The orders that a set of names can be in: each name once.
Orders == UNION {{q \in [1 .. Cardinality(s) -> s] : ToSet(q) = s /\ IsInjective(q)} :
                 s \in SUBSET Names}

\* An input is of one of four sorts: it is one of the first, or starts empty.
Init ==
    /\ n \in 1 .. MaxPages /\ max \in 1 .. MaxPages /\ unit \in {"textElements", "utf16CodeUnit"}
    /\ ranges = <<>> /\ items = <<>> /\ lists = <<>>

AddTerm ==
    /\ n = 1 /\ max = 1 /\ items = <<>> /\ lists = <<>> /\ unit = "utf16CodeUnit"
    /\ Len(ranges) < MaxRanges
    /\ \E t \in Terms : ranges' = Append(ranges, t)
    /\ UNCHANGED <<n, max, items, unit, lists>>

AddItem ==
    /\ n = 1 /\ max = 1 /\ ranges = <<>> /\ lists = <<>>
    /\ Len(items) < (IF unit = "utf16CodeUnit" \/ \E i \in DOMAIN items : items[i].mark # "none"
                     THEN MaxMarked ELSE MaxItems)
    /\ \E p \in DOMAIN Numbers, what \in Kinds, mark \in Marks :
           /\ items # <<>> => Last(items).page <= p
           /\ items' = Append(items, [page |-> p, what |-> what, mark |-> mark])
    /\ UNCHANGED <<n, max, ranges, unit, lists>>

AddPart ==
    /\ n = 1 /\ max = 1 /\ ranges = <<>> /\ items = <<>> /\ unit = "utf16CodeUnit"
    /\ Len(lists) < 3
    /\ \E order \in Orders : lists' = Append(lists, order)
    /\ UNCHANGED <<n, max, ranges, items, unit>>

Next == AddTerm \/ AddItem \/ AddPart

Spec == Init /\ [][Next]_<<n, max, ranges, items, unit, lists>>

-----------------------------------------------------------------------------
\* Plan cuts the pages into adjacent parts that leave no page out, of at most
\* max pages each, whose sizes differ by at most one; once there is more than
\* one, none has less than ceil(max/2) pages, a sliver not worth a call (Plan).
PlanBalanced == Balanced(n, max)

\* Halving a planned part again and again ends in single pages, each cut with
\* every page in exactly one half and neither half empty (Part.Halve).
HalvesToPages == \A a \in 1 .. n : \A b \in a + 1 .. n : Halved(a, b)

\* However the ranges overlap and whatever their order, Select gives each page
\* they name once, ascending (Select).
SelectExact ==
    LET s == Select(ranges, MaxCount) IN
    s.ok => /\ ToSet(s.pages) = UNION {ranges[i].First .. ranges[i].Last : i \in DOMAIN ranges}
            /\ \A i \in DOMAIN s.pages \ {1} : s.pages[i - 1] < s.pages[i]

\* What the gateway writes in the pages= of a re-check, read back, is the pages
\* of the part (fanout.recheck, FormatPages).
FormatReadBack ==
    LET s == Select(ranges, MaxCount) IN
    s.ok => Select(FormatPages(s.pages), MaxCount) = s

-----------------------------------------------------------------------------
\* Every way to cut the pages into parts, as the positions each part ends at.
Cuts == {SetToSortSeq(ends \union {Len(Numbers)}, <) : ends \in SUBSET (1 .. Len(Numbers) - 1)}

First(ends, k) == IF k = 1 THEN 1 ELSE ends[k - 1] + 1
PagesOf(ends) == [k \in DOMAIN ends |-> SubSeq(Numbers, First(ends, k), ends[k])]

Same(m, w) == /\ m.length = w.length /\ m.endsCR = w.endsCR /\ m.pages = w.pages
              /\ m.items = w.items /\ m.sections = w.sections

\* Parts after a section as they may come too: numbered as the original (a re-check),
\* without the wrappers of what they continue, or with untitled text in the root.
Variants(parts) ==
    LET opened(k) == \E j \in 1 .. k - 1 : Len(parts[j].result.sections) > 1
        later(change(_)) == [k \in DOMAIN parts |-> IF opened(k) THEN change(parts[k]) ELSE parts[k]]
    IN  {parts, later(Renumbered), later(Unwrapped), later(InRoot)}

AloneParts(ends) ==
    [k \in DOMAIN ends |-> [plan |-> PagesOf(ends)[k],
                            result |-> Alone(items, unit, First(ends, k), ends[k])]]

\* What a merge has to refuse: a unit that it counts as two, and, where others have
\* sections, a part with content of which nothing is in a section, be it only the
\* separator between two blank pages.
ItemsOf(ends, k) == {i \in DOMAIN items : First(ends, k) <= items[i].page /\ items[i].page <= ends[k]}
Stray(ends, k) ==
    /\ \A i \in ItemsOf(ends, k) : items[i].what = "furniture"
    /\ ItemsOf(ends, k) # {} \/ ends[k] > First(ends, k)
Mergeable(w, ends) ==
    /\ \A i \in DOMAIN items : items[i].mark # "wide"
    /\ w.sections # <<>> => \A k \in DOMAIN ends : ~Stray(ends, k)

\* A whole result cut at any pages can be merged whenever its parts tell enough,
\* and is then that result again: pages, spans, pointers, and sections that the cut
\* parted are one section, whichever way the parts are numbered or show what they
\* continue (merge.DI, realcut.Cut).
MergeUndoesCut ==
    LET w == Whole(items, unit, Numbers)
    IN  (\A i \in DOMAIN items : items[i].mark # "cr") =>
            \A ends \in Cuts : \A parts \in Variants(CutDI(w, PagesOf(ends))) :
                LET m == DI(parts, unit, "text")
                IN  /\ m.ok <=> Mergeable(w, ends)
                    /\ m.ok => Same(m.result, w)

\* The answers for parts analysed alone stitch to the answer for the whole: length,
\* pages, items and the root's spans.  The merge refuses them exactly when the
\* whole's offsets cannot be told: also for a CR that the separator's LF would join
\* (merge.DI, merge.Read).
AnswersStitched ==
    LET w == Whole(items, unit, Numbers) IN
    \A ends \in Cuts :
        LET parts == AloneParts(ends)
            joined(k) == k < Len(ends) /\ unit = "textElements" /\ parts[k].result.endsCR
            m == DI(parts, unit, "text")
        IN  /\ m.ok <=> Mergeable(w, ends) /\ ~\E k \in DOMAIN ends : joined(k)
            /\ m.ok => /\ Same([m.result EXCEPT !.sections = w.sections], w)
                       /\ w.sections # <<>> => Root(m.result).spans = Root(w).spans
            /\ Read(parts).pages = Numbers

InReadingOrder(result) ==
    LET count == Len(result.sections)
        elements(i) == Nth(result.sections, i).elements
        below[i \in 0 .. count - 1] ==
            FlattenSeq([j \in DOMAIN elements(i) |->
                LET ptr == elements(i)[j] IN IF IsSection(ptr) THEN Append(below[ptr[2]], ptr) ELSE <<ptr>>])
        leaves(i) == SelectSeq(below[i], LAMBDA ptr : ~IsSection(ptr))
        span(ptr) == Nth(result.items[ptr[1]], ptr[2]).spans[1]
        spans(i) == Nth(result.sections, i).spans
    IN  /\ leaves(0) = [j \in 1 .. Cardinality(Held(items)) |->
                           PointerTo(items, SetToSortSeq(Held(items), <)[j])]
        /\ \A i \in 1 .. count - 1 : Contains(below[0], <<"sections", i>>)
        /\ Len(below[0]) = Len(leaves(0)) + count - 1
        /\ \A i \in 0 .. count - 1 : leaves(i) # <<>> =>
               /\ \A j \in DOMAIN elements(i) \ {1} :
                      IsSection(elements(i)[j - 1]) => IsSection(elements(i)[j])
               /\ spans(i)[1][1] = span(Head(leaves(i)))[1]
               /\ Furthest(spans(i)) = EndOf(span(Last(leaves(i))))

\* The merged sections are one tree that holds every item outside page headers and
\* footers once, in reading order, each section its own items before its sections,
\* and spans from its first item to its last (planContinuations, writeSections).
ReadingOrderKept ==
    \A ends \in Cuts :
        LET m == DI(AloneParts(ends), unit, "text") IN
        m.ok /\ m.result.sections # <<>> => InReadingOrder(m.result)

\* One name is before another in an order.
Ahead(order, x, y) == \E i, j \in DOMAIN order : i < j /\ order[i] = x /\ order[j] = y

\* When some order of the members keeps every part's own, the merge finds one that
\* does; only parts that contradict each other are refused (mergeOrder).
OrderKept ==
    LET names == UNION {ToSet(lists[k]) : k \in DOMAIN lists}
        keeps(order) == \A k \in DOMAIN lists : \A i, j \in DOMAIN lists[k] :
                            i < j => Ahead(order, lists[k][i], lists[k][j])
        possible == \E order \in Orders : ToSet(order) = names /\ keeps(order)
        m == MergeOrder(lists)
    IN  /\ m.ok <=> possible
        /\ m.ok => keeps(m.order) /\ ToSet(m.order) = names /\ IsInjective(m.order)
=============================================================================
