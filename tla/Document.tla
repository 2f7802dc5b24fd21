-------------------------------- MODULE Document --------------------------------
(***************************************************************************)
(* What the container answers for a document, to the extent that the merge *)
(* reads it.  The container is not this program's code: the shapes are     *)
(* those that internal/merge/continue.go and sections.go describe of real  *)
(* results, and the variants those that a part analysed alone comes in.    *)
(*                                                                         *)
(* A document is what its pages hold in reading order, each item one unit  *)
(* long: a body paragraph or a figure, a heading at level 1 or 2, or a     *)
(* page header or footer, which is in no section (furniture).              *)
(***************************************************************************)
EXTENDS Cut

\* An item is a record [page, what, mark]: it may end in a CR, or be text that
\* the gateway counts as two units (wide).
IsTitled(it) == it.what \in {"h1", "h2"}
Member(it) == IF it.what = "figure" THEN "figures" ELSE "paragraphs"

\* Text of one page is joined by a newline, and pages are by the separator, which
\* a CR before it swallows when the unit is a text element.
Swallowed(items, unit, p) ==
    Cardinality({i \in DOMAIN items : /\ items[i].mark = "cr" /\ unit = "textElements"
                                      /\ (i = Len(items) \/ items[i + 1].page # items[i].page)
                                      /\ items[i].page < p})

Newlines(items, i) == Cardinality({j \in 2 .. i : items[j].page = items[j - 1].page})

OffsetOf(items, unit, sep, i) ==
    (i - 1) + Newlines(items, i) + sep * (items[i].page - 1) - Swallowed(items, unit, items[i].page)

PageSpan(items, unit, sep, p) ==
    LET on == {i \in DOMAIN items : items[i].page = p}
        before == {i \in DOMAIN items : items[i].page < p}
        start == Cardinality(before) + (IF before = {} THEN 0 ELSE Newlines(items, Max(before)))
                 + sep * (p - 1) - Swallowed(items, unit, p)
    IN  <<start, IF on = {} THEN 0
                 ELSE OffsetOf(items, unit, sep, Max(on)) + 1 - start>>

\* The sections: one per heading, and an untitled one for what comes before the
\* first heading; all in the root when there is no heading.  A level 2 heading
\* opens a section within the last level 1 section.
Held(items) == {i \in DOMAIN items : items[i].what # "furniture"}
Heads(items) == {i \in DOMAIN items : IsTitled(items[i])}
Untitled(items) == {i \in Held(items) : \A h \in Heads(items) : i < h}

\* A section is named by its first item; the root is 0.
SectionStarts(items) ==
    Heads(items) \union (IF Untitled(items) = {} \/ Heads(items) = {} THEN {} ELSE {Min(Untitled(items))})

Parent(items, s) ==
    LET above == {h \in Heads(items) : h < s /\ items[h].what = "h1"}
    IN  IF s \in Heads(items) /\ items[s].what = "h2" /\ above # {} THEN Max(above) ELSE 0

SectionOf(items, i) ==
    LET opened == {s \in SectionStarts(items) : s <= i} IN IF opened = {} THEN 0 ELSE Max(opened)

\* The items a section holds, those of its sub-sections included.
Covers(items, s) ==
    {i \in Held(items) : s = 0 \/ SectionOf(items, i) = s
                         \/ (SectionOf(items, i) # 0 /\ Parent(items, SectionOf(items, i)) = s)}

\* A section's spans run on where only a newline or one separator lies between.
SpansOver(items, unit, sep, held) ==
    LET sorted == SetToSortSeq(held, <)
        off(i) == OffsetOf(items, unit, sep, i)
        runsOn(i) == i - 1 \in held /\ off(i) - (off(i - 1) + 1) <= sep
    IN  FoldLeft(LAMBDA acc, i : IF runsOn(i)
                                 THEN Append(Front(acc), <<Last(acc)[1], off(i) + 1 - Last(acc)[1]>>)
                                 ELSE Append(acc, <<off(i), 1>>),
                 <<>>, sorted)

PointerTo(items, i) ==
    <<Member(items[i]), Cardinality({j \in 1 .. i - 1 : Member(items[j]) = Member(items[i])})>>

\* Its own items, in order, then its sub-sections.
SectionAt(items, unit, sep, s) ==
    LET own == SetToSortSeq({i \in Held(items) : SectionOf(items, i) = s}, <)
        below == SetToSortSeq({t \in SectionStarts(items) : Parent(items, t) = s}, <)
        number(t) == Cardinality({u \in SectionStarts(items) : u <= t})
    IN  [elements |-> [i \in DOMAIN own |-> PointerTo(items, own[i])]
                      \o [i \in DOMAIN below |-> <<"sections", number(below[i])>>],
         spans |-> SpansOver(items, unit, sep, Covers(items, s))]

Whole(items, unit, numbers) ==
    LET sep == Separator("text")
        span(p) == PageSpan(items, unit, sep, p)
        last == span(Len(numbers))
        off(i) == OffsetOf(items, unit, sep, i)
        wide == {off(i) : i \in {j \in DOMAIN items : items[j].mark = "wide"}}
        item(i) == [page |-> numbers[items[i].page], spans |-> <<<<off(i), 1>>>>, head |-> IsTitled(items[i])]
        array(m) == LET mine == SetToSortSeq({i \in DOMAIN items : Member(items[i]) = m}, <)
                    IN  [i \in DOMAIN mine |-> item(mine[i])]
        starts == <<0>> \o SetToSortSeq(SectionStarts(items), <)
    IN  [length |-> EndOf(last) + Cardinality(wide),
         endsCR |-> items # <<>> /\ items[Len(items)].mark = "cr" /\ items[Len(items)].page = Len(numbers),
         pages |-> [p \in DOMAIN numbers |-> [num |-> numbers[p], spans |-> <<span(p)>>]],
         items |-> [m \in Members |-> array(m)],
         sections |-> IF Held(items) = {} THEN <<>>
                      ELSE [j \in DOMAIN starts |-> SectionAt(items, unit, sep, starts[j])],
         wide |-> wide]

\* What the container answers for the pages first .. last of the document alone.
Alone(items, unit, first, last) ==
    LET mine == SelectSeq(items, LAMBDA it : first <= it.page /\ it.page <= last)
    IN  Whole([i \in DOMAIN mine |-> [mine[i] EXCEPT !.page = @ - first + 1]], unit,
              [p \in 1 .. last - first + 1 |-> p])

-----------------------------------------------------------------------------
(* How else the answer for a part may come *)

\* As a pages= re-check on the original document numbers it.
Renumbered(part) ==
    [part EXCEPT !.result.pages = [i \in DOMAIN @ |-> [@[i] EXCEPT !.num = part.plan[i]]],
                 !.result.items = [m \in Members |->
                     [i \in DOMAIN @[m] |-> [@[m][i] EXCEPT !.page = part.plan[@]]]]]

\* The sections without the first, and pointers to it.
WithoutFirst(sections, first) ==
    LET number(ptr) == IF IsSection(ptr) THEN <<"sections", ptr[2] - 1>> ELSE ptr
        rest == <<[sections[1] EXCEPT !.elements = first \o Tail(@)]>> \o SubSeq(sections, 3, Len(sections))
    IN  [i \in DOMAIN rest |->
            [rest[i] EXCEPT !.elements = [j \in DOMAIN @ |-> number(@[j])]]]

OpensUntitled(result) ==
    /\ Len(result.sections) > 1
    /\ Root(result).elements # <<>> /\ Head(Root(result).elements) = <<"sections", 1>>
    /\ ~IsHeading(result, Head(Nth(result.sections, 1).elements))

\* A wrapper that holds nothing but an untitled section is not there: the part
\* shows only that the text has no heading, not how deep it is.
Unwrapped(part) ==
    LET sections == part.result.sections IN
    IF /\ OpensUntitled(part.result) /\ sections[2].elements = <<<<"sections", 2>>>>
       /\ ~IsHeading(part.result, Head(sections[3].elements))
    THEN [part EXCEPT !.result.sections = WithoutFirst(@, sections[2].elements)]
    ELSE part

\* Untitled content that has no section of its own but is in the root.
InRoot(part) ==
    LET sections == part.result.sections IN
    IF OpensUntitled(part.result) /\ ~\E ptr \in ToSet(sections[2].elements) : IsSection(ptr)
    THEN [part EXCEPT !.result.sections = WithoutFirst(@, sections[2].elements)]
    ELSE part
=============================================================================
