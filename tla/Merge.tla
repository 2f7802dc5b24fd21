--------------------------------- MODULE Merge ---------------------------------
(***************************************************************************)
(* internal/merge: the results of a document's parts stitched into one.    *)
(*                                                                         *)
(* A result is what the container answers for a part or for a whole        *)
(* document.  Of its bytes only what the merge renumbers is here:          *)
(*   length    of its content, as the gateway counts it; endsCR            *)
(*   pages     each with its number and its spans <<offset, length>>       *)
(*   items     per array: the page, spans and role (head) of each item     *)
(*   sections  their elements and spans; the root comes first              *)
(* An element pointer "/member/N" is the pair <<member, N>>; N counts from *)
(* 0, as in the code.  A part is a result with the pages planned for it.   *)
(***************************************************************************)
EXTENDS Integers, Sequences, SequencesExt

\* The arrays that pointers name, besides sections.  Tables and keyValuePairs are
\* renumbered as figures are; page is also the page in a figure's id.
Members == {"paragraphs", "figures"}

\* The units between the text of two pages, by contentFormat.
Separator(format) == IF format = "markdown" THEN 20 ELSE 1

Nth(list, i) == list[i + 1]
Root(result) == result.sections[1]
Count(result, member) == IF member = "sections" THEN Len(result.sections) ELSE Len(result.items[member])
IsSection(ptr) == ptr[1] = "sections"
IsHeading(result, ptr) == ptr[1] = "paragraphs" /\ Nth(result.items["paragraphs"], ptr[2]).head

EndOf(span) == span[1] + span[2]
Furthest(spans) == IF spans = <<>> THEN -1 ELSE Max({EndOf(spans[i]) : i \in DOMAIN spans})

-----------------------------------------------------------------------------
(* order.go: one member order that keeps every part's *)

\* A name goes right after the one before it in the list it is first seen in.
Prefer(pref, list, i) ==
    IF Contains(pref, list[i]) THEN pref
    ELSE IF i = 1 THEN <<list[1]>> \o pref
    ELSE InsertAt(pref, SelectInSeq(pref, LAMBDA x : x = list[i - 1]) + 1, list[i])

PreferList(pref, list) == FoldLeftDomain(LAMBDA acc, i : Prefer(acc, list, i), pref, list)

Preferred(lists) == FoldLeft(PreferList, <<>>, lists)

\* Wrong: the order of first sight is taken as it is.
PreferredOrder(lists) == [ok |-> TRUE, order |-> Preferred(lists)]

\* The names that some list puts right before this one.
RightBefore(lists, name) ==
    UNION {{list[i - 1] : i \in {j \in 2 .. Len(list) : list[j] = name}} : list \in ToSet(lists)}

\* The earliest name not placed whose predecessors are all placed goes next.
Place(order, pref, lists) ==
    LET next == SelectInSeq(pref, LAMBDA x : /\ ~Contains(order, x)
                                             /\ RightBefore(lists, x) \subseteq ToSet(order))
    IN  IF next = 0 THEN order ELSE Append(order, pref[next])

MergeOrder(lists) ==
    LET pref == Preferred(lists)
        order == FoldLeft(LAMBDA acc, x : Place(acc, pref, lists), <<>>, pref)
    IN  [ok |-> Len(order) = Len(pref), order |-> order]

-----------------------------------------------------------------------------
(* check.go, di.go, sections.go: what is checked before anything is written *)

\* A part numbered 1..k is a PDF of its own, any other has the original numbers.
Local(part) == \A i \in DOMAIN part.result.pages : part.result.pages[i].num <= Len(part.plan)

\* The original page, or 0 for a page that is not the part's.
MapPage(part, n) ==
    IF Local(part) THEN IF n \in DOMAIN part.plan THEN part.plan[n] ELSE 0
    ELSE IF Contains(part.plan, n) THEN n ELSE 0

ValidPages(plan) ==
    plan # <<>> /\ plan[1] >= 1 /\ \A i \in DOMAIN plan \ {1} : plan[i - 1] < plan[i]

\* The parts return exactly their planned pages, each part after the one before.
PagesMatch(parts) ==
    \A k \in DOMAIN parts :
        LET part == parts[k] IN
        /\ ValidPages(part.plan)
        /\ k > 1 => part.plan[1] > Last(parts[k - 1].plan)
        /\ Len(part.result.pages) = Len(part.plan)
        /\ \A i \in DOMAIN part.plan : MapPage(part, part.result.pages[i].num) = part.plan[i]

\* What lies on a page lies on one of the part's.
ItemPagesMatch(parts) ==
    \A k \in DOMAIN parts, m \in Members :
        \A it \in ToSet(parts[k].result.items[m]) : MapPage(parts[k], it.page) # 0

\* Spans that will be shifted lie in the part's content.
SpansWithin(result, spans) == Furthest(spans) <= result.length

\* A part has sections when any part has, unless it is blank; root spans lie in
\* the part's content, and content has a root span.
SectionsMatch(parts) ==
    (\E k \in DOMAIN parts : parts[k].result.sections # <<>>) =>
        \A k \in DOMAIN parts :
            LET result == parts[k].result IN
            IF result.sections = <<>> THEN result.length = 0
            ELSE /\ SpansWithin(result, Root(result).spans)
                 /\ result.length > 0 => Root(result).spans # <<>>

\* The furthest page span ends where the content does, in the service's count.
PageSpansMatch(parts) ==
    \A k \in DOMAIN parts :
        LET result == parts[k].result
            end == Furthest(FlattenSeq([i \in DOMAIN result.pages |-> result.pages[i].spans]))
        IN  IF end < 0 THEN result.length = 0 ELSE end = result.length

\* A CR at the end of a part would be one element with the separator's LF.
NoJoinedCR(parts, unit) ==
    unit = "textElements" => \A k \in 1 .. Len(parts) - 1 : ~parts[k].result.endsCR

\* Every pointer names one of the part's own items.
PointersMatch(parts) ==
    \A k \in DOMAIN parts : \A s \in ToSet(parts[k].result.sections) :
        \A ptr \in ToSet(s.elements) : ptr[2] < Count(parts[k].result, ptr[1])

Checked(parts, unit) ==
    /\ parts # <<>>
    /\ PagesMatch(parts) /\ ItemPagesMatch(parts) /\ SectionsMatch(parts)
    /\ NoJoinedCR(parts, unit) /\ PageSpansMatch(parts) /\ PointersMatch(parts)

-----------------------------------------------------------------------------
(* continue.go: leading content that continues the sections left open *)

\* What an open section takes of part: elements and spans, in the part's numbers.
Nothing == [part |-> 0, elements |-> <<>>, spans |-> <<>>]

\* How a part begins.  conts: what the open section at each depth takes; into:
\* the depth each leading section was folded into; what the part loses; and
\* whether the spans read on the way lie in its content.
NoLead == [conts |-> <<>>, into |-> <<>>, secDrop |-> 0, rootDrop |-> 0, rootMoved |-> FALSE,
           within |-> TRUE]

\* Wrong: the sections above the one that takes the content do not get its spans.
ContentDeepest(conts, c, from) == [conts EXCEPT ![Len(conts)] = c]

\* Content goes into the deepest open section, its spans into those above it too.
Content(conts, c, from) ==
    [j \in DOMAIN conts |-> IF j = Len(conts) THEN c
                            ELSE IF j > from THEN [c EXCEPT !.elements = <<>>]
                            ELSE conts[j]]

\* The root holds everything: all of it continues the deepest section.
WholeRoot(k, result, none) ==
    IF \E ptr \in ToSet(Root(result).elements) : IsSection(ptr) THEN NoLead
    ELSE [NoLead EXCEPT !.rootMoved = TRUE,
                        !.conts = Content(none, [part |-> k, elements |-> Root(result).elements,
                                                 spans |-> Root(result).spans], 0)]

\* The spans of leaves, clipped out of the root's.
RunSpans(result, leaves) ==
    LET own == FlattenSeq([i \in DOMAIN leaves |-> Nth(result.items[leaves[i][1]], leaves[i][2]).spans])
        lo == Min({own[i][1] : i \in DOMAIN own})
        clip(s) == LET a == Max({s[1], lo}) b == Min({EndOf(s), Furthest(own)}) IN <<a, b - a>>
        spans == Root(result).spans
    IN  IF own = <<>> THEN <<>>
        ELSE SelectSeq([i \in DOMAIN spans |-> clip(spans[i])], LAMBDA s : s[2] > 0)

\* The root opens with a run of untitled elements, and a section follows.
LeadingRun(k, result, none) ==
    LET elements == Root(result).elements
        stop == SelectInSeq(elements, LAMBDA ptr : IsSection(ptr) \/ IsHeading(result, ptr))
        run == SubSeq(elements, 1, stop - 1)
        spans == RunSpans(result, run)
    IN  IF stop = 0 \/ spans = <<>> \/ ~\E i \in stop .. Len(elements) : IsSection(elements[i])
        THEN NoLead
        ELSE [NoLead EXCEPT !.rootDrop = stop - 1,
                            !.conts = Content(none, [part |-> k, elements |-> run, spans |-> spans], 0)]

\* Each wrapper goes into the open section at its own depth.
Wrappers(k, result, links, none) ==
    [j \in DOMAIN none |-> IF j \in DOMAIN links THEN links[j] ELSE none[j]]

\* The root opens with a chain of untitled sections 1, 2, ..: wrappers, each of
\* which opens with the next, and at its end content or a heading.  Their spans
\* are checked on the way, whatever comes of it.
LeadingSections(k, result, none) ==
    LET n == Len(result.sections) - 1
        elements(i) == Nth(result.sections, i).elements
        wraps(i) == elements(i) # <<>> /\ Head(elements(i)) = <<"sections", i + 1>>
        w == Cardinality({i \in 1 .. n : \A j \in 1 .. i : wraps(j)})
        end == w + 1
        titled == IsHeading(result, Head(elements(end)))
        chain == IF titled THEN w ELSE end
        link(i) == [part |-> k, spans |-> Nth(result.sections, i).spans,
                    elements |-> IF i < chain THEN Tail(elements(i)) ELSE elements(i)]
        folded == Wrappers(k, result, [i \in 1 .. w |-> link(i)], none)
        within == \A i \in 1 .. Min({end, n, Len(none)}) :
                      \/ elements(i) = <<>> \/ IsHeading(result, Head(elements(i)))
                      \/ SpansWithin(result, Nth(result.sections, i).spans)
    IN  IF \/ end > n \/ elements(end) = <<>> \/ IsSection(Head(elements(end)))
           \/ chain = 0 \/ chain > Len(none)
        THEN [NoLead EXCEPT !.within = within]
        ELSE [conts |-> IF titled THEN folded ELSE Content(folded, link(end), w),
              into |-> [i \in 1 .. chain |-> IF i <= w THEN i ELSE Len(none)],
              secDrop |-> chain, rootDrop |-> 1, rootMoved |-> FALSE, within |-> within]

LeadingContinuation(k, result, depth) ==
    LET first == Head(Root(result).elements)
        none == [j \in 1 .. depth |-> Nothing]
    IN  IF Len(result.sections) = 1 THEN WholeRoot(k, result, none)
        ELSE IF ~IsSection(first) THEN LeadingRun(k, result, none)
        ELSE IF first[2] # 1 THEN NoLead
        ELSE LeadingSections(k, result, none)

\* From the root down through each last element that is a section.
OpenPath(result) ==
    FoldLeft(LAMBDA path, s :
               LET elements == IF path = <<>> THEN Root(result).elements
                               ELSE Nth(result.sections, Last(path)).elements
               IN  IF \/ elements = <<>> \/ ~IsSection(Last(elements)) \/ Last(elements)[2] < 1
                      \/ Contains(path, Last(elements)[2])
                   THEN path ELSE Append(path, Last(elements)[2]),
             <<>>, result.sections)

\* A section that was folded stands for the open one and those above it.
Reopen(k, open, lead, path) ==
    FoldLeft(LAMBDA next, i : IF i <= Len(lead.into) THEN SubSeq(open, 1, lead.into[i])
                              ELSE Append(next, <<k, i>>),
             <<>>, path)

\* Wrong: a part that was moved altogether closes the sections it continues.
OpenAfterMoved(k, result, open, lead) ==
    LET path == OpenPath(result)
    IN  IF path # <<>> THEN Reopen(k, open, lead, path)
        ELSE IF Len(Root(result).elements) > lead.rootDrop THEN <<>> ELSE open

\* The sections left open after part k.
OpenAfter(k, result, open, lead) ==
    LET path == OpenPath(result)
    IN  IF lead.rootMoved THEN open
        ELSE IF path # <<>> THEN Reopen(k, open, lead, path)
        ELSE IF Len(Root(result).elements) > lead.rootDrop THEN <<>> ELSE open

\* How part k begins, and what is planned once that is known.
LeadOf(open, k, result) ==
    IF open = <<>> \/ k = 1 \/ Root(result).elements = <<>> \/ IsHeading(result, Head(Root(result).elements))
    THEN NoLead
    ELSE LeadingContinuation(k, result, Len(open))

PlanPart(acc, k, result, lead) ==
    [open |-> OpenAfter(k, result, acc.open, lead),
     folds |-> acc.folds \o SelectSeq([d \in DOMAIN lead.conts |-> <<acc.open[d], lead.conts[d]>>],
                                      LAMBDA f : f[2] # Nothing),
     leads |-> Append(acc.leads, lead)]

\* Part by part: how each begins, and the folds into each section <<part, i>>.
PlanContinuations(parts) ==
    FoldLeft(LAMBDA acc, k : IF parts[k].result.sections = <<>>
                             THEN [acc EXCEPT !.leads = Append(@, NoLead)]
                             ELSE PlanPart(acc, k, parts[k].result, LeadOf(acc.open, k, parts[k].result)),
             [open |-> <<>>, folds |-> <<>>, leads |-> <<>>], [k \in DOMAIN parts |-> k])

\* The pointers of a part that are written: all but those to folded sections at
\* the start of the root and of each wrapper.
Kept(result, lead) ==
    ToSet(SubSeq(Root(result).elements, lead.rootDrop + 1, Len(Root(result).elements)))
    \union UNION {ToSet(Nth(result.sections, i).elements) : i \in lead.secDrop + 1 .. Len(result.sections) - 1}
    \union UNION {ToSet(lead.conts[d].elements) : d \in DOMAIN lead.conts}

\* What is found while the sections are written: no other pointer names a folded
\* section, and a section that takes a fold has its spans in its content.
PlanMatches(parts, plan) ==
    /\ \A k \in DOMAIN parts :
          LET result == parts[k].result
              lead == plan.leads[k]
          IN  result.sections # <<>> =>
                  /\ lead.within
                  /\ \A ptr \in Kept(result, lead) : ~(IsSection(ptr) /\ ptr[2] \in 1 .. lead.secDrop)
    /\ \A f \in ToSet(plan.folds) :
          LET result == parts[f[1][1]].result
          IN  SpansWithin(result, Nth(result.sections, f[1][2]).spans)

-----------------------------------------------------------------------------
(* Where each part's numbers start in the merged result, and the writing of it *)

\* What the parts before part k add up to.
Total(sizes, k) == FoldLeft(LAMBDA sum, size : sum + size, 0, SubSeq(sizes, 1, k - 1))

\* Wrong: the page separator is not counted.
CharUnseparated(parts, k, sep) == Total([i \in DOMAIN parts |-> parts[i].result.length], k)

Char(parts, k, sep) == Total([i \in DOMAIN parts |-> parts[i].result.length + sep], k)
PtrBase(parts, k, member) == Total([i \in DOMAIN parts |-> Len(parts[i].result.items[member])], k)

\* The merged index of part k's section 1, folded sections left out.
SecBase(parts, leads, k) ==
    LET below(sections) == IF sections = <<>> THEN 0 ELSE Len(sections) - 1
    IN  1 + Total([i \in DOMAIN parts |-> below(parts[i].result.sections)], k)
          - Total([i \in DOMAIN leads |-> leads[i].secDrop], k)

\* diVisitor.pointer: an element pointer of part k in the merged numbers.
Renumber(parts, leads, k, ptr) ==
    IF ~IsSection(ptr) THEN <<ptr[1], ptr[2] + PtrBase(parts, k, ptr[1])>>
    ELSE IF ptr[2] = 0 THEN ptr
    ELSE <<"sections", SecBase(parts, leads, k) + ptr[2] - 1 - leads[k].secDrop>>

\* A span that starts its part is joined to one that ends the part before.
AppendSpans(out, parts, k, spans, sep) ==
    FoldLeft(LAMBDA acc, s :
               LET off == s[1] + Char(parts, k, sep)
                   last == Last(acc)
               IN  IF /\ acc # <<>> /\ k > 1 /\ s[1] = 0
                      /\ EndOf(last) = Char(parts, k - 1, sep) + parts[k - 1].result.length
                   THEN Append(Front(acc), <<last[1], off + s[2] - last[1]>>)
                   ELSE Append(acc, <<off, s[2]>>),
             out, spans)

MergeSpans(parts, sep, conts) ==
    FoldLeft(LAMBDA out, c : AppendSpans(out, parts, c.part, c.spans, sep), <<>>, conts)

MergeElements(parts, leads, conts) ==
    FlattenSeq([i \in DOMAIN conts |->
                   [j \in DOMAIN conts[i].elements |->
                       Renumber(parts, leads, conts[i].part, conts[i].elements[j])]])

\* The parts with sections give the merged root their elements, less what was
\* folded, and all their spans.
WriteRoot(parts, sep, leads) ==
    LET with == SelectSeq([k \in DOMAIN parts |-> k], LAMBDA k : parts[k].result.sections # <<>>)
        kept(k) == IF leads[k].rootMoved THEN <<>>
                   ELSE SubSeq(Root(parts[k].result).elements, leads[k].rootDrop + 1,
                               Len(Root(parts[k].result).elements))
        roots == [i \in DOMAIN with |-> [part |-> with[i], elements |-> kept(with[i]),
                                         spans |-> Root(parts[with[i]].result).spans]]
    IN  [elements |-> MergeElements(parts, leads, roots), spans |-> MergeSpans(parts, sep, roots)]

\* A section with its folds, in the order they were planned.
WriteSection(parts, sep, plan, k, i) ==
    LET s == Nth(parts[k].result.sections, i)
        mine == SelectSeq(plan.folds, LAMBDA f : f[1] = <<k, i>>)
        conts == <<[part |-> k, elements |-> s.elements, spans |-> s.spans]>>
                 \o [j \in DOMAIN mine |-> mine[j][2]]
    IN  [elements |-> MergeElements(parts, plan.leads, conts), spans |-> MergeSpans(parts, sep, conts)]

WriteAll(parts, sep, plan) ==
    LET drop(k) == plan.leads[k].secDrop
    IN  <<WriteRoot(parts, sep, plan.leads)>>
        \o FlattenSeq([k \in DOMAIN parts |->
               [i \in 1 .. Len(parts[k].result.sections) - 1 - drop(k) |->
                   WriteSection(parts, sep, plan, k, drop(k) + i)]])

WriteSections(parts, sep, plan) ==
    IF \A k \in DOMAIN parts : parts[k].result.sections = <<>> THEN <<>>
    ELSE WriteAll(parts, sep, plan)

\* diVisitor on everything else: spans and pages.
Shift(parts, k, sep, spans) ==
    [i \in DOMAIN spans |-> <<spans[i][1] + Char(parts, k, sep), spans[i][2]>>]

WriteArray(parts, list(_), item(_, _)) ==
    FlattenSeq([k \in DOMAIN parts |-> [i \in DOMAIN list(parts[k]) |-> item(k, list(parts[k])[i])]])

WritePages(parts, sep) ==
    WriteArray(parts, LAMBDA p : p.result.pages,
               LAMBDA k, page : [num |-> MapPage(parts[k], page.num),
                                 spans |-> Shift(parts, k, sep, page.spans)])

WriteItems(parts, sep, member) ==
    WriteArray(parts, LAMBDA p : p.result.items[member],
               LAMBDA k, it : [it EXCEPT !.page = MapPage(parts[k], @),
                                         !.spans = Shift(parts, k, sep, @)])

\* The merge of Document Intelligence results; ok is FALSE when a check fails.
DI(parts, unit, format) ==
    LET sep == Separator(format)
        n == Len(parts)
        plan == PlanContinuations(parts)
    IN  IF ~Checked(parts, unit) \/ ~PlanMatches(parts, plan) THEN [ok |-> FALSE]
        ELSE [ok |-> TRUE,
              result |-> [length |-> Char(parts, n, sep) + parts[n].result.length,
                          endsCR |-> parts[n].result.endsCR,
                          pages |-> WritePages(parts, sep),
                          items |-> [m \in Members |-> WriteItems(parts, sep, m)],
                          sections |-> WriteSections(parts, sep, plan)]]

\* The merge of Read results: pages, and nothing that refers to them.
Read(parts) ==
    IF parts = <<>> \/ ~PagesMatch(parts) THEN [ok |-> FALSE]
    ELSE [ok |-> TRUE,
          pages |-> WriteArray(parts, LAMBDA p : p.result.pages,
                               LAMBDA k, page : MapPage(parts[k], page.num))]
=============================================================================
