--------------------------- MODULE BillParserProofs ---------------------------
(***************************************************************************)
(* Why the parser finds the body behind its front matter, for every bill a *)
(* drafter may lay out, however long.  The body's own Article 1 bounds     *)
(* where it can begin (BodyIsBehind): a later beginning would be a descent *)
(* inside a body that rises, or would make Article 1 an earlier descent.   *)
(* So a clean report misses no article; and it has no more, since a        *)
(* heading of the front matter would repeat an id.  The other direction    *)
(* follows the guard over the body's numbers, which go on by at most one   *)
(* (GuardKeepsEnacted).                                                    *)
(***************************************************************************)
EXTENDS BillParser, FiniteSetTheorems, WellFoundedInduction, TLAPS

\* A set of numbers that is not empty has a least one.
LEMMA LeastNumber ==
  ASSUME NEW S \in SUBSET Nat, S # {}
  PROVE  \E m \in S : \A k \in S : m <= k
<1>1. PICK m \in S : \A y \in S : ~(<<y, m>> \in OpToRel(<, Nat))
  BY WFMin, NatLessThanWellFounded
<1>2. \A k \in S : ~(k < m)
  BY <1>1 DEF OpToRel
<1>. QED BY <1>2

\* The first of some lines is one of them.
LEMMA FirstLine ==
  ASSUME NEW S \in SUBSET Nat, S # {}
  PROVE  Min(S) \in S /\ \A i \in S : Min(S) <= i
<1>1. \E m \in S : \A k \in S : m <= k
  BY LeastNumber
<1>. QED BY <1>1 DEF Min

\* So is the last, of finitely many.
LEMMA LastOne ==
  ASSUME NEW n \in Nat, NEW S \in SUBSET (0..n), S # {}
  PROVE  Max(S) \in S /\ \A i \in S : i <= Max(S)
<1>. DEFINE Above == {n - i : i \in S}
<1>1. Above \in SUBSET Nat /\ Above # {}
  <2>1. \A i \in S : i \in 0..n /\ n - i \in Nat
    OBVIOUS
  <2>. QED BY <2>1
<1>2. PICK m \in Above : \A k \in Above : m <= k
  <2>. HIDE DEF Above
  <2>. QED BY <1>1, LeastNumber
<1>3. PICK i \in S : m = n - i
  OBVIOUS
<1>4. \A j \in S : n - j \in Above
  OBVIOUS
<1>5. \A j \in S : i >= j
  BY <1>2, <1>3, <1>4
<1>6. \E x \in S : \A y \in S : x >= y
  BY <1>5
<1>7. Max(S) \in S /\ \A y \in S : Max(S) >= y
  BY <1>6 DEF Max
<1>. QED BY <1>7

\* The page breaks that are mended leave every heading and every title as it was.
LEMMA PreprocessKeeps ==
  ASSUME NEW text \in Seq(TextLine), NEW clean, clean = Preprocess(text)
  PROVE  /\ Lines(clean, "heading") = Lines(text, "heading")
         /\ Lines(clean, "marker") = Lines(text, "marker")
         /\ \A i \in Lines(text, "heading") \cup Lines(text, "marker") : clean[i] = text[i]
BY DEF Preprocess, Lines

\* What the lines of a text are made of.
LEMMA TextTypes ==
  ASSUME NEW text \in Seq(TextLine)
  PROVE  /\ Len(text) \in Nat
         /\ \A kind : Lines(text, kind) \subseteq 1..Len(text)
         /\ \A i \in Lines(text, "heading") : Number(text[i]) \in Nat
         /\ \A i \in 1..Len(text) : text[i].part \in {1, 2, 3}
         /\ \A i \in 1..Len(text) : text[i].ref \in BOOLEAN
<1>1. Len(text) \in Nat /\ DOMAIN text = 1..Len(text)
  OBVIOUS
<1>2. ASSUME NEW i \in 1..Len(text)
      PROVE  /\ text[i].id \in Nat \X STRING
             /\ text[i].part \in {1, 2, 3} /\ text[i].ref \in BOOLEAN
  <2>1. text[i] \in TextLine
    BY <1>2
  <2>. QED BY <2>1 DEF TextLine, Contents, Rationale, Body
<1>3. \A i \in 1..Len(text) : Number(text[i]) \in Nat
  BY <1>2 DEF Number
<1>4. \A kind : Lines(text, kind) \subseteq 1..Len(text)
  BY <1>1 DEF Lines
<1>. QED BY <1>1, <1>2, <1>3, <1>4

\* The body begins on line 1, or at the first descent after the last title that
\* has one (find_body_start).
LEMMA StartIsDescent ==
  ASSUME NEW text \in Seq(TextLine)
  PROVE  LET anchors == {m \in Lines(text, "marker") : Descents(text, m) # {}}
         IN  \/ anchors = {} /\ BodyStart(text) = 1
             \/ \E m \in anchors :
                  /\ \A k \in anchors : k <= m
                  /\ BodyStart(text) \in Descents(text, m)
                  /\ \A i \in Descents(text, m) : BodyStart(text) <= i
<1>. DEFINE anchors == {m \in Lines(text, "marker") : Descents(text, m) # {}}
<1>1. CASE anchors = {}
  BY <1>1 DEF BodyStart
<1>2. CASE anchors # {}
  <2>1. Len(text) \in Nat /\ anchors \in SUBSET (0..Len(text))
    BY TextTypes
  <2>2. Max(anchors) \in anchors /\ \A k \in anchors : k <= Max(anchors)
    <3>. HIDE DEF anchors
    <3>. QED BY <1>2, <2>1, LastOne
  <2>3. Descents(text, Max(anchors)) \in SUBSET Nat /\ Descents(text, Max(anchors)) # {}
    <3>1. \A m : Descents(text, m) \subseteq Lines(text, "heading")
      BY DEF Descents
    <3>2. Lines(text, "heading") \in SUBSET Nat
      BY TextTypes
    <3>3. Descents(text, Max(anchors)) # {}
      BY <2>2
    <3>. QED BY <3>1, <3>2, <3>3
  <2>4. /\ Min(Descents(text, Max(anchors))) \in Descents(text, Max(anchors))
        /\ \A i \in Descents(text, Max(anchors)) : Min(Descents(text, Max(anchors))) <= i
    BY <2>3, FirstLine
  <2>5. BodyStart(text) = Min(Descents(text, Max(anchors)))
    BY <1>2 DEF BodyStart
  <2>. QED BY <2>2, <2>4, <2>5
<1>. QED BY <1>1, <1>2


\* So they leave where the body begins, and what is read of it.
LEMMA SameBody ==
  ASSUME NEW text \in Seq(TextLine), NEW clean, clean = Preprocess(text)
  PROVE  /\ BodyStart(clean) = BodyStart(text)
         /\ \A ref : BodyHeadings(clean, ref) = BodyHeadings(text, ref)
<1>1. /\ Lines(clean, "heading") = Lines(text, "heading")
      /\ Lines(clean, "marker") = Lines(text, "marker")
      /\ \A i \in Lines(text, "heading") : clean[i] = text[i]
  BY PreprocessKeeps
<1>2. \A m : Descents(clean, m) = Descents(text, m)
  BY <1>1 DEF Descents
<1>3. BodyStart(clean) = BodyStart(text)
  BY <1>1, <1>2 DEF BodyStart
<1>4. \A ref : BodyHeadings(clean, ref) = BodyHeadings(text, ref)
  BY <1>1, <1>3 DEF BodyHeadings
<1>. QED BY <1>3, <1>4

\* The guard keeps some of the candidates.
LEMMA GuardKeepsSome ==
  ASSUME NEW text, NEW candidates
  PROVE  Guard(text, candidates) \subseteq candidates
BY DEF Guard

\* What a report says of the candidates it was made from and of those it kept.
Tells(parsed, text, candidates, kept) ==
  /\ {a.line : a \in parsed.articles} = kept
  /\ parsed.duplicates = {} <=> \A i, j \in kept : text[i].id = text[j].id => i = j
  /\ LET numbers == {Number(text[i]) : i \in kept}
     IN  parsed.missing = (1..Max(numbers \cup {0})) \ numbers
  /\ parsed.rejected = BodyHeadings(text, TRUE) \cup (candidates \ kept)

\* The report on a text tells this of its headings (ParseIntegrityReport).
LEMMA ReportSays ==
  ASSUME NEW text \in Seq(TextLine), NEW candidates, NEW kept,
         candidates = BodyHeadings(text, FALSE),
         kept = Guard(Preprocess(text), candidates)
  PROVE  /\ kept \subseteq candidates /\ candidates \subseteq Lines(text, "heading")
         /\ Tells(ParseWithIntegrity(text), text, candidates, kept)
<1>. DEFINE clean == Preprocess(text)
            found == BodyHeadings(clean, FALSE)
            taken == Guard(clean, found)
            Article(i) == [id |-> clean[i].id, line |-> i,
                           paragraphs |-> Paragraphs(clean, i, LastLine(clean, found, i))]
            articles == {Article(i) : i \in taken}
            given == {a.id[1] : a \in articles}
            numbers == {Number(text[i]) : i \in kept}
            parsed == ParseWithIntegrity(text)
<1>1. /\ parsed.articles = articles
      /\ parsed.duplicates = {a.id : a \in {a \in articles :
                                \E b \in articles : b.line # a.line /\ b.id = a.id}}
      /\ parsed.missing = (1..Max(given \cup {0})) \ given
      /\ parsed.rejected = BodyHeadings(clean, TRUE) \cup (found \ taken)
  BY DEF ParseWithIntegrity
<1>. HIDE DEF parsed
<1>2. found = candidates /\ taken = kept /\ BodyHeadings(clean, TRUE) = BodyHeadings(text, TRUE)
  BY SameBody
<1>3. kept \subseteq candidates /\ candidates \subseteq Lines(text, "heading")
  BY GuardKeepsSome DEF BodyHeadings
<1>4. \A i \in kept : clean[i] = text[i]
  BY <1>3, PreprocessKeeps
<1>5. \A i \in kept : Article(i).line = i /\ Article(i).id = text[i].id
  <2>. HIDE DEF found, taken
  <2>. QED BY <1>4
<1>. HIDE DEF Article, found, taken
<1>6. \A i \in kept : Article(i) \in articles
  BY <1>2
<1>7. \A a \in articles : \E i \in kept : a = Article(i)
  BY <1>2
<1>8. given = {a.id[1] : a \in articles}
  OBVIOUS
<1>. HIDE DEF articles, given
<1>. HIDE DEF numbers
<1>9. ASSUME NEW a \in articles
      PROVE  a.line \in kept /\ a.id = text[a.line].id
  <2>1. PICK i \in kept : a = Article(i)
    BY <1>7
  <2>. QED BY <1>5, <2>1, Zenon
<1>10. {a.line : a \in articles} = kept /\ given = numbers
  <2>1. \A a \in articles : a.line \in kept
    BY <1>9
  <2>2. \A i \in kept : \E a \in articles : a.line = i /\ a.id = text[i].id
    BY <1>5, <1>6
  <2>3. given = numbers
    <3>1. \A a \in articles : a.line \in kept /\ a.id[1] = Number(text[a.line])
      BY <1>9 DEF Number
    <3>2. \A i \in kept : \E a \in articles : a.id[1] = Number(text[i])
      BY <2>2 DEF Number
    <3>3. \A n \in given : n \in numbers
      BY <1>8, <3>1 DEF numbers
    <3>4. \A n \in numbers : n \in given
      BY <1>8, <3>2 DEF numbers
    <3>. QED BY <3>3, <3>4
  <2>. QED BY <2>1, <2>2, <2>3
<1>11. parsed.duplicates = {} <=> \A i, j \in kept : text[i].id = text[j].id => i = j
  <2>1. ASSUME parsed.duplicates = {}, NEW i \in kept, NEW j \in kept,
               text[i].id = text[j].id, i # j
        PROVE  FALSE
    <3>1. /\ Article(i) \in articles /\ Article(j) \in articles
          /\ Article(j).line # Article(i).line /\ Article(j).id = Article(i).id
      BY <1>5, <1>6, <2>1
    <3>. QED BY <1>1, <2>1, <3>1
  <2>2. ASSUME \A i, j \in kept : text[i].id = text[j].id => i = j,
               NEW a \in articles, NEW b \in articles, b.line # a.line, b.id = a.id
        PROVE  FALSE
    <3>1. a.line \in kept /\ b.line \in kept /\ text[b.line].id = text[a.line].id
      BY <1>9, <2>2
    <3>. QED BY <2>2, <3>1
  <2>3. ASSUME \A i, j \in kept : text[i].id = text[j].id => i = j
        PROVE  parsed.duplicates = {}
    BY <1>1, <2>2, <2>3
  <2>. QED BY <2>1, <2>3
<1>. QED BY <1>1, <1>2, <1>3, <1>10, <1>11 DEF numbers, parsed, Tells

-----------------------------------------------------------------------------

\* The headings from the body's first on are those of the body.
LEMMA BodyComesLast ==
  ASSUME NEW text \in Seq(TextLine), Drafted(text)
  PROVE  \E first \in EnactedAt(text) :
           /\ Number(text[first]) = 1
           /\ \A i \in Lines(text, "heading") : text[i].part = Body <=> first <= i
<1>1. PICK first \in EnactedAt(text) :
        Number(text[first]) = 1 /\ \A j \in HeadingsIn(text, Body) : first <= j
  BY DEF Drafted
<1>2. first \in Lines(text, "heading") /\ text[first].part = Body
  BY DEF EnactedAt, HeadingsIn
<1>3. ASSUME NEW i \in Lines(text, "heading"), text[i].part = Body
      PROVE  first <= i
  BY <1>1, <1>3 DEF HeadingsIn
<1>4. ASSUME NEW i \in Lines(text, "heading"), first <= i
      PROVE  text[i].part = Body
  <2>1. first \in 1..Len(text) /\ i \in 1..Len(text) /\ Len(text) \in Nat
    BY <1>2, TextTypes
  <2>2. first < i => text[first].part <= text[i].part
    BY <2>1 DEF Drafted
  <2>3. text[i].part \in {1, 2, 3}
    BY <2>1, TextTypes
  <2>. QED BY <1>2, <1>4, <2>1, <2>2, <2>3 DEF Body
<1>. QED BY <1>1, <1>3, <1>4

\* A body whose headings rise is read from its first article on.
LEMMA BodyIsBehind ==
  ASSUME NEW text \in Seq(TextLine), Drafted(text), Rising(text, HeadingsIn(text, Body))
  PROVE  \A i \in HeadingsIn(text, Body) : BodyStart(text) <= i
<1>. DEFINE start == BodyStart(text)
            H == Lines(text, "heading")
<1>1. PICK first \in EnactedAt(text) :
        Number(text[first]) = 1 /\ \A i \in H : text[i].part = Body <=> first <= i
  BY BodyComesLast
<1>2. first \in H
  BY DEF EnactedAt, HeadingsIn
<1>3. H \subseteq 1..Len(text) /\ Len(text) \in Nat /\ \A i \in H : Number(text[i]) \in Nat
  BY TextTypes
<1>4. start <= first
  <2>. SUFFICES ASSUME ~(start <= first) PROVE FALSE
    OBVIOUS
  <2>1. PICK m \in Lines(text, "marker") :
          start \in Descents(text, m) /\ \A i \in Descents(text, m) : start <= i
    BY <1>2, <1>3, StartIsDescent
  <2>2. start \in H
    BY <2>1 DEF Descents
  <2>3. PICK j \in H : m < j /\ j < start /\ Number(text[j]) > Number(text[start])
    BY <2>1 DEF Descents
  <2>4. first < start /\ text[start].part = Body
    BY <1>1, <1>2, <1>3, <2>2
  <2>5. CASE first <= j
    <3>1. j \in HeadingsIn(text, Body) /\ start \in HeadingsIn(text, Body)
      BY <1>1, <2>2, <2>4, <2>5 DEF HeadingsIn
    <3>2. Number(text[j]) <= Number(text[start])
      BY <2>3, <3>1 DEF Rising
    <3>. QED BY <1>3, <2>2, <2>3, <3>2
  <2>6. CASE ~(first <= j)
    <3>1. Number(text[start]) > 0
      BY <2>2 DEF Drafted
    <3>2. j < first /\ Number(text[j]) > Number(text[first])
      BY <1>1, <1>2, <1>3, <2>2, <2>3, <2>6, <3>1
    <3>3. first \in Descents(text, m)
      BY <1>2, <2>3, <3>2 DEF Descents
    <3>. QED BY <2>1, <3>3
  <2>. QED BY <2>5, <2>6
<1>5. start \in Nat
  BY <1>3, StartIsDescent DEF Descents
<1>. QED BY <1>1, <1>2, <1>3, <1>4, <1>5 DEF HeadingsIn

\* A clean report on it has an article for each of its headings, and for no other:
\* a heading of the front matter would repeat one of them.
LEMMA CleanIsEnacted ==
  ASSUME NEW text \in Seq(TextLine), Drafted(text), Rising(text, HeadingsIn(text, Body)),
         NEW parsed, parsed = ParseWithIntegrity(text), IsClean(parsed)
  PROVE  /\ {a.line : a \in parsed.articles} = EnactedAt(text)
         /\ BodyHeadings(text, FALSE) = EnactedAt(text)
<1>. DEFINE candidates == BodyHeadings(text, FALSE)
            kept == Guard(Preprocess(text), candidates)
<1>. HIDE DEF candidates, kept
<1>1. /\ kept \subseteq candidates /\ candidates \subseteq Lines(text, "heading")
      /\ Tells(parsed, text, candidates, kept)
  BY ReportSays DEF candidates, kept
<1>2. kept = candidates /\ \A i, j \in candidates : text[i].id = text[j].id => i = j
  BY <1>1 DEF IsClean, Tells
<1>3. EnactedAt(text) \subseteq candidates
  <2>1. \A i \in EnactedAt(text) : i \in HeadingsIn(text, Body) /\ ~text[i].ref
    BY DEF EnactedAt
  <2>2. ASSUME NEW i \in EnactedAt(text) PROVE i \in Lines(text, "heading") /\ text[i].ref = FALSE
    <3>1. text[i].ref \in BOOLEAN
      BY <2>1, TextTypes DEF HeadingsIn
    <3>. QED BY <2>1, <3>1 DEF HeadingsIn
  <2>. QED BY <2>1, <2>2, BodyIsBehind DEF BodyHeadings, candidates
<1>4. ASSUME NEW i \in candidates PROVE i \in EnactedAt(text)
  <2>1. i \in Lines(text, "heading") /\ ~text[i].ref
    BY DEF BodyHeadings, candidates
  <2>2. PICK j \in EnactedAt(text) : text[j].id = text[i].id
    BY <2>1 DEF Drafted
  <2>. QED BY <1>2, <1>3, <2>2
<1>5. {a.line : a \in parsed.articles} = kept
  BY <1>1 DEF Tells
<1>. QED BY <1>2, <1>3, <1>4, <1>5 DEF candidates

\* In a bill without citations every heading of the body begins an article, so
\* the body rises.
LEMMA TitledRises ==
  ASSUME NEW text \in Seq(TextLine), Drafted(text), Titled(text)
  PROVE  /\ HeadingsIn(text, Body) = EnactedAt(text)
         /\ Rising(text, HeadingsIn(text, Body))
         /\ BodyHeadings(text, TRUE) = {}
         /\ BodyHeadings(text, FALSE) = {i \in Lines(text, "heading") : BodyStart(text) <= i}
<1>1. \A i \in Lines(text, "heading") : text[i].ref = FALSE
  BY TextTypes DEF Titled
<1>2. HeadingsIn(text, Body) = EnactedAt(text)
  BY <1>1 DEF EnactedAt, HeadingsIn
<1>3. Lines(text, "heading") \in SUBSET Nat /\ BodyStart(text) \in Nat
  <2>1. Lines(text, "heading") \in SUBSET Nat
    BY TextTypes
  <2>. QED BY <2>1, StartIsDescent DEF Descents
<1>. QED BY <1>1, <1>2, <1>3 DEF Drafted, BodyHeadings

\* A number above 1 in the last part before the body tells the two apart: the
\* body's own Article 1 is then the first descent after that part's title.
LEMMA BodyIsFound ==
  ASSUME NEW text \in Seq(TextLine), Drafted(text), Titled(text),
         NEW before \in {Contents, Rationale},
         \E i \in HeadingsIn(text, before) : Number(text[i]) > 1,
         \A i \in Lines(text, "heading") : text[i].part <= before \/ text[i].part = Body
  PROVE  \A i \in Lines(text, "heading") : BodyStart(text) <= i <=> text[i].part = Body
<1>. DEFINE start == BodyStart(text)
            H == Lines(text, "heading")
<1>1. PICK first \in EnactedAt(text) :
        Number(text[first]) = 1 /\ \A i \in H : text[i].part = Body <=> first <= i
  BY BodyComesLast
<1>2. first \in HeadingsIn(text, Body) /\ first \in H
  BY DEF EnactedAt, HeadingsIn
<1>3. /\ H \subseteq 1..Len(text) /\ Lines(text, "marker") \subseteq 1..Len(text)
      /\ Len(text) \in Nat /\ \A i \in H : Number(text[i]) \in Nat
      /\ \A i \in 1..Len(text) : text[i].part \in {1, 2, 3}
  BY TextTypes
<1>4. start <= first
  BY <1>2, TitledRises, BodyIsBehind
<1>5. PICK i0 \in HeadingsIn(text, before) : Number(text[i0]) > 1
  OBVIOUS
<1>6. PICK title \in Lines(text, "marker") :
        text[title].part = before /\ \A i \in HeadingsIn(text, before) : title < i
  BY <1>5 DEF Titled
<1>7. first \in Descents(text, title)
  <2>1. i0 \in H /\ title < i0 /\ text[i0].part = before
    BY <1>5, <1>6 DEF HeadingsIn
  <2>2. i0 < first
    BY <1>1, <1>2, <1>3, <2>1 DEF Contents, Rationale, Body
  <2>. QED BY <1>1, <1>2, <1>5, <2>1, <2>2 DEF Descents
<1>8. PICK m \in Lines(text, "marker") :
        title <= m /\ start \in Descents(text, m)
  BY <1>7, StartIsDescent
<1>9. ~(start < first)
  <2>. SUFFICES ASSUME start < first PROVE FALSE
    OBVIOUS
  <2>1. start \in H
    BY <1>8 DEF Descents
  <2>2. PICK j \in H : m < j /\ j < start /\ Number(text[j]) > Number(text[start])
    BY <1>8 DEF Descents
  <2>3. /\ title < j /\ title < start /\ j < first
        /\ title \in DOMAIN text /\ j \in DOMAIN text /\ start \in DOMAIN text
    BY <1>2, <1>3, <1>8, <2>1, <2>2
  <2>4. before <= text[j].part /\ before <= text[start].part
    BY <1>6, <2>3 DEF Drafted
  <2>5. text[j].part # Body /\ text[start].part # Body
    BY <1>1, <1>2, <1>3, <2>1, <2>2, <2>3
  <2>6. text[j].part = before /\ text[start].part = before
    BY <1>3, <2>1, <2>2, <2>4, <2>5 DEF Contents, Rationale, Body
  <2>7. Number(text[j]) <= Number(text[start])
    BY <2>1, <2>2, <2>6 DEF Titled, Rising, HeadingsIn
  <2>. QED BY <1>3, <2>1, <2>2, <2>7
<1>10. start = first
  <2>1. start \in H
    BY <1>8 DEF Descents
  <2>. QED BY <1>2, <1>3, <1>4, <1>9, <2>1
<1>. QED BY <1>1, <1>10

\* So what can be told apart is read as it was enacted.
LEMMA SeparableIsFound ==
  ASSUME NEW text \in Seq(TextLine), Drafted(text), Titled(text), Separable(text)
  PROVE  BodyHeadings(text, FALSE) = EnactedAt(text)
<1>. DEFINE H == Lines(text, "heading")
<1>1. \A i \in H : text[i].part \in {Contents, Rationale, Body}
  BY TextTypes DEF Contents, Rationale, Body
<1>2. \A i \in H : BodyStart(text) <= i <=> text[i].part = Body
  <2>1. CASE \E i \in HeadingsIn(text, Rationale) : Number(text[i]) > 1
    <3>1. \A i \in H : text[i].part <= Rationale \/ text[i].part = Body
      BY <1>1 DEF Contents, Rationale, Body
    <3>. QED BY <2>1, <3>1, BodyIsFound
  <2>2. CASE /\ HeadingsIn(text, Rationale) = {}
             /\ \E i \in HeadingsIn(text, Contents) : Number(text[i]) > 1
    <3>1. \A i \in H : text[i].part <= Contents \/ text[i].part = Body
      BY <1>1, <2>2 DEF Contents, Rationale, Body, HeadingsIn
    <3>. QED BY <2>2, <3>1, BodyIsFound
  <2>3. CASE HeadingsIn(text, Rationale) = {} /\ HeadingsIn(text, Contents) = {}
    <3>1. \A i \in H : text[i].part = Body
      BY <1>1, <2>3 DEF HeadingsIn
    <3>2. \A i \in H : i \in HeadingsIn(text, Body)
      BY <3>1 DEF HeadingsIn
    <3>. QED BY <3>1, <3>2, TitledRises, BodyIsBehind
  <2>. QED BY <2>1, <2>2, <2>3 DEF Separable
<1>. QED BY <1>2, TitledRises DEF HeadingsIn

\* When the report is clean no heading of the front matter is read as the body's,
\* so that one before it must have told them apart.
LEMMA CleanIsSeparable ==
  ASSUME NEW text \in Seq(TextLine), Drafted(text), Titled(text),
         BodyHeadings(text, FALSE) = EnactedAt(text)
  PROVE  Separable(text)
<1>. DEFINE start == BodyStart(text)
            H == Lines(text, "heading")
<1>. SUFFICES ASSUME ~Separable(text) PROVE FALSE
  OBVIOUS
<1>1. PICK first \in EnactedAt(text) :
        Number(text[first]) = 1 /\ \A i \in H : text[i].part = Body <=> first <= i
  BY BodyComesLast
<1>2. first \in H /\ first \in HeadingsIn(text, Body)
  BY DEF EnactedAt, HeadingsIn
<1>3. /\ H \subseteq 1..Len(text) /\ Len(text) \in Nat
      /\ \A i \in H : Number(text[i]) \in Nat /\ Number(text[i]) > 0
      /\ \A i \in H : text[i].part \in {Contents, Rationale, Body}
  BY TextTypes DEF Drafted, Contents, Rationale, Body
<1>4. start <= first
  BY <1>2, TitledRises, BodyIsBehind
<1>5. PICK f \in H :
        /\ text[f].part # Body /\ Number(text[f]) = 1
        /\ \A j \in H : j < first /\ Number(text[j]) > 1 => j < f
  <2>1. CASE HeadingsIn(text, Rationale) # {}
    <3>1. PICK f \in HeadingsIn(text, Rationale) : TRUE
      BY <2>1
    <3>2. f \in H /\ text[f].part = Rationale
      BY DEF HeadingsIn
    <3>3. \A i \in HeadingsIn(text, Rationale) : ~(Number(text[i]) > 1)
      BY DEF Separable
    <3>4. Number(text[f]) = 1
      BY <1>3, <3>2, <3>3
    <3>5. ASSUME NEW j \in H, j < first, Number(text[j]) > 1 PROVE j < f
      <4>1. text[j].part # Body /\ text[j].part # Rationale
        <5>1. text[j].part # Body
          BY <1>1, <1>2, <1>3, <3>5
        <5>2. j \notin HeadingsIn(text, Rationale)
          BY <3>3, <3>5
        <5>. QED BY <5>1, <5>2 DEF HeadingsIn
      <4>2. text[j].part = Contents
        BY <1>3, <4>1
      <4>3. ~(f <= j)
        <5>1. f < j => text[f].part <= text[j].part
          BY <1>3, <3>2 DEF Drafted
        <5>. QED BY <1>3, <3>2, <4>2, <5>1 DEF Contents, Rationale
      <4>. QED BY <1>3, <3>2, <4>3
    <3>. QED BY <3>2, <3>4, <3>5 DEF Rationale, Body
  <2>2. CASE HeadingsIn(text, Rationale) = {}
    <3>1. /\ HeadingsIn(text, Contents) # {}
          /\ \A i \in HeadingsIn(text, Contents) : ~(Number(text[i]) > 1)
      BY <2>2 DEF Separable
    <3>2. PICK f \in HeadingsIn(text, Contents) : TRUE
      BY <3>1
    <3>3. f \in H /\ text[f].part = Contents /\ Number(text[f]) = 1
      BY <1>3, <3>1 DEF HeadingsIn
    <3>4. ASSUME NEW j \in H, j < first, Number(text[j]) > 1 PROVE FALSE
      <4>1. text[j].part # Body
        BY <1>1, <1>2, <1>3, <3>4
      <4>2. text[j].part = Contents
        BY <1>3, <2>2, <4>1 DEF HeadingsIn
      <4>. QED BY <3>1, <3>4, <4>2 DEF HeadingsIn
    <3>. QED BY <3>3, <3>4 DEF Contents, Body
  <2>. QED BY <2>1, <2>2
<1>6. f < first
  BY <1>1, <1>2, <1>3, <1>5
<1>7. ~(start <= f)
  <2>. SUFFICES ASSUME start <= f PROVE FALSE
    OBVIOUS
  <2>1. f \in BodyHeadings(text, FALSE)
    BY TitledRises
  <2>. QED BY <1>5, <2>1 DEF EnactedAt, HeadingsIn
<1>8. PICK m \in Lines(text, "marker") :
        start \in Descents(text, m) /\ \A i \in Descents(text, m) : start <= i
  BY <1>3, <1>7, StartIsDescent
<1>9. start \in H
  BY <1>8 DEF Descents
<1>10. PICK j \in H : m < j /\ j < start /\ Number(text[j]) > Number(text[start])
  BY <1>8 DEF Descents
<1>11. j < first /\ Number(text[j]) > 1
  BY <1>2, <1>3, <1>4, <1>9, <1>10
<1>12. f \in Descents(text, m)
  BY <1>5, <1>10, <1>11 DEF Descents
<1>. QED BY <1>7, <1>8, <1>12

\* The articles of a body as it was enacted: the next number is at most one more.
LEMMA NumbersGoOn ==
  ASSUME NEW text \in Seq(TextLine), Drafted(text),
         NEW i \in EnactedAt(text), NEW k \in EnactedAt(text), k < i,
         \A j \in EnactedAt(text) : j < i => j <= k
  PROVE  /\ Number(text[k]) \in Nat /\ Number(text[i]) \in Nat
         /\ Number(text[k]) <= Number(text[i]) /\ Number(text[i]) <= Number(text[k]) + 1
<1>1. EnactedAt(text) \subseteq Lines(text, "heading")
  BY DEF EnactedAt, HeadingsIn
<1>2. /\ EnactedAt(text) \subseteq 1..Len(text) /\ Len(text) \in Nat
      /\ \A j \in EnactedAt(text) : Number(text[j]) \in Nat /\ Number(text[j]) > 0
  BY <1>1, TextTypes DEF Drafted
<1>3. \A a, b \in EnactedAt(text) : a < b => Number(text[a]) <= Number(text[b])
  BY DEF Drafted, Rising
<1>4. Number(text[i]) <= Number(text[k]) + 1
  <2>1. CASE Number(text[i]) > 1
    <3>1. PICK j \in EnactedAt(text) : j < i /\ Number(text[j]) = Number(text[i]) - 1
      BY <2>1 DEF Drafted
    <3>2. j <= k
      BY <3>1
    <3>3. Number(text[j]) <= Number(text[k])
      BY <1>2, <1>3, <3>2
    <3>. QED BY <1>2, <3>1, <3>3
  <2>. QED BY <1>2, <2>1
<1>. QED BY <1>2, <1>3, <1>4

\* The monotonic guard rejects none of them.
LEMMA GuardKeepsEnacted ==
  ASSUME NEW text \in Seq(TextLine), Drafted(text)
  PROVE  Guard(Preprocess(text), EnactedAt(text)) = EnactedAt(text)
<1>. DEFINE clean == Preprocess(text)
            E == EnactedAt(text)
            N == Max(E \cup {0})
            Upto(i) == {k \in E : k <= i}
            Latest(i) == IF Upto(i) = {} THEN 0 ELSE Number(text[Max(Upto(i))])
            Follow(i) == [before \in Nat |->
              IF i \in E /\ ~Leap(before, Number(clean[i])) THEN Number(clean[i]) ELSE before]
            Walks(f) == f = [i \in 0..N |-> IF i = 0 THEN 0 ELSE Follow(i)[f[i - 1]]]
            last == CHOOSE f : Walks(f)
<1>1. E \subseteq Lines(text, "heading")
  BY DEF EnactedAt, HeadingsIn
<1>2. /\ E \subseteq 1..Len(text) /\ Len(text) \in Nat
      /\ \A i \in E : Number(text[i]) \in Nat /\ Number(clean[i]) = Number(text[i])
  BY <1>1, TextTypes, PreprocessKeeps
<1>3. Guard(clean, E) = {i \in E : ~Leap(last[i - 1], Number(clean[i]))}
  BY DEF Guard
<1>. HIDE DEF E, clean
<1>. DEFINE L == Len(text)
<1>0. L \in Nat /\ \A i \in E : i \in Nat /\ 1 <= i /\ i <= L
  <2>1. L \in Nat /\ \A i \in E : i \in 1..L
    BY <1>2
  <2>. HIDE DEF L
  <2>. QED BY <2>1
<1>. HIDE DEF L
<1>4. N \in Nat /\ \A i \in E : i \in 1..N
  <2>1. E \cup {0} \in SUBSET (0..L) /\ E \cup {0} # {}
    BY <1>0
  <2>2. N \in E \cup {0} /\ \A i \in E \cup {0} : i <= N
    BY <1>0, <2>1, LastOne
  <2>. HIDE DEF N
  <2>3. N \in Nat
    BY <1>0, <2>2
  <2>. QED BY <1>0, <2>2, <2>3
<1>. HIDE DEF N
<1>5. ASSUME NEW i \in Nat, Upto(i) # {}
      PROVE  Max(Upto(i)) \in Upto(i) /\ \A k \in Upto(i) : k <= Max(Upto(i))
  <2>1. Upto(i) \in SUBSET (0..L)
    BY <1>0
  <2>. HIDE DEF Upto
  <2>. QED BY <1>0, <1>5, <2>1, LastOne
<1>6. \A i \in Nat : Latest(i) \in Nat
  BY <1>2, <1>5
<1>7. ASSUME NEW i \in E
      PROVE  ~Leap(Latest(i - 1), Number(clean[i])) /\ Latest(i) = Number(clean[i])
  <2>1. i \in Nat /\ i - 1 \in Nat
    BY <1>2
  <2>2. Latest(i) = Number(clean[i])
    <3>1. i \in Upto(i)
      BY <2>1
    <3>2. Max(Upto(i)) = i
      <4>1. Max(Upto(i)) \in Upto(i) /\ i <= Max(Upto(i))
        BY <1>5, <2>1, <3>1
      <4>2. Max(Upto(i)) <= i /\ Max(Upto(i)) \in Nat
        BY <1>0, <4>1
      <4>. HIDE DEF Upto
      <4>. QED BY <2>1, <4>1, <4>2
    <3>. QED BY <1>2, <3>1, <3>2
  <2>3. CASE Upto(i - 1) = {}
    BY <2>2, <2>3 DEF Leap
  <2>4. CASE Upto(i - 1) # {}
    <3>. DEFINE k == Max(Upto(i - 1))
    <3>1. k \in Upto(i - 1) /\ \A j \in Upto(i - 1) : j <= k
      BY <1>5, <2>1, <2>4
    <3>. HIDE DEF k
    <3>2. k \in E /\ k < i /\ \A j \in E : j < i => j <= k
      <4>1. k \in E /\ k <= i - 1 /\ \A j \in E : j <= i - 1 => j <= k
        BY <3>1
      <4>2. \A j \in E : j \in Nat
        BY <1>0
      <4>. QED BY <2>1, <4>1, <4>2
    <3>3. /\ Number(text[k]) \in Nat /\ Number(text[i]) \in Nat
          /\ Number(text[k]) <= Number(text[i]) /\ Number(text[i]) <= Number(text[k]) + 1
      BY <3>2, NumbersGoOn DEF E
    <3>4. Latest(i - 1) = Number(text[k])
      BY <2>4 DEF k
    <3>. HIDE DEF Latest
    <3>. QED BY <1>2, <2>2, <3>3, <3>4, JumpAssumption DEF Leap
  <2>. QED BY <2>3, <2>4
<1>8. Latest(0) = 0
  <2>1. Upto(0) = {}
    BY <1>0
  <2>. QED BY <2>1
<1>9. ASSUME NEW i \in 1..N PROVE Latest(i) = Follow(i)[Latest(i - 1)]
  <2>1. i - 1 \in Nat
    OBVIOUS
  <2>2. i \notin E => Upto(i) = Upto(i - 1)
    <3>1. ASSUME i \notin E, NEW k \in E PROVE k <= i <=> k <= i - 1
      BY <1>0, <2>1, <3>1
    <3>. QED BY <3>1
  <2>3. i \notin E => Latest(i) = Latest(i - 1)
    BY <2>2
  <2>4. Latest(i - 1) \in Nat
    BY <1>6, <2>1
  <2>. HIDE DEF Latest
  <2>. QED BY <1>7, <2>3, <2>4
<1>. HIDE DEF Latest
<1>10. Walks(last)
  <2>. DEFINE f == [i \in 0..N |-> Latest(i)]
  <2>1. \A i \in 1..N : f[i - 1] = Latest(i - 1)
    BY <1>4
  <2>. HIDE DEF Follow
  <2>2. Walks(f)
    BY <1>4, <1>8, <1>9, <2>1
  <2>. HIDE DEF Walks
  <2>. QED BY <2>2
<1>. HIDE DEF last
<1>11. \A i \in 0..N : last[i] = Latest(i)
  <2>. DEFINE Bad == {i \in 0..N : last[i] # Latest(i)}
  <2>. SUFFICES ASSUME Bad # {} PROVE FALSE
    OBVIOUS
  <2>1. Bad \in SUBSET Nat
    OBVIOUS
  <2>2. PICK i \in Bad : \A k \in Bad : i <= k
    <3>. HIDE DEF Bad
    <3>. QED BY <2>1, LeastNumber
  <2>3. i # 0
    BY <1>4, <1>8, <1>10
  <2>4. i \in 1..N /\ i - 1 \in 0..N
    BY <1>4, <2>3
  <2>5. last[i - 1] = Latest(i - 1)
    <3>1. i - 1 \notin Bad
      <4>. HIDE DEF Bad
      <4>. QED BY <2>2, <2>4
    <3>. QED BY <2>4, <3>1
  <2>. HIDE DEF Follow
  <2>6. last[i] = Follow(i)[last[i - 1]]
    BY <1>10, <2>3
  <2>. QED BY <1>9, <2>4, <2>5, <2>6
<1>12. \A i \in E : last[i - 1] = Latest(i - 1)
  BY <1>4, <1>11
<1>. QED BY <1>3, <1>7, <1>12 DEF E, clean

\* Nor is any of their numbers missing or taken twice.
LEMMA EnactedIsClean ==
  ASSUME NEW text \in Seq(TextLine), Drafted(text),
         BodyHeadings(text, FALSE) = EnactedAt(text), BodyHeadings(text, TRUE) = {}
  PROVE  IsClean(ParseWithIntegrity(text))
<1>. DEFINE E == EnactedAt(text)
            parsed == ParseWithIntegrity(text)
            numbers == {Number(text[i]) : i \in E}
            top == Max(numbers \cup {0})
<1>1. Guard(Preprocess(text), E) = E
  BY GuardKeepsEnacted
<1>2. Tells(parsed, text, E, E)
  BY <1>1, ReportSays
<1>3. parsed.rejected = {} /\ parsed.duplicates = {}
  BY <1>2 DEF Tells, Drafted
<1>4. parsed.missing = (1..top) \ numbers
  BY <1>2 DEF Tells
<1>5. E \subseteq Lines(text, "heading")
  BY DEF EnactedAt, HeadingsIn
<1>6. /\ E \in SUBSET (0..Len(text)) /\ Len(text) \in Nat
      /\ \A i \in E : Number(text[i]) \in Nat /\ Number(text[i]) > 0
  BY <1>5, TextTypes DEF Drafted
<1>7. PICK greatest \in E : \A i \in E : Number(text[i]) <= Number(text[greatest])
  <2>1. E # {}
    BY DEF Drafted
  <2>. HIDE DEF E
  <2>. DEFINE last == Max(E)
  <2>2. last \in E /\ \A i \in E : i <= last
    BY <1>6, <2>1, LastOne
  <2>. HIDE DEF last
  <2>3. \A i \in E : i < last => Number(text[i]) <= Number(text[last])
    BY <2>2 DEF Drafted, Rising, E
  <2>4. ASSUME NEW i \in E PROVE Number(text[i]) <= Number(text[last])
    <3>1. i \in Nat /\ last \in Nat /\ i <= last
      BY <1>6, <2>2
    <3>2. Number(text[last]) \in Nat
      BY <1>6, <2>2
    <3>. QED BY <2>3, <3>1, <3>2
  <2>. QED BY <2>2, <2>4
<1>8. top = Number(text[greatest])
  <2>1. /\ Number(text[greatest]) \in numbers \cup {0}
        /\ \A n \in numbers \cup {0} : n \in Nat /\ n <= Number(text[greatest])
    BY <1>6, <1>7
  <2>. HIDE DEF numbers
  <2>2. \E x \in numbers \cup {0} : \A y \in numbers \cup {0} : x >= y
    BY <2>1
  <2>3. top \in numbers \cup {0} /\ \A y \in numbers \cup {0} : top >= y
    BY <2>2 DEF Max
  <2>. HIDE DEF top
  <2>. QED BY <2>1, <2>3
<1>9. (1..top) \ numbers = {}
  <2>. DEFINE Gaps == (1..top) \ numbers
  <2>. SUFFICES ASSUME Gaps # {} PROVE FALSE
    OBVIOUS
  <2>1. top \in numbers /\ top \in Nat
    BY <1>6, <1>8
  <2>. HIDE DEF top
  <2>2. Gaps \in SUBSET (0..top)
    OBVIOUS
  <2>3. Max(Gaps) \in Gaps /\ \A n \in Gaps : n <= Max(Gaps)
    <3>. HIDE DEF Gaps
    <3>. QED BY <2>1, <2>2, LastOne
  <2>. DEFINE n == Max(Gaps)
  <2>. HIDE DEF n
  <2>4. n \in 1..top /\ n \notin numbers /\ n + 1 \notin Gaps
    <3>1. n \in Gaps /\ \A k \in Gaps : k <= n
      BY <2>3 DEF n
    <3>2. n \in 1..top /\ n \notin numbers
      BY <3>1
    <3>3. ~(n + 1 <= n)
      BY <3>2
    <3>. HIDE DEF Gaps
    <3>. QED BY <3>1, <3>2, <3>3
  <2>5. n # top
    BY <2>1, <2>4
  <2>6. n + 1 \in numbers
    BY <2>1, <2>4, <2>5
  <2>7. PICK i \in E : Number(text[i]) = n + 1
    BY <2>6
  <2>8. PICK j \in E : Number(text[j]) = Number(text[i]) - 1
    <3>1. Number(text[i]) > 1
      BY <2>4, <2>7
    <3>. QED BY <3>1 DEF Drafted
  <2>9. Number(text[j]) = n
    BY <2>4, <2>7, <2>8
  <2>. QED BY <2>4, <2>9
<1>. QED BY <1>3, <1>4, <1>9 DEF IsClean

-----------------------------------------------------------------------------

\* An article is cut into paragraphs without loss or overlap: no line is in two of
\* them, and what is in none is what precedes the first numbered line
\* (extract_paragraphs).
THEOREM ParagraphsCut ==
  ASSUME NEW n \in Nat, NEW text, DOMAIN text \in SUBSET (1..n),
         NEW first \in Nat, NEW last \in Nat,
         NEW body, body = {l \in DOMAIN text : first < l /\ l <= last},
         NEW starts, starts = body \cap Lines(text, "numbered")
  PROVE  /\ \A p, q \in Paragraphs(text, first, last) : p # q => p \cap q = {}
         /\ UNION Paragraphs(text, first, last) =
              {l \in body : starts = {} \/ \E s \in starts : s <= l}
<1>. DEFINE Upto(s) == {l \in body : l >= s /\ ~\E t \in starts : s < t /\ t <= l}
            paragraphs == Paragraphs(text, first, last)
<1>1. paragraphs = IF body = {} THEN {} ELSE IF starts = {} THEN {body}
                   ELSE {Upto(s) : s \in starts}
  BY DEF Paragraphs
<1>2. body \in SUBSET (0..n) /\ starts \in SUBSET body
  OBVIOUS
<1>. HIDE DEF paragraphs
<1>3. CASE starts = {}
  <2>1. \A p \in paragraphs : p = body
    BY <1>1, <1>3
  <2>2. UNION paragraphs = body
    BY <1>1, <1>3
  <2>. QED BY <1>3, <2>1, <2>2 DEF paragraphs
<1>4. CASE starts # {}
  <2>1. paragraphs = {Upto(s) : s \in starts}
    BY <1>1, <1>2, <1>4
  <2>2. ASSUME NEW s \in starts, NEW t \in starts, NEW l \in Upto(s) \cap Upto(t)
        PROVE  s = t
    <3>1. s \in 0..n /\ t \in 0..n /\ l \in 0..n
      BY <1>2
    <3>2. ~(s < t /\ t <= l) /\ ~(t < s /\ s <= l) /\ s <= l /\ t <= l
      BY <3>1
    <3>. QED BY <3>1, <3>2
  <2>3. ASSUME NEW p \in paragraphs, NEW q \in paragraphs, p # q
        PROVE  p \cap q = {}
    <3>1. PICK s \in starts : p = Upto(s)
      BY <2>1
    <3>2. PICK t \in starts : q = Upto(t)
      BY <2>1
    <3>. HIDE DEF Upto
    <3>. QED BY <2>2, <2>3, <3>1, <3>2
  <2>4. ASSUME NEW l \in body, NEW s \in starts, s <= l
        PROVE  \E t \in starts : l \in Upto(t)
    <3>. DEFINE before == {t \in starts : t <= l}
    <3>1. before \in SUBSET (0..n) /\ before # {}
      BY <1>2, <2>4
    <3>. HIDE DEF before
    <3>2. Max(before) \in before /\ \A t \in before : t <= Max(before)
      BY <3>1, LastOne
    <3>. DEFINE latest == Max(before)
    <3>. HIDE DEF latest
    <3>3. latest \in starts /\ latest <= l /\ \A t \in starts : t <= l => t <= latest
      BY <3>2 DEF before, latest
    <3>4. ~\E t \in starts : latest < t /\ t <= l
      BY <1>2, <3>3
    <3>5. l >= latest
      BY <1>2, <3>3
    <3>6. l \in Upto(latest)
      BY <3>4, <3>5
    <3>. QED BY <3>3, <3>6
  <2>5. \A s \in starts : \A l \in Upto(s) : l \in body /\ s <= l
    BY <1>2
  <2>. HIDE DEF Upto
  <2>6. UNION paragraphs = {l \in body : \E s \in starts : s <= l}
    BY <2>1, <2>4, <2>5
  <2>. QED BY <1>4, <2>3, <2>6 DEF paragraphs
<1>. QED BY <1>3, <1>4
=============================================================================
