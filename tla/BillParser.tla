----------------------------- MODULE BillParser -----------------------------
(***************************************************************************)
(* The parser of Greek bills (infrastructure/parse): where the enacting    *)
(* body begins after a table of contents and a rationale that repeat its   *)
(* headings, which heading lines become articles, what each article holds, *)
(* and the integrity report the analysis is gated on.                      *)
(*                                                                         *)
(* A text is a sequence of lines; what the regular expressions tell apart  *)
(* of a line is its kind:                                                  *)
(*   "marker"    a line that is nothing but a pre-body title               *)
(*   "heading"   "Άρθρο <num><letter> ...", `ref` when the title is only a *)
(*               reference to another instrument                           *)
(*   "numbered"  "<n>. ...", the start of a paragraph                      *)
(*   "prose"     any other line                                            *)
(*   "tail"      a line a PDF page break cut off the line before it        *)
(* The part of the bill its drafter put a line in (contents, rationale or  *)
(* body, in this order) is there for the properties; no parser sees it.    *)
(***************************************************************************)
EXTENDS Integers, Sequences, FiniteSets, SequencesExt

CONSTANT MaxJump        \* 50 in the code: the largest believable jump

ASSUME JumpAssumption == MaxJump \in Nat \ {0}

Contents == 1
Rationale == 2
Body == 3

TextLine ==
  [kind : {"marker", "heading", "numbered", "prose", "tail"},
   part : {Contents, Rationale, Body}, id : Nat \X STRING, ref : BOOLEAN]

Line(kind, part) == [kind |-> kind, part |-> part, id |-> <<0, "">>, ref |-> FALSE]
Heading(id, part) == [Line("heading", part) EXCEPT !.id = id]
Reference(n, part) == [Heading(<<n, "">>, part) EXCEPT !.ref = TRUE]
Number(line) == line.id[1]

\* preprocess: the lines that are left when those a page break cut off have
\* joined the lines they belong to, each at the place it begins.
Preprocess(text) == [i \in {i \in DOMAIN text : text[i].kind # "tail"} |-> text[i]]

Lines(text, kind) == {i \in DOMAIN text : text[i].kind = kind}

-----------------------------------------------------------------------------
(* toc.py                                                                  *)

\* The headings after a marker whose number falls below one already seen.
Descents(text, marker) ==
  {i \in Lines(text, "heading") :
     \E j \in Lines(text, "heading") :
       marker < j /\ j < i /\ Number(text[j]) > Number(text[i])}

\* Mutant of BodyStart: anchored at the first marker.
BodyStartFirst(text) ==
  LET anchors == {m \in Lines(text, "marker") : Descents(text, m) # {}}
  IN  IF anchors = {} THEN 1 ELSE Min(Descents(text, Min(anchors)))

\* The first descent after the last marker that has one; line 1 otherwise.
BodyStart(text) ==
  LET anchors == {m \in Lines(text, "marker") : Descents(text, m) # {}}
  IN  IF anchors = {} THEN 1 ELSE Min(Descents(text, Max(anchors)))

-----------------------------------------------------------------------------
(* articles.py and structure.py                                            *)

\* The headings of the body: those that are only a cross-reference are
\* rejected, the others are candidates.
BodyHeadings(text, ref) ==
  LET start == BodyStart(text)
  IN  {i \in Lines(text, "heading") : i >= start /\ text[i].ref = ref}

\* One number too far from the last accepted one.
Leap(last, number) == last > 0 /\ (number - last > MaxJump \/ last - number > MaxJump)

\* The monotonic guard walks the candidates: one too far from the last
\* accepted number is rejected and leaves that number alone.
Guard(text, candidates) ==
  LET Follow(i) == [before \in Nat |->
        IF i \in candidates /\ ~Leap(before, Number(text[i])) THEN Number(text[i]) ELSE before]
      last[i \in 0..Max(candidates \cup {0})] ==
        IF i = 0 THEN 0 ELSE Follow(i)[last[i - 1]]
  IN  {i \in candidates : ~Leap(last[i - 1], Number(text[i]))}

\* An article runs to the next candidate, a rejected one included.
LastLine(text, candidates, i) ==
  LET later == {j \in candidates : j > i}
  IN  IF later = {} THEN Max(DOMAIN text) ELSE Min(later) - 1

\* One paragraph per numbered line, with what follows it (what comes before
\* the first is in no paragraph); a body without numbers is one paragraph.
Paragraphs(text, first, last) ==
  LET body == {l \in DOMAIN text : first < l /\ l <= last}
      starts == body \cap Lines(text, "numbered")
      Upto(s) == {l \in body : l >= s /\ ~\E t \in starts : s < t /\ t <= l}
  IN  IF body = {} THEN {} ELSE IF starts = {} THEN {body} ELSE {Upto(s) : s \in starts}

-----------------------------------------------------------------------------
(* __init__.py, integrity.py and domain/models/parse_integrity.py          *)

IsClean(report) ==
  report.duplicates = {} /\ report.missing = {} /\ report.rejected = {}

\* Articles are in the order of their lines.
ParseWithIntegrity(text) ==
  LET clean == Preprocess(text)
      candidates == BodyHeadings(clean, FALSE)
      kept == Guard(clean, candidates)
      articles == {[id |-> clean[i].id, line |-> i,
                    paragraphs |-> Paragraphs(clean, i, LastLine(clean, candidates, i))] :
                     i \in kept}
      numbers == {a.id[1] : a \in articles}
  IN  [articles |-> articles,
       duplicates |-> {a.id : a \in {a \in articles :
                         \E b \in articles : b.line # a.line /\ b.id = a.id}},
       missing |-> (1..Max(numbers \cup {0})) \ numbers,
       titleOnly |-> {a.id : a \in {a \in articles : a.paragraphs = {}}},
       tocEnd |-> BodyStart(clean) - 1,
       rejected |-> BodyHeadings(clean, TRUE) \cup (candidates \ kept)]

-----------------------------------------------------------------------------
(* Bills as their drafters lay them out.                                   *)

HeadingsIn(text, part) == {i \in Lines(text, "heading") : text[i].part = part}

\* The lines on which the articles of the bill begin.
EnactedAt(text) == {i \in HeadingsIn(text, Body) : ~text[i].ref}

\* The numbers of these headings never fall.
Rising(text, headings) ==
  \A i, j \in headings : i < j => Number(text[i]) <= Number(text[j])

\* Front matter that may repeat headings of the body, and a body that begins
\* with its Article 1 and numbers its articles on, inserted ones (1A) among them.
Drafted(text) ==
  /\ \A i, j \in DOMAIN text : i < j => text[i].part <= text[j].part
  /\ \A i \in Lines(text, "heading") : Number(text[i]) > 0
  /\ \A i \in Lines(text, "marker") : text[i].part # Body
  /\ \E i \in EnactedAt(text) :
       Number(text[i]) = 1 /\ \A j \in HeadingsIn(text, Body) : i <= j
  /\ Rising(text, EnactedAt(text))
  /\ \A i, j \in EnactedAt(text) : text[i].id = text[j].id => i = j
  /\ \A i \in EnactedAt(text) :
       Number(text[i]) > 1 =>
         \E j \in EnactedAt(text) : j < i /\ Number(text[j]) = Number(text[i]) - 1
  /\ \A i \in Lines(text, "heading") :
       ~text[i].ref => \E j \in EnactedAt(text) : text[j].id = text[i].id

\* No heading is a citation, the headings of the contents and of the rationale
\* rise, and each of these parts has a title before its headings.
Titled(text) ==
  /\ \A i \in Lines(text, "heading") : ~text[i].ref
  /\ \A part \in {Contents, Rationale} :
       /\ Rising(text, HeadingsIn(text, part))
       /\ HeadingsIn(text, part) # {} =>
            \E m \in Lines(text, "marker") :
              text[m].part = part /\ \A i \in HeadingsIn(text, part) : m < i

\* What tells the body from the front matter: a number above 1 in the part before
\* it, so that its own 1 is a descent, or no number before it at all.
Separable(text) ==
  LET AboveOne(part) == \E i \in HeadingsIn(text, part) : Number(text[i]) > 1
  IN  \/ AboveOne(Rationale)
      \/ HeadingsIn(text, Rationale) = {} /\ (HeadingsIn(text, Contents) = {} \/ AboveOne(Contents))
=============================================================================
