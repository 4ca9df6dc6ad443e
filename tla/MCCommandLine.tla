--------------------------- MODULE MCCommandLine ---------------------------
(* Invocations of every command against the worlds that make a difference  *)
(* to it, and a second deliberative process that autostarts its Reasoner.  *)
EXTENDS CommandLine

CONSTANTS r1, r2

(***************************************************************************)
(* Bills to parse: n articles, perhaps an inserted 1Α, a table of contents *)
(* (titled, untitled or none), a rationale (none, plain prose, or a        *)
(* comment on some articles), a line that cites another instrument, and a  *)
(* shape for the articles' content.                                        *)
(***************************************************************************)
Commented(l) == UNION ToSet(l.rationale)

Layouts(n) ==
  {l \in [size : 1..n, inserted : BOOLEAN,
          toc : {"none", "marked", "unmarked"},
          rationale : {<<>>} \cup {<<s>> : s \in SUBSET (1..n)},
          cites : {"nowhere", "rationale", "body"},
          content : {<<>>, <<"tail">>, <<"prose", "tail">>,
                     <<"prose", "numbered", "numbered", "prose">>}] :
     Commented(l) \subseteq 1..l.size}

ArticleIds(l) ==
  <<<<1, "">>>> \o (IF l.inserted THEN <<<<1, "A">>>> ELSE <<>>)
               \o [k \in 1..(l.size - 1) |-> <<k + 1, "">>]

Cited(l, where, part) == IF l.cites = where THEN <<Reference(2, part)>> ELSE <<>>

ContentsText(l) ==
  (IF l.toc = "marked" THEN <<Line("marker", Contents)>> ELSE <<>>)
  \o IF l.toc = "none" THEN <<>>
     ELSE [k \in DOMAIN ArticleIds(l) |-> Heading(ArticleIds(l)[k], Contents)]

RationaleText(l) ==
  LET commented == SetToSortSeq(Commented(l), <)
  IN  IF l.rationale = <<>> THEN <<>>
      ELSE <<Line("marker", Rationale), Line("prose", Rationale)>>
             \o Cited(l, "rationale", Rationale)
             \o FlattenSeq([k \in DOMAIN commented |->
                  <<Heading(<<commented[k], "">>, Rationale), Line("prose", Rationale)>>])

BodyText(l) ==
  FlattenSeq([k \in DOMAIN ArticleIds(l) |->
    <<Heading(ArticleIds(l)[k], Body)>>
    \o [c \in DOMAIN l.content |-> Line(l.content[c], Body)]
    \o (IF k = 1 THEN Cited(l, "body", Body) ELSE <<>>)])

Bill(l) == ContentsText(l) \o RationaleText(l) \o BodyText(l)

\* ParserRecovers is about every one of them.
ASSUME BillsAreDrafted == \A l \in Layouts(3) : Drafted(Bill(l))
-----------------------------------------------------------------------------

Option(enabled, autostart, fallback) ==
  [enabled |-> enabled, autostart |-> autostart, fallback |-> fallback]

\* The other process starts a Reasoner if it must.
MCSettings ==
  {[r \in Runner |-> IF r = r2 THEN Option(TRUE, TRUE, FALSE) ELSE o] :
     o \in {Option(FALSE, TRUE, FALSE), Option(TRUE, TRUE, TRUE), Option(TRUE, FALSE, FALSE)}}
  \cup {[r \in Runner |-> Option(FALSE, FALSE, FALSE)]}

\* Three bills: enacted text alone, one with a heading it only cites, one
\* whose front matter cannot be told from its body.
Plain == [size |-> 2, inserted |-> FALSE, toc |-> "marked", rationale |-> <<>>,
          cites |-> "nowhere", content |-> <<>>]

Simple == [command |-> "parse", json |-> TRUE, settings |-> TRUE, file |-> Readable,
           bill |-> Bill(Plain), degraded |-> FALSE, output |-> "good",
           articles |-> TRUE, checkpoint |-> "none", keyed |-> TRUE, loglevel |-> INFO,
           gold |-> "good", labels |-> <<>>, findings |-> <<>>,
           durable |-> TRUE, run |-> "run1"]

Outputs == {"good", "missing", "blocked", "full"}
Checkpoints == {"none", "text", "document"}
Bills == {Bill(l) : l \in {Plain, [Plain EXCEPT !.cites = "body"], [Plain EXCEPT !.size = 1]}}

\* Every file; every way to analyze a bill, and one whose file is gone; every
\* place for an artifact.
OnDocuments ==
  {[Simple EXCEPT !.command = c, !.json = j, !.file = f] :
     c \in DocumentCommand, j \in BOOLEAN, f \in Files}
  \cup {[Simple EXCEPT !.command = "analyze", !.json = j, !.degraded = d, !.output = o,
                       !.checkpoint = c, !.articles = a, !.file.exists = e, !.bill = b] :
          j, d, a, e \in BOOLEAN, o \in Outputs, c \in Checkpoints, b \in Bills}
  \cup {[Simple EXCEPT !.command = c, !.json = j, !.output = o, !.bill = b] :
          c \in {"parse", "preview"}, j \in BOOLEAN, o \in Outputs, b \in Bills}

OnLayouts == {[Simple EXCEPT !.bill = Bill(l)] : l \in Layouts(3)}

Words == {{1, 2, 3}, {2, 3, 4}}
Labels == [type : {"A", "B"}, article : {1, 2}, words : Words]
Found == [type : {"A", "B"}, article : {0, 1}, words : {{1, 2, 3}, {1, 2, 3, 4}}]

OnGoldSets ==
  {[Simple EXCEPT !.command = "eval", !.labels = ls, !.findings = fs] :
     ls \in Labels \X Labels, fs \in (Found \X Found) \cup {<<>>}}
  \cup {[Simple EXCEPT !.command = "eval", !.gold = g, !.json = j, !.output = o] :
          g \in {"good", "missing", "malformed"}, j \in BOOLEAN, o \in Outputs}

OnRuns ==
  {[Simple EXCEPT !.command = "replay", !.json = j, !.durable = d] : j, d \in BOOLEAN}
  \cup {[Simple EXCEPT !.command = "replay", !.settings = FALSE]}

\* Every other command at every level of the log, with and without an LLM.
Others ==
  {[Simple EXCEPT !.command = c, !.json = j, !.settings = s, !.keyed = k, !.loglevel = l] :
     c \in Commands \ {"deliberative", "replay"}, j, s, k \in BOOLEAN,
     l \in {INFO, WARNING, ERROR, CRITICAL}}
  \cup {[Simple EXCEPT !.command = "deliberative", !.settings = s, !.loglevel = CRITICAL] :
          s \in BOOLEAN}

MCInvocations == OnDocuments \cup OnLayouts \cup OnGoldSets \cup OnRuns \cup Others

\* `leggie --json analyze` of a good bill, at the default level.
PlainAnalysis == {[Simple EXCEPT !.command = "analyze"]}
=============================================================================
