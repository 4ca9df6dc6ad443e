-------------------------- MODULE MCVerificationChain --------------------------
(* Three findings: near-duplicates that are not transitive, and findings   *)
(* with good and bad quotes and citations whose ranks can cross; both      *)
(* drivers, both rerankers, with and without a model.                      *)
EXTENDS VerificationChain

MCArticle == {"5", "5A", "6"}
MCBare == [a \in MCArticle |-> IF a = "5A" THEN "5" ELSE a]
MCToken == {"x", "y", "z"}
MCAdjustment == {-8, 0}

\* The headings of articles 5 and 5A begin with the same number.
MCDocument == <<"5", "5A", "6">>

F(id, article, issue, quote, falseCitation, boost, severity, score) ==
  [id |-> id, article |-> article, lens |-> "legal", issue |-> issue, quote |-> quote,
   falseCitation |-> falseCitation, boost |-> boost, severity |-> severity, score |-> score]

\* The second is similar to the first and to the third.
Chained ==
  <<F(1, "6", {"x", "y"}, "6", FALSE, 0, 10, 10),
    F(2, "6", {"x", "y", "z"}, "6", FALSE, 0, 10, 16),
    F(3, "6", {"y", "z"}, NoArticle, TRUE, 1, 16, 12)>>

\* Nothing in common but the words of their issues.
Apart ==
  <<F(1, "5", {"x"}, NoArticle, FALSE, 1, 10, 12),
    F(2, "5A", {"x", "y"}, Invented, FALSE, 0, 10, 12),
    F(3, "6", {"z"}, "6", TRUE, 0, 6, 16)>>

\* One finding quotes its article, one makes up its quote.
TrueAndFalse ==
  <<F(1, "5", {"x"}, "5", FALSE, 0, 10, 12), F(2, "6", {}, Invented, FALSE, 0, 10, 12)>>

C(board, llm, model, faulty, slots, raw) ==
  [board |-> board, llm |-> llm, model |-> model, faulty |-> faulty, slots |-> slots,
   threshold |-> 60, raw |-> raw]

MCCases ==
  {C(TRUE, TRUE, FALSE, TRUE, 2, Chained),
   C(FALSE, TRUE, TRUE, FALSE, 1, Chained),
   C(FALSE, FALSE, FALSE, FALSE, 1, Chained),
   C(FALSE, TRUE, FALSE, FALSE, 2, Apart),
   C(TRUE, TRUE, TRUE, TRUE, 1, Apart),
   C(TRUE, FALSE, FALSE, TRUE, 1, Apart),
   C(TRUE, TRUE, FALSE, FALSE, 1, TrueAndFalse),
   C(TRUE, TRUE, FALSE, FALSE, 1, <<>>),
   C(FALSE, TRUE, FALSE, FALSE, 1, <<>>)}

QuotesOnly == {C(TRUE, TRUE, FALSE, FALSE, 2, TrueAndFalse)}
================================================================================
