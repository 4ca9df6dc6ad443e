----------------------------- MODULE MCLensFanOut -----------------------------
(* Two articles and two lenses, under configurations in which the one or   *)
(* the other semaphore is short, the cascade is on or off, the router      *)
(* works or not, and sampling is used or not.                              *)
EXTENDS LensFanOut

Of(tier, cascade, flaky, sampling, lensSlots, articleSlots) ==
  [tier |-> tier, cascade |-> cascade, flaky |-> flaky, sampling |-> sampling,
   lensSlots |-> lensSlots, articleSlots |-> articleSlots]

AllSettings ==
  {Of("free", TRUE, FALSE, FALSE, 1, 1),
   Of("premium", TRUE, TRUE, FALSE, 2, 2),
   Of("budget", FALSE, FALSE, TRUE, 2, 2)}
================================================================================
