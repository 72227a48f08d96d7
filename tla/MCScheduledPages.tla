--------------------------- MODULE MCScheduledPages ---------------------------
(* Five emails on pages of two: three pages, the last one short, of which any *)
(* match at first and any leave during the walk.                              *)
EXTENDS ScheduledPages

\* InOrder is the selection from the listing it stands for.
ASSUME InOrderSelects ==
    \A S \in SUBSET Email : InOrder(S) = SelectSeq(Collection, LAMBDA e : e \in S)

MCCollection == <<"e1", "e2", "e3", "e4", "e5">>
===============================================================================
