------------------------- MODULE MCSearchController -------------------------
\* Two texts and the query that tells them apart, two active rows and one retained:
\* a row can be rewritten, retained and evicted while scans of it are in progress.
EXTENDS SearchController, TLC

MCHits(q, text) == q = text
=============================================================================
