------------------------------- MODULE MCPool -------------------------------
(* Small instances of Pool.                                                *)
EXTENDS Pool

CONSTANTS m1, m2, m3,   \* memories
          c1, c2,       \* connections
          ui, p1, p2    \* the browser and two other callers

\* The write transaction of one meets the statement of the other; the reads of
\* one meet the pages of the browser.
MCDoes == [p \in {p1, p2} |-> IF p = p1 THEN {"insert", "invalidate"}
                              ELSE {"delete", "get", "expand"}]
=============================================================================
