--------------------------- MODULE MCWriterClient ---------------------------
(***************************************************************************)
(* Small instances of WriterClient.                                        *)
(***************************************************************************)
EXTENDS WriterClient

CONSTANTS s1, s2, m1

\* The callers append to one story.
OneMint == [s \in Sessions |-> m1]

\* A ratio of 1.5 of a price of 3 is rounded up to 5: what is left of it after
\* one upload does not pay for the next, what is left of two does.
SamePrices == [s \in Sessions |-> 3]
=============================================================================
