------------------------- MODULE MCSolstoryProgram -------------------------
(***************************************************************************)
(* Small instances of SolstoryProgram.                                     *)
(***************************************************************************)
EXTENDS SolstoryProgram

CONSTANTS w1, w2, c1, c2, h1, fee, other, m1, m2

\* No step but in its own receipt, and no property of the run lists, depends on how
\* the last transaction ended.
Unreceipted == <<accounts, environment>>

MCKeys == {w1, w2, c1, c2, fee, other}
MCClocks == {3, 4}
\* The whole width of an i64 of four bits.
MCAllTimestamps == -8 .. 7

\* Enough for one head and its fee, and for the registry's account, but not for
\* the rent of a writer's metadata.
HeadFunds == Rent(WRITER_HEAD_LEN) + SOLSTORY_FEE_LAMP
\* Enough for a writer's metadata, and for some of the rest beside it.
RegistryFunds == Rent(WRITER_METADATA_LEN) + Rent(WRITER_HEAD_LEN) + SOLSTORY_FEE_LAMP
=============================================================================
