--------------------------- MODULE MCSolstoryApi ---------------------------
(***************************************************************************)
(* Small instances of the program with clients that use the API.           *)
(***************************************************************************)
EXTENDS SolstoryApi

CONSTANTS w1, w2, c1, c2, h1, fee, other, m1, m2

MCKeys == {w1, w2, c1, c2, fee, other}
MCHeadKeys == {w1, c1, fee, other}
MCVisibility == {-1, 0}

\* Enough for one head and its fee, and for the registry's account, but not for
\* the rent of a writer's metadata.
HeadFunds == Rent(WRITER_HEAD_LEN) + SOLSTORY_FEE_LAMP
\* Enough for a writer's metadata, and for some of the rest beside it.
RegistryFunds == Rent(WRITER_METADATA_LEN) + Rent(WRITER_HEAD_LEN) + SOLSTORY_FEE_LAMP
=============================================================================
