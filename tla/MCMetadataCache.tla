-------------------------- MODULE MCMetadataCache --------------------------
(***************************************************************************)
(* Small instances of MetadataCache.                                       *)
(***************************************************************************)
EXTENDS MetadataCache

CONSTANTS w1, w2, w3, a

\* All writers match the filter: nothing tells one from the other.
MCSymmetry == Permutations(Writers)

\* One writer registers later, or never; any of the others may be hidden.
MCInitial == {f \in Metadatas : Cardinality({w \in Writers : f[w] = NoMetadata}) = 1}
=============================================================================
