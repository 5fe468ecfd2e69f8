--------------------------- MODULE MCStoryLoader ---------------------------
(***************************************************************************)
(* Small instances of StoryLoader.                                         *)
(***************************************************************************)
EXTENDS StoryLoader

CONSTANTS a, b
=============================================================================
