------------------------- MODULE MCKnowledgePipeline -------------------------
(* A small instance of KnowledgePipeline for TLC. *)
EXTENDS KnowledgePipeline, TLC

CONSTANTS a, b, x, y, z

\* Two versions of one document, and another document between them.
MCFeed == <<[name |-> a, content |-> x], [name |-> b, content |-> x],
            [name |-> a, content |-> y]>>

\* A version the feed has too, one it has not, and one with a content that the
\* feed has for another document.
MCUploads == {[name |-> a, content |-> y], [name |-> a, content |-> z],
              [name |-> b, content |-> y]}

Symmetry == Permutations(Sessions) \cup Permutations(Configs)

==============================================================================
