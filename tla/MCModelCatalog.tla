--------------------------- MODULE MCModelCatalog ---------------------------
(* One provider with two models, a local file, and a name of the user's.   *)
EXTENDS ModelCatalog

CONSTANTS p1, p2, i1, i2, weights, ollama, local_file, chat, first, second, spare

MCSource == [i \in Id |-> IF i = weights THEN local_file ELSE ollama]

MCAlias == [i \in Id |-> CASE i = i1 -> <<first, spare, chat>>
                           [] i = i2 -> <<second, spare, chat>>
                           [] OTHER -> <<chat>>]
=============================================================================
