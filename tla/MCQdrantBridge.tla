--------------------------- MODULE MCQdrantBridge ---------------------------
(* Small instance of the Qdrant bridge: two collection names, the two      *)
(* vector sizes the system meets (the bridge's 384 and the embedding      *)
(* service's 2560), inserts of up to two vectors, two input lines.      *)
EXTENDS QdrantBridge

CONSTANTS default, other

MCNames == {default, other}
MCDims == {384, 2560}
=============================================================================
