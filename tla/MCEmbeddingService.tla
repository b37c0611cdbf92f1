------------------------ MODULE MCEmbeddingService ------------------------
(* Model-checking instance of EmbeddingService: a target dimension of 2   *)
(* stands for 2560, and Ollama may answer with any 0/1 vector of length   *)
(* 0 to 3, so that it can answer shorter, equal, longer, zero and empty.  *)
EXTENDS EmbeddingService

MCOllamaVectors == UNION {[1..n -> {0, 1}] : n \in 0..3}

=============================================================================
