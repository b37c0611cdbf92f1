-------------------------- MODULE EmbeddingService --------------------------
(***************************************************************************)
(* The embedding service of src/embedding_service.py: the FastAPI process  *)
(* that probes Ollama once at startup (the second, surviving definition of *)
(* load_model), then answers /embed, /embed_batch and /health.             *)
(*                                                                         *)
(* Every handler of this process runs without an await (load_model and     *)
(* get_embeddings use the blocking requests library), so each one is one   *)
(* atomic step of the event loop.  Ollama is the environment: each call    *)
(* made to it fails (connection error, timeout, HTTP error, a body without *)
(* "embedding") or answers with some embedding.                            *)
(*                                                                         *)
(* Vectors are abstracted to what the properties tell apart: a component   *)
(* is 0, non-zero (1) or NaN.  Truncation, zero padding and normalisation  *)
(* are modelled by what they do to the length and to the zero-ness of the *)
(* components: x / ||x|| keeps each component zero or non-zero and gives   *)
(* norm 1, while 0 / 0 gives NaN in every component (numpy warns, it does  *)
(* not raise).                                                             *)
(***************************************************************************)
EXTENDS Naturals, Sequences

CONSTANTS
    DefaultDim,    \* the literal 2560: QWEN3_EMBEDDING_DIM's default and the
                   \* dimension of every deterministic fallback vector
    OllamaVectors, \* the embeddings Ollama may answer with
    MaxBatch,      \* the longest /embed_batch request considered
    NaN            \* the value of a component computed as 0 / 0

ASSUME DefaultDimAssumption == DefaultDim \in Nat
ASSUME OllamaVectorsAssumption == OllamaVectors \subseteq Seq({0, 1})
ASSUME MaxBatchAssumption == MaxBatch \in Nat
ASSUME NaNAssumption == NaN \notin {0, 1}

VARIABLES
    phase,        \* "starting" until the startup event has run, then "serving"
    model_type,   \* the global model_type
    model_device, \* the global model_device
    dim,          \* the global QWEN3_EMBEDDING_DIM
    cuda,         \* torch.cuda.is_available(), fixed for the process
    reply,        \* the last /embed or /embed_batch reply, with what Ollama said
    health,       \* the last /health reply (<<>> before the first one)
    returned      \* history: [src, len] of every vector delivered with a 200

vars == <<phase, model_type, model_device, dim, cuda, reply, health, returned>>

-----------------------------------------------------------------------------
(* Outcomes of one call to Ollama.  ok = FALSE stands for every exception  *)
(* the call can raise: RequestException, the missing-field Exception, or a *)
(* TypeError on an unexpected body.                                        *)
Outcome == [ok : {FALSE}, embedding : {<<>>}]
              \cup [ok : {TRUE}, embedding : OllamaVectors]

Component == {0, 1, NaN}

Zeros(n) == [i \in 1..n |-> 0]

IsZero(v) == \A i \in DOMAIN v : v[i] = 0

(* Mutant: the padding one zero short.                                   *)
ReconcilePadShort(v, d) ==
    IF Len(v) > d THEN SubSeq(v, 1, d)
    ELSE IF Len(v) < d THEN v \o Zeros(d - Len(v) - 1)
    ELSE v

(* Lines 213-218: truncate a too long vector, zero-pad a too short one.   *)
Reconcile(v, d) ==
    IF Len(v) > d THEN SubSeq(v, 1, d)
    ELSE IF Len(v) < d THEN v \o Zeros(d - Len(v))
    ELSE v

(* embedding_array / np.linalg.norm(embedding_array): a zero vector (the  *)
(* empty one included) divides 0 by 0 in every component.                 *)
Normalize(v) ==
    IF IsZero(v) THEN [i \in DOMAIN v |-> NaN] ELSE v

(* deterministic_embedding(text, 2560): DefaultDim normal draws, all       *)
(* non-zero (a zero draw has probability 0), divided by their norm.        *)
DeterministicEmbedding ==
    [src |-> "deterministic", pre |-> [i \in 1..DefaultDim |-> 1],
     vec |-> Normalize([i \in 1..DefaultDim |-> 1])]

Item == [src : {"ollama", "deterministic"}, pre : Seq({0, 1}),
         vec : Seq(Component)]

(* The replies of /embed and /embed_batch, with the Ollama outcomes they  *)
(* were computed from.                                                    *)
Reply == [op : {"none", "embed", "batch"}, status : {0, 200, 500},
          items : Seq(Item), backend : Seq(Outcome)]

HealthReply == [model_loaded : BOOLEAN, device : {"cpu", "cuda"}]

NoReply == [op |-> "none", status |-> 0, items |-> <<>>, backend |-> <<>>]

Ready == model_type = "ollama_qwen3"

(* get_embeddings(text) once model_type = "ollama_qwen3": the Ollama call  *)
(* with outcome o, then reconciliation and normalisation, or the           *)
(* deterministic fallback of the two except clauses.                       *)
GetEmbeddings(o) ==
    IF o.ok
    THEN LET pre == Reconcile(o.embedding, dim)
         IN  [src |-> "ollama", pre |-> pre, vec |-> Normalize(pre)]
    ELSE DeterministicEmbedding

(* The HTTP reply for computed items: the JSON encoding of the response   *)
(* model refuses NaN (allow_nan=False), which ends in a 500.              *)
Respond(op, items, backend) ==
    [op |-> op,
     status |-> IF \E i \in DOMAIN items : \E j \in DOMAIN items[i].vec :
                      items[i].vec[j] = NaN
                THEN 500 ELSE 200,
     items |-> items, backend |-> backend]

(* get_embeddings raises HTTPException(503) before any call when the      *)
(* probe did not succeed; create_embedding turns it into a 500.           *)
Unavailable(op) == [op |-> op, status |-> 500, items |-> <<>>, backend |-> <<>>]

Deliver(r) ==
    returned' = IF r.status = 200
                THEN returned \cup {[src |-> r.items[i].src,
                                     len |-> Len(r.items[i].vec)] :
                                    i \in DOMAIN r.items}
                ELSE returned

-----------------------------------------------------------------------------
Init ==
    /\ phase = "starting"
    /\ model_type = "sentence_transformers"
    /\ model_device = "cpu"
    /\ dim = DefaultDim
    /\ cuda \in BOOLEAN
    /\ reply = NoReply
    /\ health = <<>>
    /\ returned = {}

(* Mutant: the probe records one less than the test embedding's length.  *)
StartupOffByOne(o) ==
    /\ phase = "starting"
    /\ phase' = "serving"
    /\ IF o.ok
       THEN /\ model_device' = IF cuda THEN "cuda" ELSE "cpu"
            /\ model_type' = "ollama_qwen3"
            /\ dim' = Len(o.embedding) - 1
       ELSE UNCHANGED <<model_type, model_device, dim>>
    /\ UNCHANGED <<cuda, reply, health, returned>>

(* startup_event -> load_model: GET /api/version, then a test embedding.  *)
(* Success records the dimension of the test embedding; any failure is    *)
(* logged by startup_event and leaves the globals as they are.            *)
Startup(o) ==
    /\ phase = "starting"
    /\ phase' = "serving"
    /\ IF o.ok
       THEN /\ model_device' = IF cuda THEN "cuda" ELSE "cpu"
            /\ model_type' = "ollama_qwen3"
            /\ dim' = Len(o.embedding)
       ELSE UNCHANGED <<model_type, model_device, dim>>
    /\ UNCHANGED <<cuda, reply, health, returned>>

(* Mutant: a failed Ollama call is not caught by get_embeddings, so       *)
(* create_embedding answers 500.                                          *)
EmbedUncaught(o) ==
    /\ phase = "serving"
    /\ LET r == IF Ready /\ o.ok
                THEN Respond("embed", <<GetEmbeddings(o)>>, <<o>>)
                ELSE Unavailable("embed")
       IN  /\ reply' = r
           /\ Deliver(r)
    /\ UNCHANGED <<phase, model_type, model_device, dim, cuda, health>>

(* Mutant: the 503 guard of line 183 dropped, so an unready service      *)
(* reaches the "should not happen" branch of lines 219-222 and serves the *)
(* deterministic fallback.                                                *)
EmbedUnguarded(o) ==
    /\ phase = "serving"
    /\ LET r == Respond("embed",
                        <<IF Ready THEN GetEmbeddings(o) ELSE DeterministicEmbedding>>,
                        <<o>>)
       IN  /\ reply' = r
           /\ Deliver(r)
    /\ UNCHANGED <<phase, model_type, model_device, dim, cuda, health>>

(* POST /embed: create_embedding -> get_embeddings with Ollama outcome o. *)
Embed(o) ==
    /\ phase = "serving"
    /\ LET r == IF Ready THEN Respond("embed", <<GetEmbeddings(o)>>, <<o>>)
                ELSE Unavailable("embed")
       IN  /\ reply' = r
           /\ Deliver(r)
    /\ UNCHANGED <<phase, model_type, model_device, dim, cuda, health>>

(* POST /embed_batch: create_embedding for each request in order; the     *)
(* first HTTPException aborts the whole batch with a 500.                 *)
EmbedBatch(os) ==
    /\ phase = "serving"
    /\ LET r == IF Ready \/ os = <<>>
                THEN Respond("batch", [i \in DOMAIN os |-> GetEmbeddings(os[i])], os)
                ELSE Unavailable("batch")
       IN  /\ reply' = r
           /\ Deliver(r)
    /\ UNCHANGED <<phase, model_type, model_device, dim, cuda, health>>

(* embedding_model is initialised to None and never assigned.             *)
EmbeddingModelLoaded == FALSE

(* GET /health.                                                           *)
Health ==
    /\ phase = "serving"
    /\ health' = <<[model_loaded |-> EmbeddingModelLoaded
                                     \/ model_type = "deterministic",
                    device |-> IF model_type = "sentence_transformers"
                               THEN IF cuda THEN "cuda" ELSE "cpu"
                               ELSE model_device]>>
    /\ UNCHANGED <<phase, model_type, model_device, dim, cuda, reply, returned>>

BatchOutcomes == UNION {[1..n -> Outcome] : n \in 0..MaxBatch}

Next ==
    \/ \E o \in Outcome : Startup(o)
    \/ \E o \in Outcome : Embed(o)
    \/ \E os \in BatchOutcomes : EmbedBatch(os)
    \/ Health

Spec == Init /\ [][Next]_vars

-----------------------------------------------------------------------------
TypeOK ==
    /\ phase \in {"starting", "serving"}
    /\ model_type \in {"sentence_transformers", "ollama_qwen3"}
    /\ model_device \in {"cpu", "cuda"}
    /\ dim \in Nat
    /\ cuda \in BOOLEAN
    /\ reply \in Reply
    /\ health \in {<<>>} \cup {<<h>> : h \in HealthReply}
    /\ returned \subseteq [src : {"ollama", "deterministic"}, len : Nat]

(* Every vector the service ever returned from Ollama has the dimension   *)
(* recorded by the startup probe: reconciliation (lines 213-218) makes    *)
(* answers of any length agree, and nothing rewrites the dimension after  *)
(* startup.                                                               *)
RemoteDimensionFixed ==
    \A r \in returned : r.src = "ollama" => r.len = dim

(* Once the probe has succeeded, a failed Ollama call never becomes a 500 *)
(* for the caller: a 500 only ever follows a call that Ollama answered    *)
(* (the except clauses of get_embeddings absorb every failure).           *)
BackendFailureAbsorbed ==
    (Ready /\ reply.status = 500) =>
        \E i \in DOMAIN reply.backend : reply.backend[i].ok

(* No caller ever receives an embedding, not even the deterministic       *)
(* fallback, from a service whose startup probe failed: get_embeddings'   *)
(* 503 guard (line 183) runs before its fallback branches, the empty      *)
(* /embed_batch that answers 200 while unready carries no vector, and     *)
(* nothing resets model_type once a vector has gone out.                  *)
ServedOnlyWhenReady ==
    returned # {} => Ready

(* Spec 3 and 8: every delivered vector, whatever its source, has the     *)
(* pipeline's target dimension.                                           *)
DimensionInvariant ==
    \A r \in returned : r.len = dim

(* Spec 7: a caller of /embed never sees a 5xx because of the backend.    *)
NeverServerError ==
    reply.status # 500

(* Spec 3 and 4.1: a vector whose norm is zero is returned unchanged.     *)
ZeroNormReturnedUnchanged ==
    \A i \in DOMAIN reply.items :
        IsZero(reply.items[i].pre) =>
            reply.status = 200 /\ reply.items[i].vec = reply.items[i].pre

(* /health reports the model as loaded exactly when the probe succeeded.  *)
HealthReportsLoaded ==
    health # <<>> => health[1].model_loaded = Ready

=============================================================================
