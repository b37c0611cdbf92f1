# TLA+ models of the qdrant_qwen embedding system

This directory holds TLA+ models of the Python code in `src/`. TLC checks them on small instances. TLAPS proves the main safety properties of the embedding service for every value of its constants.

## 1. The system

| Part | Source | What it does |
|---|---|---|
| Embedding service | `src/embedding_service.py` | A FastAPI process. At startup it probes Ollama and records the dimension of a test embedding. It then serves `/embed`, `/embed_batch` and `/health`. |
| OpenAI-compatible wrapper | `src/openai_compatible_api.py` | `/v1/embeddings`. It calls the service's `/embed` with a 30 s timeout and falls back to a local hash vector. |
| LocalAI MCP bridge | `src/localai_mcp_server.py` | A stdio JSON-RPC loop whose handlers call the embedding service over HTTP. |
| Qdrant MCP bridge | `src/qdrant_mcp_server.py` | A stdio JSON-RPC loop whose handlers call Qdrant's REST API. |
| Health check | `src/healthcheck.py` | A container health script: a GPU check, or the LLM service's `/health` tried three times. |
| Ollama, Qdrant | external | Black-box HTTP services. They are modelled as nondeterministic environments. |

How the parts interact:
- An AI client talks to a bridge over stdin and stdout.
- The LocalAI bridge and the wrapper call the embedding service.
- The embedding service calls Ollama.
- The Qdrant bridge calls Qdrant.
- Vectors made by the service (2560 dimensions by default) are meant to be stored through the Qdrant bridge.

### Inventory per component

**Embedding service.**
- State is held in the module globals: `model_type`, `model_device`, `QWEN3_EMBEDDING_DIM` and `embedding_model`.
- Operations:
  - `startup_event` calls `load_model`. It is the second definition of `load_model` that survives.
  - `get_embeddings`, called through `/embed` (`create_embedding`) and `/embed_batch`.
  - `/health`.
  - `/` only reads state.
- Each handler runs without an await, because it uses blocking `requests`. Each handler is therefore one atomic step of the event loop.
- Hard behaviours:
  - a probe that fails is never retried;
  - a failed Ollama call falls back to a vector of the literal length 2560, whatever the probed dimension;
  - a zero vector is normalised to NaN, and JSON encoding turns that into a 500;
  - a batch is all-or-nothing.

**Qdrant bridge.**
- State: the position of the read loop, the response stream, and the collections in Qdrant.
- Operations:
  - read a line: garbage is skipped, a JSON value that is not an object gets an error with id `None`, an object is dispatched;
  - the six handlers;
  - end of input.
- Hard behaviours:
  - the response order and its two error channels;
  - errors from Qdrant are returned as ordinary results;
  - the metadata default `[]` silently drops every point;
  - the collection size is hard-coded to 384;
  - a write that Qdrant applied but whose reply was lost;
  - point ids are positional.

**LocalAI bridge.** It has the same loop as the Qdrant bridge. Its handlers post to `/embeddings` and get `/models`, which the embedding service does not serve.

**OpenAI wrapper.** It has no state. There are two hazards: its 30 s timeout against the service's 60 s Ollama timeout, and the hash fallback, whose components beyond the 32-character digest are all -1.0.

**Health check.** A three-try loop in which a non-200 answer neither sleeps nor fails. After three such answers it falls through to the GPU check.

## 2. Modules

| Module | Models | State (VARIABLES) and actions |
|---|---|---|
| `EmbeddingService` | `src/embedding_service.py` | See the first table below. |
| `MCEmbeddingService` | | `DefaultDim = 2`, Ollama answers of length 0..3, batches of up to 2. |
| `EmbeddingServiceProofs` | | TLAPS proofs (section 4). |
| `QdrantBridge` | `src/qdrant_mcp_server.py` | See the second table below. |
| `MCQdrantBridge` | | Two collection names, sizes {384, 2560}, up to 2 vectors per insert, 2 input lines. |

`EmbeddingService` state and actions:

| Variable or action | What it models |
|---|---|
| `phase` | Before or after the startup event. |
| `model_type`, `model_device`, `dim` | The corresponding globals. |
| `cuda` | `torch.cuda.is_available()`. |
| `reply` | The last `/embed` or `/embed_batch` reply, together with the Ollama outcomes it came from. |
| `health` | The last `/health` reply. |
| `returned` | A history of the source and length of every delivered vector. |
| `Startup(o)` | The startup event. |
| `Embed(o)` | `/embed`. |
| `EmbedBatch(os)` | `/embed_batch`. |
| `Health` | `/health`. |

`QdrantBridge` state and actions:

| Variable or action | What it models |
|---|---|
| `pc` | Where `main()` is: reading, dispatching, or done. |
| `request` | The request being dispatched. |
| `out` | The response lines. |
| `nread` | The number of lines read. |
| `expect` | A history of the lines that parsed as JSON. |
| `store` | Qdrant's collections. |
| `ReadGarbage`, `ReadNonObject`, `ReadRequest` | Reading one line, by what it parses to. A line that fails to decode (UnicodeDecodeError under a strict locale) or nests too deeply for `json.loads` (RecursionError) really takes the `except Exception` branch and gets an id-None error reply. The model folds that rare path into `ReadGarbage`. |
| `Eof` | End of input. |
| `Dispatch` | `handle_request` with Qdrant's outcome, then the print. |

**Abstractions.**

A vector component is 0, non-zero (1) or NaN. Those are the only distinctions the properties make. Truncation, padding and normalisation are modelled by what they do to length and zero-ness:
- `x / ||x||` keeps zero-ness;
- `0 / 0` gives NaN;
- each deterministic draw is non-zero.

A call to Ollama either fails (every exception of `get_embeddings` collapses into "not ok") or answers with some vector.

A call to Qdrant has three outcomes:
- `down`: it fails before it has any effect;
- `lost`: it is applied, then fails on the way back;
- `answered`.

Qdrant's refusals follow its REST contract:
- creating a collection that exists is refused;
- a batch with a wrong-size vector is refused as a whole;
- a request to a missing collection is refused.

Timestamps and message texts are left out.

The map in `PROJECT.json` names the source lines behind every definition.

## 3. Runs

| Run | Config | Expect | What it shows |
|---|---|---|---|
| `embedding_service` | `MCEmbeddingService.cfg` | pass | `TypeOK`; `RemoteDimensionFixed` (Ollama vectors always have the probed length); `BackendFailureAbsorbed` (once ready, a 500 follows only a call that Ollama answered); `ServedOnlyWhenReady` (no vector, the fallback included, is ever delivered unless the startup probe succeeded). |
| `embedding_dimension` | `..._DimensionInvariant.cfg` | violation | The 2560 fallback differs from a probed dimension other than 2560. |
| `embedding_never_500` | `..._NeverServerError.cfg` | violation | After a failed probe, every `/embed` gets a 500. |
| `embedding_zero_norm` | `..._ZeroNormReturnedUnchanged.cfg` | violation | A zero vector becomes NaN, then a 500. |
| `embedding_health_loaded` | `..._HealthReportsLoaded.cfg` | violation | `/health` says `model_loaded: false` after a successful probe. |
| `qdrant_bridge` | `MCQdrantBridge.cfg` | pass | `TypeOK`; `ResponsesInOrder` (the k-th response answers the k-th JSON line, with its id, on the right channel) |
| `qdrant_failure_surfaced` | `..._FailureSurfaced.cfg` | violation | A refusal from Qdrant comes back without an `error` key. |
| `qdrant_inserted_count` | `..._InsertedCountMatches.cfg` | violation | An insert without metadata reports `inserted_count = len(vectors)` with nothing stored. |

**Bounds.**

For the embedding service:
- `DefaultDim = 2` and answers of length 0..3 reach all the interesting cases: an empty answer, a zero vector, and an answer that is shorter than, equal to or longer than the probed dimension.
- The probed dimension can be 0..3, which makes it differ from the fallback's length in both directions.
- Batches of two reach one good and one failing item in the same batch.

For the Qdrant bridge:
- Two lines are enough for an ordering property over two responses, and for a create followed by an insert.
- Sizes 384 and 2560 are the two sizes the system actually produces.
- Inserts of 0..2 vectors cover both the empty batch and a multi-point batch.

**Deadlock.** The Qdrant run sets `CHECK_DEADLOCK FALSE` because `main()` really stops at end of input.

**Fairness.** None. Both specifications are checked for safety only. The Qdrant bridge's stall (aiohttp's 300 s default timeout, `src/qdrant_mcp_server.py:101`) would need a liveness property. Under weak fairness of `Dispatch`, such a property would hold only because the fairness is asserted on the handler's own step, so none is stated. The hazard is listed with that note.

Each property of a passing run has a mutant in `PROJECT.json`: a plausible bug in the mapped code that TLC catches.

## 4. Proofs (`EmbeddingServiceProofs`)

- **`TypeCorrect`**: `Spec => []TypeOK`. It rests on lemmas for each helper: `Zeros`, `Reconcile` (length exactly the target), `Normalize` (length kept, changes only a zero vector), the deterministic item, `GetEmbeddings`, `Respond`, `Unavailable` and `Deliver`. It also uses the step lemma `TypeStep`.
- **`RemoteDimension`** (`[]RemoteDimensionFixed`) and **`FailureAbsorbed`** (`[]BackendFailureAbsorbed`).
  - Neither property is inductive on its own. The startup probe rewrites `dim`, and that is harmless only because nothing has been delivered or replied during startup.
  - The inductive invariant is `IInv == TypeOK /\ StartupClean /\ RemoteDimensionFixed /\ BackendFailureAbsorbed /\ ServedOnlyWhenReady`, where `StartupClean` says that while starting, `returned = {}` and `reply = NoReply`.
  - `InitIInv` and `NextIInv` prove that it holds initially and is preserved by every step, with one case per action.
  - The argument for `/embed` and `/embed_batch`: `Reconcile` gives every Ollama answer length `dim`, and a NaN (the only source of a 500 once ready) comes only from an answered call.
- **`ServedReady`**: `Spec => []ServedOnlyWhenReady`. It uses the same inductive invariant, which includes `ServedOnlyWhenReady` itself.
  - `StartupClean` covers a failed probe: nothing has been delivered while starting.
  - `/embed` delivers only behind the 503 guard.
  - An unready `/embed_batch` delivers only when the batch is empty, and then adds nothing.
  - No action changes `model_type` once serving.

Assumptions: `DefaultDim \in Nat`, `OllamaVectors \subseteq Seq({0,1})`, `MaxBatch \in Nat` and `NaN \notin {0,1}`.

**Left to TLC only:**
- the Qdrant bridge's safety properties, which have not been proved yet.

## 5. Not modelled, and the plan

Order of the remaining work:
1. **LocalAI bridge.** Its dispatcher loop, composed with `EmbeddingService`'s routes, to show that every generate answer is empty.
2. **OpenAI wrapper.** The timeout race against the service's 60 s call. The hash fallback as an operator checked against a cyclically padded reference over short digests.
3. **Health check.** Its retry loop.
4. **Refinement.** An abstract atomic dispatcher (a request in, its response out), with `QdrantBridge` shown to refine it through `INSTANCE ... WITH`.
5. **Proofs.** `TypeOK` and `ResponsesInOrder` of the Qdrant bridge.

Left out on purpose:
- the dead code `get_fallback_model` and the first `load_model`;
- logging and the response text;
- the HTTP middleware, which only logs;
- the hardware probe in `check_basic_gpu`.
