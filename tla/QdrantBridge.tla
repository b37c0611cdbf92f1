---------------------------- MODULE QdrantBridge ----------------------------
(***************************************************************************)
(* The Qdrant MCP bridge of src/qdrant_mcp_server.py: main() reads one     *)
(* JSON-RPC line at a time from stdin, awaits QdrantMCPServer's handler    *)
(* for it, prints one response line, and only then reads the next line.   *)
(* The two awaits of the loop (the readline in an executor and the        *)
(* handler's HTTP call) are its two atomic steps: Read and Dispatch.      *)
(*                                                                         *)
(* Qdrant is the environment.  Its REST contract is modelled by what it   *)
(* does to the collections: PUT of an existing collection is refused, a   *)
(* point batch with a vector of the wrong size is refused as a whole,     *)
(* points are upserted by id.  Every HTTP call either fails before        *)
(* reaching Qdrant ("down"), is applied and then fails on the way back    *)
(* ("lost": a timeout, a reset, a body that is not JSON), or is answered.  *)
(***************************************************************************)
EXTENDS Naturals, Sequences

CONSTANTS
    Names,          \* collection names a client may pass to create
    Default,        \* self.collection_name, 'ai_communication_vectors'
    Dims,           \* vector sizes of the vectors clients send
    CreateSize,     \* the literal 384 of create_collection
    MaxVectors,     \* the most vectors in one insert request
    MaxLines,       \* the most lines the client writes
    None            \* Python's None (and JSON null)

ASSUME NamesAssumption == Default \in Names
ASSUME DimsAssumption == CreateSize \in Dims /\ Dims \subseteq Nat
ASSUME BoundsAssumption == MaxVectors \in Nat /\ MaxLines \in Nat

VARIABLES
    pc,        \* "read": awaiting readline; "dispatch": awaiting the handler;
               \* "done": readline returned '' and the loop broke
    request,   \* the parsed request being dispatched
    out,       \* the response lines printed so far, in order
    nread,     \* lines read so far
    expect,    \* history: [kind, id] of every line that parsed as JSON
    store      \* Qdrant: each name to Absent or [size, points]

vars == <<pc, request, out, nread, expect, store>>

-----------------------------------------------------------------------------
Absent == [size |-> 0, points |-> {}]

Collection == {Absent} \cup [size : Dims, points : SUBSET (1..MaxVectors)]

(* The request lines: methods that read no parameter, and the three that   *)
(* do, with their parameters either a JSON object or null.                *)
NoParamMethods ==
    {"qdrant_health", "qdrant_collections", "qdrant_collections_info",
     "unknown"}

Params ==
    [create : {"qdrant_create_collection"}, name : Names]
      \cup [insert : {"qdrant_insert_vectors"}, nvec : 0..MaxVectors,
            vdim : Dims, meta : {"absent", "given"}]
      \cup [search : {"qdrant_search"}, qdim : Dims]

MethodOf(p) ==
    IF "create" \in DOMAIN p THEN p.create
    ELSE IF "insert" \in DOMAIN p THEN p.insert ELSE p.search

RequestsOf(id) ==
    [id : {id}, method : NoParamMethods, params : {None}]
      \cup {[id |-> id, method |-> MethodOf(p), params |-> p] : p \in Params}
      \cup [id : {id},
            method : {"qdrant_create_collection", "qdrant_insert_vectors",
                      "qdrant_search"},
            params : {None}]

Response == [id : (1..MaxLines) \cup {None}, channel : {"result", "error"},
             method : NoParamMethods \cup {"qdrant_create_collection",
                        "qdrant_insert_vectors", "qdrant_search", "none"},
             err : BOOLEAN, rejected : BOOLEAN, inserted : 0..MaxVectors]

(* Mutant: inserted_count one more than the vectors received.           *)
ResultOffByOne(req, e, rej, n) ==
    [id |-> req.id, channel |-> "result", method |-> req.method,
     err |-> e, rejected |-> rej, inserted |-> n + 1]

(* handle_request's result dict, reduced to whether it has an 'error' key, *)
(* whether Qdrant answered with an error status, and 'inserted_count'.    *)
Result(req, e, rej, n) ==
    [id |-> req.id, channel |-> "result", method |-> req.method,
     err |-> e, rejected |-> rej, inserted |-> n]

-----------------------------------------------------------------------------
(* What Qdrant does with each call, and what it answers.                  *)
CreateEffect(name) ==
    IF store[name] = Absent
    THEN [store EXCEPT ![name] = [size |-> CreateSize, points |-> {}]]
    ELSE store

CreateRefused(name) == store[name] # Absent

(* insert_vectors, lines 88-97: metadata defaults to [] in handle_request, *)
(* never to None, so zip pairs no vector when the client sends none.      *)
PointsSent(p) == IF p.meta = "absent" THEN 0 ELSE p.nvec

InsertRefused(p) ==
    \/ store[Default] = Absent
    \/ PointsSent(p) > 0 /\ p.vdim # store[Default].size

InsertEffect(p) ==
    IF InsertRefused(p) THEN store
    ELSE [store EXCEPT ![Default].points = @ \cup 1..PointsSent(p)]

SearchRefused(p) ==
    store[Default] = Absent \/ p.qdim # store[Default].size

-----------------------------------------------------------------------------
Init ==
    /\ pc = "read"
    /\ request = None
    /\ out = <<>>
    /\ nread = 0
    /\ expect = <<>>
    /\ store \in {s \in [Names -> Collection] :
                     \A n \in Names \ {Default} : s[n] = Absent}

(* main(), lines 156-162 and 173-182: read a line; garbage is skipped, a   *)
(* JSON value that is not an object fails on request.get and is answered  *)
(* with id None on the error channel; an object goes to the handler.      *)
ReadGarbage ==
    /\ pc = "read"
    /\ nread < MaxLines
    /\ nread' = nread + 1
    /\ UNCHANGED <<pc, request, out, expect, store>>

(* Mutant: a JSON value that is not an object is skipped like garbage.  *)
ReadNonObjectSkipped ==
    /\ pc = "read"
    /\ nread < MaxLines
    /\ nread' = nread + 1
    /\ expect' = Append(expect, [kind |-> "nonobject", id |-> None])
    /\ UNCHANGED <<pc, request, out, store>>

ReadNonObject ==
    /\ pc = "read"
    /\ nread < MaxLines
    /\ nread' = nread + 1
    /\ out' = Append(out, [id |-> None, channel |-> "error", method |-> "none",
                           err |-> TRUE, rejected |-> FALSE, inserted |-> 0])
    /\ expect' = Append(expect, [kind |-> "nonobject", id |-> None])
    /\ UNCHANGED <<pc, request, store>>

ReadRequest(req) ==
    /\ pc = "read"
    /\ nread < MaxLines
    /\ nread' = nread + 1
    /\ pc' = "dispatch"
    /\ request' = req
    /\ expect' = Append(expect, [kind |-> "object", id |-> req.id])
    /\ UNCHANGED <<out, store>>

(* readline() returns '' at end of input and the loop breaks.             *)
Eof ==
    /\ pc = "read"
    /\ pc' = "done"
    /\ UNCHANGED <<request, out, nread, expect, store>>

(* handle_request and the handler it selects (lines 19-146), then the      *)
(* print and flush of lines 165-171.  qd is what became of the HTTP call. *)
Handle(req, qd) ==
    LET m == req.method
        p == req.params
    IN
    CASE m = "unknown" ->
           <<Result(req, TRUE, FALSE, 0), store>>
      [] p = None /\ m \notin NoParamMethods ->
           <<Result(req, TRUE, FALSE, 0), store>>
      [] qd = "down" ->
           <<Result(req, TRUE, FALSE, 0), store>>
      [] m = "qdrant_create_collection" ->
           <<Result(req, qd = "lost", qd = "answered" /\ CreateRefused(p.name), 0),
             CreateEffect(p.name)>>
      [] m = "qdrant_insert_vectors" ->
           <<Result(req, qd = "lost", qd = "answered" /\ InsertRefused(p),
                    IF qd = "lost" THEN 0 ELSE p.nvec),
             InsertEffect(p)>>
      [] m = "qdrant_search" ->
           <<Result(req, qd = "lost", qd = "answered" /\ SearchRefused(p), 0),
             store>>
      [] m = "qdrant_collections_info" ->
           <<Result(req, qd = "lost",
                    qd = "answered" /\ store[Default] = Absent, 0), store>>
      [] OTHER ->
           <<Result(req, qd = "lost", FALSE, 0), store>>

Dispatch ==
    /\ pc = "dispatch"
    /\ \E qd \in {"down", "lost", "answered"} :
          LET h == Handle(request, qd)
          IN  /\ out' = Append(out, h[1])
              /\ store' = h[2]
    /\ pc' = "read"
    /\ request' = None
    /\ UNCHANGED <<nread, expect>>

Next ==
    \/ ReadGarbage
    \/ ReadNonObject
    \/ \E req \in RequestsOf(nread + 1) \cup RequestsOf(None) :
          ReadRequest(req)
    \/ Eof
    \/ Dispatch

Spec == Init /\ [][Next]_vars

-----------------------------------------------------------------------------
TypeOK ==
    /\ pc \in {"read", "dispatch", "done"}
    /\ nread \in 0..MaxLines
    /\ out \in Seq(Response)
    /\ expect \in Seq([kind : {"object", "nonobject"},
                       id : (1..MaxLines) \cup {None}])
    /\ store \in [Names -> Collection]

(* The dispatcher answers strictly in arrival order: the k-th response     *)
(* answers the k-th line that parsed as JSON, with that request's id, on  *)
(* the error channel exactly when the line was not an object (main(),     *)
(* lines 160-182), and at most the request under dispatch is unanswered.  *)
ResponsesInOrder ==
    /\ Len(out) <= Len(expect)
    /\ Len(expect) - Len(out) = IF pc = "dispatch" THEN 1 ELSE 0
    /\ \A k \in 1..Len(out) :
          /\ out[k].id = expect[k].id
          /\ out[k].channel = "error" <=> expect[k].kind = "nonobject"

(* Spec section 9: vector-store errors surface to the RPC caller as       *)
(* handler-level errors, i.e. a result with an 'error' key.               *)
FailureSurfaced ==
    \A k \in 1..Len(out) :
       out[k].channel = "result" /\ out[k].rejected => out[k].err

(* An insert reported as done (status ok, inserted_count n) stored the     *)
(* points 1..n it reports; spec section 5 pairs {} with every vector when *)
(* the caller sends no metadata.                                          *)
InsertedCountMatches ==
    \A k \in 1..Len(out) :
       (/\ out[k].method = "qdrant_insert_vectors"
        /\ ~out[k].err /\ ~out[k].rejected)
          => 1..out[k].inserted \subseteq store[Default].points
=============================================================================
