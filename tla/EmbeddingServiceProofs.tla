----------------------- MODULE EmbeddingServiceProofs -----------------------
(***************************************************************************)
(* Proofs about EmbeddingService for every value of its constants: type    *)
(* correctness, the fixed dimension of Ollama-sourced vectors, the         *)
(* absorption of failed backend calls, and the finality of the startup    *)
(* probe's results.                                                        *)
(***************************************************************************)
EXTENDS EmbeddingService, SequenceTheorems, TLAPS

(* The helpers on vectors: the zero padding of line 218 is a 0/1 vector.  *)
LEMMA ZerosType ==
    ASSUME NEW n \in Nat
    PROVE  /\ Zeros(n) \in Seq({0, 1})
           /\ Len(Zeros(n)) = n
BY DEF Zeros

(* Reconciliation yields a 0/1 vector of exactly the target length.       *)
LEMMA ReconcileType ==
    ASSUME NEW v \in Seq({0, 1}), NEW d \in Nat
    PROVE  /\ Reconcile(v, d) \in Seq({0, 1})
           /\ Len(Reconcile(v, d)) = d
<1>1. CASE Len(v) > d
  <2>1. \A i \in 1..d : v[i] \in {0, 1}
    BY <1>1
  <2>2. /\ SubSeq(v, 1, d) \in Seq({0, 1})
        /\ Len(SubSeq(v, 1, d)) = IF 1 <= d THEN d - 1 + 1 ELSE 0
    BY <2>1, SubSeqProperties
  <2>3. QED
    BY <1>1, <2>2 DEF Reconcile
<1>2. CASE Len(v) < d
  <2>1. d - Len(v) \in Nat
    BY <1>2
  <2>2. /\ Zeros(d - Len(v)) \in Seq({0, 1})
        /\ Len(Zeros(d - Len(v))) = d - Len(v)
    BY <2>1, ZerosType
  <2>3. /\ v \o Zeros(d - Len(v)) \in Seq({0, 1})
        /\ Len(v \o Zeros(d - Len(v))) = Len(v) + (d - Len(v))
    BY <2>2, ConcatProperties
  <2>4. QED
    BY <1>2, <2>3 DEF Reconcile
<1>3. CASE Len(v) = d
  BY <1>3 DEF Reconcile
<1>4. QED
  BY <1>1, <1>2, <1>3

(* Normalisation keeps the length, yields components, and changes nothing *)
(* but a zero vector.                                                     *)
LEMMA NormalizeType ==
    ASSUME NEW v \in Seq({0, 1})
    PROVE  /\ Normalize(v) \in Seq(Component)
           /\ Len(Normalize(v)) = Len(v)
           /\ ~IsZero(v) => Normalize(v) = v
<1>1. DOMAIN v = 1..Len(v)
  BY LenProperties
<1>2. CASE IsZero(v)
  <2>1. Normalize(v) = [i \in 1..Len(v) |-> NaN]
    BY <1>1, <1>2 DEF Normalize
  <2>2. [i \in 1..Len(v) |-> NaN] \in Seq(Component)
    BY IsASeq DEF Component
  <2>3. QED
    BY <1>2, <2>1, <2>2
<1>3. CASE ~IsZero(v)
  BY <1>3 DEF Normalize, Component
<1>4. QED
  BY <1>2, <1>3

(* The deterministic fallback is a well-typed item without NaN.           *)
LEMMA DeterministicType ==
    /\ DeterministicEmbedding \in Item
    /\ DeterministicEmbedding.src = "deterministic"
    /\ \A j \in DOMAIN DeterministicEmbedding.vec :
           DeterministicEmbedding.vec[j] # NaN
<1> DEFINE ones == [i \in 1..DefaultDim |-> 1]
<1>1. ones \in Seq({0, 1})
  BY DefaultDimAssumption, IsASeq
<1>2. /\ Normalize(ones) \in Seq(Component)
      /\ Len(Normalize(ones)) = DefaultDim
  BY <1>1, NormalizeType, DefaultDimAssumption
<1>3. \A j \in DOMAIN Normalize(ones) : Normalize(ones)[j] # NaN
  <2>1. CASE DefaultDim = 0
    <3>1. DOMAIN Normalize(ones) = 1..0
      BY <1>2, <2>1, LenProperties
    <3>2. QED
      BY <3>1
  <2>2. CASE DefaultDim # 0
    <3>1. ~IsZero(ones)
      BY <2>2, DefaultDimAssumption DEF IsZero
    <3>2. Normalize(ones) = ones
      BY <1>1, <3>1, NormalizeType
    <3>3. QED
      BY <3>2, NaNAssumption
  <2>3. QED
    BY <2>1, <2>2
<1>4. QED
  BY <1>1, <1>2, <1>3, NaNAssumption DEF DeterministicEmbedding, Item

(* get_embeddings yields a well-typed item: an Ollama answer of the target *)
(* length, or the fallback, which holds no NaN.                           *)
LEMMA GetEmbeddingsType ==
    ASSUME dim \in Nat, NEW o \in Outcome
    PROVE  /\ GetEmbeddings(o) \in Item
           /\ o.ok => /\ GetEmbeddings(o).src = "ollama"
                      /\ Len(GetEmbeddings(o).vec) = dim
           /\ ~o.ok => /\ GetEmbeddings(o).src = "deterministic"
                       /\ \A j \in DOMAIN GetEmbeddings(o).vec :
                              GetEmbeddings(o).vec[j] # NaN
<1>1. CASE o.ok
  <2>1. o.embedding \in Seq({0, 1})
    BY <1>1, OllamaVectorsAssumption DEF Outcome
  <2> DEFINE pre == Reconcile(o.embedding, dim)
  <2>2. pre \in Seq({0, 1}) /\ Len(pre) = dim
    BY <2>1, ReconcileType
  <2>3. Normalize(pre) \in Seq(Component) /\ Len(Normalize(pre)) = dim
    BY <2>2, NormalizeType
  <2>4. GetEmbeddings(o) = [src |-> "ollama", pre |-> pre, vec |-> Normalize(pre)]
    BY <1>1 DEF GetEmbeddings
  <2>5. QED
    BY <1>1, <2>2, <2>3, <2>4 DEF Item
<1>2. CASE ~o.ok
  BY <1>2, DeterministicType DEF GetEmbeddings
<1>3. QED
  BY <1>1, <1>2

(* A computed reply is a well-typed reply, and it is a 500 only when some *)
(* item holds a NaN.                                                      *)
LEMMA RespondType ==
    ASSUME NEW op \in {"embed", "batch"}, NEW items \in Seq(Item),
           NEW backend \in Seq(Outcome)
    PROVE  /\ Respond(op, items, backend) \in Reply
           /\ Respond(op, items, backend).items = items
           /\ Respond(op, items, backend).backend = backend
           /\ Respond(op, items, backend).status = 500 =>
                  \E i \in DOMAIN items : \E j \in DOMAIN items[i].vec :
                      items[i].vec[j] = NaN
BY DEF Respond, Reply

(* The 500 that create_embedding makes of get_embeddings' 503 is a reply. *)
LEMMA UnavailableType ==
    ASSUME NEW op \in {"embed", "batch"}
    PROVE  Unavailable(op) \in Reply
BY DEF Unavailable, Reply

(* The history records a source and a length for each delivered vector.  *)
LEMMA DeliverType ==
    ASSUME NEW r \in Reply,
           returned \subseteq [src : {"ollama", "deterministic"}, len : Nat],
           Deliver(r)
    PROVE  returned' \subseteq [src : {"ollama", "deterministic"}, len : Nat]
<1>1. \A i \in DOMAIN r.items : /\ r.items[i].src \in {"ollama", "deterministic"}
                               /\ Len(r.items[i].vec) \in Nat
  <2> TAKE i \in DOMAIN r.items
  <2>1. r.items[i] \in Item
    BY DEF Reply
  <2>2. QED
    BY <2>1 DEF Item
<1>2. QED
  BY <1>1 DEF Deliver

(* One step of the service keeps every variable in its type.            *)
LEMMA TypeStep == TypeOK /\ [Next]_vars => TypeOK'
<1> SUFFICES ASSUME TypeOK, [Next]_vars PROVE TypeOK'
  OBVIOUS
<1>1. ASSUME NEW o \in Outcome, Startup(o) PROVE TypeOK'
  <2>1. o.ok => Len(o.embedding) \in Nat
    BY OllamaVectorsAssumption DEF Outcome
  <2>2. QED
    BY <1>1, <2>1 DEF Startup, TypeOK
<1>2. ASSUME NEW o \in Outcome, Embed(o) PROVE TypeOK'
  <2>1. reply' \in Reply
    <3>1. CASE Ready
      <4>1. <<GetEmbeddings(o)>> \in Seq(Item) /\ <<o>> \in Seq(Outcome)
        BY GetEmbeddingsType DEF TypeOK
      <4>2. QED
        BY <1>2, <3>1, <4>1, RespondType DEF Embed
    <3>2. CASE ~Ready
      BY <1>2, <3>2, UnavailableType DEF Embed
    <3>3. QED
      BY <3>1, <3>2
  <2>2. returned' \subseteq [src : {"ollama", "deterministic"}, len : Nat]
    BY <1>2, <2>1, DeliverType DEF Embed, TypeOK
  <2>3. QED
    BY <1>2, <2>1, <2>2 DEF Embed, TypeOK
<1>3. ASSUME NEW os \in BatchOutcomes, EmbedBatch(os) PROVE TypeOK'
  <2>1. os \in Seq(Outcome)
    BY DEF BatchOutcomes
  <2>2. reply' \in Reply
    <3>1. CASE Ready \/ os = <<>>
      <4> DEFINE items == [i \in DOMAIN os |-> GetEmbeddings(os[i])]
      <4>1. \A i \in DOMAIN os : os[i] \in Outcome
        BY <2>1
      <4>2. items \in Seq(Item)
        <5>1. DOMAIN os = 1..Len(os) /\ Len(os) \in Nat
          BY <2>1, LenProperties
        <5>2. \A i \in 1..Len(os) : GetEmbeddings(os[i]) \in Item
          BY <4>1, <5>1, GetEmbeddingsType DEF TypeOK
        <5>3. [i \in 1..Len(os) |-> GetEmbeddings(os[i])] \in Seq(Item)
          BY <5>1, <5>2, IsASeq
        <5>4. QED
          BY <5>1, <5>3
      <4>3. QED
        BY <1>3, <2>1, <3>1, <4>2, RespondType DEF EmbedBatch
    <3>2. CASE ~(Ready \/ os = <<>>)
      BY <1>3, <3>2, UnavailableType DEF EmbedBatch
    <3>3. QED
      BY <3>1, <3>2
  <2>3. returned' \subseteq [src : {"ollama", "deterministic"}, len : Nat]
    BY <1>3, <2>2, DeliverType DEF EmbedBatch, TypeOK
  <2>4. QED
    BY <1>3, <2>2, <2>3 DEF EmbedBatch, TypeOK
<1>4. CASE Health
  BY <1>4 DEF Health, TypeOK, HealthReply, EmbeddingModelLoaded
<1>5. CASE UNCHANGED vars
  BY <1>5 DEF vars, TypeOK
<1>6. QED
  BY <1>1, <1>2, <1>3, <1>4, <1>5 DEF Next

(* Type correctness of the service.                                       *)
THEOREM TypeCorrect == Spec => []TypeOK
<1>1. Init => TypeOK
  BY DefaultDimAssumption DEF Init, TypeOK, NoReply, Reply
<1>2. QED
  BY <1>1, TypeStep, PTL DEF Spec



-----------------------------------------------------------------------------
(* None of RemoteDimensionFixed, BackendFailureAbsorbed and             *)
(* ServedOnlyWhenReady is inductive by itself: the startup probe rewrites *)
(* dim and decides readiness, which is harmless only because nothing has  *)
(* been delivered or replied yet while the service starts.                *)
StartupClean ==
    phase = "starting" => returned = {} /\ reply = NoReply

IInv == TypeOK /\ StartupClean /\ RemoteDimensionFixed /\ BackendFailureAbsorbed
        /\ ServedOnlyWhenReady

(* The items computed from a sequence of Ollama outcomes: Ollama-sourced  *)
(* items have the target length, and a NaN comes only from an answer.     *)
LEMMA ItemsFacts ==
    ASSUME dim \in Nat, NEW os \in Seq(Outcome)
    PROVE  \A i \in DOMAIN os :
              LET it == GetEmbeddings(os[i]) IN
              /\ it.src = "ollama" => Len(it.vec) = dim
              /\ (\E j \in DOMAIN it.vec : it.vec[j] = NaN) => os[i].ok
<1> TAKE i \in DOMAIN os
<1>1. os[i] \in Outcome
  BY ElementOfSeq
<1>2. QED
  BY <1>1, GetEmbeddingsType

(* Delivering a reply whose Ollama-sourced items have the target length   *)
(* keeps every recorded Ollama vector at the target length.               *)
LEMMA DeliverDim ==
    ASSUME NEW r, RemoteDimensionFixed, Deliver(r), dim' = dim,
           \A i \in DOMAIN r.items :
              r.items[i].src = "ollama" => Len(r.items[i].vec) = dim
    PROVE  RemoteDimensionFixed'
BY DEF Deliver, RemoteDimensionFixed

(* The service starts in the inductive invariant: nothing delivered yet.  *)
LEMMA InitIInv == Init => IInv
BY DefaultDimAssumption DEF Init, IInv, TypeOK, NoReply, Reply, StartupClean,
   RemoteDimensionFixed, BackendFailureAbsorbed, ServedOnlyWhenReady, Ready

(* Startup, /embed, /embed_batch and /health each preserve the inductive  *)
(* invariant.                                                             *)
LEMMA NextIInv == IInv /\ [Next]_vars => IInv'
<1> SUFFICES ASSUME IInv, [Next]_vars PROVE IInv'
  OBVIOUS
<1>0. TypeOK /\ TypeOK'
  BY TypeStep DEF IInv
<1>. USE DEF IInv
<1>1. ASSUME NEW o \in Outcome, Startup(o) PROVE IInv'
  <2>1. returned = {} /\ reply = NoReply
    BY <1>1 DEF Startup, StartupClean
  <2>2. QED
    BY <1>0, <1>1, <2>1 DEF Startup, StartupClean, RemoteDimensionFixed,
       BackendFailureAbsorbed, ServedOnlyWhenReady, NoReply
<1>2. ASSUME NEW o \in Outcome, Embed(o) PROVE IInv'
  <2>1. StartupClean'
    BY <1>2 DEF Embed, StartupClean
  <2>2. CASE Ready
    <3> DEFINE g == GetEmbeddings(o)
               r == Respond("embed", <<g>>, <<o>>)
    <3>1. g \in Item /\ (g.src = "ollama" => Len(g.vec) = dim)
          /\ ((\E j \in DOMAIN g.vec : g.vec[j] = NaN) => o.ok)
      BY GetEmbeddingsType DEF TypeOK
    <3>2. <<g>> \in Seq(Item) /\ <<o>> \in Seq(Outcome)
      BY <3>1
    <3>3. reply' = r /\ Deliver(r) /\ dim' = dim /\ model_type' = model_type
      BY <1>2, <2>2 DEF Embed
    <3>4. r.items = <<g>> /\ r.backend = <<o>>
          /\ (r.status = 500 => \E j \in DOMAIN g.vec : g.vec[j] = NaN)
      <4>1. /\ r.items = <<g>> /\ r.backend = <<o>>
            /\ r.status = 500 =>
                  \E i \in DOMAIN <<g>> : \E j \in DOMAIN <<g>>[i].vec :
                      <<g>>[i].vec[j] = NaN
        BY DEF Respond
      <4>2. QED
        BY <4>1
    <3>5. RemoteDimensionFixed'
      BY <3>1, <3>3, <3>4, DeliverDim
    <3>6. BackendFailureAbsorbed'
      BY <3>1, <3>3, <3>4 DEF BackendFailureAbsorbed, Ready
    <3>7. ServedOnlyWhenReady'
      BY <2>2, <3>3 DEF ServedOnlyWhenReady, Ready
    <3>8. QED
      BY <1>0, <2>1, <3>5, <3>6, <3>7
  <2>3. CASE ~Ready
    <3>1. reply' = Unavailable("embed") /\ Deliver(Unavailable("embed"))
          /\ dim' = dim /\ model_type' = model_type
      BY <1>2, <2>3 DEF Embed
    <3>2. returned' = returned
      BY <3>1 DEF Deliver, Unavailable
    <3>3. QED
      BY <1>0, <2>1, <2>3, <3>1, <3>2 DEF RemoteDimensionFixed,
         BackendFailureAbsorbed, ServedOnlyWhenReady, Ready
  <2>4. QED
    BY <2>2, <2>3
<1>3. ASSUME NEW os \in BatchOutcomes, EmbedBatch(os) PROVE IInv'
  <2>0. os \in Seq(Outcome)
    BY DEF BatchOutcomes
  <2>1. StartupClean'
    BY <1>3 DEF EmbedBatch, StartupClean
  <2>2. CASE Ready \/ os = <<>>
    <3> DEFINE items == [i \in DOMAIN os |-> GetEmbeddings(os[i])]
               r == Respond("batch", items, os)
    <3>1. items \in Seq(Item)
      <4>1. DOMAIN os = 1..Len(os) /\ Len(os) \in Nat
        BY <2>0, LenProperties
      <4>2. \A i \in 1..Len(os) : GetEmbeddings(os[i]) \in Item
        BY <2>0, <4>1, ElementOfSeq, GetEmbeddingsType DEF TypeOK
      <4>3. [i \in 1..Len(os) |-> GetEmbeddings(os[i])] \in Seq(Item)
        BY <4>1, <4>2, IsASeq
      <4>4. QED
        BY <4>1, <4>3
    <3>2. \A i \in DOMAIN os :
              /\ items[i].src = "ollama" => Len(items[i].vec) = dim
              /\ (\E j \in DOMAIN items[i].vec : items[i].vec[j] = NaN) => os[i].ok
      BY <2>0, ItemsFacts DEF TypeOK
    <3>3. reply' = r /\ Deliver(r) /\ dim' = dim /\ model_type' = model_type
      BY <1>3, <2>2 DEF EmbedBatch
    <3>4. r.items = items /\ r.backend = os
          /\ (r.status = 500 => \E i \in DOMAIN items : \E j \in DOMAIN items[i].vec :
                                    items[i].vec[j] = NaN)
      <4>1. "batch" \in {"embed", "batch"}
        OBVIOUS
      <4>2. QED
        BY <2>0, <3>1, <4>1, RespondType
    <3>5. RemoteDimensionFixed'
      BY <3>2, <3>3, <3>4, DeliverDim
    <3>6. BackendFailureAbsorbed'
      BY <3>2, <3>3, <3>4 DEF BackendFailureAbsorbed, Ready
    <3>7. ServedOnlyWhenReady'
      <4>1. CASE Ready
        BY <3>3, <4>1 DEF ServedOnlyWhenReady, Ready
      <4>2. CASE os = <<>>
        <5>1. DOMAIN r.items = {}
          BY <3>4, <4>2
        <5>2. returned' = returned
          BY <3>3, <5>1 DEF Deliver
        <5>3. QED
          BY <3>3, <5>2 DEF ServedOnlyWhenReady, Ready
      <4>3. QED
        BY <2>2, <4>1, <4>2
    <3>8. QED
      BY <1>0, <2>1, <3>5, <3>6, <3>7
  <2>3. CASE ~(Ready \/ os = <<>>)
    <3>1. reply' = Unavailable("batch") /\ Deliver(Unavailable("batch"))
          /\ dim' = dim /\ model_type' = model_type
      BY <1>3, <2>3 DEF EmbedBatch
    <3>2. returned' = returned
      BY <3>1 DEF Deliver, Unavailable
    <3>3. QED
      BY <1>0, <2>1, <2>3, <3>1, <3>2 DEF RemoteDimensionFixed,
         BackendFailureAbsorbed, ServedOnlyWhenReady, Ready
  <2>4. QED
    BY <2>2, <2>3
<1>4. CASE Health
  BY <1>0, <1>4 DEF Health, StartupClean, RemoteDimensionFixed,
     BackendFailureAbsorbed, ServedOnlyWhenReady, Ready
<1>5. CASE UNCHANGED vars
  BY <1>0, <1>5 DEF vars, StartupClean, RemoteDimensionFixed,
     BackendFailureAbsorbed, ServedOnlyWhenReady, Ready
<1>6. QED
  BY <1>1, <1>2, <1>3, <1>4, <1>5 DEF Next

(* Every Ollama-sourced vector the service returns has the dimension the  *)
(* startup probe recorded, whatever lengths Ollama answers with.          *)
THEOREM RemoteDimension == Spec => []RemoteDimensionFixed
BY InitIInv, NextIInv, PTL DEF Spec, IInv

(* After a successful probe, a failed Ollama call never yields a 500.     *)
THEOREM FailureAbsorbed == Spec => []BackendFailureAbsorbed
BY InitIInv, NextIInv, PTL DEF Spec, IInv

(* No vector, fallback included, is ever served by a service whose        *)
(* startup probe failed.                                                  *)
THEOREM ServedReady == Spec => []ServedOnlyWhenReady
BY InitIInv, NextIInv, PTL DEF Spec, IInv

=============================================================================
