------------------------- MODULE MetadataCacheProofs -------------------------
(***************************************************************************)
(* Theorems of MetadataCache: for any number of writers, of callers and of *)
(* refreshes under way, and slices of any size.                            *)
(***************************************************************************)
EXTENDS MetadataCache, FiniteSetTheorems, TLAPS

Request == [by : Callers \cup {Nobody}, state : {"sent", "read", "ended"}, answer : Metadatas]
Asked == [showInvisible : BOOLEAN, forced : BOOLEAN, current : BOOLEAN, still : BOOLEAN]
Places == {"idle", "refreshing", "fetching", "resolved", "rejected"}

USE CacheAssumption

(***************************************************************************)
(* What the operators return.                                              *)
(***************************************************************************)
LEMMA NothingType == Nothing \in Metadatas
BY DEF Nothing, Metadatas

LEMMA FilteredType ==
  ASSUME NEW accounts \in Metadatas PROVE Filtered(accounts) \in Metadatas
BY DEF Filtered, Metadatas

LEMMA RefillIsAnswer ==
  ASSUME NEW answer \in Metadatas PROVE Refill(answer) = answer
BY DEF Refill, Metadatas

LEMMA OnChainType == ASSUME TypeOK PROVE OnChain \in Metadatas
<1>1. past \in Seq(Metadatas) /\ past # <<>>
  BY DEF TypeOK
<1> QED BY <1>1 DEF OnChain

\* What the chain holds after a writer created or deleted its metadata.
LEMMA ChangedType ==
  ASSUME TypeOK, NEW w \in Writers, NEW visible \in BOOLEAN, ChangeMetadata(w, visible)
  PROVE  \E new \in Metadatas : past' = Append(past, new)
<1> DEFINE new == [OnChain EXCEPT ![w] =
      IF @ = NoMetadata THEN [writerKey |-> w, visible |-> visible] ELSE NoMetadata]
<1>1. new \in Metadatas
  BY OnChainType DEF Metadatas, Metadata
<1>2. past' = Append(past, new)
  BY DEF ChangeMetadata
<1> QED BY <1>1, <1>2

\* An order in which a set of writers is enumerated lists each of them, once.
LEMMA OrderType ==
  ASSUME NEW S \in SUBSET Writers, NEW order \in SetToSeqs(S)
  PROVE  order \in Seq(Writers) /\ Len(order) = Cardinality(S) /\ DOMAIN order = 1 .. Len(order)
<1>1. IsFiniteSet(S)
  BY FS_Subset
<1>2. Cardinality(S) \in Nat
  BY <1>1, FS_CardinalityType
<1>3. order \in [1 .. Cardinality(S) -> S]
  BY DEF SetToSeqs
<1> QED BY <1>2, <1>3

\* It leaves none of them out: an injection between finite sets of one size.
LEMMA OrderOnto ==
  ASSUME NEW S \in SUBSET Writers, NEW order \in SetToSeqs(S)
  PROVE  {order[k] : k \in DOMAIN order} = S
<1> DEFINE D == 1 .. Cardinality(S)  image == {order[k] : k \in DOMAIN order}
<1>1. IsFiniteSet(S)
  BY FS_Subset
<1>2. Cardinality(S) \in Nat
  BY <1>1, FS_CardinalityType
<1>3. IsFiniteSet(D) /\ Cardinality(D) = Cardinality(S)
  BY <1>2, FS_Interval
<1>4. order \in [D -> S] /\ \A i, j \in D : i # j => order[i] # order[j]
  BY DEF SetToSeqs
<1>5. image \subseteq S
  BY <1>4
<1>6. order \in Bijection(D, image)
  BY <1>4 DEF Bijection, Injection, Surjection, IsInjective
<1>7. Cardinality(image) = Cardinality(S)
  BY <1>3, <1>6, FS_Bijection DEF ExistsBijection
<1> QED BY <1>1, <1>5, <1>7, FS_Subset

LEMMA StartsType ==
  ASSUME NEW n \in Nat PROVE Starts(n) \subseteq 1 .. n
BY DEF Starts

LEMMA SendType ==
  ASSUME requests \in Seq(Request), NEW by \in Callers \cup {Nobody}, Send(by)
  PROVE  requests' \in Seq(Request)
<1>1. [by |-> by, state |-> "sent", answer |-> Nothing] \in Request
  BY NothingType DEF Request
<1> QED BY <1>1 DEF Send

LEMMA EndType ==
  ASSUME TypeOK, NEW i \in DOMAIN requests, NEW to \in Places, End(i, to)
  PROVE  requests' \in Seq(Request) /\ pc' \in [Callers -> Places]
<1>1. requests \in Seq(Request)
  BY DEF TypeOK, Request
<1>2. [by |-> Nobody, state |-> "ended", answer |-> Nothing] \in Request
  BY NothingType DEF Request
<1>3. requests' \in Seq(Request)
  BY <1>1, <1>2 DEF End
<1>4. pc \in [Callers -> Places]
  BY DEF TypeOK, Places
<1>5. requests[i] \in Request
  BY <1>1
<1>6. requests[i].by = Nobody \/ requests[i].by \in Callers
  BY <1>5 DEF Request
<1>7. pc' \in [Callers -> Places]
  BY <1>4, <1>6 DEF End
<1> QED BY <1>3, <1>7

(***************************************************************************)
(* Types.                                                                  *)
(***************************************************************************)
\* The type invariant in parts, as the steps below disturb them.
ChainType == past \in Seq(Metadatas) /\ past # <<>> /\ heads \subseteq Writers
CacheType == now \in 0 .. MAX_TIME /\ lastAll \in 0 .. MAX_TIME /\ metadata \in Metadatas
RequestType == requests \in Seq(Request) /\ pc \in [Callers -> Places]
FetchType ==
  /\ writers \in [Callers -> Seq(Writers)]
  /\ waiting \in [Callers -> SUBSET Nat]
  /\ \A c \in Callers : waiting[c] \subseteq DOMAIN writers[c]
ResultType == outs \in [Callers -> SUBSET FoundHead] /\ asked \in [Callers -> Asked]

LEMMA TypeParts ==
  TypeOK <=> ChainType /\ CacheType /\ RequestType /\ FetchType /\ ResultType
BY DEF TypeOK, ChainType, CacheType, RequestType, FetchType, ResultType, Request, Asked, Places

LEMMA InitTypeOK == Init => TypeOK
<1> SUFFICES ASSUME Init PROVE TypeOK
  OBVIOUS
<1>1. ChainType
  <2>1. PICK f \in Initial : past = <<f>>
    BY DEF Init
  <2>2. f \in Metadatas
    OBVIOUS
  <2>3. past \in Seq(Metadatas) /\ past # <<>>
    BY <2>1, <2>2
  <2> QED BY <2>3 DEF Init, ChainType
<1>2. CacheType
  BY NothingType DEF Init, CacheType
<1>3. RequestType
  BY DEF Init, RequestType, Places
<1>4. FetchType
  BY DEF Init, FetchType
<1>5. ResultType
  BY DEF Init, ResultType, NotAsked, Asked
<1> QED BY <1>1, <1>2, <1>3, <1>4, <1>5, TypeParts

LEMMA getAllMetadataTypeOK ==
  ASSUME TypeOK, NEW c \in Callers, NEW cacheOverChain \in BOOLEAN, getAllMetadata(c, cacheOverChain)
  PROVE  TypeOK'
<1>0. ChainType /\ CacheType /\ RequestType /\ FetchType /\ ResultType
  BY TypeParts
<1>1. ChainType' /\ CacheType' /\ FetchType'
  BY <1>0 DEF getAllMetadata, chain, cache, ChainType, CacheType, FetchType
<1>2. requests' \in Seq(Request)
  BY <1>0, SendType DEF getAllMetadata, RequestType
<1>3. pc' \in [Callers -> Places]
  BY <1>0 DEF getAllMetadata, RequestType, Places
<1>4. ResultType'
  BY <1>0 DEF getAllMetadata, ResultType, NotAsked, Asked
<1>5. RequestType'
  BY <1>2, <1>3 DEF RequestType
<1> QED BY <1>1, <1>4, <1>5 DEF TypeOK, ChainType, CacheType, RequestType, FetchType, ResultType,
                         Request, Asked, Places

\* getMetadata and getHead end at once, with an answer of their own.
LEMMA SingleAnswers ==
  ASSUME TypeOK, NEW c \in Callers,
         getHead(c) \/ \E w \in Writers, allowCached \in BOOLEAN : getMetadata(c, w, allowCached)
  PROVE  \E to \in {"resolved", "rejected"}, answer \in SUBSET FoundHead :
           /\ Answered(c, to, answer)
           /\ \A h \in answer : h.metadata # NoMetadata => h.metadata.writerKey = h.account
<1>1. CASE getHead(c)
  BY <1>1 DEF getHead
<1>2. ASSUME NEW w \in Writers, NEW allowCached \in BOOLEAN, getMetadata(c, w, allowCached)
      PROVE  \E to \in {"resolved", "rejected"}, answer \in SUBSET FoundHead :
               /\ Answered(c, to, answer)
               /\ \A h \in answer : h.metadata # NoMetadata => h.metadata.writerKey = h.account
  <2>1. metadata[w] \in Metadata \cup {NoMetadata} /\ (metadata[w] # NoMetadata => metadata[w].writerKey = w)
    BY DEF TypeOK, Metadatas
  <2>2. FromCache(w) \in SUBSET FoundHead
    BY <2>1 DEF FromCache, FoundHead
  <2>3. \A h \in FromCache(w) : h.metadata # NoMetadata => h.metadata.writerKey = h.account
    BY <2>1 DEF FromCache
  <2>4. Answered(c, "resolved", FromCache(w)) \/ Answered(c, "rejected", {})
    BY <1>2 DEF getMetadata
  <2> QED BY <2>2, <2>3, <2>4
<1> QED BY <1>1, <1>2

LEMMA AnsweredTypeOK ==
  ASSUME TypeOK, NEW c \in Callers, NEW to \in {"resolved", "rejected"},
         NEW answer \in SUBSET FoundHead, Answered(c, to, answer)
  PROVE  TypeOK'
<1>0. ChainType /\ CacheType /\ RequestType /\ FetchType /\ ResultType
  BY TypeParts
<1>1. ChainType' /\ CacheType' /\ FetchType'
  BY <1>0 DEF Answered, chain, cache, ChainType, CacheType, FetchType
<1>2. RequestType'
  BY <1>0 DEF Answered, RequestType, Places
<1>3. ResultType'
  BY <1>0 DEF Answered, ResultType, NotAsked, Asked
<1> QED BY <1>1, <1>2, <1>3 DEF TypeOK, ChainType, CacheType, RequestType, FetchType, ResultType,
                         Request, Asked, Places

LEMMA ReadTypeOK ==
  ASSUME TypeOK, NEW i \in DOMAIN requests, Read(i)
  PROVE  TypeOK'
<1>0. ChainType /\ CacheType /\ RequestType /\ FetchType /\ ResultType
  BY TypeParts
<1>1. Filtered(OnChain) \in Metadatas
  BY OnChainType, FilteredType
<1>2. requests' = [requests EXCEPT ![i].state = "read", ![i].answer = Filtered(OnChain)]
  BY DEF Read
<1>3. requests[i] \in Request
  BY <1>0 DEF RequestType
<1>4. [requests[i] EXCEPT !.state = "read", !.answer = Filtered(OnChain)] \in Request
  BY <1>1, <1>3 DEF Request
<1>5. requests' = [requests EXCEPT ![i] = [requests[i] EXCEPT !.state = "read", !.answer = Filtered(OnChain)]]
  BY <1>2
<1>6. requests' \in Seq(Request)
  BY <1>0, <1>4, <1>5 DEF RequestType
<1> QED BY <1>0, <1>6 DEF Read, chain, cache, calls, TypeOK, ChainType, CacheType, RequestType,
                         FetchType, ResultType, Request, Asked, Places

LEMMA RefreshTypeOK ==
  ASSUME TypeOK, NEW i \in DOMAIN requests, Refresh(i) \/ RefreshFails(i)
  PROVE  TypeOK'
<1>0. ChainType /\ CacheType /\ RequestType /\ FetchType /\ ResultType
  BY TypeParts
<1>1. requests[i].answer \in Metadatas
  <2>1. requests[i] \in Request
    BY <1>0 DEF RequestType
  <2> QED BY <2>1 DEF Request
<1>2. End(i, "idle") \/ End(i, "rejected")
  BY DEF Refresh, RefreshFails
<1>3. RequestType'
  BY <1>2, EndType DEF RequestType, Places
<1>4. CacheType'
  BY <1>0, <1>1, RefillIsAnswer DEF Refresh, RefreshFails, cache, CacheType
<1> QED BY <1>0, <1>3, <1>4 DEF Refresh, RefreshFails, chain, TypeOK, ChainType, CacheType, RequestType,
                         FetchType, ResultType, Request, Asked, Places

LEMMA getHeadsForNFTTypeOK ==
  ASSUME TypeOK, NEW c \in Callers, NEW showInvisible \in BOOLEAN, NEW forced \in BOOLEAN,
         getHeadsForNFT(c, showInvisible, forced)
  PROVE  TypeOK'
<1>0. ChainType /\ CacheType /\ RequestType /\ FetchType /\ ResultType
  BY TypeParts
<1>1. PICK order \in SetToSeqs(Shown(metadata, showInvisible)) :
        /\ writers' = [writers EXCEPT ![c] = order]
        /\ waiting' = [waiting EXCEPT ![c] = Starts(Len(order))]
        /\ pc' = [pc EXCEPT ![c] = IF order = <<>> THEN "resolved" ELSE "fetching"]
  BY DEF getHeadsForNFT
<1>2. order \in Seq(Writers) /\ DOMAIN order = 1 .. Len(order)
  BY OrderType DEF Shown
<1>3. Starts(Len(order)) \subseteq DOMAIN order /\ Starts(Len(order)) \in SUBSET Nat
  BY <1>2, StartsType
<1>4. FetchType'
  BY <1>0, <1>1, <1>2, <1>3 DEF FetchType
<1>5. requests' \in Seq(Request)
  BY <1>0, SendType DEF getHeadsForNFT, RequestType
<1>6. pc' \in [Callers -> Places]
  BY <1>0, <1>1 DEF RequestType, Places
<1>7. ResultType'
  <2> DEFINE new == [showInvisible |-> showInvisible, forced |-> forced,
                     current |-> metadata = Filtered(OnChain), still |-> TRUE]
  <2>1. new \in Asked
    BY DEF Asked
  <2>2. asked' = [asked EXCEPT ![c] = new] /\ outs' = [outs EXCEPT ![c] = {}]
    BY DEF getHeadsForNFT
  <2> QED BY <1>0, <2>1, <2>2 DEF ResultType
<1> QED BY <1>0, <1>4, <1>5, <1>6, <1>7 DEF getHeadsForNFT, chain, cache, TypeOK, ChainType, CacheType,
                         RequestType, FetchType, ResultType, Request, Asked, Places

\* What is found in a slice is a head of one writer with metadata of one.
LEMMA HeadAtType ==
  ASSUME TypeOK, NEW c \in Callers, NEW i \in waiting[c], NEW k \in SliceOf(c, i)
  PROVE  HeadAt(c, i, k) \in FoundHead
<1>1. i \in DOMAIN writers[c] /\ k \in DOMAIN writers[c] /\ writers[c] \in Seq(Writers)
  BY DEF TypeOK, SliceOf
<1>2. writers[c][i] \in Writers /\ writers[c][k] \in Writers
  BY <1>1
<1>3. metadata[writers[c][k]] \in Metadata \cup {NoMetadata}
  BY <1>2 DEF TypeOK, Metadatas
<1> QED BY <1>2, <1>3 DEF HeadAt, MetadataAt, FoundHead

LEMMA FetchedTypeOK ==
  ASSUME TypeOK, NEW c \in Callers, NEW i \in waiting[c], Fetched(c, i)
  PROVE  TypeOK'
<1>0. ChainType /\ CacheType /\ RequestType /\ FetchType /\ ResultType
  BY TypeParts
<1> DEFINE new == {HeadAt(c, i, k) : k \in {j \in SliceOf(c, i) : writers[c][j] \in heads}}
<1>1. new \subseteq FoundHead
  BY HeadAtType
<1>2. outs' = [outs EXCEPT ![c] = @ \cup new]
  BY DEF Fetched
<1>3. outs' \in [Callers -> SUBSET FoundHead]
  BY <1>0, <1>1, <1>2 DEF ResultType
<1>4. pc' \in [Callers -> Places]
  BY <1>0 DEF Fetched, RequestType, Places
<1>5. waiting' = [waiting EXCEPT ![c] = @ \ {i}] /\ waiting' \in [Callers -> SUBSET Nat]
  BY <1>0 DEF Fetched, FetchType
<1>6. writers' \in [Callers -> Seq(Writers)]
  <2>1. writers' = writers \/ writers' = [writers EXCEPT ![c] = <<>>]
    BY DEF Fetched
  <2>2. <<>> \in Seq(Writers)
    OBVIOUS
  <2> QED BY <1>0, <2>1, <2>2 DEF FetchType
<1>7. ASSUME NEW d \in Callers PROVE waiting'[d] \subseteq DOMAIN writers'[d]
  <2>1. CASE waiting[c] = {i} /\ d = c
    BY <2>1, <1>0, <1>5 DEF FetchType
  <2>2. CASE waiting[c] = {i} /\ d # c
    BY <2>2, <1>0, <1>5 DEF FetchType, Fetched
  <2>3. CASE waiting[c] # {i}
    BY <2>3, <1>0, <1>5 DEF FetchType, Fetched
  <2> QED BY <2>1, <2>2, <2>3
<1> QED BY <1>0, <1>3, <1>4, <1>5, <1>6, <1>7 DEF Fetched, chain, cache, TypeOK, ChainType, CacheType,
                         RequestType, FetchType, ResultType, Request, Asked, Places

LEMMA FetchFailsTypeOK ==
  ASSUME TypeOK, NEW c \in Callers, FetchFails(c)
  PROVE  TypeOK'
<1>0. ChainType /\ CacheType /\ RequestType /\ FetchType /\ ResultType
  BY TypeParts
<1>1. FetchType'
  <2>1. writers' = [writers EXCEPT ![c] = <<>>] /\ waiting' = [waiting EXCEPT ![c] = {}]
    BY DEF FetchFails
  <2> QED BY <2>1, <1>0 DEF FetchType
<1>2. ResultType'
  BY <1>0 DEF FetchFails, ResultType, NotAsked, Asked
<1>3. RequestType'
  BY <1>0 DEF FetchFails, RequestType, Places
<1> QED BY <1>0, <1>1, <1>2, <1>3 DEF FetchFails, chain, cache, TypeOK, ChainType, CacheType,
                         RequestType, FetchType, ResultType, Request, Asked, Places

LEMMA ChainStepTypeOK ==
  ASSUME TypeOK, NEW w \in Writers, NEW visible \in BOOLEAN, CreateHead(w) \/ ChangeMetadata(w, visible)
  PROVE  TypeOK'
<1>0. ChainType /\ CacheType /\ RequestType /\ FetchType /\ ResultType
  BY TypeParts
<1>1. asked' \in [Callers -> Asked]
  <2>1. ASSUME NEW c \in Callers PROVE [asked[c] EXCEPT !.still = FALSE] \in Asked
    BY <1>0 DEF ResultType, Asked
  <2> QED BY <2>1 DEF CreateHead, ChangeMetadata, Changed
<1>2. ChainType'
  <2>1. CASE CreateHead(w)
    BY <2>1, <1>0 DEF CreateHead, ChainType
  <2>2. CASE ChangeMetadata(w, visible)
    <3>1. PICK new \in Metadatas : past' = Append(past, new)
      BY <2>2, ChangedType
    <3>2. heads' = heads
      BY <2>2 DEF ChangeMetadata
    <3>3. past' \in Seq(Metadatas) /\ past' # <<>>
      BY <3>1, <1>0 DEF ChainType
    <3> QED BY <3>2, <3>3, <1>0 DEF ChainType
  <2> QED BY <2>1, <2>2
<1>3. UNCHANGED <<now, cache, requests, calls>>
  BY DEF CreateHead, ChangeMetadata
<1> QED BY <1>0, <1>1, <1>2, <1>3 DEF cache, calls, TypeOK, ChainType, CacheType,
                         RequestType, FetchType, ResultType, Request, Asked, Places

LEMMA TickTypeOK == ASSUME TypeOK, Tick PROVE TypeOK'
<1>1. now' \in 0 .. MAX_TIME
  BY DEF Tick, TypeOK
<1> QED BY <1>1 DEF Tick, chain, cache, calls, TypeOK

LEMMA NextTypeOK == TypeOK /\ [Next]_vars => TypeOK'
<1> SUFFICES ASSUME TypeOK, [Next]_vars PROVE TypeOK'
  OBVIOUS
<1>1. ASSUME NEW c \in Callers, NEW cacheOverChain \in BOOLEAN, getAllMetadata(c, cacheOverChain)
      PROVE  TypeOK'
  BY <1>1, getAllMetadataTypeOK
<1>2. ASSUME NEW c \in Callers, NEW showInvisible \in BOOLEAN, NEW forced \in BOOLEAN,
             getHeadsForNFT(c, showInvisible, forced)
      PROVE  TypeOK'
  BY <1>2, getHeadsForNFTTypeOK
<1>3. ASSUME NEW c \in Callers, NEW i \in waiting[c], Fetched(c, i) PROVE TypeOK'
  BY <1>3, FetchedTypeOK
<1>4. ASSUME NEW c \in Callers, FetchFails(c) PROVE TypeOK'
  BY <1>4, FetchFailsTypeOK
<1>5. ASSUME NEW i \in DOMAIN requests, Read(i) PROVE TypeOK'
  BY <1>5, ReadTypeOK
<1>6. ASSUME NEW i \in DOMAIN requests, Refresh(i) \/ RefreshFails(i) PROVE TypeOK'
  BY <1>6, RefreshTypeOK
<1>7. ASSUME NEW w \in Writers, NEW visible \in BOOLEAN, CreateHead(w) \/ ChangeMetadata(w, visible)
      PROVE  TypeOK'
  BY <1>7, ChainStepTypeOK
<1>8. CASE Tick
  BY <1>8, TickTypeOK
<1>9. CASE UNCHANGED vars
  BY <1>9 DEF vars, chain, cache, calls, TypeOK
<1>10. ASSUME NEW c \in Callers, getHead(c) \/ \E w \in Writers, allowCached \in BOOLEAN : getMetadata(c, w, allowCached)
       PROVE  TypeOK'
  BY <1>10, SingleAnswers, AnsweredTypeOK
<1> QED BY <1>1, <1>2, <1>3, <1>4, <1>5, <1>6, <1>7, <1>8, <1>9, <1>10 DEF Next

\* The cache, the calls and the requests hold values of the code's types.
THEOREM TypeCorrect == Spec => []TypeOK
BY InitTypeOK, NextTypeOK, PTL DEF Spec

(***************************************************************************)
(* The cache is one answer.                                                *)
(***************************************************************************)
Held(states, accounts) == \E j \in DOMAIN states : accounts = Filtered(states[j])

\* What a request read is what the chain held then, however long the answer takes.
AnswersWereOnChain ==
  \A i \in DOMAIN requests : requests[i].state = "read" => Held(past, requests[i].answer)

SnapshotInv == AnswersWereOnChain /\ CacheIsSnapshot

\* The chain's past only grows: what it held it will have held.
LEMMA PastGrows ==
  ASSUME TypeOK, [Next]_vars
  PROVE  \A accounts \in Metadatas : Held(past, accounts) => Held(past', accounts)
<1>1. CASE past' = past
  BY <1>1
<1>2. ASSUME NEW new \in Metadatas, past' = Append(past, new)
      PROVE  \A accounts \in Metadatas : Held(past, accounts) => Held(past', accounts)
  <2>1. past \in Seq(Metadatas)
    BY DEF TypeOK
  <2>2. \A j \in DOMAIN past : j \in DOMAIN past' /\ past'[j] = past[j]
    BY <1>2, <2>1
  <2> QED BY <2>2 DEF Held
<1>3. \/ past' = past
      \/ \E w \in Writers, visible \in BOOLEAN : ChangeMetadata(w, visible)
  BY DEF Next, vars, chain, getAllMetadata, getMetadata, getHead, Answered, Read, Refresh, RefreshFails, getHeadsForNFT, Fetched,
         FetchFails, CreateHead, Tick
<1> QED BY <1>1, <1>2, <1>3, ChangedType

\* A request that has an answer had it before, or has just read it.
LEMMA AnswersKept ==
  ASSUME TypeOK, AnswersWereOnChain, [Next]_vars
  PROVE  AnswersWereOnChain'
<1> SUFFICES ASSUME NEW k \in DOMAIN requests', requests'[k].state = "read"
             PROVE  Held(past', requests'[k].answer)
  BY DEF AnswersWereOnChain
<1>0. requests \in Seq(Request)
  BY DEF TypeOK, Request
<1>1. CASE k \in DOMAIN requests /\ requests'[k] = requests[k]
  <2>1. requests[k] \in Request
    BY <1>0, <1>1
  <2>2. requests[k].answer \in Metadatas
    BY <2>1 DEF Request
  <2>3. Held(past, requests[k].answer)
    BY <1>1 DEF AnswersWereOnChain
  <2> QED BY <1>1, <2>2, <2>3, PastGrows
<1>2. ASSUME NEW i \in DOMAIN requests, Read(i) PROVE Held(past', requests'[k].answer)
  <2>1. CASE k # i
    <3>1. k \in DOMAIN requests /\ requests'[k] = requests[k]
      BY <1>2, <2>1, <1>0 DEF Read
    <3> QED BY <3>1, <1>1
  <2>2. CASE k = i
    <3>1. requests[i] \in Request
      BY <1>0
    <3>2. requests'[i].answer = Filtered(OnChain)
      BY <1>2, <1>0, <3>1 DEF Read, Request
    <3>3. Len(past) \in DOMAIN past /\ OnChain = past[Len(past)]
      BY DEF TypeOK, OnChain
    <3>4. Held(past, requests'[k].answer)
      BY <2>2, <3>2, <3>3 DEF Held
    <3>5. past' = past
      BY <1>2 DEF Read, chain
    <3> QED BY <3>4, <3>5
  <2> QED BY <2>1, <2>2
<1>3. ASSUME NEW i \in DOMAIN requests, NEW to, End(i, to) PROVE Held(past', requests'[k].answer)
  <2>1. k # i
    BY <1>3, <1>0 DEF End
  <2>2. k \in DOMAIN requests /\ requests'[k] = requests[k]
    BY <1>3, <2>1, <1>0 DEF End
  <2> QED BY <2>2, <1>1
<1>4. ASSUME NEW by, Send(by) PROVE Held(past', requests'[k].answer)
  <2>1. k \in DOMAIN requests /\ requests'[k] = requests[k]
    BY <1>4, <1>0 DEF Send
  <2> QED BY <2>1, <1>1
<1>5. CASE UNCHANGED requests
  BY <1>5, <1>1
<1>6. \/ \E i \in DOMAIN requests : Read(i) \/ End(i, "idle") \/ End(i, "rejected")
      \/ \E by : Send(by)
      \/ UNCHANGED requests
  BY DEF Next, vars, getAllMetadata, getMetadata, getHead, Answered, Refresh, RefreshFails,
         getHeadsForNFT, Fetched,
         FetchFails, ChangeMetadata, CreateHead, Tick
<1> QED BY <1>2, <1>3, <1>4, <1>5, <1>6

\* A refresh puts an answer into the cache, and nothing else writes there.
LEMMA SnapshotKept ==
  ASSUME TypeOK, SnapshotInv, [Next]_vars
  PROVE  CacheIsSnapshot'
<1>1. CASE UNCHANGED metadata
  <2>1. CASE metadata = Nothing
    BY <1>1, <2>1 DEF CacheIsSnapshot, Nothing
  <2>2. CASE Held(past, metadata)
    <3>1. Held(past', metadata')
      BY <1>1, <2>2, PastGrows DEF TypeOK
    <3> QED BY <3>1 DEF CacheIsSnapshot, Held
  <2> QED BY <2>1, <2>2 DEF SnapshotInv, CacheIsSnapshot, Held
<1>2. ASSUME NEW i \in DOMAIN requests, Refresh(i) PROVE CacheIsSnapshot'
  <2>0. requests \in Seq(Request)
    BY DEF TypeOK, Request
  <2>1. requests[i] \in Request
    BY <2>0
  <2>2. metadata' = requests[i].answer
    BY <1>2, <2>1, RefillIsAnswer DEF Refresh, Request
  <2>3. Held(past, requests[i].answer)
    BY <1>2 DEF Refresh, SnapshotInv, AnswersWereOnChain
  <2>4. past' = past
    BY <1>2 DEF Refresh, chain
  <2> QED BY <2>2, <2>3, <2>4 DEF Held, CacheIsSnapshot, Filtered
<1>3. UNCHANGED metadata \/ \E i \in DOMAIN requests : Refresh(i)
  BY DEF Next, vars, cache, getAllMetadata, getMetadata, getHead, Answered, Read, RefreshFails,
         getHeadsForNFT, Fetched,
         FetchFails, ChangeMetadata, CreateHead, Tick
<1> QED BY <1>1, <1>2, <1>3

\* The cache is what the chain held at one moment, whatever refreshes overlap.
THEOREM CacheAlwaysSnapshot == Spec => []CacheIsSnapshot
<1>1. Init => SnapshotInv
  BY DEF Init, SnapshotInv, AnswersWereOnChain, CacheIsSnapshot
<1>2. TypeOK /\ SnapshotInv /\ [Next]_vars => SnapshotInv'
  BY AnswersKept, SnapshotKept DEF SnapshotInv
<1>3. SnapshotInv => CacheIsSnapshot
  BY DEF SnapshotInv
<1> QED BY <1>1, <1>2, <1>3, TypeCorrect, PTL DEF Spec

(***************************************************************************)
(* Heads and metadata go together.                                         *)
(***************************************************************************)
\* The metadata a head is paired with is under its own writer's key.
LEMMA HeadAtPaired ==
  ASSUME TypeOK, NEW c \in Callers, NEW i \in waiting[c], NEW k \in SliceOf(c, i)
  PROVE  LET h == HeadAt(c, i, k)
         IN  h.metadata # NoMetadata => h.metadata.writerKey = h.account
<1>1. k \in DOMAIN writers[c] /\ writers[c] \in Seq(Writers)
  BY DEF TypeOK, SliceOf
<1>2. writers[c][k] \in Writers
  BY <1>1
<1> QED BY <1>2 DEF TypeOK, Metadatas, HeadAt, MetadataAt

LEMMA NextPaired ==
  ASSUME TypeOK, HeadsPaired, [Next]_vars
  PROVE  HeadsPaired'
<1> SUFFICES ASSUME NEW d \in Callers, NEW h \in outs'[d]
             PROVE  h.metadata # NoMetadata => h.metadata.writerKey = h.account
  BY DEF HeadsPaired
<1>0. outs \in [Callers -> SUBSET FoundHead]
  BY DEF TypeOK
<1>1. ASSUME NEW c \in Callers, NEW i \in waiting[c], Fetched(c, i)
      PROVE  h.metadata # NoMetadata => h.metadata.writerKey = h.account
  <2>1. CASE h \in outs[d]
    BY <2>1 DEF HeadsPaired
  <2>2. CASE h \notin outs[d]
    <3>1. PICK k \in SliceOf(c, i) : h = HeadAt(c, i, k)
      BY <1>0, <1>1, <2>2 DEF Fetched
    <3> QED BY <3>1, HeadAtPaired
  <2> QED BY <2>1, <2>2
<1>2. ASSUME NEW c \in Callers, outs' = [outs EXCEPT ![c] = {}]
      PROVE  h.metadata # NoMetadata => h.metadata.writerKey = h.account
  <2>1. h \in outs[d]
    BY <1>0, <1>2
  <2> QED BY <2>1 DEF HeadsPaired
<1>3. CASE UNCHANGED outs
  BY <1>3 DEF HeadsPaired
<1>5. ASSUME NEW c \in Callers, getHead(c) \/ \E w \in Writers, allowCached \in BOOLEAN : getMetadata(c, w, allowCached)
      PROVE  h.metadata # NoMetadata => h.metadata.writerKey = h.account
  <2>1. PICK answer \in SUBSET FoundHead :
          /\ outs' = [outs EXCEPT ![c] = answer]
          /\ \A f \in answer : f.metadata # NoMetadata => f.metadata.writerKey = f.account
    BY <1>5, SingleAnswers DEF Answered
  <2>2. h \in outs[d] \/ h \in answer
    BY <1>0, <2>1
  <2> QED BY <2>1, <2>2 DEF HeadsPaired
<1>4. \/ \E c \in Callers :
           \/ \E i \in waiting[c] : Fetched(c, i)
           \/ outs' = [outs EXCEPT ![c] = {}]
           \/ getHead(c)
           \/ \E w \in Writers, allowCached \in BOOLEAN : getMetadata(c, w, allowCached)
      \/ UNCHANGED outs
  BY DEF Next, vars, calls, getAllMetadata, Read, Refresh, RefreshFails, getHeadsForNFT,
         FetchFails, ChangeMetadata, CreateHead, Tick
<1> QED BY <1>1, <1>2, <1>3, <1>4, <1>5

\* No head is returned with the metadata of another writer.
THEOREM HeadsAlwaysPaired == Spec => []HeadsPaired
<1>1. Init => HeadsPaired
  BY DEF Init, HeadsPaired
<1>2. TypeOK /\ HeadsPaired /\ [Next]_vars => HeadsPaired'
  BY NextPaired
<1> QED BY <1>1, <1>2, TypeCorrect, PTL DEF Spec

(***************************************************************************)
(* Calls over a current cache are complete.                                *)
(***************************************************************************)
\* Whole numbers divided with a remainder, of which SMT has to be told.
LEMMA Division ==
  ASSUME NEW m \in Nat, NEW s \in Nat \ {0}
  PROVE  m % s \in 0 .. s - 1 /\ m \div s \in Nat /\ m = s * (m \div s) + (m % s)
<1> DEFINE d == m \div s  r == m % s
<1>1. r \in 0 .. s - 1 /\ d \in Int
  OBVIOUS
<1>2. m = s * d + r
  OBVIOUS
<1> HIDE DEF d, r
<1>3. ~ (d <= -1)
  <2> SUFFICES ASSUME d <= -1 PROVE FALSE
    OBVIOUS
  <2>1. s * d <= -s
    BY <1>1
  <2> QED BY <2>1, <1>1, <1>2
<1>4. d \in Nat
  BY <1>1, <1>3
<1> QED BY <1>1, <1>2, <1>4 DEF d, r

LEMMA MultipleDivides ==
  ASSUME NEW q \in Nat, NEW s \in Nat \ {0}
  PROVE  (s * q) % s = 0
<1> DEFINE m == s * q  d == m \div s  r == m % s
<1>1. m \in Nat
  OBVIOUS
<1>2. r \in 0 .. s - 1 /\ d \in Nat /\ s * q = s * d + r
  BY <1>1, Division
<1> HIDE DEF d, r
<1>3. s * (q - d) = r
  BY <1>2
<1>4. ~ (q - d >= 1)
  <2> SUFFICES ASSUME q - d >= 1 PROVE FALSE
    OBVIOUS
  <2>1. s * (q - d) >= s
    BY <1>2
  <2> QED BY <2>1, <1>2, <1>3
<1>5. ~ (q - d <= -1)
  <2> SUFFICES ASSUME q - d <= -1 PROVE FALSE
    OBVIOUS
  <2>1. s * (q - d) <= -s
    BY <1>2
  <2> QED BY <2>1, <1>2, <1>3
<1>6. q = d
  BY <1>2, <1>4, <1>5
<1> QED BY <1>2, <1>3, <1>6 DEF r

\* The slices leave no address out.
LEMMA SlicesCover ==
  ASSUME NEW n \in Nat, NEW k \in 1 .. n
  PROVE  \E i \in Starts(n) : i <= k /\ k < i + SLICE
<1> DEFINE m == k - 1  d == m \div SLICE  r == m % SLICE  i == k - r
<1>1. m \in Nat
  OBVIOUS
<1>2. r \in 0 .. SLICE - 1 /\ d \in Nat /\ m = SLICE * d + r
  BY <1>1, Division
<1>3. (SLICE * d) % SLICE = 0 /\ SLICE * d \in Nat
  BY <1>2, MultipleDivides
<1> HIDE DEF d, r
<1>4. i - 1 = SLICE * d
  BY <1>2
<1>5. i \in 1 .. n /\ (i - 1) % SLICE = 0
  BY <1>2, <1>3, <1>4
<1>6. i <= k /\ k < i + SLICE
  BY <1>2
<1> QED BY <1>5, <1>6 DEF Starts

\* The cache the call began with is that of the chain, and the chain is as then.
Quiet(c) == asked[c].current /\ asked[c].still

\* Of a quiet call that fetches: the addresses it derived are those to be shown;
\* the account at each, if it is a head, is found or still to come; and what is
\* found are such accounts.
Showing(c) == Shown(Filtered(OnChain), asked[c].showInvisible)
Derived(c) == {writers[c][k] : k \in DOMAIN writers[c]} = Showing(c)
Covered(c) ==
  \A k \in DOMAIN writers[c] :
    writers[c][k] \in heads =>
      \/ \E h \in outs[c] : h.account = writers[c][k]
      \/ \E i \in waiting[c] : k \in SliceOf(c, i)
Found(c) ==
  \A h \in outs[c] : h.account \in heads /\ \E k \in DOMAIN writers[c] : h.account = writers[c][k]

Fetching(c) == pc[c] = "fetching" /\ Quiet(c) => Derived(c) /\ Covered(c) /\ Found(c)
Resolved(c) ==
  pc[c] = "resolved" /\ Quiet(c) => {h.account : h \in outs[c]} = Showing(c) \cap heads
QuietInv == \A c \in Callers : Fetching(c) /\ Resolved(c)

\* Steps that leave a call alone: its locals, and if it is quiet the chain.
Untouched(c) ==
  /\ writers'[c] = writers[c] /\ waiting'[c] = waiting[c] /\ outs'[c] = outs[c]
  /\ pc'[c] = pc[c] \/ pc'[c] \notin {"fetching", "resolved"}
  /\ asked'[c].showInvisible = asked[c].showInvisible
  /\ Quiet(c)' => Quiet(c) /\ past' = past /\ heads' = heads

\* What is to be shown is a matter of the chain alone.
LEMMA ShowingKept ==
  ASSUME NEW c \in Callers, past' = past, asked'[c].showInvisible = asked[c].showInvisible
  PROVE  Showing(c)' = Showing(c)
BY DEF Showing, Shown, Filtered, OnChain

LEMMA UntouchedKept ==
  ASSUME NEW c \in Callers, Untouched(c), Fetching(c), Resolved(c)
  PROVE  Fetching(c)' /\ Resolved(c)'
<1>1. CASE ~Quiet(c)' \/ pc'[c] \notin {"fetching", "resolved"}
  BY <1>1 DEF Fetching, Resolved
<1>2. CASE Quiet(c)' /\ pc'[c] \in {"fetching", "resolved"}
  <2>1. /\ Quiet(c) /\ pc'[c] = pc[c] /\ heads' = heads /\ writers'[c] = writers[c]
        /\ waiting'[c] = waiting[c] /\ outs'[c] = outs[c]
    BY <1>2 DEF Untouched
  <2>2. Showing(c)' = Showing(c)
    BY <1>2, ShowingKept DEF Untouched
  <2>3. Derived(c) => Derived(c)'
    BY <2>1, <2>2 DEF Derived
  <2>4. Covered(c) => Covered(c)'
    BY <2>1 DEF Covered, SliceOf
  <2>5. Found(c) => Found(c)'
    BY <2>1 DEF Found
  <2>6. Fetching(c)'
    BY <2>1, <2>3, <2>4, <2>5 DEF Fetching
  <2>7. Resolved(c)'
    BY <2>1, <2>2 DEF Resolved
  <2> QED BY <2>6, <2>7
<1> QED BY <1>1, <1>2

\* A call that is over with no address derived, or goes on with all slices to come.
LEMMA BegunQuiet ==
  ASSUME TypeOK, NEW c \in Callers, NEW showInvisible \in BOOLEAN, NEW forced \in BOOLEAN,
         getHeadsForNFT(c, showInvisible, forced)
  PROVE  Fetching(c)' /\ Resolved(c)'
<1> DEFINE shown == Shown(metadata, showInvisible)
<1>1. PICK order \in SetToSeqs(shown) :
        /\ writers' = [writers EXCEPT ![c] = order]
        /\ waiting' = [waiting EXCEPT ![c] = Starts(Len(order))]
        /\ pc' = [pc EXCEPT ![c] = IF order = <<>> THEN "resolved" ELSE "fetching"]
  BY DEF getHeadsForNFT
<1>2. order \in Seq(Writers) /\ DOMAIN order = 1 .. Len(order) /\ Len(order) \in Nat
  BY OrderType DEF Shown
<1>3. {order[k] : k \in DOMAIN order} = shown
  BY OrderOnto DEF Shown
<1>4. /\ writers'[c] = order /\ waiting'[c] = Starts(Len(order)) /\ outs'[c] = {}
      /\ pc'[c] = IF order = <<>> THEN "resolved" ELSE "fetching"
      /\ asked'[c].showInvisible = showInvisible
      /\ asked'[c].current = (metadata = Filtered(OnChain))
      /\ past' = past /\ heads' = heads
  BY <1>1 DEF getHeadsForNFT, TypeOK, chain
<1>5. ASSUME Quiet(c)' PROVE shown = Shown(Filtered(OnChain), showInvisible)
  BY <1>4, <1>5 DEF Quiet
<1>6. ASSUME Quiet(c)' PROVE Showing(c)' = shown
  BY <1>4, <1>5, <1>6 DEF Showing, OnChain, Shown, Filtered
<1>7. Fetching(c)'
  <2> SUFFICES ASSUME pc'[c] = "fetching", Quiet(c)' PROVE Derived(c)' /\ Covered(c)' /\ Found(c)'
    BY DEF Fetching
  <2>1. Derived(c)'
    BY <1>3, <1>4, <1>6 DEF Derived
  <2>2. Covered(c)'
    <3> SUFFICES ASSUME NEW k \in DOMAIN order
                 PROVE  \E i \in Starts(Len(order)) : k \in SliceOf(c, i)'
      BY <1>4 DEF Covered
    <3>1. PICK i \in Starts(Len(order)) : i <= k /\ k < i + SLICE
      BY <1>2, SlicesCover
    <3> QED BY <3>1, <1>4 DEF SliceOf
  <2>3. Found(c)'
    BY <1>4 DEF Found
  <2> QED BY <2>1, <2>2, <2>3
<1>8. Resolved(c)'
  <2> SUFFICES ASSUME pc'[c] = "resolved", Quiet(c)'
               PROVE  {h.account : h \in outs'[c]} = Showing(c)' \cap heads'
    BY DEF Resolved
  <2>1. order = <<>>
    BY <1>4
  <2>2. shown = {}
    BY <2>1, <1>3
  <2> QED BY <2>2, <1>4, <1>6
<1> QED BY <1>7, <1>8

\* A slice answers: its accounts are found, and those of no other waiting slice lost.
LEMMA FetchedQuiet ==
  ASSUME TypeOK, NEW c \in Callers, NEW i \in waiting[c], Fetched(c, i), Fetching(c)
  PROVE  Fetching(c)' /\ Resolved(c)'
<1> DEFINE new == {HeadAt(c, i, k) : k \in {j \in SliceOf(c, i) : writers[c][j] \in heads}}
<1>0. Quiet(c)' <=> Quiet(c)
  BY DEF Quiet, Fetched
<1> SUFFICES ASSUME Quiet(c) PROVE Fetching(c)' /\ Resolved(c)'
  BY <1>0 DEF Fetching, Resolved
<1>1. /\ outs'[c] = outs[c] \cup new /\ waiting'[c] = waiting[c] \ {i}
      /\ past' = past /\ heads' = heads /\ asked' = asked
  BY DEF Fetched, TypeOK, chain
<1>2. Derived(c) /\ Covered(c) /\ Found(c)
  BY DEF Fetched, Fetching
<1>3. \A k \in SliceOf(c, i) : writers[c][k] \in heads => \E h \in new : h.account = writers[c][k]
  <2> SUFFICES ASSUME NEW k \in SliceOf(c, i), writers[c][k] \in heads
               PROVE  \E h \in new : h.account = writers[c][k]
    OBVIOUS
  <2>1. HeadAt(c, i, k) \in new
    OBVIOUS
  <2>2. HeadAt(c, i, k).account = writers[c][k]
    BY DEF HeadAt
  <2> QED BY <2>1, <2>2
<1>4. \A h \in new : h.account \in heads /\ \E k \in DOMAIN writers[c] : h.account = writers[c][k]
  BY DEF HeadAt, SliceOf
<1>5. \A k \in DOMAIN writers[c] :
        writers[c][k] \in heads =>
          \/ \E h \in outs'[c] : h.account = writers[c][k]
          \/ \E j \in waiting'[c] : k \in SliceOf(c, j)
  BY <1>1, <1>2, <1>3 DEF Covered
<1>6. \A h \in outs'[c] : h.account \in heads /\ \E k \in DOMAIN writers[c] : h.account = writers[c][k]
  BY <1>1, <1>2, <1>4 DEF Found
<1> HIDE DEF new
<1>7. Showing(c)' = Showing(c)
  BY <1>1, ShowingKept
<1>8. CASE waiting[c] # {i}
  <2>1. writers' = writers /\ pc' = pc /\ pc[c] = "fetching"
    BY <1>8 DEF Fetched
  <2>2. Derived(c)'
    BY <1>2, <1>7, <2>1 DEF Derived
  <2>3. Covered(c)'
    BY <1>1, <1>5, <2>1 DEF Covered, SliceOf
  <2>4. Found(c)'
    BY <1>1, <1>6, <2>1 DEF Found
  <2>5. pc'[c] # "resolved"
    BY <2>1
  <2> QED BY <2>2, <2>3, <2>4, <2>5 DEF Fetching, Resolved
<1>9. CASE waiting[c] = {i}
  <2>1. pc'[c] = "resolved" /\ waiting'[c] = {}
    BY <1>1, <1>9 DEF Fetched, TypeOK
  <2>2. {h.account : h \in outs'[c]} = {writers[c][k] : k \in DOMAIN writers[c]} \cap heads
    BY <1>5, <1>6, <2>1
  <2>3. Showing(c)' \cap heads' = {writers[c][k] : k \in DOMAIN writers[c]} \cap heads
    BY <1>1, <1>2, <1>7 DEF Derived
  <2>4. pc'[c] # "fetching" /\ {h.account : h \in outs'[c]} = Showing(c)' \cap heads'
    BY <2>1, <2>2, <2>3
  <2> QED BY <2>4 DEF Fetching, Resolved
<1> QED BY <1>8, <1>9

LEMMA NextQuiet ==
  ASSUME TypeOK, QuietInv, [Next]_vars
  PROVE  QuietInv'
<1> SUFFICES ASSUME NEW d \in Callers PROVE Fetching(d)' /\ Resolved(d)'
  BY DEF QuietInv
<1>0. Fetching(d) /\ Resolved(d)
  BY DEF QuietInv
<1>1. ASSUME NEW c \in Callers, NEW cacheOverChain \in BOOLEAN, getAllMetadata(c, cacheOverChain)
      PROVE  Fetching(d)' /\ Resolved(d)'
  <2>1. CASE d = c
    <3>1. pc'[d] \notin {"fetching", "resolved"}
      BY <1>1, <2>1 DEF getAllMetadata, TypeOK
    <3> QED BY <3>1 DEF Fetching, Resolved
  <2>2. CASE d # c
    <3>1. Untouched(d)
      BY <1>1, <2>2 DEF getAllMetadata, Untouched, TypeOK, Quiet, chain
    <3> QED BY <3>1, <1>0, UntouchedKept
  <2> QED BY <2>1, <2>2
<1>2. ASSUME NEW c \in Callers, NEW showInvisible \in BOOLEAN, NEW forced \in BOOLEAN,
             getHeadsForNFT(c, showInvisible, forced)
      PROVE  Fetching(d)' /\ Resolved(d)'
  <2>1. CASE d = c
    BY <1>2, <2>1, BegunQuiet
  <2>2. CASE d # c
    <3>1. Untouched(d)
      BY <1>2, <2>2 DEF getHeadsForNFT, Untouched, TypeOK, Quiet, chain
    <3> QED BY <3>1, <1>0, UntouchedKept
  <2> QED BY <2>1, <2>2
<1>3. ASSUME NEW c \in Callers, NEW i \in waiting[c], Fetched(c, i) PROVE Fetching(d)' /\ Resolved(d)'
  <2>1. CASE d = c
    BY <1>0, <1>3, <2>1, FetchedQuiet
  <2>2. CASE d # c
    <3>1. Untouched(d)
      BY <1>3, <2>2 DEF Fetched, Untouched, TypeOK, Quiet, chain
    <3> QED BY <3>1, <1>0, UntouchedKept
  <2> QED BY <2>1, <2>2
<1>4. ASSUME NEW c \in Callers, FetchFails(c) PROVE Fetching(d)' /\ Resolved(d)'
  <2>1. CASE d = c
    <3>1. pc'[d] = "rejected"
      BY <1>4, <2>1 DEF FetchFails, TypeOK
    <3> QED BY <3>1 DEF Fetching, Resolved
  <2>2. CASE d # c
    <3>1. Untouched(d)
      BY <1>4, <2>2 DEF FetchFails, Untouched, TypeOK, Quiet, chain
    <3> QED BY <3>1, <1>0, UntouchedKept
  <2> QED BY <2>1, <2>2
<1>5. ASSUME NEW i \in DOMAIN requests, Refresh(i) \/ RefreshFails(i) PROVE Fetching(d)' /\ Resolved(d)'
  <2>1. pc'[d] = pc[d] \/ pc'[d] \notin {"fetching", "resolved"}
    BY <1>5 DEF Refresh, RefreshFails, End, TypeOK
  <2>2. Untouched(d)
    BY <1>5, <2>1 DEF Refresh, RefreshFails, Untouched, Quiet, chain
  <2> QED BY <2>2, <1>0, UntouchedKept
<1>6. ASSUME NEW w \in Writers, NEW visible \in BOOLEAN, CreateHead(w) \/ ChangeMetadata(w, visible)
      PROVE  Fetching(d)' /\ Resolved(d)'
  <2>1. asked[d] \in Asked /\ asked'[d] = [asked[d] EXCEPT !.still = FALSE]
    BY <1>6 DEF CreateHead, ChangeMetadata, Changed, TypeOK, Asked
  <2>2. ~Quiet(d)'
    BY <2>1 DEF Quiet, Asked
  <2> QED BY <2>2 DEF Fetching, Resolved
<1>7. CASE Tick \/ UNCHANGED vars \/ \E i \in DOMAIN requests : Read(i)
  <2>1. Untouched(d)
    BY <1>7 DEF Tick, Read, vars, chain, calls, Untouched, Quiet
  <2> QED BY <2>1, <1>0, UntouchedKept
<1>8. ASSUME NEW c \in Callers, getHead(c) \/ \E w \in Writers, allowCached \in BOOLEAN : getMetadata(c, w, allowCached)
      PROVE  Fetching(d)' /\ Resolved(d)'
  <2>0. PICK to \in {"resolved", "rejected"}, answer \in SUBSET FoundHead : Answered(c, to, answer)
    BY <1>8, SingleAnswers
  <2>1. CASE d = c
    <3>1. asked'[d] = NotAsked /\ pc'[d] # "fetching"
      BY <2>0, <2>1 DEF Answered, TypeOK
    <3>2. ~Quiet(d)'
      BY <3>1 DEF Quiet, NotAsked
    <3> QED BY <3>1, <3>2 DEF Fetching, Resolved
  <2>2. CASE d # c
    <3>1. Untouched(d)
      BY <2>0, <2>2 DEF Answered, Untouched, TypeOK, Quiet, chain
    <3> QED BY <3>1, <1>0, UntouchedKept
  <2> QED BY <2>1, <2>2
<1> QED BY <1>1, <1>2, <1>3, <1>4, <1>5, <1>6, <1>7, <1>8 DEF Next

\* A call over a current cache, while the chain stays as it is, returns the heads
\* of the NFT that are to be shown and no others, however they fall into slices
\* and whatever refreshes end meanwhile.
THEOREM QuietCallsAlwaysComplete == Spec => []QuietCallsComplete
<1>1. Init => QuietInv
  BY DEF Init, QuietInv, Fetching, Resolved
<1>2. TypeOK /\ QuietInv /\ [Next]_vars => QuietInv'
  BY NextQuiet
<1>3. QuietInv => QuietCallsComplete
  BY DEF QuietInv, Resolved, Quiet, QuietCallsComplete, Connected, Showing
<1> QED BY <1>1, <1>2, <1>3, TypeCorrect, PTL DEF Spec

\* What the run forced shows of one call is so of every call over an empty cache,
\* which the first one is: told to refresh or not, it starts the refresh and
\* ends at once without a head (common/index.ts:231-246).
THEOREM ColdCallsFindNothing ==
  Spec => [][\A c \in Callers, showInvisible, forced \in BOOLEAN :
               metadata = Nothing /\ getHeadsForNFT(c, showInvisible, forced)
                 => pc'[c] = "resolved" /\ outs'[c] = {}]_vars
<1>1. ASSUME TypeOK, NEW c \in Callers, NEW showInvisible \in BOOLEAN, NEW forced \in BOOLEAN,
             metadata = Nothing, getHeadsForNFT(c, showInvisible, forced)
      PROVE  pc'[c] = "resolved" /\ outs'[c] = {}
  <2>1. Shown(metadata, showInvisible) = {}
    BY <1>1 DEF Shown, Nothing
  <2>2. PICK order \in SetToSeqs({}) :
          pc' = [pc EXCEPT ![c] = IF order = <<>> THEN "resolved" ELSE "fetching"]
    BY <1>1, <2>1 DEF getHeadsForNFT
  <2>3. order \in Seq(Writers) /\ Len(order) = 0
    BY OrderType, FS_EmptySet
  <2>4. order = <<>>
    BY <2>3
  <2> QED
    BY <1>1, <2>2, <2>4 DEF getHeadsForNFT, TypeOK
<1>2. TypeOK /\ [Next]_vars =>
        [\A c \in Callers, showInvisible, forced \in BOOLEAN :
           metadata = Nothing /\ getHeadsForNFT(c, showInvisible, forced)
             => pc'[c] = "resolved" /\ outs'[c] = {}]_vars
  BY <1>1
<1> QED
  BY <1>2, TypeCorrect, PTL DEF Spec
=============================================================================
