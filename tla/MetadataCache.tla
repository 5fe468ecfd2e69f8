---------------------------- MODULE MetadataCache ----------------------------
(***************************************************************************)
(* The cache of writers' metadata, and the lookup of an NFT's heads that   *)
(* is built on it (api/src/common/index.ts), without a CDN.  The cache is  *)
(* one object of the API; any number of calls read it and replace it, each *)
(* when the answer it awaits arrives, in whatever order answers arrive.    *)
(*                                                                         *)
(* getAllMetadata asks for every account of a writer that a filter on the  *)
(* account's bytes lets through.  getHeadsForNFT starts a refresh when it  *)
(* thinks one is due and does not await it; it derives one address per     *)
(* cached writer, and fetches the accounts in slices, each on its own.     *)
(*                                                                         *)
(* Heads are those of one mint; a head stands for its writer's account.    *)
(*                                                                         *)
(* F_Suffix, just before F, is F with one plausible mistake, as in         *)
(* SolstoryProgram.                                                        *)
(***************************************************************************)
EXTENDS Integers, Sequences, FiniteSets, SequencesExt

CONSTANTS
  Writers,       \* the writers
  Matching,      \* ... those whose account the filter lets through (all, if
                 \* includeNonValidatedWriters)
  Callers,       \* the callers of the API
  Initial,       \* the metadata accounts there may be at the start
  SLICE,         \* how many accounts are fetched at once, 100
  CACHE_TIMEOUT, \* cacheTimeout
  MAX_TIME,      \* bound: the last moment of the clock
  MAX_REQUESTS,  \* bound: how often getAllMetadata is called
  MAX_CHANGES,   \* bound: how often metadata on the chain changes
  NoMetadata,    \* no account on the chain, or undefined in the cache
  Nobody         \* awaits a request whose promise was dropped

Metadata == [writerKey : Writers, visible : BOOLEAN]
Metadatas == {f \in [Writers -> Metadata \cup {NoMetadata}] :
                \A w \in Writers : f[w] # NoMetadata => f[w].writerKey = w}

ASSUME CacheAssumption ==
  /\ Initial \subseteq Metadatas /\ Matching \subseteq Writers /\ IsFiniteSet(Writers)
  /\ SLICE \in Nat \ {0}
  /\ CACHE_TIMEOUT \in Nat /\ MAX_TIME \in Nat /\ CACHE_TIMEOUT < MAX_TIME
  /\ MAX_REQUESTS \in Nat /\ MAX_CHANGES \in Nat
  /\ Nobody \notin Callers /\ NoMetadata \notin Metadata

Nothing == [w \in Writers |-> NoMetadata]

VARIABLES
  past,      \* chain: the metadata accounts, at each of their changes
  heads,     \* chain: the writers that have a head for the mint
  now,       \* Date.now()
  metadata,  \* metadataCache.metadata
  lastAll,   \* metadataCache.lastAll
  requests,  \* the calls of getAllMetadata that went to the chain
  pc,        \* by caller: where its call is, or how getHeadsForNFT ended
  writers,   \* by caller: the writers whose addresses it derived, in order
  waiting,   \* by caller: the first indexes of the slices not answered yet
  outs,      \* by caller: the heads found so far, or what getMetadata gave
  asked      \* history, by caller: what its call of getHeadsForNFT was asked,
             \* if it began with a current cache, and if the chain is as it was then

chain == <<past, heads>>
cache == <<metadata, lastAll>>
calls == <<pc, writers, waiting, outs>>
vars == <<chain, now, cache, requests, calls, asked>>

OnChain == past[Len(past)]
Filtered(accounts) == [w \in Writers |-> IF w \in Matching THEN accounts[w] ELSE NoMetadata]

NotAsked == [showInvisible |-> FALSE, forced |-> FALSE, current |-> FALSE, still |-> FALSE]

Init ==
  /\ past \in {<<f>> : f \in Initial}
  /\ heads \in SUBSET Writers
  /\ now = CACHE_TIMEOUT + 1
  /\ metadata = Nothing
  /\ lastAll = 0
  /\ requests = <<>>
  /\ pc = [c \in Callers |-> "idle"]
  /\ writers = [c \in Callers |-> <<>>]
  /\ waiting = [c \in Callers |-> {}]
  /\ outs = [c \in Callers |-> {}]
  /\ asked = [c \in Callers |-> NotAsked]

Busy(c) == pc[c] \in {"refreshing", "fetching"}

\* The same comparison decides that the cache may be used (l.142) and that it
\* must be refreshed (l.231).
Expired == now - CACHE_TIMEOUT > lastAll

Send(by) ==
  /\ Len(requests) < MAX_REQUESTS
  /\ requests' = Append(requests, [by |-> by, state |-> "sent", answer |-> Nothing])

(***************************************************************************)
(* getAllMetadata.                                                         *)
(***************************************************************************)
getAllMetadata(c, cacheOverChain) ==
  /\ ~Busy(c)
  /\ IF cacheOverChain /\ Expired
     THEN pc' = [pc EXCEPT ![c] = "idle"] /\ UNCHANGED requests
     ELSE pc' = [pc EXCEPT ![c] = "refreshing"] /\ Send(c)
  /\ outs' = [outs EXCEPT ![c] = {}]
  /\ asked' = [asked EXCEPT ![c] = NotAsked]
  /\ UNCHANGED <<chain, now, cache, writers, waiting>>

\* The node reads the accounts, some time before its answer arrives.
Read(i) ==
  /\ requests[i].state = "sent"
  /\ requests' = [requests EXCEPT ![i].state = "read", ![i].answer = Filtered(OnChain)]
  /\ UNCHANGED <<chain, now, cache, calls, asked>>

\* The cache after an answer: cleaned of old metadata, then filled.
Refill_Uncleaned(answer) ==
  [w \in Writers |-> IF answer[w] = NoMetadata THEN metadata[w] ELSE answer[w]]
Refill(answer) == [w \in Writers |-> answer[w]]

\* A request ends, its answer is forgotten, and its caller goes on, if it has one.
End(i, to) ==
  /\ requests' = [requests EXCEPT ![i] = [by |-> Nobody, state |-> "ended", answer |-> Nothing]]
  /\ pc' = IF requests[i].by = Nobody THEN pc ELSE [pc EXCEPT ![requests[i].by] = to]

Refresh(i) ==
  /\ requests[i].state = "read"
  /\ metadata' = Refill(requests[i].answer)
  /\ lastAll' = now
  /\ End(i, "idle")
  /\ UNCHANGED <<chain, now, writers, waiting, outs, asked>>

RefreshFails(i) ==
  /\ requests[i].state \in {"sent", "read"}
  /\ End(i, "rejected")
  /\ UNCHANGED <<chain, now, cache, writers, waiting, outs, asked>>

(***************************************************************************)
(* getMetadata and getHead, of one writer.  Past the cache, both ask       *)
(* program.account for WriterMetadata or WriterHead, where Anchor has      *)
(* writerMetadata and writerHead, so that they are rejected.               *)
(***************************************************************************)
\* What the cache holds for a writer goes out with the writer's own key.
FromCache(w) == {[account |-> w, metadata |-> metadata[w], writerKey |-> w]}

Answered(c, to, answer) ==
  /\ ~Busy(c)
  /\ pc' = [pc EXCEPT ![c] = to]
  /\ outs' = [outs EXCEPT ![c] = answer]
  /\ asked' = [asked EXCEPT ![c] = NotAsked]
  /\ UNCHANGED <<chain, now, cache, requests, writers, waiting>>

getMetadata(c, w, allowCached) ==
  IF allowCached /\ metadata[w] # NoMetadata /\ Expired
  THEN Answered(c, "resolved", FromCache(w))
  ELSE Answered(c, "rejected", {})

getHead(c) == Answered(c, "rejected", {})

(***************************************************************************)
(* getHeadsForNFT.                                                         *)
(***************************************************************************)
\* Whose addresses are derived: the cached writers that show themselves.
Shown(accounts, showInvisible) ==
  {w \in Writers : accounts[w] # NoMetadata /\ (showInvisible \/ accounts[w].visible)}

\* The first index of each slice of n addresses.
Starts_Beyond(n) == {i \in 1 .. n + 1 : (i - 1) % SLICE = 0}
Starts(n) == {i \in 1 .. n : (i - 1) % SLICE = 0}

\* The refresh is started, not awaited: the rest works on the cache as it is.
getHeadsForNFT(c, showInvisible, forced) ==
  /\ ~Busy(c)
  /\ IF forced \/ Expired THEN Send(Nobody) ELSE UNCHANGED requests
  /\ \E order \in SetToSeqs(Shown(metadata, showInvisible)) :
       /\ writers' = [writers EXCEPT ![c] = order]
       /\ waiting' = [waiting EXCEPT ![c] = Starts(Len(order))]
       /\ pc' = [pc EXCEPT ![c] = IF order = <<>> THEN "resolved" ELSE "fetching"]
  /\ outs' = [outs EXCEPT ![c] = {}]
  /\ asked' = [asked EXCEPT ![c] = [showInvisible |-> showInvisible, forced |-> forced,
                                    current |-> metadata = Filtered(OnChain), still |-> TRUE]]
  /\ UNCHANGED <<chain, now, cache>>

\* objectsSlice: the indexes of the slice that begins at i.
SliceOf_Short(c, i) == {k \in DOMAIN writers[c] : i <= k /\ k < i + SLICE - 1}
SliceOf(c, i) == {k \in DOMAIN writers[c] : i <= k /\ k < i + SLICE}

\* The metadata that goes with the account at index k, read from the cache only
\* now.  An account that does not exist has an index all the same.
MetadataAt_Dense(c, i, k) ==
  metadata[writers[c][i + Cardinality({j \in i .. k - 1 : writers[c][j] \in heads})]]
MetadataAt(c, i, k) == metadata[writers[c][k]]

\* A head as it is returned.  Its writerKey is that of the slice's first address.
HeadAt(c, i, k) ==
  [account |-> writers[c][k], metadata |-> MetadataAt(c, i, k), writerKey |-> writers[c][i]]

Fetched(c, i) ==
  /\ pc[c] = "fetching" /\ i \in waiting[c]
  /\ outs' = [outs EXCEPT ![c] =
       @ \cup {HeadAt(c, i, k) : k \in {j \in SliceOf(c, i) : writers[c][j] \in heads}}]
  /\ waiting' = [waiting EXCEPT ![c] = @ \ {i}]
  /\ IF waiting[c] = {i}
     THEN pc' = [pc EXCEPT ![c] = "resolved"] /\ writers' = [writers EXCEPT ![c] = <<>>]
     ELSE UNCHANGED <<pc, writers>>
  /\ UNCHANGED <<chain, now, cache, requests, asked>>

\* One slice that fails rejects the call.
FetchFails(c) ==
  /\ pc[c] = "fetching"
  /\ pc' = [pc EXCEPT ![c] = "rejected"]
  /\ waiting' = [waiting EXCEPT ![c] = {}]
  /\ outs' = [outs EXCEPT ![c] = {}]
  /\ writers' = [writers EXCEPT ![c] = <<>>]
  /\ asked' = [asked EXCEPT ![c] = NotAsked]
  /\ UNCHANGED <<chain, now, cache, requests>>

(***************************************************************************)
(* The chain and the clock.                                                *)
(***************************************************************************)
Changed == asked' = [c \in Callers |-> [asked[c] EXCEPT !.still = FALSE]]

\* A writer creates its metadata or deletes it (SolstoryProgram); to change it is
\* to do one after the other.
ChangeMetadata(w, visible) ==
  /\ Len(past) <= MAX_CHANGES
  /\ past' = Append(past, [OnChain EXCEPT ![w] =
               IF @ = NoMetadata THEN [writerKey |-> w, visible |-> visible] ELSE NoMetadata])
  /\ Changed
  /\ UNCHANGED <<heads, now, cache, requests, calls>>

CreateHead(w) ==
  /\ w \notin heads /\ heads' = heads \cup {w}
  /\ Changed
  /\ UNCHANGED <<past, now, cache, requests, calls>>

Tick ==
  /\ now < MAX_TIME /\ now' = now + 1
  /\ UNCHANGED <<chain, cache, requests, calls, asked>>

Next ==
  \/ \E c \in Callers :
       \/ \E cacheOverChain \in BOOLEAN : getAllMetadata(c, cacheOverChain)
       \/ \E w \in Writers, allowCached \in BOOLEAN : getMetadata(c, w, allowCached)
       \/ getHead(c)
       \/ \E showInvisible, forced \in BOOLEAN : getHeadsForNFT(c, showInvisible, forced)
       \/ \E i \in waiting[c] : Fetched(c, i)
       \/ FetchFails(c)
  \/ \E i \in DOMAIN requests : Read(i) \/ Refresh(i) \/ RefreshFails(i)
  \/ \E w \in Writers : CreateHead(w) \/ \E visible \in BOOLEAN : ChangeMetadata(w, visible)
  \/ Tick

Spec == Init /\ [][Next]_vars

(***************************************************************************)
(* Properties.                                                             *)
(***************************************************************************)
FoundHead == [account : Writers, metadata : Metadata \cup {NoMetadata}, writerKey : Writers]

TypeOK ==
  /\ past \in Seq(Metadatas) /\ past # <<>>
  /\ heads \subseteq Writers
  /\ now \in 0 .. MAX_TIME /\ lastAll \in 0 .. MAX_TIME
  /\ metadata \in Metadatas
  /\ requests \in Seq([by : Callers \cup {Nobody}, state : {"sent", "read", "ended"},
                       answer : Metadatas])
  /\ pc \in [Callers -> {"idle", "refreshing", "fetching", "resolved", "rejected"}]
  /\ writers \in [Callers -> Seq(Writers)]
  /\ waiting \in [Callers -> SUBSET Nat]
  /\ \A c \in Callers : waiting[c] \subseteq DOMAIN writers[c]
  /\ outs \in [Callers -> SUBSET FoundHead]
  /\ asked \in [Callers -> [showInvisible : BOOLEAN, forced : BOOLEAN, current : BOOLEAN, still : BOOLEAN]]

\* However answers to overlapping calls arrive, the cache is what the chain held
\* at one moment, all the filter lets through of it: never a mixture of two
\* answers (common/index.ts:161-171).
CacheIsSnapshot ==
  metadata = Nothing \/ \E i \in DOMAIN past : metadata = Filtered(past[i])

\* A head is returned with the metadata of the writer whose head it is, or with
\* none: slices, absent accounts and a cache replaced before the answer do not
\* shift the two against each other (common/index.ts:264-272); and the metadata
\* got for a writer is the writer's own (common/index.ts:95-98).
HeadsPaired ==
  \A c \in Callers : \A h \in outs[c] :
    h.metadata # NoMetadata => h.metadata.writerKey = h.account

Connected(showInvisible) == Shown(Filtered(OnChain), showInvisible) \cap heads

\* A call that began with a current cache, and during which the chain did not
\* change, returns every head of the NFT that is to be shown and no other, also
\* when refreshes asked for earlier replace the cache meanwhile.
QuietCallsComplete ==
  \A c \in Callers :
    pc[c] = "resolved" /\ asked[c].current /\ asked[c].still =>
      {h.account : h \in outs[c]} = Connected(asked[c].showInvisible)

\* common/index.ts:206: getHeadsForNFT "will retrieve all metadatas, then find
\* all the ones that have a connection with the given NFT": a call that was told
\* to refresh first returns them all, if the chain did not change meanwhile.
ForcedCallsComplete ==
  \A c \in Callers :
    pc[c] = "resolved" /\ asked[c].forced /\ asked[c].still =>
      {h.account : h \in outs[c]} = Connected(asked[c].showInvisible)
=============================================================================
