---------------------------- MODULE StoryLoader ----------------------------
(***************************************************************************)
(* A reader loads a story from its head (api/src/common/index.ts): the     *)
(* newest item first, then back along the links, each item checked against *)
(* the hash the one before it committed to.  Storage answers with what was *)
(* uploaded or with something else; calls may overlap, since every fetch   *)
(* is awaited and the SolstoryStory they extend is one shared object.      *)
(*                                                                         *)
(* The story grows to LENGTH items, numbered in the order of appending, and *)
(* is loaded from the head it had at some time; verifyStory checks what is *)
(* loaded against a head read later, which may be newer or, out of a cache, *)
(* older.                                                                  *)
(*                                                                         *)
(* Number k also stands for the digest of the list up to item k, and for   *)
(* the id item k was stored under; 0 is the zero hash and the zero id.     *)
(* SHA-256 free of collisions, the one triple of timestamp, itemHash and   *)
(* nextHash whose digest is k is that of item k; a validated part that     *)
(* hashes to none of them is Forged, and so is one whose itemRaw does not  *)
(* hash to its itemHash, which verifyItem refuses alike.  (How much of the *)
(* text itemHash commits to is another matter: see the README.)            *)
(*                                                                         *)
(* F_Suffix, just before F, is F with one plausible mistake, as in         *)
(* SolstoryProgram.                                                        *)
(***************************************************************************)
EXTENDS Conversions

CONSTANTS
  LENGTH,      \* how many items the story ever has
  Heads,       \* the heads verifyStory may be answered with: none without a
               \* global CDN, as getHead then fails (common/index.ts:200)
  Callers,     \* who calls getStoryFromHead, then getAdditionalItems
  Counts,      \* what they pass as initialItems and numItems
  MAX_CALLS,   \* bound: how often they call in all
  MAX_ALTERED, \* bound: how many answers differ from what was uploaded
  Forged       \* the digest of a validated part that is no item of the story

ASSUME StoryAssumption ==
  /\ LENGTH \in Nat /\ MAX_CALLS \in Nat /\ MAX_ALTERED \in Nat
  /\ Counts \subseteq Nat /\ Heads \subseteq 0 .. LENGTH
  /\ Forged \notin Int

Ids == 0 .. LENGTH

\* What storage can answer: digest is that of the validated part, nextHash the
\* hash this part names, next the id beside it, which nothing validates.
Containers ==
  {c \in [digest : (1 .. LENGTH) \cup {Forged}, nextHash : Ids, next : Ids] :
     c.digest # Forged => c.nextHash = c.digest - 1}
Uploaded(k) == [digest |-> k, nextHash |-> k - 1, next |-> k - 1]

VARIABLES
  headHash,   \* story.headHash
  items,      \* story.items
  next,       \* story.next.objId
  loading,    \* story.loading
  pc,         \* by caller: where its call is
  numItems,   \* by caller: the argument of the running getAdditionalItems
  fetching,   \* by caller: the id the retriever was called with
  count,      \* how many calls were made
  ended,      \* how the last call that has ended did
  asked,      \* history: by caller, how many items its last call asked for
  got,        \* history: by caller, how many items its last call has added
  marked,     \* history: the head the marks were last checked against
  overlapped, \* history: two calls were under way at once
  altered     \* history: how often storage answered with what was not uploaded

story == <<headHash, items, next, loading>>
call == <<pc, numItems, fetching>>
history == <<asked, got, marked, overlapped, altered>>
vars == <<story, call, count, ended, history>>

\* The story getStoryFromHead makes of the head of item h.
StoryFromHead(h) ==
  headHash = h /\ items = <<>> /\ next = h /\ loading = TRUE

Init ==
  /\ \E h \in Ids : StoryFromHead(h)
  /\ pc = [c \in Callers |-> "idle"]
  /\ numItems = [c \in Callers |-> 0]
  /\ fetching = [c \in Callers |-> 0]
  /\ count = 0
  /\ ended = "none"
  /\ asked = [c \in Callers |-> 0]
  /\ got = [c \in Callers |-> 0]
  /\ marked = headHash
  /\ overlapped = FALSE
  /\ altered = 0

\* The story is handed out when the first call, that of getStoryFromHead, resolves.
HandedOut == ended = "resolved" \/ count > 1

\* A call ends with how, and with the items got so far.
End(c, how) ==
  /\ pc' = [pc EXCEPT ![c] = how]
  /\ ended' = how
  /\ UNCHANGED <<numItems, fetching>>

\* getAdditionalItems until its first await: at the end of the list the promise
\* is resolved at once, otherwise the next item is asked for.
Enter(c, from, n) ==
  IF from = 0 THEN loading' = FALSE /\ End(c, "resolved")
  ELSE /\ loading' = TRUE
       /\ pc' = [pc EXCEPT ![c] = "awaiting"]
       /\ numItems' = [numItems EXCEPT ![c] = n]
       /\ fetching' = [fetching EXCEPT ![c] = from]
       /\ UNCHANGED ended

Load(c, n) ==
  /\ pc[c] # "awaiting" /\ count < MAX_CALLS /\ (count = 0 \/ HandedOut)
  /\ Enter(c, next, n)
  /\ count' = count + 1
  /\ asked' = [asked EXCEPT ![c] = IF n = 0 THEN 1 ELSE n]
  /\ got' = [got EXCEPT ![c] = 0]
  /\ overlapped' = (overlapped \/ (next # 0 /\ \E other \in Callers : pc[other] = "awaiting"))
  /\ UNCHANGED <<headHash, items, next, marked, altered>>

\* The hash item i is checked against, in a list whose head is h: h, or the one
\* that the item before it names.
HashOf_Head(h, i) == h
HashOf(h, i) == IF i = 1 THEN h ELSE items[i - 1].nextHash

\* verifyItem, and the verdict on the items before.
ValidationSuccess(container) ==
  /\ items # <<>> => items[Len(items)].validationSuccess
  /\ container.digest = HashOf(headHash, Len(items) + 1)

\* What is pushed; its objId is read from the story only now, after the await.
LoadedItem(container) ==
  [objId |-> next, digest |-> container.digest, nextHash |-> container.nextHash,
   next |-> container.next, validationSuccess |-> ValidationSuccess(container)]

\* Whether getAdditionalItems calls itself.
GoesOn_Uncounted(c, container) == container.next # 0
GoesOn(c, container) == numItems[c] > 1 /\ container.next # 0

\* The call that added what it was asked for resolves.
Done_Loading(c) == End(c, "resolved") /\ UNCHANGED loading
Done(c) == End(c, "resolved") /\ loading' = FALSE

\* The retriever answers: the item is pushed, and either the next one asked for
\* in the same step, or the promise resolved.
Receive(c, container) ==
  /\ pc[c] = "awaiting"
  /\ items' = Append(items, LoadedItem(container))
  /\ next' = container.next
  /\ IF GoesOn(c, container) THEN Enter(c, container.next, numItems[c] - 1) ELSE Done(c)
  /\ got' = [got EXCEPT ![c] = @ + 1]
  /\ altered' = altered + IF container = Uploaded(fetching[c]) THEN 0 ELSE 1
  /\ altered' <= MAX_ALTERED
  /\ UNCHANGED <<headHash, count, asked, marked, overlapped>>

\* The request fails, what it returned does not parse, or the access type is the
\* one not implemented (fetchPda): the promise is rejected.  Or the type has no
\* retriever, and the call throws.  story.loading stays as it is.
Fail(c) ==
  /\ pc[c] = "awaiting"
  /\ End(c, "rejected")
  /\ UNCHANGED <<story, count, history>>

\* verifyStory from the await of getHead on: the head is h, and all marks are set
\* anew in one step.  Before the await nothing is written, so the call is not a
\* step; nor is a failing one.
Verified_Kept(h) ==
  [i \in DOMAIN items |->
     [items[i] EXCEPT !.validationSuccess = @ \/ items[i].digest = HashOf(h, i)]]
Verified(h) ==
  [i \in DOMAIN items |->
     [items[i] EXCEPT !.validationSuccess = \A j \in 1 .. i : items[j].digest = HashOf(h, j)]]

VerifyStory(h) ==
  /\ HandedOut
  /\ items' = Verified(h)
  /\ marked' = IF items = <<>> THEN marked ELSE h
  /\ UNCHANGED <<headHash, next, loading, call, count, ended, asked, got, overlapped, altered>>

Next ==
  \/ \E c \in Callers :
       \/ \E n \in Counts : Load(c, n)
       \/ \E container \in Containers : Receive(c, container)
       \/ Fail(c)
  \/ \E h \in Heads : VerifyStory(h)

Spec == Init /\ [][Next]_vars

(***************************************************************************)
(* The story object, as it is saved and restored.  Its metadata came from  *)
(* the chain, where the key hasExtendedMetadata is called metadataExtended *)
(* (programs/solstory.json), or from a CDN.                                *)
(***************************************************************************)
Metadata(fromCdn) ==
  [k \in IF fromCdn THEN MetadataKeys ELSE MetadataKeys \ {"hasExtendedMetadata"} |-> k]

AsContainer(item) ==
  LET inner == [type |-> "ITEM", data |-> item.digest]
  IN [hash |-> item.digest, apiVersion |-> 1,
      validated |-> [itemRaw |-> inner, item |-> inner, itemHash |-> inner,
                     nextHash |-> item.nextHash, timestamp |-> item.digest],
      next |-> [objId |-> [form |-> "bytes", id |-> item.next], accessType |-> "ardrive"],
      objId |-> item.objId, validationSuccess |-> item.validationSuccess]

\* Before an item is loaded, next is the head's, as it came from the chain.
AsStory(fromCdn) ==
  [metadata |-> Metadata(fromCdn), mintKey |-> "mint", headHash |-> headHash,
   items |-> [i \in DOMAIN items |-> AsContainer(items[i])],
   next |-> [objId |-> [form |-> IF items = <<>> THEN "array" ELSE "bytes", id |-> next],
             accessType |-> "ardrive"],
   loading |-> loading]

(***************************************************************************)
(* Properties.                                                             *)
(***************************************************************************)
Items ==
  [objId : Ids, digest : (1 .. LENGTH) \cup {Forged}, nextHash : Ids, next : Ids,
   validationSuccess : BOOLEAN]

TypeOK ==
  /\ headHash \in Ids /\ items \in Seq(Items) /\ next \in Ids /\ loading \in BOOLEAN
  /\ pc \in [Callers -> {"idle", "awaiting", "resolved", "rejected"}]
  /\ numItems \in [Callers -> Nat]
  /\ fetching \in [Callers -> Ids]
  /\ count \in 0 .. MAX_CALLS /\ ended \in {"none", "resolved", "rejected"}
  /\ asked \in [Callers -> Nat] /\ got \in [Callers -> Nat]
  /\ marked \in Ids /\ overlapped \in BOOLEAN /\ altered \in 0 .. MAX_ALTERED

\* The items marked as validated are the newest of the story as it was under one
\* head, without a gap: the head it is loaded from, or the one verifyStory read
\* last.  So it is whatever storage answers, however calls overlap, and wherever
\* between them a verification sets the marks anew (common/index.ts:403-406,
\* 454-466).
ValidatedItemsGenuine ==
  \A i \in DOMAIN items :
    items[i].validationSuccess => \A j \in 1 .. i : items[j].digest = marked - j + 1

\* As long as storage returns what was uploaded, items loaded by one call after
\* another are the story's, newest first, each under its own id, and marked as
\* tampered with only by a verification that read another head; failed calls in
\* between lose and repeat nothing.
SequentialLoadsFaithful ==
  ~overlapped /\ altered = 0 =>
    /\ next = headHash - Len(items)
    /\ \A i \in DOMAIN items :
         /\ items[i].objId = headHash - i + 1 /\ items[i].digest = headHash - i + 1
         /\ items[i].validationSuccess <=> marked = headHash

\* A call adds no more items than it was asked for (common/index.ts:420), also
\* when the links storage returns run in a circle, and when other calls move the
\* story on.  One that asks for none is not held to it: it loads one.
LoadedAsRequested == \A c \in Callers : got[c] <= asked[c]

\* story.loading tells whether a call is under way, unless two were at once or
\* the last one failed: nothing resets it then (common/index.ts:367, 422).
LoadingTellsTheTruth ==
  HandedOut /\ ~overlapped =>
    (loading <=> (\E c \in Callers : pc[c] = "awaiting") \/ ended = "rejected")

\* A story that is saved and restored has what the next load and the next
\* verification work with; it throws, rather than restore something else, when
\* an item was loaded or the metadata came from the chain (conversions.ts:117,
\* 155, 184-234).
RestoredOrRefused ==
  \A fromCdn \in BOOLEAN :
    LET saved == StoryToString(AsStory(fromCdn))  restored == StoryFromString(saved)
    IN /\ StoryParses(saved) <=> fromCdn /\ items = <<>>
       /\ StoryParses(saved) =>
            restored.headHash = headHash /\ restored.next.objId = [form |-> "bytes", id |-> next]

\* types.ts:130: a validationSuccess "set to false suggests tampering".
FalseOnlyIfAltered ==
  altered = 0 => \A i \in DOMAIN items : items[i].validationSuccess
=============================================================================
