-------------------------- MODULE ConversionsProofs --------------------------
(***************************************************************************)
(* What writing an object as JSON and reading it back gives, for objects   *)
(* with any keys and values.                                               *)
(***************************************************************************)
EXTENDS Conversions, TLAPS

\* A container is read back if and only if its link to the item before it is as
\* the chain or a text gives it, and not the bytes (or what JSON makes of them) of
\* one that was read already.  Then everything written survives: its hash, version,
\* validated part with the timestamp, the item, and the link, now as bytes.
THEOREM ContainerRoundTrip ==
  ASSUME NEW container,
         HasKeys(container, {"validated", "hash", "apiVersion", "next"}),
         HasKeys(container.validated, ValidatedKeys),
         HasKeys(container.next, {"objId", "accessType"}),
         ItemInnerParses(container.validated.itemRaw),
         HasKeys(container.next.objId, {"form"}),
         container.next.objId.form \in IdForms
  PROVE  LET written == ContainerToString(container)
             back == ContainerFromString(written)
         IN /\ ContainerParses(written) <=> container.next.objId.form \in {"array", "base64"}
            /\ ContainerParses(written) =>
                 /\ back.hash = container.hash /\ back.apiVersion = container.apiVersion
                 /\ \A k \in ValidatedKeys : back.validated[k] = container.validated[k]
                 /\ back.validated.item = container.validated.itemRaw
                 /\ back.next =
                      [container.next EXCEPT !.objId =
                         [container.next.objId EXCEPT !.form = "bytes"]]
<1> DEFINE obj == ContainerToString(container)
           id == container.next.objId
           back == ContainerFromString(obj)
<1>1. /\ DOMAIN obj = DOMAIN container
      /\ obj.validated =
           [k \in DOMAIN container.validated \cap ValidatedKeys |-> container.validated[k]]
      /\ obj.hash = container.hash /\ obj.apiVersion = container.apiVersion
      /\ obj.next = [container.next EXCEPT !.objId = Json(id)]
  BY DEF ContainerToString, HasKeys
<1>2. DOMAIN obj.next = DOMAIN container.next /\ obj.next.objId = Json(id)
  BY <1>1 DEF HasKeys
<1>3. /\ HasKeys(obj.validated, ValidatedKeys)
      /\ \A k \in ValidatedKeys : obj.validated[k] = container.validated[k]
  BY <1>1 DEF HasKeys
<1>4. "itemRaw" \in ValidatedKeys /\ obj.validated.itemRaw = container.validated.itemRaw
  BY <1>3 DEF ValidatedKeys
<1>5. ContainerParses(obj) <=> IsBufferSource(Json(id))
  BY <1>1, <1>2, <1>3, <1>4 DEF ContainerParses, HasKeys
<1>6. IsBufferSource(Json(id)) <=> id.form \in {"array", "base64"}
  <2>1. CASE id.form = "bytes"
    BY <2>1 DEF Json, IsBufferSource, HasKeys
  <2>2. CASE id.form # "bytes"
    BY <2>2 DEF Json, IsBufferSource, IdForms
  <2> QED BY <2>1, <2>2
<1>7. ASSUME id.form \in {"array", "base64"}
      PROVE  back.next = [container.next EXCEPT !.objId = [id EXCEPT !.form = "bytes"]]
  <2>1. Json(id) = id
    BY <1>7 DEF Json
  <2>2. back.next = [obj.next EXCEPT !.objId = ToBytes(obj.next.objId)]
    BY DEF ContainerFromString
  <2>3. back.next = [obj.next EXCEPT !.objId = ToBytes(id)]
    BY <1>2, <2>1, <2>2
  <2>4. [obj.next EXCEPT !.objId = ToBytes(id)] = [container.next EXCEPT !.objId = ToBytes(id)]
    BY <1>1 DEF HasKeys
  <2> QED BY <2>3, <2>4 DEF ToBytes
<1>8. /\ back.hash = container.hash /\ back.apiVersion = container.apiVersion
      /\ back.validated.item = container.validated.itemRaw
  BY <1>1, <1>4 DEF ContainerFromString
<1>9. \A k \in ValidatedKeys : back.validated[k] = container.validated[k]
  BY <1>3 DEF ContainerFromString, ValidatedKeys
<1> QED BY <1>5, <1>6, <1>7, <1>8, <1>9

\* A container that was read once, so that its link is bytes, is not read back:
\* JSON makes a plain object of the bytes.
LEMMA ReadContainerRefused ==
  ASSUME NEW container, HasKeys(container, {"next"}), HasKeys(container.next, {"objId"}),
         HasKeys(container.next.objId, {"form"}),
         container.next.objId.form = "bytes"
  PROVE  ~ContainerParses(ContainerToString(container))
<1> DEFINE obj == ContainerToString(container)
<1>1. obj.next = [container.next EXCEPT !.objId = Json(@)]
  BY DEF ContainerToString, HasKeys
<1>2. obj.next.objId = Json(container.next.objId)
  BY <1>1 DEF HasKeys
<1>3. obj.next.objId.form = "object"
  BY <1>2 DEF Json, HasKeys
<1> QED BY <1>3 DEF ContainerParses, IsBufferSource

\* A story with an item that was loaded cannot be restored from what was saved.
THEOREM LoadedStoryRefused ==
  ASSUME NEW story, NEW i \in DOMAIN story.items,
         HasKeys(story.items[i], {"next"}), HasKeys(story.items[i].next, {"objId"}),
         HasKeys(story.items[i].next.objId, {"form"}),
         story.items[i].next.objId.form = "bytes"
  PROVE  ~StoryParses(StoryToString(story))
<1> DEFINE obj == StoryToString(story)
<1>1. i \in DOMAIN obj.items /\ obj.items[i] = ContainerToString(story.items[i])
  BY DEF StoryToString
<1>2. ~ContainerParses(obj.items[i])
  BY <1>1, ReadContainerRefused
<1> QED BY <1>1, <1>2 DEF StoryParses

\* One without items is, when its metadata has every key, with the hash and the
\* id that loading starts from.
THEOREM UnloadedStoryRestored ==
  ASSUME NEW story, DOMAIN story.items = {}, MetadataParses(story.metadata),
         HasKeys(story.next, {"objId", "accessType"}),
         HasKeys(story.next.objId, {"form", "id"})
  PROVE  /\ StoryParses(StoryToString(story))
         /\ LET back == StoryFromString(StoryToString(story))
            IN /\ back.headHash = story.headHash
               /\ back.next.objId = [story.next.objId EXCEPT !.form = "bytes"]
<1> DEFINE obj == StoryToString(story)
<1>1. /\ DOMAIN obj = StoryKeys /\ obj.metadata = story.metadata
      /\ obj.headHash = story.headHash /\ DOMAIN obj.items = {}
      /\ obj.next = [story.next EXCEPT !.objId = ToBase64(@)]
  BY DEF StoryToString, StoryKeys, MetadataToString
<1>2. DOMAIN obj.next = DOMAIN story.next /\ obj.next.objId = ToBase64(story.next.objId)
  BY <1>1 DEF HasKeys
<1>3. ToBase64(story.next.objId).form = "base64"
  BY DEF ToBase64, HasKeys
<1>4. StoryParses(obj)
  BY <1>1, <1>2, <1>3 DEF StoryParses, HasKeys, IsBufferSource
<1>5. /\ StoryFromString(obj).headHash = story.headHash
      /\ StoryFromString(obj).next = [obj.next EXCEPT !.objId = ToBytes(@)]
  BY <1>1 DEF StoryFromString
<1>6. StoryFromString(obj).next.objId = ToBytes(ToBase64(story.next.objId))
  BY <1>2, <1>5 DEF HasKeys
<1>7. ToBytes(ToBase64(story.next.objId)) = [story.next.objId EXCEPT !.form = "bytes"]
  BY DEF ToBytes, ToBase64
<1> QED BY <1>4, <1>5, <1>6, <1>7

\* A head is never read back: the key authority is demanded, and the API's heads
\* have authorized (types.ts:64).
THEOREM HeadRefused ==
  ASSUME NEW head, "authority" \notin DOMAIN head
  PROVE  ~HeadParses(HeadToString(head))
<1>1. DOMAIN HeadToString(head) = DOMAIN head
  BY DEF HeadToString
<1> QED BY <1>1 DEF HeadParses, HasKeys, HeadKeys
=============================================================================
