---------------------------- MODULE Conversions ----------------------------
(***************************************************************************)
(* The conversions between the API's objects and JSON                      *)
(* (api/src/common/conversions.ts).  An object is a function from the keys *)
(* it has, so that DOMAIN says which are present; a value that JSON carries*)
(* as it is, is any value.  JSON.parse undoes JSON.stringify but for one   *)
(* kind of value, the ids of objects in storage:                           *)
(*   "bytes"   a Uint8Array, which JSON turns into an "object" of its      *)
(*             indices                                                     *)
(*   "array"   an array of numbers, as accounts come from the chain        *)
(*   "base64"  the text that the conversions write.                        *)
(* F_ToString is the object JSON.parse gives of the text; F_Parses says    *)
(* whether F_FromString returns something and does not throw.              *)
(***************************************************************************)
EXTENDS Integers, Sequences

HasKeys(obj, keys) == keys \subseteq DOMAIN obj

IdForms == {"bytes", "array", "base64", "object"}

\* JSON.parse(JSON.stringify(v)) of an id.
Json(v) == IF v.form = "bytes" THEN [v EXCEPT !.form = "object"] ELSE v

\* Uint8Array.from(Buffer.from(v, 'base64')), which throws on a plain object.
IsBufferSource_Any(v) == v.form \in IdForms
IsBufferSource(v) == v.form \in {"bytes", "array", "base64"}
ToBytes(v) == [v EXCEPT !.form = "bytes"]

\* Buffer.from(v).toString('base64').
ToBase64(v) == [v EXCEPT !.form = "base64"]

(***************************************************************************)
(* Metadata: written as it is, and refused when a key is missing.          *)
(***************************************************************************)
MetadataKeys ==
  {"writerKey", "label", "description", "url", "logo", "cdn", "baseUrl", "metadata",
   "apiVersion", "hasExtendedMetadata"}
MetadataToString(meta) == meta
MetadataParses(obj) == HasKeys(obj, MetadataKeys)
MetadataFromString(obj) == obj

(***************************************************************************)
(* The head of a story.                                                    *)
(***************************************************************************)
HeadKeys ==
  {"metadata", "writerKey", "mintKey", "objId", "authority", "visibilityIndex",
   "currentHash", "accessType"}
HeadToString(head) ==
  [head EXCEPT !.metadata = MetadataToString(@), !.objId = ToBase64(@)]
HeadParses(obj) ==
  /\ HasKeys(obj, HeadKeys)
  /\ MetadataParses(obj.metadata) /\ IsBufferSource(obj.objId)
HeadFromString(obj) ==
  [obj EXCEPT !.metadata = MetadataFromString(@), !.objId = ToBytes(@)]

(***************************************************************************)
(* An item, and the container that wraps it.  The container keeps the text *)
(* of the item (itemRaw) and derives the item from it.                     *)
(***************************************************************************)
ItemInnerParses(inner) == HasKeys(inner, {"type", "data"})

\* What is written of the validated part; a validated item also has item.
ValidatedKeys == {"itemRaw", "itemHash", "nextHash", "timestamp"}

ContainerToString(container) ==
  [container EXCEPT !.validated = [k \in DOMAIN @ \cap ValidatedKeys |-> @[k]],
                    !.next.objId = Json(@)]
ContainerParses(obj) ==
  /\ HasKeys(obj, {"validated", "hash", "apiVersion", "next"})
  /\ HasKeys(obj.validated, ValidatedKeys)
  /\ HasKeys(obj.next, {"objId", "accessType"})
  /\ ItemInnerParses(obj.validated.itemRaw) /\ IsBufferSource(obj.next.objId)
\* Other keys, objId and validationSuccess among them, are dropped.
ContainerFromString(obj) ==
  [hash |-> obj.hash, apiVersion |-> obj.apiVersion,
   validated |-> [itemHash |-> obj.validated.itemHash, nextHash |-> obj.validated.nextHash,
                  timestamp |-> obj.validated.timestamp, itemRaw |-> obj.validated.itemRaw,
                  item |-> obj.validated.itemRaw],
   next |-> [obj.next EXCEPT !.objId = ToBytes(@)]]

(***************************************************************************)
(* A story with the items loaded so far.  Whether it is loading is not     *)
(* written.                                                                *)
(***************************************************************************)
StoryKeys == {"metadata", "mintKey", "headHash", "items", "next"}
StoryToString(story) ==
  [metadata |-> MetadataToString(story.metadata), mintKey |-> story.mintKey,
   items |-> [i \in DOMAIN story.items |-> ContainerToString(story.items[i])],
   headHash |-> story.headHash, next |-> [story.next EXCEPT !.objId = ToBase64(@)]]
StoryParses(obj) ==
  /\ HasKeys(obj, StoryKeys) /\ HasKeys(obj.next, {"accessType", "objId"})
  /\ MetadataParses(obj.metadata) /\ IsBufferSource(obj.next.objId)
  /\ \A i \in DOMAIN obj.items : ContainerParses(obj.items[i])
StoryFromString(obj) ==
  [metadata |-> MetadataFromString(obj.metadata), mintKey |-> obj.mintKey,
   items |-> [i \in DOMAIN obj.items |-> ContainerFromString(obj.items[i])],
   headHash |-> obj.headHash, next |-> [obj.next EXCEPT !.objId = ToBytes(@)]]
=============================================================================
