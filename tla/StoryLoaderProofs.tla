------------------------- MODULE StoryLoaderProofs -------------------------
(***************************************************************************)
(* Theorems of StoryLoader: for a story of any length, any number of       *)
(* overlapping callers, any answers of storage and any heads read later.   *)
(***************************************************************************)
EXTENDS StoryLoader, ConversionsProofs, WellFoundedInduction

\* A set of numbers that is not empty has a least one: what stands in for
\* induction here.
LEMMA LeastElement ==
  ASSUME NEW S, S \subseteq Nat, S # {}
  PROVE  \E m \in S : \A n \in S : m <= n
<1> DEFINE R == OpToRel(<, Nat)
<1>1. IsWellFoundedOn(R, Nat)
  BY NatLessThanWellFounded
<1>2. \A x, y \in Nat : x < y => <<x, y>> \in R
  BY DEF OpToRel
<1> HIDE DEF R
<1>3. PICK m \in S : \A n \in S : ~ (<<n, m>> \in R)
  BY <1>1, WFMin
<1>4. ASSUME NEW n \in S PROVE m <= n
  <2>1. n \in Nat /\ m \in Nat
    OBVIOUS
  <2>2. ~ (<<n, m>> \in R)
    BY <1>3
  <2>3. ~ (n < m)
    BY <1>2, <2>1, <2>2, Zenon
  <2> QED BY <2>1, <2>3
<1> QED BY <1>4

(***************************************************************************)
(* Types.                                                                  *)
(***************************************************************************)
\* What a call owns, with what it writes when it ends.
CallTypeOK ==
  /\ loading \in BOOLEAN
  /\ pc \in [Callers -> {"idle", "awaiting", "resolved", "rejected"}]
  /\ numItems \in [Callers -> Nat] /\ fetching \in [Callers -> Ids]
  /\ ended \in {"none", "resolved", "rejected"}

LEMMA InitTypeOK == Init => TypeOK
<1> SUFFICES ASSUME Init PROVE TypeOK
  OBVIOUS
<1>1. items \in Seq(Items) /\ headHash \in Ids /\ next \in Ids /\ loading \in BOOLEAN
  BY DEF Init, StoryFromHead
<1>2. 0 \in Ids /\ count \in 0 .. MAX_CALLS /\ altered \in 0 .. MAX_ALTERED
  BY StoryAssumption DEF Init, Ids
<1> QED BY <1>1, <1>2 DEF Init, TypeOK

\* What the synchronous part of getAdditionalItems writes.
LEMMA EnterTypeOK ==
  ASSUME TypeOK, NEW c \in Callers, NEW from \in Ids, NEW n \in Nat, Enter(c, from, n)
  PROVE  CallTypeOK'
<1>1. CASE from = 0
  BY <1>1 DEF Enter, End, TypeOK, CallTypeOK
<1>2. CASE from # 0
  BY <1>2 DEF Enter, TypeOK, CallTypeOK
<1> QED BY <1>1, <1>2

LEMMA ContainerFields ==
  ASSUME NEW container \in Containers
  PROVE  /\ container.digest \in (1 .. LENGTH) \cup {Forged}
         /\ container.nextHash \in Ids /\ container.next \in Ids
BY DEF Containers

LEMMA ReceiveTypeOK ==
  ASSUME TypeOK, NEW c \in Callers, NEW container \in Containers, Receive(c, container)
  PROVE  TypeOK'
<1> USE StoryAssumption
<1>1. ValidationSuccess(container) \in BOOLEAN
  BY DEF ValidationSuccess, TypeOK, Items
<1>2. LoadedItem(container) \in Items
  BY <1>1, ContainerFields DEF LoadedItem, Items, TypeOK
<1>3. items' \in Seq(Items)
  BY <1>2 DEF Receive, TypeOK
<1>4. CallTypeOK'
  <2>1. CASE GoesOn(c, container)
    <3>1. Enter(c, container.next, numItems[c] - 1) /\ numItems[c] - 1 \in Nat
      BY <2>1 DEF Receive, GoesOn, TypeOK
    <3> QED BY <3>1, EnterTypeOK, ContainerFields
  <2>2. CASE ~GoesOn(c, container)
    BY <2>2 DEF Receive, Done, End, TypeOK, CallTypeOK
  <2> QED BY <2>1, <2>2
<1>5. altered' \in 0 .. MAX_ALTERED /\ got' \in [Callers -> Nat]
  BY DEF Receive, TypeOK
<1>6. next' \in Ids
  BY ContainerFields DEF Receive
<1> QED BY <1>3, <1>4, <1>5, <1>6 DEF Receive, TypeOK, CallTypeOK

\* verifyStory changes marks alone.
LEMMA VerifiedFields ==
  ASSUME TypeOK, NEW h \in Ids
  PROVE  /\ Verified(h) \in Seq(Items) /\ Len(Verified(h)) = Len(items)
         /\ DOMAIN Verified(h) = DOMAIN items /\ (Verified(h) = <<>> <=> items = <<>>)
         /\ \A i \in DOMAIN items :
              /\ Verified(h)[i].digest = items[i].digest
              /\ Verified(h)[i].nextHash = items[i].nextHash
              /\ Verified(h)[i].objId = items[i].objId
              /\ Verified(h)[i].validationSuccess =
                   \A j \in 1 .. i : items[j].digest = HashOf(h, j)
<1> DEFINE mark(i) == \A j \in 1 .. i : items[j].digest = HashOf(h, j)
<1>1. items \in Seq(Items)
  BY DEF TypeOK
<1>2. \A i \in DOMAIN items : mark(i) \in BOOLEAN
  OBVIOUS
<1>3. \A i \in DOMAIN items : [items[i] EXCEPT !.validationSuccess = mark(i)] \in Items
  <2> TAKE i \in DOMAIN items
  <2>1. items[i] \in Items
    BY <1>1
  <2> HIDE DEF mark
  <2> QED BY <2>1, <1>2 DEF Items
<1>4. Verified(h) = [i \in 1 .. Len(items) |-> [items[i] EXCEPT !.validationSuccess = mark(i)]]
  BY <1>1 DEF Verified
<1>5. Len(items) \in Nat /\ DOMAIN items = 1 .. Len(items)
  BY <1>1
<1>6. Verified(h) \in Seq(Items) /\ Len(Verified(h)) = Len(items)
  <2> HIDE DEF mark
  <2> QED BY <1>3, <1>4, <1>5
<1>7. \A i \in DOMAIN items :
        /\ Verified(h)[i].digest = items[i].digest
        /\ Verified(h)[i].nextHash = items[i].nextHash
        /\ Verified(h)[i].objId = items[i].objId
        /\ Verified(h)[i].validationSuccess = mark(i)
  <2> TAKE i \in DOMAIN items
  <2>1. items[i] \in Items
    BY <1>1
  <2> HIDE DEF mark
  <2> QED BY <2>1, <1>4, <1>5 DEF Items
<1>8. Verified(h) = <<>> <=> items = <<>>
  <2> HIDE DEF mark
  <2> QED BY <1>1, <1>6
<1> QED BY <1>4, <1>5, <1>6, <1>7, <1>8

LEMMA NextTypeOK == TypeOK /\ [Next]_vars => TypeOK'
<1> USE StoryAssumption
<1> SUFFICES ASSUME TypeOK, [Next]_vars PROVE TypeOK'
  OBVIOUS
<1>1. ASSUME NEW c \in Callers, NEW n \in Counts, Load(c, n) PROVE TypeOK'
  <2>1. n \in Nat /\ next \in Ids /\ Enter(c, next, n)
    BY <1>1 DEF Load, TypeOK
  <2>2. CallTypeOK'
    BY <2>1, EnterTypeOK
  <2>3. /\ count' \in 0 .. MAX_CALLS /\ overlapped' \in BOOLEAN
        /\ asked' \in [Callers -> Nat] /\ got' \in [Callers -> Nat]
    BY <1>1, <2>1 DEF Load, TypeOK
  <2> QED BY <1>1, <2>2, <2>3 DEF Load, TypeOK, CallTypeOK
<1>2. ASSUME NEW c \in Callers, NEW container \in Containers, Receive(c, container) PROVE TypeOK'
  BY <1>2, ReceiveTypeOK
<1>3. ASSUME NEW c \in Callers, Fail(c) PROVE TypeOK'
  BY <1>3 DEF Fail, End, story, history, TypeOK
<1>4. ASSUME NEW h \in Heads, VerifyStory(h) PROVE TypeOK'
  <2>1. h \in Ids
    BY DEF Ids
  <2>2. items' \in Seq(Items) /\ marked' \in Ids
    BY <1>4, <2>1, VerifiedFields DEF VerifyStory, TypeOK
  <2> QED BY <1>4, <2>2 DEF VerifyStory, call, TypeOK
<1>5. CASE UNCHANGED vars
  BY <1>5 DEF vars, story, call, history, TypeOK
<1> QED BY <1>1, <1>2, <1>3, <1>4, <1>5 DEF Next

\* The state of the loader has the types of the code's, in every reachable state.
THEOREM TypeCorrect == Spec => []TypeOK
BY InitTypeOK, NextTypeOK, PTL DEF Spec

(***************************************************************************)
(* The marks.                                                              *)
(***************************************************************************)
\* The marked items are a chain from one head, of which each also names the hash
\* behind it, as every item that is not forged does.
Chained ==
  /\ items = <<>> => marked = headHash
  /\ \A i \in DOMAIN items :
       items[i].digest # Forged => items[i].nextHash = items[i].digest - 1
  /\ \A i \in DOMAIN items :
       items[i].validationSuccess => \A j \in 1 .. i : items[j].digest = marked - j + 1

\* What an item of a chain is checked against is the next number down.
LEMMA ChainHash ==
  ASSUME TypeOK, Chained, NEW h \in Ids, NEW k \in 1 .. Len(items) + 1,
         \A j \in 1 .. k - 1 : items[j].digest = h - j + 1
  PROVE  HashOf(h, k) = h - k + 1 /\ HashOf(h, k) \in Ids
<1> USE StoryAssumption DEF Ids
<1>1. items \in Seq(Items) /\ Len(items) \in Nat
  BY DEF TypeOK
<1>2. CASE k = 1
  BY <1>2 DEF HashOf
<1>3. CASE k # 1
  <2>1. k - 1 \in DOMAIN items /\ items[k - 1] \in Items
    BY <1>1, <1>3
  <2>2. items[k - 1].digest = h - (k - 1) + 1
    BY <1>3
  <2>3. items[k - 1].digest # Forged
    BY <2>1, <2>2 DEF Items
  <2>4. items[k - 1].nextHash = h - k + 1 /\ items[k - 1].nextHash \in Ids
    BY <2>1, <2>2, <2>3 DEF Chained, Items
  <2> QED BY <1>3, <2>4 DEF HashOf
<1> QED BY <1>2, <1>3

\* The item a receipt pushes.
LEMMA Pushed ==
  ASSUME TypeOK, NEW c \in Callers, NEW container \in Containers, Receive(c, container)
  PROVE  /\ Len(items) \in Nat /\ DOMAIN items = 1 .. Len(items)
         /\ DOMAIN items' = 1 .. Len(items) + 1
         /\ items'[Len(items) + 1] = LoadedItem(container)
         /\ \A i \in 1 .. Len(items) : items'[i] = items[i]
<1>1. items \in Seq(Items)
  BY DEF TypeOK
<1> QED BY <1>1 DEF Receive

LEMMA ReceiveChained ==
  ASSUME TypeOK, Chained, NEW c \in Callers, NEW container \in Containers, Receive(c, container)
  PROVE  Chained'
<1> USE StoryAssumption
<1> DEFINE len == Len(items)  new == LoadedItem(container)
<1>1. new.digest # Forged => new.nextHash = new.digest - 1
  BY DEF LoadedItem, Containers
<1>2. ASSUME new.validationSuccess
      PROVE  \A j \in 1 .. len + 1 : items'[j].digest = marked - j + 1
  <2>1. ValidationSuccess(container) /\ new.digest = container.digest
    BY <1>2 DEF LoadedItem
  <2>2. \A j \in 1 .. len : items[j].digest = marked - j + 1
    <3>1. CASE items = <<>>
      BY <3>1
    <3>2. CASE items # <<>>
      <4>1. len \in DOMAIN items /\ items[len].validationSuccess
        BY <3>2, <2>1, Pushed DEF ValidationSuccess, TypeOK
      <4> QED BY <4>1 DEF Chained
    <3> QED BY <3>1, <3>2
  <2>3. HashOf(headHash, len + 1) = marked - len
    <3>1. marked \in Ids /\ len \in Nat
      BY DEF TypeOK
    <3>2. HashOf(marked, len + 1) = marked - (len + 1) + 1
      BY <3>1, <2>2, ChainHash
    <3>3. HashOf(headHash, len + 1) = HashOf(marked, len + 1)
      <4>1. CASE items = <<>>
        BY <4>1 DEF Chained
      <4>2. CASE items # <<>>
        BY <4>2 DEF HashOf, TypeOK
      <4> QED BY <4>1, <4>2
    <3> QED BY <3>1, <3>2, <3>3 DEF Ids
  <2>4. new.digest = marked - (len + 1) + 1
    BY <2>1, <2>3 DEF ValidationSuccess, TypeOK, Ids
  <2> QED BY <2>2, <2>4, Pushed
<1>3. items' # <<>>
  BY Pushed
<1>4. ASSUME NEW i \in DOMAIN items'
      PROVE  /\ items'[i].digest # Forged => items'[i].nextHash = items'[i].digest - 1
             /\ items'[i].validationSuccess => \A j \in 1 .. i : items'[j].digest = marked - j + 1
  <2>1. CASE i = len + 1
    BY <2>1, <1>1, <1>2, Pushed
  <2>2. CASE i # len + 1
    <3>1. i \in DOMAIN items /\ \A j \in 1 .. i : items'[j] = items[j]
      BY <2>2, Pushed
    <3>2. i \in 1 .. i
      BY <3>1, Pushed
    <3> QED BY <3>1, <3>2 DEF Chained
  <2> QED BY <2>1, <2>2
<1>5. marked' = marked
  BY DEF Receive
<1> QED BY <1>3, <1>4, <1>5 DEF Chained

LEMMA VerifyChained ==
  ASSUME TypeOK, Chained, NEW h \in Heads, VerifyStory(h)
  PROVE  Chained'
<1> USE StoryAssumption
<1>1. h \in Ids /\ items' = Verified(h) /\ headHash' = headHash
  BY DEF VerifyStory, Ids
<1>2. /\ DOMAIN items' = DOMAIN items /\ (items' = <<>> <=> items = <<>>)
      /\ \A i \in DOMAIN items :
           /\ items'[i].digest = items[i].digest /\ items'[i].nextHash = items[i].nextHash
           /\ items'[i].validationSuccess = \A j \in 1 .. i : items[j].digest = HashOf(h, j)
  BY <1>1, VerifiedFields
<1>3. items' = <<>> => marked' = headHash'
  BY <1>1, <1>2 DEF VerifyStory, Chained
<1>4. ASSUME NEW i \in DOMAIN items, items'[i].validationSuccess
      PROVE  \A j \in 1 .. i : items'[j].digest = marked' - j + 1
  <2>1. marked' = h
    BY DEF VerifyStory, TypeOK
  <2>2. Len(items) \in Nat /\ i \in 1 .. Len(items) /\ DOMAIN items = 1 .. Len(items)
    BY DEF TypeOK
  <2> DEFINE broken == {j \in 1 .. i : items[j].digest # h - j + 1}
  <2>3. ASSUME broken # {} PROVE FALSE
    <3>1. broken \subseteq Nat
      OBVIOUS
    <3>2. PICK k \in broken : \A j \in broken : k <= j
      <4> HIDE DEF broken
      <4> QED BY <2>3, <3>1, LeastElement
    <3>3. k \in 1 .. i /\ items[k].digest # h - k + 1
      OBVIOUS
    <3>4. ASSUME NEW j \in 1 .. k - 1 PROVE items[j].digest = h - j + 1
      <4>1. j \in 1 .. i /\ ~ (k <= j)
        BY <2>2, <3>3
      <4>2. j \notin broken
        BY <3>2, <4>1
      <4> QED BY <4>1, <4>2
    <3>5. k \in 1 .. Len(items) + 1
      BY <2>2, <3>3
    <3>6. HashOf(h, k) = h - k + 1
      BY <1>1, <3>4, <3>5, ChainHash
    <3>7. items[k].digest = HashOf(h, k)
      BY <1>2, <1>4, <3>3
    <3> QED BY <3>3, <3>6, <3>7
  <2>4. \A j \in 1 .. i : items[j].digest = h - j + 1
    BY <2>3
  <2>5. \A j \in 1 .. i : j \in DOMAIN items
    BY <2>2
  <2> QED BY <1>2, <2>1, <2>4, <2>5
<1> QED BY <1>2, <1>3, <1>4 DEF Chained

LEMMA NextChained == TypeOK /\ Chained /\ [Next]_vars => Chained'
<1> SUFFICES ASSUME TypeOK, Chained, [Next]_vars PROVE Chained'
  OBVIOUS
<1>1. ASSUME NEW c \in Callers, NEW n \in Counts, Load(c, n) PROVE Chained'
  BY <1>1 DEF Load, Chained
<1>2. ASSUME NEW c \in Callers, NEW container \in Containers, Receive(c, container) PROVE Chained'
  BY <1>2, ReceiveChained
<1>3. ASSUME NEW c \in Callers, Fail(c) PROVE Chained'
  BY <1>3 DEF Fail, story, history, Chained
<1>4. ASSUME NEW h \in Heads, VerifyStory(h) PROVE Chained'
  BY <1>4, VerifyChained
<1>5. CASE UNCHANGED vars
  BY <1>5 DEF vars, story, history, Chained
<1> QED BY <1>1, <1>2, <1>3, <1>4, <1>5 DEF Next

LEMMA InitChained == Init => Chained
BY DEF Init, StoryFromHead, Chained

\* The items marked as validated are the newest of the story under one head:
\* storage that answers with anything, overlapping calls and verifications
\* against other heads cannot make the API mark anything else.
THEOREM ValidatedAlwaysGenuine == Spec => []ValidatedItemsGenuine
<1>1. Chained => ValidatedItemsGenuine
  BY DEF Chained, ValidatedItemsGenuine
<1> QED BY InitTypeOK, NextTypeOK, InitChained, NextChained, <1>1, PTL DEF Spec

(***************************************************************************)
(* Calls one after another.                                                *)
(***************************************************************************)
Awaiting(c) == pc[c] = "awaiting"

\* A call that is alone asks for the item the story is at, and loading is its.
Alone ==
  /\ count = 0 => ended = "none" /\ \A c \in Callers : ~Awaiting(c)
  /\ ~overlapped =>
       /\ \A c, d \in Callers : Awaiting(c) /\ Awaiting(d) => c = d
       /\ \A c \in Callers : Awaiting(c) => fetching[c] = next /\ next # 0
       /\ count > 0 => (loading <=> (\E c \in Callers : Awaiting(c)) \/ ended = "rejected")

\* Whoever awaits after the synchronous part of getAdditionalItems did so before,
\* or is the caller.
LEMMA EnterAwaits ==
  ASSUME TypeOK, NEW c \in Callers, NEW from \in Ids, NEW n, Enter(c, from, n)
  PROVE  /\ Awaiting(c)' <=> from # 0
         /\ loading' <=> from # 0
         /\ \A d \in Callers \ {c} : Awaiting(d)' <=> Awaiting(d)
         /\ \A d \in Callers \ {c} : fetching'[d] = fetching[d]
         /\ from # 0 => fetching'[c] = from /\ ended' = ended
         /\ from = 0 => ended' = "resolved"
<1>1. CASE from = 0
  BY <1>1 DEF Enter, End, TypeOK, Awaiting
<1>2. CASE from # 0
  BY <1>2 DEF Enter, TypeOK, Awaiting
<1> QED BY <1>1, <1>2

LEMMA LoadAlone ==
  ASSUME TypeOK, Alone, NEW c \in Callers, NEW n \in Counts, Load(c, n)
  PROVE  Alone'
<1>1. Enter(c, next, n) /\ next \in Ids /\ next' = next /\ ~Awaiting(c) /\ count \in Nat
  BY DEF Load, TypeOK, Awaiting
<1>2. count' = count + 1
  BY DEF Load
<1>3. ASSUME ~overlapped', next # 0
      PROVE  /\ \A a, d \in Callers : Awaiting(a)' /\ Awaiting(d)' => a = d
             /\ \A a \in Callers : Awaiting(a)' => fetching'[a] = next'
             /\ loading' <=> (\E a \in Callers : Awaiting(a)') \/ ended' = "rejected"
  <2>1. \A d \in Callers : ~Awaiting(d)
    BY <1>3 DEF Load, Awaiting
  <2> QED BY <1>1, <1>3, <2>1, EnterAwaits
<1>4. ASSUME ~overlapped', next = 0
      PROVE  /\ \A a \in Callers : ~Awaiting(a)'
             /\ loading' <=> (\E a \in Callers : Awaiting(a)') \/ ended' = "rejected"
  <2>1. \A d \in Callers : ~Awaiting(d)
    BY <1>4 DEF Load, Alone
  <2> QED BY <1>1, <1>4, <2>1, EnterAwaits
<1> QED BY <1>1, <1>2, <1>3, <1>4 DEF Alone

LEMMA ReceiveAlone ==
  ASSUME TypeOK, Alone, NEW c \in Callers, NEW container \in Containers, Receive(c, container)
  PROVE  Alone'
<1>1. Awaiting(c) /\ next' = container.next /\ count' = count /\ overlapped' = overlapped
  BY DEF Receive, Awaiting
<1>2. count # 0
  BY <1>1 DEF Alone
<1>3. ASSUME ~overlapped PROVE \A d \in Callers \ {c} : ~Awaiting(d)
  BY <1>1, <1>3 DEF Alone
<1>4. CASE GoesOn(c, container)
  <2>1. Enter(c, container.next, numItems[c] - 1) /\ container.next # 0 /\ container.next \in Ids
    BY <1>4, ContainerFields DEF Receive, GoesOn
  <2> QED BY <1>1, <1>2, <1>3, <2>1, EnterAwaits DEF Alone
<1>5. CASE ~GoesOn(c, container)
  <2>1. /\ loading' = FALSE /\ ended' = "resolved" /\ ~Awaiting(c)'
        /\ \A d \in Callers \ {c} : Awaiting(d)' <=> Awaiting(d)
    BY <1>5 DEF Receive, Done, End, TypeOK, Awaiting
  <2> QED BY <1>1, <1>2, <1>3, <2>1 DEF Alone
<1> QED BY <1>4, <1>5

LEMMA FailAlone ==
  ASSUME TypeOK, Alone, NEW c \in Callers, Fail(c)
  PROVE  Alone'
<1>1. /\ Awaiting(c) /\ ~Awaiting(c)' /\ ended' = "rejected"
      /\ \A d \in Callers \ {c} : Awaiting(d)' <=> Awaiting(d)
  BY DEF Fail, End, TypeOK, Awaiting
<1>2. /\ next' = next /\ loading' = loading /\ count' = count /\ overlapped' = overlapped
      /\ fetching' = fetching
  BY DEF Fail, End, story, history
<1>3. count # 0
  BY <1>1 DEF Alone
<1>4. \A d \in Callers : Awaiting(d)' => Awaiting(d)
  BY <1>1
<1>5. ~overlapped /\ count > 0 => loading
  BY <1>1 DEF Alone
<1> QED BY <1>1, <1>2, <1>3, <1>4, <1>5 DEF Alone

LEMMA NextAlone == TypeOK /\ Alone /\ [Next]_vars => Alone'
<1> SUFFICES ASSUME TypeOK, Alone, [Next]_vars PROVE Alone'
  OBVIOUS
<1>1. ASSUME NEW c \in Callers, NEW n \in Counts, Load(c, n) PROVE Alone'
  BY <1>1, LoadAlone
<1>2. ASSUME NEW c \in Callers, NEW container \in Containers, Receive(c, container) PROVE Alone'
  BY <1>2, ReceiveAlone
<1>3. ASSUME NEW c \in Callers, Fail(c) PROVE Alone'
  BY <1>3, FailAlone
<1>4. ASSUME NEW h \in Heads, VerifyStory(h) PROVE Alone'
  BY <1>4 DEF VerifyStory, call, Alone, Awaiting
<1>5. CASE UNCHANGED vars
  BY <1>5 DEF vars, story, call, history, Alone, Awaiting
<1> QED BY <1>1, <1>2, <1>3, <1>4, <1>5 DEF Next

LEMMA InitAlone == Init => Alone
BY DEF Init, Alone, Awaiting

\* story.loading says whether a call is under way, as long as there is one at a
\* time and the last did not fail.
THEOREM LoadingAlwaysTrue == Spec => []LoadingTellsTheTruth
<1>1. TypeOK /\ Alone => LoadingTellsTheTruth
  BY DEF TypeOK, Alone, LoadingTellsTheTruth, HandedOut, Awaiting
<1> QED BY InitTypeOK, NextTypeOK, InitAlone, NextAlone, <1>1, PTL DEF Spec

\* What one call after another loads from storage that answers with what was
\* uploaded; the links are the story's too.
Ordered ==
  ~overlapped /\ altered = 0 =>
    /\ next = headHash - Len(items)
    /\ \A i \in DOMAIN items :
         /\ items[i].objId = headHash - i + 1 /\ items[i].digest = headHash - i + 1
         /\ items[i].nextHash = headHash - i
         /\ items[i].validationSuccess <=> marked = headHash

LEMMA ReceiveOrdered ==
  ASSUME TypeOK, Chained, Alone, Ordered,
         NEW c \in Callers, NEW container \in Containers, Receive(c, container)
  PROVE  Ordered'
<1> SUFFICES ASSUME ~overlapped', altered' = 0 PROVE Ordered'
  BY DEF Ordered
<1> DEFINE len == Len(items)  new == LoadedItem(container)
<1>1. ~overlapped /\ altered = 0 /\ container = Uploaded(fetching[c])
  BY DEF Receive, TypeOK
<1>2. fetching[c] = next /\ next \in Ids /\ headHash \in Ids
  BY <1>1 DEF Receive, Alone, Awaiting, TypeOK
<1>3. /\ container.digest = next /\ container.nextHash = next - 1 /\ container.next = next - 1
  BY <1>1, <1>2 DEF Uploaded
<1>4. next = headHash - len /\ len \in Nat
  BY <1>1 DEF Ordered, TypeOK
<1>5. /\ headHash' = headHash /\ marked' = marked /\ next' = next - 1
      /\ Len(items') = len + 1
  BY <1>3 DEF Receive, TypeOK
<1>6. new.validationSuccess <=> marked = headHash
  <2>1. CASE items = <<>>
    <3>1. len = 0 /\ marked = headHash /\ HashOf(headHash, len + 1) = headHash
      BY <2>1 DEF Chained, HashOf
    <3>2. container.digest = headHash
      BY <1>2, <1>3, <1>4, <3>1 DEF Ids
    <3> QED BY <2>1, <3>1, <3>2 DEF LoadedItem, ValidationSuccess
  <2>2. CASE items # <<>>
    <3>1. len \in DOMAIN items /\ len # 0
      BY <2>2 DEF TypeOK
    <3>2. /\ HashOf(headHash, len + 1) = items[len].nextHash
          /\ items[len].nextHash = headHash - len
          /\ items[len].validationSuccess <=> marked = headHash
      BY <1>1, <1>4, <3>1 DEF Ordered, HashOf
    <3> QED BY <2>2, <3>2, <1>3, <1>4 DEF LoadedItem, ValidationSuccess
  <2> QED BY <2>1, <2>2
<1>7. ASSUME NEW i \in DOMAIN items'
      PROVE  /\ items'[i].objId = headHash - i + 1 /\ items'[i].digest = headHash - i + 1
             /\ items'[i].nextHash = headHash - i
             /\ items'[i].validationSuccess <=> marked = headHash
  <2>1. CASE i = len + 1
    <3>1. items'[i] = new
      BY <2>1, Pushed
    <3>2. new.objId = next /\ new.digest = next /\ new.nextHash = next - 1
      BY <1>3 DEF LoadedItem
    <3>3. headHash \in Int /\ i \in Int /\ next = headHash - i + 1
      BY <2>1, <1>2, <1>4 DEF Ids
    <3> HIDE DEF new
    <3> QED BY <3>1, <3>2, <3>3, <1>6
  <2>2. CASE i # len + 1
    <3>1. i \in DOMAIN items /\ items'[i] = items[i]
      BY <2>2, Pushed
    <3> QED BY <3>1, <1>1 DEF Ordered
  <2> QED BY <2>1, <2>2
<1>8. next' = headHash' - Len(items')
  BY <1>2, <1>4, <1>5 DEF Ids
<1> QED BY <1>5, <1>7, <1>8 DEF Ordered

LEMMA VerifyOrdered ==
  ASSUME TypeOK, Ordered, NEW h \in Heads, VerifyStory(h)
  PROVE  Ordered'
<1> USE StoryAssumption
<1> SUFFICES ASSUME ~overlapped', altered' = 0 PROVE Ordered'
  BY DEF Ordered
<1>1. h \in Ids /\ items' = Verified(h) /\ headHash' = headHash /\ next' = next
  BY DEF VerifyStory, Ids
<1>2. ~overlapped /\ altered = 0
  BY DEF VerifyStory
<1>3. /\ next = headHash - Len(items)
      /\ \A i \in DOMAIN items :
           /\ items[i].objId = headHash - i + 1 /\ items[i].digest = headHash - i + 1
           /\ items[i].nextHash = headHash - i
  BY <1>2 DEF Ordered
<1>4. Len(items) \in Nat /\ DOMAIN items = 1 .. Len(items) /\ headHash \in Ids
  BY DEF TypeOK
<1>5. ASSUME NEW i \in DOMAIN items
      PROVE  items'[i].validationSuccess <=> marked' = headHash
  <2>1. marked' = h
    BY DEF VerifyStory, TypeOK
  <2>2. items'[i].validationSuccess = \A j \in 1 .. i : items[j].digest = HashOf(h, j)
    BY <1>1, VerifiedFields
  <2>3. CASE h = headHash
    <3>1. ASSUME NEW j \in 1 .. i PROVE items[j].digest = HashOf(h, j)
      <4>1. j \in DOMAIN items /\ j \in Int /\ items[j].digest = headHash - j + 1
        BY <1>3, <1>4
      <4>2. CASE j = 1
        BY <1>4, <4>1, <4>2, <2>3 DEF HashOf, Ids
      <4>3. CASE j # 1
        <5>1. j - 1 \in DOMAIN items
          BY <1>4, <4>3
        <5>2. items[j - 1].nextHash = headHash - (j - 1)
          BY <1>3, <5>1
        <5> QED BY <1>4, <4>1, <4>3, <5>2 DEF HashOf, Ids
      <4> QED BY <4>2, <4>3
    <3> QED BY <2>1, <2>2, <2>3, <3>1
  <2>4. CASE h # headHash
    <3>1. 1 \in 1 .. i /\ 1 \in DOMAIN items
      BY <1>4
    <3>2. items[1].digest = headHash /\ HashOf(h, 1) = h
      BY <1>3, <1>4, <3>1 DEF HashOf, Ids
    <3> QED BY <2>1, <2>2, <2>4, <3>1, <3>2
  <2> QED BY <2>3, <2>4
<1>6. \A i \in DOMAIN items :
        /\ items'[i].digest = items[i].digest /\ items'[i].nextHash = items[i].nextHash
        /\ items'[i].objId = items[i].objId
  BY <1>1, VerifiedFields
<1>7. DOMAIN items' = DOMAIN items /\ Len(items') = Len(items)
  BY <1>1, VerifiedFields
<1> QED BY <1>1, <1>3, <1>5, <1>6, <1>7 DEF Ordered

LEMMA NextOrdered ==
  TypeOK /\ Chained /\ Alone /\ Ordered /\ [Next]_vars => Ordered'
<1> SUFFICES ASSUME TypeOK, Chained, Alone, Ordered, [Next]_vars PROVE Ordered'
  OBVIOUS
<1>1. ASSUME NEW c \in Callers, NEW n \in Counts, Load(c, n) PROVE Ordered'
  BY <1>1 DEF Load, Ordered
<1>2. ASSUME NEW c \in Callers, NEW container \in Containers, Receive(c, container) PROVE Ordered'
  BY <1>2, ReceiveOrdered
<1>3. ASSUME NEW c \in Callers, Fail(c) PROVE Ordered'
  BY <1>3 DEF Fail, story, history, Ordered
<1>4. ASSUME NEW h \in Heads, VerifyStory(h) PROVE Ordered'
  BY <1>4, VerifyOrdered
<1>5. CASE UNCHANGED vars
  BY <1>5 DEF vars, story, history, Ordered
<1> QED BY <1>1, <1>2, <1>3, <1>4, <1>5 DEF Next

\* One call after another loads the story, whatever fails in between.
THEOREM SequentialAlwaysFaithful == Spec => []SequentialLoadsFaithful
<1>1. Init => Ordered
  BY DEF Init, StoryFromHead, Ordered, Ids
<1>2. TypeOK /\ Ordered => SequentialLoadsFaithful
  BY DEF TypeOK, Items, Ordered, SequentialLoadsFaithful
<1> QED BY InitTypeOK, NextTypeOK, InitChained, NextChained, InitAlone, NextAlone,
           <1>1, NextOrdered, <1>2, PTL DEF Spec

\* What the run overlap refutes holds without overlap, as long as no
\* verification was against another head: then a mark set to false does mean
\* that storage answered with something else (types.ts:130).
COROLLARY SequentialMarksTrue ==
  Spec => [](~overlapped /\ marked = headHash => FalseOnlyIfAltered)
<1>1. SequentialLoadsFaithful => (~overlapped /\ marked = headHash => FalseOnlyIfAltered)
  BY DEF SequentialLoadsFaithful, FalseOnlyIfAltered
<1> QED BY SequentialAlwaysFaithful, <1>1, PTL

(***************************************************************************)
(* How much one call loads.                                                *)
(***************************************************************************)
\* What a call may still load and what it has loaded are what it asked for.
Left(c) == IF numItems[c] = 0 THEN 1 ELSE numItems[c]
Budget ==
  \A c \in Callers : got[c] <= asked[c] /\ (Awaiting(c) => got[c] + Left(c) <= asked[c])

LEMMA NextBudget == TypeOK /\ Budget /\ [Next]_vars => Budget'
<1> USE StoryAssumption
<1> SUFFICES ASSUME TypeOK, Budget, [Next]_vars, NEW d \in Callers
             PROVE  /\ got'[d] <= asked'[d]
                    /\ Awaiting(d)' => got'[d] + Left(d)' <= asked'[d]
  BY DEF Budget
<1>0. /\ got[d] \in Nat /\ asked[d] \in Nat /\ numItems[d] \in Nat
      /\ got[d] <= asked[d] /\ (Awaiting(d) => got[d] + Left(d) <= asked[d])
  BY DEF TypeOK, Budget
<1>1. ASSUME NEW c \in Callers, NEW n \in Counts, Load(c, n)
      PROVE  /\ got'[d] <= asked'[d]
             /\ Awaiting(d)' => got'[d] + Left(d)' <= asked'[d]
  <2>1. Enter(c, next, n) /\ n \in Nat /\ next \in Ids
    BY <1>1 DEF Load, TypeOK
  <2>2. CASE d = c
    <3>1. got'[d] = 0 /\ asked'[d] = IF n = 0 THEN 1 ELSE n
      BY <1>1, <2>2 DEF Load, TypeOK
    <3>2. Awaiting(d)' => numItems'[d] = n
      BY <2>1, <2>2 DEF Enter, End, Awaiting, TypeOK
    <3> QED BY <2>1, <3>1, <3>2 DEF Left
  <2>3. CASE d # c
    <3>1. /\ got'[d] = got[d] /\ asked'[d] = asked[d] /\ numItems'[d] = numItems[d]
          /\ Awaiting(d)' <=> Awaiting(d)
      BY <1>1, <2>1, <2>3 DEF Load, Enter, End, Awaiting, TypeOK
    <3> QED BY <1>0, <3>1 DEF Left
  <2> QED BY <2>2, <2>3
<1>2. ASSUME NEW c \in Callers, NEW container \in Containers, Receive(c, container)
      PROVE  /\ got'[d] <= asked'[d]
             /\ Awaiting(d)' => got'[d] + Left(d)' <= asked'[d]
  <2>1. asked' = asked /\ got' = [got EXCEPT ![c] = @ + 1] /\ Awaiting(c)
    BY <1>2 DEF Receive, Awaiting
  <2>2. CASE d = c
    <3>1. got'[d] = got[d] + 1 /\ got[d] + Left(d) <= asked[d]
      BY <1>0, <2>1, <2>2 DEF TypeOK
    <3>2. CASE GoesOn(c, container)
      <4>1. numItems[c] > 1 /\ numItems'[c] = numItems[c] - 1
        BY <1>2, <3>2 DEF Receive, GoesOn, Enter, TypeOK
      <4> QED BY <1>0, <2>1, <2>2, <3>1, <4>1 DEF Left
    <3>3. CASE ~GoesOn(c, container)
      <4>1. ~Awaiting(c)'
        BY <1>2, <3>3 DEF Receive, Done, End, Awaiting, TypeOK
      <4> QED BY <1>0, <2>1, <2>2, <3>1, <4>1 DEF Left
    <3> QED BY <3>2, <3>3
  <2>3. CASE d # c
    <3>1. got'[d] = got[d] /\ numItems'[d] = numItems[d] /\ (Awaiting(d)' <=> Awaiting(d))
      BY <1>2, <2>1, <2>3 DEF Receive, Done, Enter, End, Awaiting, TypeOK
    <3> QED BY <1>0, <2>1, <3>1 DEF Left
  <2> QED BY <2>2, <2>3
<1>3. ASSUME NEW c \in Callers, Fail(c)
      PROVE  /\ got'[d] <= asked'[d]
             /\ Awaiting(d)' => got'[d] + Left(d)' <= asked'[d]
  <2>1. /\ got' = got /\ asked' = asked /\ numItems' = numItems
        /\ Awaiting(d)' => Awaiting(d)
    BY <1>3 DEF Fail, End, history, Awaiting, TypeOK
  <2> QED BY <1>0, <2>1 DEF Left
<1>4. ASSUME NEW h \in Heads, VerifyStory(h)
      PROVE  /\ got'[d] <= asked'[d]
             /\ Awaiting(d)' => got'[d] + Left(d)' <= asked'[d]
  BY <1>0, <1>4 DEF VerifyStory, call, Awaiting, Left
<1>5. CASE UNCHANGED vars
  BY <1>0, <1>5 DEF vars, call, history, Awaiting, Left
<1> QED BY <1>1, <1>2, <1>3, <1>4, <1>5 DEF Next

\* No call loads more than it was asked for, or one item, whatever links storage
\* answers with and whatever other calls do.
THEOREM AlwaysLoadedAsRequested == Spec => []LoadedAsRequested
<1>1. Init => Budget
  BY DEF Init, Budget, Awaiting
<1>2. Budget => LoadedAsRequested
  BY DEF Budget, LoadedAsRequested
<1> QED BY InitTypeOK, NextTypeOK, <1>1, NextBudget, <1>2, PTL DEF Spec

(***************************************************************************)
(* Saving and restoring.                                                   *)
(***************************************************************************)
LEMMA TypedRestoredOrRefused == TypeOK => RestoredOrRefused
<1> SUFFICES ASSUME TypeOK, NEW fromCdn \in BOOLEAN
             PROVE  LET saved == StoryToString(AsStory(fromCdn))
                        restored == StoryFromString(saved)
                    IN /\ StoryParses(saved) <=> fromCdn /\ items = <<>>
                       /\ StoryParses(saved) =>
                            /\ restored.headHash = headHash
                            /\ restored.next.objId = [form |-> "bytes", id |-> next]
  BY DEF RestoredOrRefused
<1> DEFINE st == AsStory(fromCdn)
<1>1. DOMAIN st.items = DOMAIN items /\ st.headHash = headHash /\ st.metadata = Metadata(fromCdn)
  BY DEF AsStory
<1>2. CASE items # <<>>
  <2>1. 1 \in DOMAIN items
    BY <1>2 DEF TypeOK
  <2>2. st.items[1] = AsContainer(items[1])
    BY <2>1 DEF AsStory
  <2>3. /\ HasKeys(st.items[1], {"next"}) /\ HasKeys(st.items[1].next, {"objId"})
        /\ HasKeys(st.items[1].next.objId, {"form"})
        /\ st.items[1].next.objId.form = "bytes"
    BY <2>2 DEF AsContainer, HasKeys
  <2>4. 1 \in DOMAIN st.items
    BY <1>1, <2>1
  <2>5. ~StoryParses(StoryToString(st))
    BY <2>3, <2>4, LoadedStoryRefused
  <2> QED BY <1>2, <2>5
<1>3. CASE ~fromCdn
  <2>1. "hasExtendedMetadata" \in MetadataKeys /\ "hasExtendedMetadata" \notin DOMAIN st.metadata
    BY <1>1, <1>3 DEF Metadata, MetadataKeys
  <2>2. StoryToString(st).metadata = st.metadata
    BY DEF StoryToString, MetadataToString
  <2> QED BY <1>3, <2>1, <2>2 DEF StoryParses, MetadataParses, HasKeys
<1>4. CASE fromCdn /\ items = <<>>
  <2>1. DOMAIN st.items = {} /\ MetadataParses(st.metadata)
    BY <1>1, <1>4 DEF Metadata, MetadataParses, HasKeys
  <2>2. st.next = [objId |-> [form |-> "array", id |-> next], accessType |-> "ardrive"]
    BY <1>4 DEF AsStory
  <2>3. HasKeys(st.next, {"objId", "accessType"}) /\ HasKeys(st.next.objId, {"form", "id"})
    BY <2>2 DEF HasKeys
  <2>4. [st.next.objId EXCEPT !.form = "bytes"] = [form |-> "bytes", id |-> next]
    BY <2>2
  <2> QED BY <1>1, <1>4, <2>1, <2>3, <2>4, UnloadedStoryRestored
<1> QED BY <1>2, <1>3, <1>4

\* At any time a story that is saved is restored as it was, or refused.
THEOREM AlwaysRestoredOrRefused == Spec => []RestoredOrRefused
BY InitTypeOK, NextTypeOK, TypedRestoredOrRefused, PTL DEF Spec
=============================================================================
