------------------------- MODULE WriterClientProofs -------------------------
(***************************************************************************)
(* Theorems of WriterClient: for any callers, mints, prices and faults.    *)
(***************************************************************************)
EXTENDS WriterClient, TLAPS

Updates == [id : ObjId, currentHash : Digest]
Before == {"fetching", "checking", "funding", "uploading"}

\* A call that was made has a number, so its object has an id.
Numbered == \A s \in Sessions : pc[s] # "idle" => calls[s] \in 1 .. MAX_CALLS
TypeInv == TypeOK /\ Numbered

(***************************************************************************)
(* The steps, by what they do to what the invariants speak of.             *)
(***************************************************************************)
Frame == UNCHANGED <<head, pending, receipt, stored, calls, create, headAct>>

\* A call goes on, is rejected, or dies, before its transaction is sent, and leaves
\* nothing behind that the chain or a reader could see.
Quiet(s) ==
  /\ Frame /\ UNCHANGED <<creates, unanswered>>
  /\ pc[s] \in Before \cup {"submitting"}
  /\ \E to \in Before \cup {"rejected", "dead"} :
       /\ pc' = [pc EXCEPT ![s] = to]
       /\ to \in Before => pc[s] \in Before \ {"fetching"}

\* A call ends without the answer of its transaction.
GivesUp(s) ==
  /\ Frame /\ UNCHANGED creates
  /\ pc[s] = "confirming"
  /\ unanswered' = unanswered \cup {Id(s)}
  /\ \E to \in {"rejected", "dead"} : pc' = [pc EXCEPT ![s] = to]

Stores(s) ==
  /\ pc[s] = "uploading"
  /\ stored' = [stored EXCEPT ![Id(s)] = NewContainer(s)]
  /\ \E to \in {"submitting", "rejected"} : pc' = [pc EXCEPT ![s] = to]
  /\ UNCHANGED <<head, pending, receipt, calls, create, headAct, creates, unanswered>>

Elsewhere == Frame /\ UNCHANGED <<pc, creates, unanswered>>

LEMMA Shape ==
  ASSUME Next
  PROVE  \/ \E s \in Sessions :
              \/ \E creating \in BOOLEAN : Call(s, creating)
              \/ FetchHead(s) \/ Quiet(s) \/ Stores(s) \/ Submit(s) \/ SubmitAnswerLost(s)
              \/ Confirm(s) \/ GivesUp(s)
         \/ \E update \in pending :
              \/ Expire(update)
              \/ \E inRange \in BOOLEAN : Land(update, inRange)
         \/ \E m \in Mints : CreateHead(m)
         \/ Elsewhere
<1> USE DEF GoTo, Frame, chain, bundlr, config, locals, Before, InCall
<1>1. ASSUME NEW s \in Sessions, CheckBalance(s) PROVE Quiet(s)
  BY <1>1 DEF CheckBalance, Quiet
<1>2. ASSUME NEW s \in Sessions, Fund(s) PROVE Quiet(s)
  BY <1>2 DEF Fund, Quiet
<1>3. ASSUME NEW s \in Sessions, Upload(s) PROVE Quiet(s) \/ Stores(s)
  <2>1. CASE loaded >= Price[s]
    BY <1>3, <2>1 DEF Upload, UploadItem, Stores
  <2>2. CASE ~(loaded >= Price[s])
    BY <1>3, <2>2 DEF Upload, UploadItem, Quiet
  <2> QED BY <2>1, <2>2
<1>4. ASSUME NEW s \in Sessions, Timeout(s) PROVE GivesUp(s)
  BY <1>4 DEF Timeout, TimedOut, GivesUp
<1>5. ASSUME NEW s \in Sessions, RequestFails(s) PROVE Quiet(s)
  BY <1>5 DEF RequestFails, Quiet
<1>6. ASSUME NEW s \in Sessions, FundAnswerLost(s) PROVE Quiet(s)
  BY <1>6 DEF FundAnswerLost, Quiet
<1>7. ASSUME NEW s \in Sessions, UploadAnswerLost(s) PROVE Stores(s)
  BY <1>7 DEF UploadAnswerLost, Stores
<1>8. ASSUME NEW s \in Sessions, Crash(s) PROVE Quiet(s) \/ GivesUp(s)
  <2>1. CASE pc[s] = "confirming"
    BY <1>8, <2>1 DEF Crash, GivesUp
  <2>2. CASE pc[s] # "confirming"
    BY <1>8, <2>2 DEF Crash, Quiet
  <2> QED BY <2>1, <2>2
<1>9. ASSUME configureBundlrServer \/ configureBundlrWeb \/ \E which \in connecting : BundlrReady(which)
      PROVE  Elsewhere
  BY <1>9 DEF configureBundlrServer, configureBundlrWeb, BundlrReady, Elsewhere
<1> QED
  BY <1>1, <1>2, <1>3, <1>4, <1>5, <1>6, <1>7, <1>8, <1>9 DEF Next, Step, Fault, Executing

(***************************************************************************)
(* Types.                                                                  *)
(***************************************************************************)
LEMMA IdType ==
  ASSUME TypeInv, NEW s \in Sessions, pc[s] # "idle"
  PROVE  Id(s) \in ObjId /\ Id(s)[1] = s
BY DEF TypeInv, Numbered, Id, ObjId

LEMMA ObjIdParts ==
  ASSUME NEW id \in ObjId
  PROVE  id[1] \in Sessions /\ id[2] \in 1 .. MAX_CALLS /\ id = <<id[1], id[2]>>
BY DEF ObjId

LEMMA EmptyHeadType == EmptyHead \in WriterHead
BY DEF EmptyHead, WriterHead, Digest

LEMMA InitTypeInv == Init => TypeInv
<1> SUFFICES ASSUME Init PROVE TypeInv
  OBVIOUS
<1>1. /\ head \in [Mints -> WriterHead \cup {NoHead}]
      /\ headAct \in [Sessions -> WriterHead]
  BY EmptyHeadType DEF Init
<1>2. loaded \in Nat /\ calls \in [Sessions -> 0 .. MAX_CALLS]
  BY WriterAssumption DEF Init
<1>3. pc \in [Sessions -> InCall \cup Ended]
  BY DEF Init, Ended
<1> QED BY <1>1, <1>2, <1>3 DEF Init, TypeInv, TypeOK, Numbered

LEMMA NewContainerType ==
  ASSUME TypeInv, NEW s \in Sessions
  PROVE  NewContainer(s) \in Container
BY DEF TypeInv, TypeOK, NewContainer, Container, WriterHead

LEMMA UpdateType ==
  ASSUME TypeInv, NEW s \in Sessions, pc[s] # "idle"
  PROVE  Update(s) \in Updates
BY IdType DEF TypeInv, TypeOK, Update, Updates, WriterHead

LEMMA FundAmountType == \A s \in Sessions : FundAmount(s) \in Nat
<1> SUFFICES ASSUME NEW s \in Sessions PROVE FundAmount(s) \in Nat
  OBVIOUS
<1>1. Price[s] \in Nat /\ RATIO_PERCENT \in Nat
  BY WriterAssumption
<1>2. Price[s] * RATIO_PERCENT \in Nat
  BY <1>1
<1> QED BY <1>2 DEF FundAmount

\* An upload pays its price out of the balance, and never more than there is.
LEMMA UploadTypes ==
  ASSUME TypeInv, NEW s \in Sessions, pc[s] = "uploading", loaded >= Price[s]
  PROVE  /\ loaded - Price[s] \in Nat
         /\ [stored EXCEPT ![Id(s)] = NewContainer(s)] \in [ObjId -> Container \cup {NoObject}]
<1>1. loaded \in Nat /\ Price[s] \in Nat
  BY WriterAssumption DEF TypeInv, TypeOK
<1>2. loaded - Price[s] \in Nat
  BY <1>1
<1> QED BY <1>2, NewContainerType DEF TypeInv, TypeOK

LEMMA NextTypeInv == TypeInv /\ [Next]_vars => TypeInv'
<1> SUFFICES ASSUME TypeInv, [Next]_vars PROVE TypeInv'
  OBVIOUS
<1> USE DEF TypeInv, TypeOK, Numbered, GoTo, chain, bundlr, config, locals, InCall, Ended
<1>1. ASSUME NEW s \in Sessions, NEW creating \in BOOLEAN, Call(s, creating) PROVE TypeInv'
  <2>1. calls[s] + 1 \in 1 .. MAX_CALLS
    BY <1>1, WriterAssumption DEF Call
  <2>2. calls' \in [Sessions -> 0 .. MAX_CALLS] /\ Numbered'
    BY <1>1, <2>1 DEF Call
  <2>3. creates' \in [Sessions -> BOOLEAN] /\ create' \in [Sessions -> BOOLEAN]
    BY <1>1 DEF Call
  <2>4. pc' \in [Sessions -> InCall \cup Ended]
    BY <1>1 DEF Call
  <2> QED BY <1>1, <2>2, <2>3, <2>4 DEF Call
<1>2. ASSUME NEW s \in Sessions, FetchHead(s) PROVE TypeInv'
  <2>1. ReadHead(s) \in WriterHead
    BY EmptyHeadType, WriterAssumption DEF ReadHead
  <2>2. headAct' \in [Sessions -> WriterHead]
    BY <1>2, <2>1 DEF FetchHead
  <2>3. create' \in [Sessions -> BOOLEAN]
    <3>1. (head[MintOf[s]] = NoHead) \in BOOLEAN
      OBVIOUS
    <3> QED BY <1>2, <3>1 DEF FetchHead
  <2>4. pc' \in [Sessions -> InCall \cup Ended] /\ Numbered'
    BY <1>2 DEF FetchHead
  <2> QED BY <1>2, <2>2, <2>3, <2>4 DEF FetchHead
<1>3. ASSUME NEW s \in Sessions, CheckBalance(s) PROVE TypeInv'
  BY <1>3 DEF CheckBalance
<1>4. ASSUME NEW s \in Sessions, Fund(s) PROVE TypeInv'
  BY <1>4, FundAmountType DEF Fund
<1>5. ASSUME NEW s \in Sessions, Upload(s) PROVE TypeInv'
  <2>1. CASE loaded >= Price[s]
    BY <1>5, <2>1, UploadTypes DEF Upload, UploadItem
  <2>2. CASE ~(loaded >= Price[s])
    BY <1>5, <2>2 DEF Upload, UploadItem
  <2> QED BY <2>1, <2>2
<1>6. ASSUME NEW s \in Sessions, Submit(s) PROVE TypeInv'
  <2>1. pending' \subseteq Updates
    BY <1>6, UpdateType DEF Submit, Updates
  <2>2. pc' \in [Sessions -> InCall \cup Ended] /\ Numbered'
    BY <1>6 DEF Submit
  <2> QED BY <1>6, <2>1, <2>2 DEF Submit, Updates
<1>7. ASSUME NEW s \in Sessions, Confirm(s) PROVE TypeInv'
  BY <1>7 DEF Confirm, Outcome
<1>8. ASSUME NEW s \in Sessions, Timeout(s) PROVE TypeInv'
  BY <1>8, IdType DEF Timeout, TimedOut
<1>9. ASSUME NEW s \in Sessions, RequestFails(s) PROVE TypeInv'
  BY <1>9 DEF RequestFails
<1>10. ASSUME NEW s \in Sessions, FundAnswerLost(s) PROVE TypeInv'
  BY <1>10, FundAmountType DEF FundAnswerLost
<1>11. ASSUME NEW s \in Sessions, UploadAnswerLost(s) PROVE TypeInv'
  BY <1>11, UploadTypes DEF UploadAnswerLost
<1>12. ASSUME NEW s \in Sessions, Crash(s) PROVE TypeInv'
  <2>1. unanswered' \subseteq ObjId
    BY <1>12, IdType DEF Crash
  <2> QED BY <1>12, <2>1 DEF Crash
<1>13. ASSUME NEW update \in pending, Expire(update) PROVE TypeInv'
  BY <1>13 DEF Expire
<1>14. ASSUME NEW update \in pending, NEW inRange \in BOOLEAN, Land(update, inRange) PROVE TypeInv'
  <2> DEFINE m == MintOf[update.id[1]]
             new == [hash |-> Append(update.currentHash, update.id[1]), obj |-> update.id]
             err == AppendError(m, update, inRange)
  <2>1. update.id \in ObjId /\ update.currentHash \in Digest /\ update.id[1] \in Sessions
    BY ObjIdParts
  <2>2. new \in WriterHead /\ m \in Mints
    BY <2>1, WriterAssumption DEF WriterHead, Digest
  <2>3. err \in {"ok", "AnchorError", "TimestampRangeError", "HashMismatchError"}
    BY DEF AppendError
  <2>4. head' \in [Mints -> WriterHead \cup {NoHead}]
    BY <1>14, <2>2 DEF Land
  <2>5. receipt' \in [ObjId -> {"none", "ok", "AnchorError", "TimestampRangeError", "HashMismatchError"}]
    BY <1>14, <2>1, <2>3 DEF Land
  <2> QED BY <1>14, <2>4, <2>5 DEF Land
<1>15. ASSUME NEW m \in Mints, CreateHead(m) PROVE TypeInv'
  BY <1>15, EmptyHeadType DEF CreateHead
<1>16. CASE configureBundlrServer \/ configureBundlrWeb \/ \E which \in connecting : BundlrReady(which)
  BY <1>16 DEF configureBundlrServer, configureBundlrWeb, BundlrReady, Replaced
<1>17. CASE UNCHANGED vars
  BY <1>17 DEF vars
<1>18. ASSUME NEW s \in Sessions, SubmitAnswerLost(s) PROVE TypeInv'
  <2>1. pending' \subseteq Updates /\ unanswered' \subseteq ObjId
    BY <1>18, UpdateType, IdType DEF SubmitAnswerLost, Updates
  <2>2. pc' \in [Sessions -> InCall \cup Ended] /\ Numbered'
    BY <1>18 DEF SubmitAnswerLost
  <2> QED BY <1>18, <2>1, <2>2 DEF SubmitAnswerLost, Updates
<1> QED
  BY <1>1, <1>2, <1>3, <1>4, <1>5, <1>6, <1>7, <1>8, <1>9, <1>10, <1>11, <1>12, <1>13, <1>14,
     <1>15, <1>16, <1>17, <1>18 DEF Next, Step, Fault, Executing

\* Every variable holds what the code can put there; in particular bundlr's
\* balance is never overdrawn, whichever calls draw on it at once.
THEOREM TypeCorrect == Spec => []TypeOK
<1>1. TypeInv => TypeOK
  BY DEF TypeInv
<1> QED BY InitTypeInv, NextTypeInv, <1>1, PTL DEF Spec

(***************************************************************************)
(* Why stories are readable.  An id is written once, by the call it was    *)
(* made for, so what is linked stays linked; a call works from a linked    *)
(* head; and a transaction is sent for a stored object only.               *)
(***************************************************************************)
LocalsLinked == \A s \in Sessions : Linked(stored, headAct[s].hash, headAct[s].obj)

Unused(s, k) == stored[<<s, k>>] = NoObject /\ receipt[<<s, k>>] = "none"
IdsFresh ==
  \A s \in Sessions : \A k \in 1 .. MAX_CALLS :
    k > calls[s] \/ (k = calls[s] /\ pc[s] \in Before) => Unused(s, k)

Carries(objects, update) ==
  /\ objects[update.id] # NoObject
  /\ objects[update.id].item = update.id[1]
  /\ objects[update.id].nextHash = update.currentHash
UpdatesStored ==
  /\ \A s \in Sessions : pc[s] = "submitting" => Carries(stored, Update(s))
  /\ \A update \in pending : Carries(stored, update)

LinkInv == StoryReadable /\ LocalsLinked /\ IdsFresh /\ UpdatesStored

\* What is linked stays linked as long as no stored object is changed.
LEMMA LinkedGrows ==
  ASSUME NEW before, NEW after, NEW hash, NEW obj, Linked(before, hash, obj),
         \A id \in ObjId : before[id] # NoObject => after[id] = before[id]
  PROVE  Linked(after, hash, obj)
BY DEF Linked

LEMMA EmptyHeadLinked == \A objects : Linked(objects, EmptyHead.hash, EmptyHead.obj)
BY DEF Linked, EmptyHead

LEMMA InitLinkInv == Init => LinkInv
<1> SUFFICES ASSUME Init PROVE LinkInv
  OBVIOUS
<1>1. StoryReadable
  BY EmptyHeadLinked DEF Init, StoryReadable
<1>2. LocalsLinked
  BY EmptyHeadLinked DEF Init, LocalsLinked
<1>3. IdsFresh
  BY DEF Init, IdsFresh, Unused, ObjId
<1>4. UpdatesStored
  BY DEF Init, UpdatesStored
<1> QED BY <1>1, <1>2, <1>3, <1>4 DEF LinkInv

LEMMA StoresLinkInv ==
  ASSUME TypeInv, LinkInv, NEW s \in Sessions, Stores(s)
  PROVE  LinkInv'
<1>1. Id(s) \in ObjId /\ Id(s)[1] = s /\ calls[s] \in 1 .. MAX_CALLS
  BY IdType DEF Stores, TypeInv, Numbered
<1>2. stored[Id(s)] = NoObject
  BY <1>1 DEF LinkInv, IdsFresh, Stores, Unused, Before, Id
<1>3. NewContainer(s) # NoObject
  BY NewContainerType, NothingAssumption
<1>4. /\ stored'[Id(s)] = NewContainer(s)
      /\ \A id \in ObjId : id # Id(s) => stored'[id] = stored[id]
      /\ \A id \in ObjId : stored[id] # NoObject => stored'[id] = stored[id]
  BY <1>1, <1>2 DEF Stores, TypeInv, TypeOK
<1>5. \A hash, obj : Linked(stored, hash, obj) => Linked(stored', hash, obj)
  BY <1>4, LinkedGrows
<1>6. StoryReadable'
  <2>1. \A m \in Mints : head'[m] # NoHead => Linked(stored', head'[m].hash, head'[m].obj)
    BY <1>5 DEF LinkInv, StoryReadable, Stores
  <2>2. ASSUME NEW id \in ObjId, stored'[id] # NoObject
        PROVE  Linked(stored', stored'[id].nextHash, stored'[id].next)
    <3>1. CASE id = Id(s)
      <4>1. Linked(stored, headAct[s].hash, headAct[s].obj)
        BY DEF LinkInv, LocalsLinked
      <4> QED BY <3>1, <4>1, <1>4, <1>5 DEF NewContainer
    <3>2. CASE id # Id(s)
      BY <3>2, <2>2, <1>4, <1>5 DEF LinkInv, StoryReadable
    <3> QED BY <3>1, <3>2
  <2> QED BY <2>1, <2>2 DEF StoryReadable
<1>7. LocalsLinked'
  BY <1>5 DEF LinkInv, LocalsLinked, Stores
<1>8. IdsFresh'
  <2> SUFFICES ASSUME NEW t \in Sessions, NEW k \in 1 .. MAX_CALLS,
                      k > calls'[t] \/ (k = calls'[t] /\ pc'[t] \in Before)
               PROVE  Unused(t, k)'
    BY DEF IdsFresh
  <2>1. <<t, k>> # Id(s)
    BY <1>1 DEF Stores, Id, Before, TypeInv, TypeOK
  <2>2. k > calls[t] \/ (k = calls[t] /\ pc[t] \in Before)
    BY DEF Stores, Before, TypeInv, TypeOK
  <2>3. Unused(t, k)
    BY <2>2 DEF LinkInv, IdsFresh
  <2> QED BY <2>1, <2>3, <1>4 DEF Unused, Stores, ObjId
<1>9. UpdatesStored'
  <2>1. ASSUME NEW t \in Sessions, pc'[t] = "submitting" PROVE Carries(stored', Update(t)')
    <3>1. CASE t = s
      BY <3>1, <1>1, <1>3, <1>4 DEF Carries, Update, Id, NewContainer, Stores
    <3>2. CASE t # s
      <4>1. pc[t] = "submitting" /\ Update(t)' = Update(t)
        BY <3>2, <2>1 DEF Stores, Update, Id, TypeInv, TypeOK
      <4>2. Carries(stored, Update(t)) /\ Update(t).id \in ObjId
        BY <4>1, IdType DEF LinkInv, UpdatesStored, Update
      <4> QED BY <4>1, <4>2, <1>4 DEF Carries
    <3> QED BY <3>1, <3>2
  <2>2. ASSUME NEW update \in pending PROVE Carries(stored', update)
    <3>1. Carries(stored, update) /\ update.id \in ObjId
      BY DEF LinkInv, UpdatesStored, TypeInv, TypeOK
    <3> QED BY <3>1, <1>4 DEF Carries
  <2> QED BY <2>1, <2>2 DEF UpdatesStored, Stores
<1> QED BY <1>6, <1>7, <1>8, <1>9 DEF LinkInv

LEMMA LandLinkInv ==
  ASSUME TypeInv, LinkInv, NEW update \in pending, NEW inRange \in BOOLEAN, Land(update, inRange)
  PROVE  LinkInv'
<1> DEFINE m == MintOf[update.id[1]]
           new == [hash |-> Append(update.currentHash, update.id[1]), obj |-> update.id]
<1>1. /\ update.id \in ObjId /\ update.currentHash \in Digest /\ update.id[1] \in Sessions
      /\ Carries(stored, update)
  BY ObjIdParts DEF TypeInv, TypeOK, LinkInv, UpdatesStored
<1>2. Linked(stored, new.hash, new.obj)
  <2>1. new.hash # <<>>
    BY <1>1 DEF Digest
  <2>2. new.hash = Append(stored[new.obj].nextHash, stored[new.obj].item) /\ stored[new.obj] # NoObject
    BY <1>1 DEF Carries
  <2> HIDE DEF new
  <2>3. new.obj \in ObjId
    BY <1>1 DEF new
  <2> QED BY <2>1, <2>2, <2>3 DEF Linked
<1>3. \A x \in Mints : head'[x] # NoHead => Linked(stored, head'[x].hash, head'[x].obj)
  <2>1. head' = head \/ head' = [head EXCEPT ![m] = new]
    BY DEF Land
  <2>2. CASE head' = head
    BY <2>2 DEF LinkInv, StoryReadable
  <2>3. CASE head' = [head EXCEPT ![m] = new]
    BY <2>3, <1>2 DEF LinkInv, StoryReadable, TypeInv, TypeOK
  <2> QED BY <2>1, <2>2, <2>3
<1>4. StoryReadable'
  BY <1>3 DEF LinkInv, StoryReadable, Land, bundlr
<1>5. LocalsLinked'
  BY DEF LinkInv, LocalsLinked, Land, bundlr, locals
<1>6. IdsFresh'
  <2> SUFFICES ASSUME NEW t \in Sessions, NEW k \in 1 .. MAX_CALLS,
                      k > calls[t] \/ (k = calls[t] /\ pc[t] \in Before)
               PROVE  Unused(t, k)'
    BY DEF IdsFresh, Land
  <2>1. Unused(t, k)
    BY DEF LinkInv, IdsFresh
  <2>2. <<t, k>> # update.id
    BY <2>1, <1>1 DEF Unused, Carries
  <2> QED BY <2>1, <2>2 DEF Unused, Land, bundlr, TypeInv, TypeOK, ObjId
<1>7. UpdatesStored'
  BY DEF LinkInv, UpdatesStored, Land, bundlr, locals, Update, Id
<1> QED BY <1>4, <1>5, <1>6, <1>7 DEF LinkInv

LEMMA NextLinkInv == TypeInv /\ LinkInv /\ [Next]_vars => LinkInv'
<1> SUFFICES ASSUME TypeInv, LinkInv, [Next]_vars PROVE LinkInv'
  OBVIOUS
<1> USE DEF LinkInv
<1>1. ASSUME NEW s \in Sessions, NEW creating \in BOOLEAN, Call(s, creating) PROVE LinkInv'
  <2>1. StoryReadable' /\ LocalsLinked'
    BY <1>1 DEF Call, StoryReadable, LocalsLinked, chain, bundlr
  <2>2. IdsFresh'
    <3> SUFFICES ASSUME NEW t \in Sessions, NEW k \in 1 .. MAX_CALLS,
                        k > calls'[t] \/ (k = calls'[t] /\ pc'[t] \in Before)
                 PROVE  Unused(t, k)
      BY <1>1 DEF IdsFresh, Call, Unused, chain, bundlr
    <3>1. k > calls[t] \/ (k = calls[t] /\ pc[t] \in Before)
      BY <1>1 DEF Call, GoTo, TypeInv, TypeOK
    <3> QED BY <3>1 DEF IdsFresh
  <2>3. UpdatesStored'
    BY <1>1 DEF Call, GoTo, UpdatesStored, Update, Id, chain, bundlr, TypeInv, TypeOK
  <2> QED BY <2>1, <2>2, <2>3
<1>2. ASSUME NEW s \in Sessions, FetchHead(s) PROVE LinkInv'
  <2>1. Linked(stored, ReadHead(s).hash, ReadHead(s).obj)
    BY EmptyHeadLinked, WriterAssumption DEF ReadHead, StoryReadable
  <2>2. \A t \in Sessions :
          Linked(stored, headAct'[t].hash, headAct'[t].obj)
    BY <1>2, <2>1 DEF FetchHead, LocalsLinked, TypeInv, TypeOK
  <2>3. StoryReadable' /\ LocalsLinked'
    BY <1>2, <2>2 DEF FetchHead, StoryReadable, LocalsLinked, chain, bundlr
  <2>4. \A t \in Sessions : pc'[t] \in Before => pc[t] \in Before
    BY <1>2 DEF FetchHead, GoTo, Before, TypeInv, TypeOK
  <2>5. IdsFresh'
    BY <1>2, <2>4 DEF FetchHead, IdsFresh, Unused, chain, bundlr
  <2>6. \A t \in Sessions : pc'[t] = "submitting" => pc[t] = "submitting" /\ headAct'[t] = headAct[t]
    BY <1>2 DEF FetchHead, GoTo, TypeInv, TypeOK
  <2>7. UpdatesStored'
    BY <1>2, <2>6 DEF FetchHead, UpdatesStored, Update, Id, chain, bundlr
  <2> QED BY <2>3, <2>5, <2>7
<1>3. ASSUME NEW s \in Sessions, Quiet(s) PROVE LinkInv'
  <2>1. \A t \in Sessions :
          /\ pc'[t] \in Before => pc[t] \in Before
          /\ pc'[t] = "submitting" => pc[t] = "submitting"
    BY <1>3 DEF Quiet, Before, TypeInv, TypeOK
  <2> QED BY <1>3, <2>1
        DEF Quiet, Frame, StoryReadable, LocalsLinked, IdsFresh, Unused, UpdatesStored, Update, Id
<1>4. ASSUME NEW s \in Sessions, Stores(s) PROVE LinkInv'
  BY <1>4, StoresLinkInv
<1>5. ASSUME NEW s \in Sessions, Submit(s) PROVE LinkInv'
  <2>1. \A t \in Sessions :
          /\ pc'[t] \in Before => pc[t] \in Before
          /\ pc'[t] = "submitting" => pc[t] = "submitting"
    BY <1>5 DEF Submit, GoTo, Before, TypeInv, TypeOK
  <2>2. StoryReadable' /\ LocalsLinked' /\ IdsFresh'
    BY <1>5, <2>1 DEF Submit, StoryReadable, LocalsLinked, IdsFresh, Unused, bundlr, locals
  <2>3. Carries(stored, Update(s)) /\ pending' \subseteq pending \cup {Update(s)}
    BY <1>5 DEF Submit, UpdatesStored
  <2>4. UpdatesStored'
    BY <1>5, <2>1, <2>3 DEF Submit, UpdatesStored, Update, Id, bundlr, locals
  <2> QED BY <2>2, <2>4
<1>6. ASSUME NEW s \in Sessions, Confirm(s) PROVE LinkInv'
  <2>1. \A t \in Sessions :
          /\ pc'[t] \in Before => pc[t] \in Before
          /\ pc'[t] = "submitting" => pc[t] = "submitting"
    BY <1>6 DEF Confirm, Outcome, GoTo, Before, TypeInv, TypeOK
  <2> QED BY <1>6, <2>1
        DEF Confirm, StoryReadable, LocalsLinked, IdsFresh, Unused, UpdatesStored, Update, Id,
            chain, bundlr, locals
<1>7. ASSUME NEW update \in pending, Expire(update) PROVE LinkInv'
  BY <1>7 DEF Expire, StoryReadable, LocalsLinked, IdsFresh, Unused, UpdatesStored, Update, Id,
              bundlr, locals
<1>8. ASSUME NEW update \in pending, NEW inRange \in BOOLEAN, Land(update, inRange) PROVE LinkInv'
  BY <1>8, LandLinkInv
<1>9. ASSUME NEW m \in Mints, CreateHead(m) PROVE LinkInv'
  <2>1. StoryReadable'
    BY <1>9, EmptyHeadLinked DEF CreateHead, StoryReadable, bundlr, TypeInv, TypeOK
  <2> QED BY <1>9, <2>1
        DEF CreateHead, LocalsLinked, IdsFresh, Unused, UpdatesStored, Update, Id, bundlr, locals
<1>10. CASE Elsewhere
  BY <1>10 DEF Elsewhere, Frame, StoryReadable, LocalsLinked, IdsFresh, Unused, UpdatesStored, Update, Id
<1>11. CASE UNCHANGED vars
  BY <1>11 DEF vars, chain, bundlr, locals, StoryReadable, LocalsLinked, IdsFresh, Unused,
               UpdatesStored, Update, Id
<1>12. ASSUME NEW s \in Sessions, SubmitAnswerLost(s) PROVE LinkInv'
  <2>1. \A t \in Sessions :
          /\ pc'[t] \in Before => pc[t] \in Before
          /\ pc'[t] = "submitting" => pc[t] = "submitting"
    BY <1>12 DEF SubmitAnswerLost, GoTo, Before, TypeInv, TypeOK
  <2>2. StoryReadable' /\ LocalsLinked' /\ IdsFresh'
    BY <1>12, <2>1 DEF SubmitAnswerLost, StoryReadable, LocalsLinked, IdsFresh, Unused, bundlr, locals
  <2>3. Carries(stored, Update(s)) /\ pending' = pending \cup {Update(s)}
    BY <1>12 DEF SubmitAnswerLost, UpdatesStored
  <2>4. UpdatesStored'
    BY <1>12, <2>1, <2>3 DEF SubmitAnswerLost, UpdatesStored, Update, Id, bundlr, locals
  <2> QED BY <2>2, <2>4
<1>13. ASSUME NEW s \in Sessions, GivesUp(s) PROVE LinkInv'
  <2>1. \A t \in Sessions :
          /\ pc'[t] \in Before => pc[t] \in Before
          /\ pc'[t] = "submitting" => pc[t] = "submitting"
    BY <1>13 DEF GivesUp, Before, TypeInv, TypeOK
  <2> QED BY <1>13, <2>1
        DEF GivesUp, Frame, StoryReadable, LocalsLinked, IdsFresh, Unused, UpdatesStored, Update, Id
<1> QED
  BY <1>1, <1>2, <1>3, <1>4, <1>5, <1>6, <1>7, <1>8, <1>9, <1>10, <1>11, <1>12, <1>13, Shape

\* From every head and every stored object a reader can walk back to the first
\* item: whatever callers do at once, and whatever fails or dies in between.
THEOREM StoryAlwaysReadable == Spec => []StoryReadable
<1>1. LinkInv => StoryReadable
  BY DEF LinkInv
<1> QED BY InitTypeInv, NextTypeInv, InitLinkInv, NextLinkInv, <1>1, PTL DEF Spec

(***************************************************************************)
(* Why outcomes are true.  A transaction under way, or an item that landed, *)
(* is of a call that still waits for it or resolved, or of one that ended  *)
(* without its answer; and an item lands with a receipt that says so.      *)
(***************************************************************************)
PendingKnown ==
  \A update \in pending :
    \/ update.id \in unanswered
    \/ update.id = Id(update.id[1]) /\ pc[update.id[1]] = "confirming"
LandedKnown ==
  \A s \in Sessions : Landed(s) =>
    \/ LandedUnanswered(s)
    \/ receipt[Id(s)] = "ok" /\ pc[s] \in {"confirming", "resolved"}
UnansweredEnded ==
  \A id \in unanswered :
    \/ id[2] < calls[id[1]]
    \/ id[2] = calls[id[1]] /\ pc[id[1]] \in {"rejected", "dead"}
ReceiptsTrue ==
  /\ \A id \in ObjId : receipt[id] = "ok" => Landed(id[1])
  /\ \A update \in pending : receipt[update.id] = "none"
  /\ \A s \in Sessions : pc[s] = "submitting" => receipt[Id(s)] = "none"
  /\ \A s \in Sessions : pc[s] = "resolved" => Landed(s)

OutcomeInv == PendingKnown /\ LandedKnown /\ UnansweredEnded /\ ReceiptsTrue

(***************************************************************************)
(* An update that lands adds its item to its story and touches no other.   *)
(***************************************************************************)
LEMMA LandOutcome ==
  ASSUME TypeInv, NEW update \in pending, NEW inRange \in BOOLEAN, Land(update, inRange)
  PROVE  /\ update.id \in ObjId /\ update.id[1] \in Sessions
         /\ receipt'[update.id] # "none"
         /\ receipt'[update.id] = "ok" => Landed(update.id[1])'
         /\ receipt'[update.id] # "ok" => head' = head
         /\ \A t \in Sessions : t # update.id[1] => (Landed(t)' <=> Landed(t))
         /\ \A t \in Sessions : Landed(t) => Landed(t)'
<1> DEFINE s == update.id[1]
           m == MintOf[s]
           new == [hash |-> Append(update.currentHash, s), obj |-> update.id]
           err == AppendError(m, update, inRange)
<1>1. update.id \in ObjId /\ update.currentHash \in Digest /\ s \in Sessions /\ m \in Mints
  BY ObjIdParts, WriterAssumption DEF TypeInv, TypeOK
<1>2. receipt'[update.id] = err /\ err # "none"
  BY <1>1 DEF Land, AppendError, TypeInv, TypeOK
<1>3. CASE err # "ok"
  <2>1. head' = head
    BY <1>3 DEF Land
  <2> QED BY <2>1, <1>1, <1>2, <1>3 DEF Landed, ItemsOf
<1>4. CASE err = "ok"
  <2>1. head' = [head EXCEPT ![m] = new]
    BY <1>4 DEF Land
  <2>2. head[m] # NoHead /\ head[m].hash = update.currentHash
    BY <1>4 DEF AppendError
  <2>3. head'[m] = new /\ head'[m] # NoHead /\ \A x \in Mints : x # m => head'[x] = head[x]
    <3>1. new \in WriterHead
      BY <1>1 DEF WriterHead, Digest
    <3> QED BY <2>1, <1>1, <3>1, NothingAssumption DEF TypeInv, TypeOK
  <2>4. /\ Len(new.hash) = Len(update.currentHash) + 1
        /\ new.hash[Len(update.currentHash) + 1] = s
        /\ \A i \in 1 .. Len(update.currentHash) : new.hash[i] = update.currentHash[i]
        /\ Len(update.currentHash) \in Nat
    BY <1>1 DEF Digest
  <2>5. ItemsOf(m)' = ItemsOf(m) \cup {s}
    <3>1. \A i \in 1 .. Len(new.hash) : i = Len(update.currentHash) + 1 \/ i \in 1 .. Len(update.currentHash)
      BY <2>4
    <3>2. ItemsOf(m)' = {new.hash[i] : i \in 1 .. Len(new.hash)}
      BY <2>3 DEF ItemsOf
    <3>3. ItemsOf(m) = {update.currentHash[i] : i \in 1 .. Len(update.currentHash)}
      BY <2>2 DEF ItemsOf
    <3> HIDE DEF new
    <3>4. {new.hash[i] : i \in 1 .. Len(new.hash)}
            = {update.currentHash[i] : i \in 1 .. Len(update.currentHash)} \cup {s}
      BY <3>1, <2>4
    <3> QED BY <3>2, <3>3, <3>4
  <2>6. \A x \in Mints : x # m => ItemsOf(x)' = ItemsOf(x)
    BY <2>3 DEF ItemsOf
  <2>7. \A t \in Sessions : MintOf[t] \in Mints
    BY WriterAssumption
  <2>8. ASSUME NEW t \in Sessions
        PROVE  /\ t # s => (Landed(t)' <=> Landed(t))
               /\ Landed(t) => Landed(t)'
    <3>1. CASE MintOf[t] = m
      BY <3>1, <2>2, <2>3, <2>5 DEF Landed
    <3>2. CASE MintOf[t] # m
      BY <3>2, <2>3, <2>6, <2>7 DEF Landed
    <3> QED BY <3>1, <3>2
  <2>9. Landed(s)'
    BY <2>3, <2>5 DEF Landed
  <2> QED BY <1>1, <1>2, <1>4, <2>8, <2>9
<1> QED BY <1>3, <1>4

LEMMA LandedKept ==
  ASSUME head' = head
  PROVE  \A t : Landed(t)' <=> Landed(t)
BY DEF Landed, ItemsOf

LEMMA InitOutcomeInv == Init => OutcomeInv
<1> SUFFICES ASSUME Init PROVE OutcomeInv
  OBVIOUS
<1>1. \A s \in Sessions : ~Landed(s)
  <2> SUFFICES ASSUME NEW s \in Sessions, head[MintOf[s]] # NoHead PROVE s \notin ItemsOf(MintOf[s])
    BY DEF Landed
  <2>1. head[MintOf[s]].hash = <<>>
    BY WriterAssumption DEF Init, EmptyHead
  <2> QED BY <2>1 DEF ItemsOf
<1> QED BY <1>1 DEF Init, OutcomeInv, PendingKnown, LandedKnown, UnansweredEnded, ReceiptsTrue

\* What was answered to nobody stays so.
LEMMA UnansweredKept ==
  ASSUME unanswered \subseteq unanswered',
         \A id \in unanswered : receipt[id] = "ok" => receipt'[id] = "ok"
  PROVE  \A s : LandedUnanswered(s) => LandedUnanswered(s)'
BY DEF LandedUnanswered

\* A step of one call that neither sends nor is answered keeps OutcomeInv, if it
\* leaves no transaction behind that nobody knows of.
LEMMA CallStepOutcome ==
  ASSUME TypeInv, OutcomeInv, NEW s \in Sessions,
         UNCHANGED <<head, pending, receipt, unanswered>>,
         \A t \in Sessions : t # s => pc'[t] = pc[t] /\ calls'[t] = calls[t],
         pc[s] \notin {"confirming", "resolved"},
         pc'[s] \notin {"confirming", "resolved"},
         \/ calls'[s] = calls[s] + 1
         \/ calls'[s] = calls[s] /\ (pc[s] \in {"rejected", "dead"} => pc'[s] = pc[s]),
         pc'[s] = "submitting" => receipt[Id(s)'] = "none"
  PROVE  OutcomeInv'
<1> USE DEF OutcomeInv
<1>1. \A t : (Landed(t)' <=> Landed(t)) /\ (LandedUnanswered(t)' <=> LandedUnanswered(t))
  BY LandedKept DEF LandedUnanswered
<1>2. /\ \A update \in pending : update.id \in ObjId /\ update.id[1] \in Sessions
      /\ \A id \in unanswered : id[1] \in Sessions /\ id[2] \in Nat
      /\ calls[s] \in Nat
  BY ObjIdParts, WriterAssumption DEF TypeInv, TypeOK
<1>3. PendingKnown'
  BY <1>2 DEF PendingKnown, Id
<1>4. LandedKnown'
  BY <1>1 DEF LandedKnown, Id
<1>5. UnansweredEnded'
  <2> SUFFICES ASSUME NEW id \in unanswered
               PROVE  \/ id[2] < calls'[id[1]]
                      \/ id[2] = calls'[id[1]] /\ pc'[id[1]] \in {"rejected", "dead"}
    BY DEF UnansweredEnded
  <2>1. id[1] \in Sessions /\ id[2] \in Nat
    BY <1>2
  <2>2. \/ id[2] < calls[id[1]]
        \/ id[2] = calls[id[1]] /\ pc[id[1]] \in {"rejected", "dead"}
    BY DEF UnansweredEnded
  <2>3. CASE id[1] # s
    BY <2>1, <2>2, <2>3
  <2>4. CASE id[1] = s
    BY <1>2, <2>1, <2>2, <2>4
  <2> QED BY <2>3, <2>4
<1>6. ReceiptsTrue'
  BY <1>1 DEF ReceiptsTrue, Id
<1> QED BY <1>3, <1>4, <1>5, <1>6

\* A call sends its transaction: it waits for the answer, or ends without it.
LEMMA SendOutcome ==
  ASSUME TypeInv, OutcomeInv, NEW s \in Sessions, pc[s] = "submitting",
         UNCHANGED <<head, receipt, calls, headAct>>,
         pending' = pending \cup {Update(s)},
         \A t \in Sessions : t # s => pc'[t] = pc[t],
         \/ pc'[s] = "confirming" /\ unanswered' = unanswered
         \/ pc'[s] = "rejected" /\ unanswered' = unanswered \cup {Id(s)}
  PROVE  OutcomeInv'
<1> USE DEF OutcomeInv
<1>1. \A t : Landed(t)' <=> Landed(t)
  BY LandedKept
<1>2. \A t : LandedUnanswered(t) => LandedUnanswered(t)'
  BY UnansweredKept
<1>3. /\ Update(s).id = Id(s) /\ Id(s) \in ObjId /\ Id(s)[1] = s /\ Id(s)[2] = calls[s]
      /\ receipt[Id(s)] = "none"
  BY IdType DEF Update, Id, ReceiptsTrue
<1>4. PendingKnown'
  <2> SUFFICES ASSUME NEW update \in pending'
               PROVE  \/ update.id \in unanswered'
                      \/ update.id = Id(update.id[1]) /\ pc'[update.id[1]] = "confirming"
    BY DEF PendingKnown, Id
  <2>1. CASE update = Update(s)
    BY <2>1, <1>3
  <2>2. CASE update \in pending
    <3>1. update.id[1] \in Sessions
      BY <2>2, ObjIdParts DEF TypeInv, TypeOK
    <3>2. update.id \in unanswered \/ (update.id = Id(update.id[1]) /\ pc[update.id[1]] = "confirming")
      BY <2>2 DEF PendingKnown
    <3> QED BY <3>1, <3>2
  <2> QED BY <2>1, <2>2
<1>5. LandedKnown'
  BY <1>1, <1>2 DEF LandedKnown, Id
<1>6. UnansweredEnded'
  <2> SUFFICES ASSUME NEW id \in unanswered'
               PROVE  \/ id[2] < calls[id[1]]
                      \/ id[2] = calls[id[1]] /\ pc'[id[1]] \in {"rejected", "dead"}
    BY DEF UnansweredEnded
  <2>1. CASE id \in unanswered
    <3>1. id[1] \in Sessions
      BY <2>1, ObjIdParts DEF TypeInv, TypeOK
    <3>2. \/ id[2] < calls[id[1]]
          \/ id[2] = calls[id[1]] /\ pc[id[1]] \in {"rejected", "dead"}
      BY <2>1 DEF UnansweredEnded
    <3> QED BY <3>1, <3>2
  <2>2. CASE id \notin unanswered
    BY <2>2, <1>3
  <2> QED BY <2>1, <2>2
<1>7. ReceiptsTrue'
  BY <1>1, <1>3 DEF ReceiptsTrue, Id
<1> QED BY <1>4, <1>5, <1>6, <1>7

\* A call ends, told by its transaction's receipt or without it.
LEMMA SettleOutcome ==
  ASSUME TypeInv, OutcomeInv, NEW s \in Sessions, pc[s] = "confirming",
         UNCHANGED <<head, pending, receipt, calls>>,
         \A t \in Sessions : t # s => pc'[t] = pc[t],
         \/ /\ receipt[Id(s)] # "none" /\ unanswered' = unanswered
            /\ pc'[s] = IF receipt[Id(s)] = "ok" THEN "resolved" ELSE "rejected"
         \/ pc'[s] \in {"rejected", "dead"} /\ unanswered' = unanswered \cup {Id(s)}
  PROVE  OutcomeInv'
<1> USE DEF OutcomeInv
<1>1. \A t : Landed(t)' <=> Landed(t)
  BY LandedKept
<1>2. \A t : LandedUnanswered(t) => LandedUnanswered(t)'
  BY UnansweredKept
<1>3. Id(s) \in ObjId /\ Id(s)[1] = s /\ Id(s)[2] = calls[s]
  BY IdType DEF Id
<1>4. PendingKnown'
  <2> SUFFICES ASSUME NEW update \in pending
               PROVE  \/ update.id \in unanswered'
                      \/ update.id = Id(update.id[1]) /\ pc'[update.id[1]] = "confirming"
    BY DEF PendingKnown, Id
  <2>1. update.id[1] \in Sessions /\ receipt[update.id] = "none"
    BY ObjIdParts DEF TypeInv, TypeOK, ReceiptsTrue
  <2>2. update.id \in unanswered \/ (update.id = Id(update.id[1]) /\ pc[update.id[1]] = "confirming")
    BY DEF PendingKnown
  <2> QED BY <2>1, <2>2
<1>5. LandedKnown'
  <2> SUFFICES ASSUME NEW t \in Sessions, Landed(t)
               PROVE  \/ LandedUnanswered(t)'
                      \/ receipt[Id(t)] = "ok" /\ pc'[t] \in {"confirming", "resolved"}
    BY <1>1 DEF LandedKnown, Id
  <2>1. LandedUnanswered(t) \/ (receipt[Id(t)] = "ok" /\ pc[t] \in {"confirming", "resolved"})
    BY DEF LandedKnown
  <2>2. CASE t # s
    BY <2>1, <2>2, <1>2
  <2>3. CASE t = s /\ unanswered' = unanswered \cup {Id(s)} /\ receipt[Id(s)] = "ok"
    BY <2>3, <1>3 DEF LandedUnanswered
  <2>4. CASE t = s /\ ~(unanswered' = unanswered \cup {Id(s)} /\ receipt[Id(s)] = "ok")
    BY <2>1, <2>4, <1>2
  <2> QED BY <2>2, <2>3, <2>4
<1>6. UnansweredEnded'
  <2> SUFFICES ASSUME NEW id \in unanswered'
               PROVE  \/ id[2] < calls[id[1]]
                      \/ id[2] = calls[id[1]] /\ pc'[id[1]] \in {"rejected", "dead"}
    BY DEF UnansweredEnded
  <2>1. CASE id \in unanswered
    <3>1. id[1] \in Sessions
      BY <2>1, ObjIdParts DEF TypeInv, TypeOK
    <3>2. \/ id[2] < calls[id[1]]
          \/ id[2] = calls[id[1]] /\ pc[id[1]] \in {"rejected", "dead"}
      BY <2>1 DEF UnansweredEnded
    <3> QED BY <3>1, <3>2
  <2>2. CASE id \notin unanswered
    BY <2>2, <1>3
  <2> QED BY <2>1, <2>2
<1>7. ReceiptsTrue'
  BY <1>1, <1>3 DEF ReceiptsTrue, Id
<1> QED BY <1>4, <1>5, <1>6, <1>7

LEMMA LandOutcomeInv ==
  ASSUME TypeInv, LinkInv, OutcomeInv, NEW update \in pending, NEW inRange \in BOOLEAN,
         Land(update, inRange)
  PROVE  OutcomeInv'
<1> USE DEF OutcomeInv
<1>1. /\ UNCHANGED <<pc, calls, headAct, unanswered>> /\ pending' = pending \ {update}
      /\ \A id \in ObjId : id # update.id => receipt'[id] = receipt[id]
  BY DEF Land, locals, TypeInv, TypeOK
<1>2. /\ update.id \in ObjId /\ update.id[1] \in Sessions
      /\ receipt'[update.id] # "none"
      /\ receipt'[update.id] = "ok" => Landed(update.id[1])'
      /\ receipt'[update.id] # "ok" => head' = head
      /\ \A t \in Sessions : t # update.id[1] => (Landed(t)' <=> Landed(t))
      /\ \A t \in Sessions : Landed(t) => Landed(t)'
  BY LandOutcome
<1>3. receipt[update.id] = "none"
  BY DEF ReceiptsTrue
<1>4. update.id \in unanswered \/ (update.id = Id(update.id[1]) /\ pc[update.id[1]] = "confirming")
  BY DEF PendingKnown
<1>5. PendingKnown' /\ UnansweredEnded'
  BY <1>1 DEF PendingKnown, UnansweredEnded, Id
<1>6. \A id \in unanswered : receipt[id] = "ok" => receipt'[id] = "ok"
  BY <1>1, <1>3 DEF TypeInv, TypeOK
<1>7. \A t : LandedUnanswered(t) => LandedUnanswered(t)'
  BY <1>1, <1>6, UnansweredKept
<1>8. LandedKnown'
  <2> SUFFICES ASSUME NEW t \in Sessions, Landed(t)'
               PROVE  \/ LandedUnanswered(t)'
                      \/ receipt'[Id(t)] = "ok" /\ pc[t] \in {"confirming", "resolved"}
    BY <1>1 DEF LandedKnown, Id
  <2>1. CASE Landed(t)
    <3>1. LandedUnanswered(t) \/ (receipt[Id(t)] = "ok" /\ pc[t] \in {"confirming", "resolved"})
      BY <2>1 DEF LandedKnown
    <3>2. pc[t] \in {"confirming", "resolved"} => Id(t) \in ObjId
      BY IdType
    <3> QED BY <3>1, <3>2, <1>1, <1>3, <1>7
  <2>2. CASE ~Landed(t)
    <3>1. t = update.id[1] /\ head' # head
      BY <2>2, <1>2, LandedKept
    <3>2. receipt'[update.id] = "ok"
      BY <3>1, <1>2
    <3> QED BY <3>1, <3>2, <1>1, <1>4 DEF LandedUnanswered
  <2> QED BY <2>1, <2>2
<1>9. ReceiptsTrue'
  <2>1. ASSUME NEW id \in ObjId, receipt'[id] = "ok" PROVE Landed(id[1])'
    BY <2>1, <1>1, <1>2, ObjIdParts DEF ReceiptsTrue
  <2>2. ASSUME NEW u \in pending' PROVE receipt'[u.id] = "none"
    <3>1. u \in pending /\ u # update /\ u.id \in ObjId
      BY <1>1 DEF TypeInv, TypeOK
    <3>2. u.id # update.id
      <4>1. Carries(stored, u) /\ Carries(stored, update)
        BY <3>1 DEF LinkInv, UpdatesStored
      <4>2. u.id = update.id => u.currentHash = update.currentHash
        BY <4>1 DEF Carries
      <4>3. u \in Updates /\ update \in Updates
        BY <3>1 DEF TypeInv, TypeOK, Updates
      <4> QED BY <4>2, <4>3, <3>1 DEF Updates
    <3> QED BY <3>1, <3>2, <1>1 DEF ReceiptsTrue
  <2>3. ASSUME NEW t \in Sessions, pc[t] = "submitting" PROVE receipt'[Id(t)] = "none"
    <3>1. Id(t) \in ObjId /\ Id(t)[1] = t /\ Id(t)[2] = calls[t] /\ calls[t] \in Nat
      BY <2>3, IdType, WriterAssumption DEF Id, TypeInv, TypeOK
    <3>2. Id(t) \notin unanswered
      BY <2>3, <3>1 DEF UnansweredEnded
    <3>3. Id(t) # update.id
      BY <2>3, <3>1, <3>2, <1>4
    <3> QED BY <2>3, <3>1, <3>3, <1>1 DEF ReceiptsTrue
  <2>4. \A t \in Sessions : pc'[t] = "resolved" => Landed(t)'
    BY <1>1, <1>2 DEF ReceiptsTrue
  <2> QED BY <2>1, <2>2, <2>3, <2>4, <1>1 DEF ReceiptsTrue, Id
<1> QED BY <1>5, <1>8, <1>9

LEMMA NextOutcomeInv == TypeInv /\ LinkInv /\ OutcomeInv /\ [Next]_vars => OutcomeInv'
<1> SUFFICES ASSUME TypeInv, LinkInv, OutcomeInv, [Next]_vars PROVE OutcomeInv'
  OBVIOUS
<1>1. ASSUME NEW s \in Sessions, NEW creating \in BOOLEAN, Call(s, creating) PROVE OutcomeInv'
  <2>1. /\ UNCHANGED <<head, pending, receipt, unanswered>>
        /\ \A t \in Sessions : t # s => pc'[t] = pc[t] /\ calls'[t] = calls[t]
        /\ pc[s] \in {"idle", "rejected", "dead"} /\ pc'[s] = "fetching"
        /\ calls'[s] = calls[s] + 1
    BY <1>1 DEF Call, GoTo, chain, TypeInv, TypeOK
  <2> QED BY <2>1, CallStepOutcome
<1>2. ASSUME NEW s \in Sessions, FetchHead(s) PROVE OutcomeInv'
  <2>1. /\ UNCHANGED <<head, pending, receipt, unanswered, calls>>
        /\ \A t \in Sessions : t # s => pc'[t] = pc[t]
        /\ pc[s] = "fetching" /\ pc'[s] \in {"checking", "rejected"}
    BY <1>2 DEF FetchHead, GoTo, chain, TypeInv, TypeOK
  <2> QED BY <2>1, CallStepOutcome
<1>3. ASSUME NEW s \in Sessions, Quiet(s) PROVE OutcomeInv'
  <2>1. /\ UNCHANGED <<head, pending, receipt, unanswered, calls>>
        /\ \A t \in Sessions : t # s => pc'[t] = pc[t]
        /\ pc[s] \in Before \cup {"submitting"} /\ pc'[s] \in Before \cup {"rejected", "dead"}
    BY <1>3 DEF Quiet, Frame, TypeInv, TypeOK
  <2> QED BY <2>1, CallStepOutcome DEF Before
<1>4. ASSUME NEW s \in Sessions, Stores(s) PROVE OutcomeInv'
  <2>1. /\ UNCHANGED <<head, pending, receipt, unanswered, calls>>
        /\ \A t \in Sessions : t # s => pc'[t] = pc[t]
        /\ pc[s] = "uploading" /\ pc'[s] \in {"submitting", "rejected"}
    BY <1>4 DEF Stores, TypeInv, TypeOK
  <2>2. receipt[Id(s)'] = "none"
    <3>1. calls[s] \in 1 .. MAX_CALLS
      BY <2>1 DEF TypeInv, Numbered
    <3> QED BY <3>1, <2>1 DEF LinkInv, IdsFresh, Unused, Id, Before
  <2> QED BY <2>1, <2>2, CallStepOutcome
<1>5. ASSUME NEW s \in Sessions, Submit(s) PROVE OutcomeInv'
  <2>1. /\ UNCHANGED <<head, receipt, calls, headAct, unanswered>>
        /\ \A t \in Sessions : t # s => pc'[t] = pc[t]
        /\ pc[s] = "submitting"
        /\ \/ pc'[s] = "rejected" /\ pending' = pending
           \/ pc'[s] = "confirming" /\ pending' = pending \cup {Update(s)}
    BY <1>5 DEF Submit, GoTo, locals, TypeInv, TypeOK
  <2>2. CASE pc'[s] = "rejected" /\ pending' = pending
    BY <2>1, <2>2, CallStepOutcome
  <2>3. CASE pc'[s] = "confirming" /\ pending' = pending \cup {Update(s)}
    BY <2>1, <2>3, SendOutcome
  <2> QED BY <2>1, <2>2, <2>3
<1>6. ASSUME NEW s \in Sessions, SubmitAnswerLost(s) PROVE OutcomeInv'
  <2>1. /\ UNCHANGED <<head, receipt, calls, headAct>>
        /\ \A t \in Sessions : t # s => pc'[t] = pc[t]
        /\ pc[s] = "submitting" /\ pc'[s] = "rejected"
        /\ pending' = pending \cup {Update(s)} /\ unanswered' = unanswered \cup {Id(s)}
    BY <1>6 DEF SubmitAnswerLost, GoTo, locals, TypeInv, TypeOK
  <2> QED BY <2>1, SendOutcome
<1>7. ASSUME NEW s \in Sessions, Confirm(s) PROVE OutcomeInv'
  <2>1. /\ UNCHANGED <<head, pending, receipt, calls, unanswered>>
        /\ \A t \in Sessions : t # s => pc'[t] = pc[t]
        /\ pc[s] = "confirming" /\ receipt[Id(s)] # "none"
        /\ pc'[s] = IF receipt[Id(s)] = "ok" THEN "resolved" ELSE "rejected"
    BY <1>7 DEF Confirm, Outcome, GoTo, chain, locals, TypeInv, TypeOK
  <2> QED BY <2>1, SettleOutcome
<1>8. ASSUME NEW s \in Sessions, GivesUp(s) PROVE OutcomeInv'
  <2>1. /\ UNCHANGED <<head, pending, receipt, calls>>
        /\ \A t \in Sessions : t # s => pc'[t] = pc[t]
        /\ pc[s] = "confirming" /\ pc'[s] \in {"rejected", "dead"}
        /\ unanswered' = unanswered \cup {Id(s)}
    BY <1>8 DEF GivesUp, Frame, TypeInv, TypeOK
  <2> QED BY <2>1, SettleOutcome
<1>9. ASSUME NEW update \in pending, Expire(update) PROVE OutcomeInv'
  <2>1. UNCHANGED <<head, receipt, pc, calls, unanswered>> /\ pending' \subseteq pending
    BY <1>9 DEF Expire, locals
  <2>2. \A t : Landed(t)' <=> Landed(t)
    BY <2>1, LandedKept
  <2> QED BY <2>1, <2>2
        DEF OutcomeInv, PendingKnown, LandedKnown, LandedUnanswered, UnansweredEnded, ReceiptsTrue, Id
<1>10. ASSUME NEW update \in pending, NEW inRange \in BOOLEAN, Land(update, inRange) PROVE OutcomeInv'
  BY <1>10, LandOutcomeInv
<1>11. ASSUME NEW m \in Mints, CreateHead(m) PROVE OutcomeInv'
  <2>1. UNCHANGED <<pending, receipt, pc, calls, unanswered>>
    BY <1>11 DEF CreateHead, locals
  <2>2. \A t \in Sessions : Landed(t)' <=> Landed(t)
    BY <1>11, WriterAssumption DEF CreateHead, Landed, ItemsOf, EmptyHead, TypeInv, TypeOK
  <2>3. \A id \in ObjId : id[1] \in Sessions
    BY ObjIdParts
  <2> QED BY <2>1, <2>2, <2>3
        DEF OutcomeInv, PendingKnown, LandedKnown, LandedUnanswered, UnansweredEnded, ReceiptsTrue, Id
<1>12. ASSUME UNCHANGED <<head, pending, receipt, pc, calls, unanswered>> PROVE OutcomeInv'
  <2>1. \A t : Landed(t)' <=> Landed(t)
    BY <1>12, LandedKept
  <2> QED BY <1>12, <2>1
        DEF OutcomeInv, PendingKnown, LandedKnown, LandedUnanswered, UnansweredEnded, ReceiptsTrue, Id
<1>13. CASE Elsewhere
  BY <1>12, <1>13 DEF Elsewhere, Frame
<1>14. CASE UNCHANGED vars
  BY <1>12, <1>14 DEF vars, chain
<1> QED
  BY <1>1, <1>2, <1>3, <1>4, <1>5, <1>6, <1>7, <1>8, <1>9, <1>10, <1>11, <1>13, <1>14, Shape

\* A resolved call's item is in the story; a rejected call's is not and never
\* comes of its own accord, unless a transaction of its caller went unanswered.
THEOREM OutcomeAlwaysTrue == Spec => []ReportedOutcomeTrue
<1>1. OutcomeInv => ReportedOutcomeTrue
  <2> SUFFICES ASSUME OutcomeInv, NEW s \in Sessions
               PROVE  /\ pc[s] = "resolved" => Landed(s)
                      /\ pc[s] = "rejected" =>
                           /\ Landed(s) => LandedUnanswered(s)
                           /\ \A update \in pending : update.id[1] = s => update.id \in unanswered
    BY DEF ReportedOutcomeTrue
  <2> QED BY DEF OutcomeInv, PendingKnown, LandedKnown, ReceiptsTrue
<1> QED
  BY InitTypeInv, NextTypeInv, InitLinkInv, NextLinkInv, InitOutcomeInv, NextOutcomeInv, <1>1, PTL
     DEF Spec

(***************************************************************************)
(* Why nothing is appended twice.  When an update lands behind a story     *)
(* that has its item, either the copy there is of a transaction that was   *)
(* not answered, or a caller waits for, or was told of, that copy; then    *)
(* the update that lands is one of an earlier call, and not answered.      *)
(***************************************************************************)
LEMMA SecondUnanswered ==
  ASSUME TypeInv, OutcomeInv, NEW update \in pending, NEW inRange \in BOOLEAN, Land(update, inRange),
         Landed(update.id[1]), receipt'[update.id] = "ok"
  PROVE  LandedUnanswered(update.id[1])'
<1> DEFINE s == update.id[1]
<1>1. update.id \in ObjId /\ s \in Sessions /\ receipt[update.id] = "none"
  BY ObjIdParts DEF TypeInv, TypeOK, OutcomeInv, ReceiptsTrue
<1>2. unanswered' = unanswered /\ \A id \in ObjId : id # update.id => receipt'[id] = receipt[id]
  BY DEF Land, TypeInv, TypeOK
<1>3. CASE LandedUnanswered(s)
  <2>1. \A id \in unanswered : receipt[id] = "ok" => receipt'[id] = "ok"
    BY <1>1, <1>2 DEF TypeInv, TypeOK
  <2> QED BY <1>2, <1>3, <2>1, UnansweredKept
<1>4. CASE ~LandedUnanswered(s)
  <2>1. receipt[Id(s)] = "ok"
    BY <1>1, <1>4 DEF OutcomeInv, LandedKnown
  <2>2. update.id \in unanswered
    BY <1>1, <2>1 DEF OutcomeInv, PendingKnown
  <2> QED BY <1>2, <2>2 DEF LandedUnanswered
<1> QED BY <1>3, <1>4

\* What lands is added behind a story that does not have it, or has it unanswered.
LEMMA LandAppendsOnce ==
  ASSUME TypeInv, OutcomeInv, ItemsAppendedOnce,
         NEW update \in pending, NEW inRange \in BOOLEAN, Land(update, inRange)
  PROVE  ItemsAppendedOnce'
<1> DEFINE s == update.id[1]
           m == MintOf[s]
           old == update.currentHash
           new == Append(old, s)
<1>1. update.id \in ObjId /\ old \in Digest /\ s \in Sessions /\ m \in Mints
  BY ObjIdParts, WriterAssumption DEF TypeInv, TypeOK
<1>2. \A t : LandedUnanswered(t) => LandedUnanswered(t)'
  <2>1. receipt[update.id] = "none"
    BY DEF OutcomeInv, ReceiptsTrue
  <2>2. unanswered' = unanswered /\ \A id \in unanswered : receipt[id] = "ok" => receipt'[id] = "ok"
    BY <2>1 DEF Land, TypeInv, TypeOK
  <2> QED BY <2>2, UnansweredKept
<1>3. CASE AppendError(m, update, inRange) # "ok"
  BY <1>2, <1>3 DEF Land, ItemsAppendedOnce
<1>4. CASE AppendError(m, update, inRange) = "ok"
  <2>1. head[m] # NoHead /\ head[m].hash = old
    BY <1>4 DEF AppendError
  <2>2. /\ head'[m].hash = new
        /\ \A x \in Mints : x # m => head'[x] = head[x]
        /\ receipt'[update.id] = "ok"
    BY <1>1, <1>4 DEF Land, TypeInv, TypeOK
  <2>3. /\ Len(old) \in Nat /\ Len(new) = Len(old) + 1 /\ new[Len(old) + 1] = s
        /\ \A i \in 1 .. Len(old) : new[i] = old[i]
    BY <1>1 DEF Digest
  <2>4. ASSUME NEW i \in 1 .. Len(old), old[i] = s PROVE LandedUnanswered(s)'
    <3>1. Landed(s)
      BY <2>1, <2>4 DEF Landed, ItemsOf
    <3> QED BY <2>2, <3>1, SecondUnanswered
  <2>5. \A i \in 1 .. Len(old) :
          /\ MintOf[old[i]] = m
          /\ \A j \in 1 .. Len(old) : old[j] = old[i] => j = i \/ LandedUnanswered(old[i])'
    BY <1>1, <1>2, <2>1 DEF ItemsAppendedOnce
  <2>6. \A i \in 1 .. Len(new) : i = Len(old) + 1 \/ i \in 1 .. Len(old)
    BY <2>3
  <2> HIDE DEF new, old, s
  <2>7. ASSUME NEW i \in 1 .. Len(new)
        PROVE  /\ MintOf[new[i]] = m
               /\ \A j \in 1 .. Len(new) : new[j] = new[i] => j = i \/ LandedUnanswered(new[i])'
    <3>1. CASE i = Len(old) + 1
      BY <2>3, <2>4, <2>6, <3>1 DEF m
    <3>2. CASE i \in 1 .. Len(old)
      BY <2>3, <2>4, <2>5, <2>6, <3>2
    <3> QED BY <2>6, <3>1, <3>2
  <2>8. ASSUME NEW x \in Mints, x # m, head'[x] # NoHead, NEW i \in 1 .. Len(head'[x].hash)
        PROVE  /\ MintOf[head'[x].hash[i]] = x
               /\ \A j \in 1 .. Len(head'[x].hash) :
                    head'[x].hash[j] = head'[x].hash[i] => j = i \/ LandedUnanswered(head[x].hash[i])'
    <3>1. head'[x] = head[x]
      BY <2>2, <2>8
    <3>2. /\ MintOf[head[x].hash[i]] = x
          /\ \A j \in 1 .. Len(head[x].hash) :
               head[x].hash[j] = head[x].hash[i] => j = i \/ LandedUnanswered(head[x].hash[i])
      BY <2>8, <3>1 DEF ItemsAppendedOnce
    <3> DEFINE t == head[x].hash[i]
    <3>3. t' = t
      BY <3>1
    <3>4. LandedUnanswered(t) => LandedUnanswered(t)'
      BY <1>2, <3>3 DEF LandedUnanswered
    <3> QED BY <3>1, <3>2, <3>4
  <2> HIDE DEF m
  <2> QED
    BY <2>2, <2>7, <2>8 DEF ItemsAppendedOnce
<1> QED
  BY <1>3, <1>4

LEMMA NextAppendedOnce ==
  TypeInv /\ OutcomeInv /\ ItemsAppendedOnce /\ [Next]_vars => ItemsAppendedOnce'
<1> SUFFICES ASSUME TypeInv, OutcomeInv, ItemsAppendedOnce, [Next]_vars PROVE ItemsAppendedOnce'
  OBVIOUS
<1>1. ASSUME head' = head, receipt' = receipt, unanswered \subseteq unanswered'
      PROVE  ItemsAppendedOnce'
  <2>1. \A t : LandedUnanswered(t) => LandedUnanswered(t)'
    BY <1>1, UnansweredKept
  <2> QED BY <1>1, <2>1 DEF ItemsAppendedOnce
<1>2. ASSUME NEW update \in pending, NEW inRange \in BOOLEAN, Land(update, inRange)
      PROVE  ItemsAppendedOnce'
  BY <1>2, LandAppendsOnce
<1>3. ASSUME NEW m \in Mints, CreateHead(m) PROVE ItemsAppendedOnce'
  <2>1. /\ receipt' = receipt /\ unanswered' = unanswered
        /\ head' = [head EXCEPT ![m] = EmptyHead]
    BY <1>3 DEF CreateHead
  <2>2. \A t : LandedUnanswered(t) => LandedUnanswered(t)'
    BY <2>1, UnansweredKept
  <2>3. ASSUME NEW x \in Mints
        PROVE  head'[x] = head[x] \/ head'[x].hash = <<>>
    BY <2>1 DEF EmptyHead, TypeInv, TypeOK
  <2> QED BY <2>2, <2>3 DEF ItemsAppendedOnce
<1>4. ASSUME NEW s \in Sessions,
             \/ \E creating \in BOOLEAN : Call(s, creating)
             \/ FetchHead(s) \/ Quiet(s) \/ Stores(s) \/ Submit(s) \/ SubmitAnswerLost(s)
             \/ Confirm(s) \/ GivesUp(s)
      PROVE  ItemsAppendedOnce'
  BY <1>1, <1>4
     DEF Call, FetchHead, Quiet, Stores, Submit, SubmitAnswerLost, Confirm, GivesUp, Frame, chain
<1>5. ASSUME NEW update \in pending, Expire(update) PROVE ItemsAppendedOnce'
  BY <1>1, <1>5 DEF Expire
<1>6. CASE Elsewhere \/ UNCHANGED vars
  BY <1>1, <1>6 DEF Elsewhere, Frame, vars, chain
<1> QED BY <1>2, <1>3, <1>4, <1>5, <1>6, Shape

\* Calls that fail, are repeated, or are given up with their transaction still
\* under way, bring an item into its story a second time only if a transaction
\* that appended it was never answered.
THEOREM AlwaysAppendedOnce == Spec => []ItemsAppendedOnce
<1>1. Init => ItemsAppendedOnce
  BY DEF Init, ItemsAppendedOnce, EmptyHead
<1> QED
  BY InitTypeInv, NextTypeInv, InitLinkInv, NextLinkInv, InitOutcomeInv, NextOutcomeInv,
     NextAppendedOnce, <1>1, PTL DEF Spec

(***************************************************************************)
(* Heads that are missing.                                                 *)
(***************************************************************************)
HasHead(s) == head[MintOf[s]] # NoHead

\* A call that goes on without creating has read a head, which never goes away; one
\* that creates stops where it should send.
HeadsFound ==
  /\ \A s \in Sessions :
       /\ pc[s] \in (Before \ {"fetching"}) \cup {"submitting"} => create[s] \/ HasHead(s)
       /\ pc[s] \in {"confirming", "resolved"} => ~create[s]
  /\ \A update \in pending : HasHead(update.id[1])
  /\ \A id \in ObjId : receipt[id] # "AnchorError"

LEMMA NextHeadsFound == TypeInv /\ HeadsFound /\ [Next]_vars => HeadsFound'
<1> SUFFICES ASSUME TypeInv, HeadsFound, [Next]_vars PROVE HeadsFound'
  OBVIOUS
<1> USE DEF HeadsFound, Before
<1>0. /\ pc \in [Sessions -> InCall \cup Ended] /\ create \in [Sessions -> BOOLEAN]
      /\ \A update \in pending : update.id \in ObjId /\ update.id[1] \in Sessions
  BY ObjIdParts DEF TypeInv, TypeOK
<1>1. ASSUME NEW s \in Sessions, \A t \in Sessions \ {s} : pc'[t] = pc[t] /\ create'[t] = create[t],
             head' = head, pending' = pending, receipt' = receipt,
             /\ pc'[s] \in (Before \ {"fetching"}) \cup {"submitting"} => create'[s] \/ HasHead(s)
             /\ pc'[s] \in {"confirming", "resolved"} => ~create'[s]
      PROVE  HeadsFound'
  BY <1>0, <1>1 DEF HasHead
<1>2. ASSUME NEW s \in Sessions, NEW creating \in BOOLEAN, Call(s, creating) PROVE HeadsFound'
  BY <1>0, <1>1, <1>2 DEF Call, GoTo, chain
<1>3. ASSUME NEW s \in Sessions, FetchHead(s) PROVE HeadsFound'
  BY <1>0, <1>1, <1>3 DEF FetchHead, GoTo, chain, HasHead
<1>4. ASSUME NEW s \in Sessions, Quiet(s) \/ Stores(s) PROVE HeadsFound'
  <2>1. /\ UNCHANGED <<head, pending, receipt, create>>
        /\ \E to \in Before \cup {"submitting", "rejected", "dead"} :
             /\ pc' = [pc EXCEPT ![s] = to]
             /\ to \in Before \cup {"submitting"} => pc[s] \in Before \ {"fetching"}
    BY <1>4 DEF Quiet, Stores, Frame
  <2>2. PICK to \in Before \cup {"submitting", "rejected", "dead"} :
          /\ pc' = [pc EXCEPT ![s] = to]
          /\ to \in Before \cup {"submitting"} => pc[s] \in Before \ {"fetching"}
    BY <2>1
  <2>3. pc'[s] = to /\ \A t \in Sessions \ {s} : pc'[t] = pc[t]
    BY <1>0, <2>2
  <2>4. pc'[s] \in (Before \ {"fetching"}) \cup {"submitting"} => create[s] \/ HasHead(s)
    BY <2>2, <2>3
  <2>5. pc'[s] \notin {"confirming", "resolved"}
    BY <2>2, <2>3
  <2> QED BY <1>1, <2>1, <2>3, <2>4, <2>5
<1>5. ASSUME NEW s \in Sessions, Submit(s) PROVE HeadsFound'
  <2>1. CASE create[s]
    BY <1>0, <1>1, <1>5, <2>1 DEF Submit, GoTo, locals
  <2>2. CASE ~create[s]
    <3>1. /\ HasHead(s) /\ Update(s).id[1] = s
          /\ head' = head /\ receipt' = receipt /\ create' = create
          /\ pending' = pending \cup {Update(s)} /\ pc' = [pc EXCEPT ![s] = "confirming"]
      BY <1>5, <2>2, IdType DEF Submit, GoTo, locals, Update
    <3> QED BY <1>0, <2>2, <3>1 DEF HasHead
  <2> QED BY <2>1, <2>2
<1>6. ASSUME NEW s \in Sessions, Confirm(s) PROVE HeadsFound'
  <2>1. /\ pc[s] = "confirming" /\ UNCHANGED <<head, pending, receipt, create>>
        /\ \E to \in {"resolved", "rejected"} : pc' = [pc EXCEPT ![s] = to]
    BY <1>6 DEF Confirm, GoTo, Outcome, chain, locals
  <2> QED BY <1>0, <1>1, <2>1
<1>7. ASSUME NEW update \in pending, NEW inRange \in BOOLEAN, Land(update, inRange) PROVE HeadsFound'
  <2> DEFINE m == MintOf[update.id[1]]
             err == AppendError(m, update, inRange)
  <2>1. head[m] # NoHead /\ m \in Mints /\ update.id \in ObjId
    BY <1>0, WriterAssumption DEF HasHead
  <2>2. err # "AnchorError"
    BY <2>1 DEF AppendError
  <2>3. /\ pending' = pending \ {update} /\ pc' = pc /\ create' = create
        /\ receipt' = [receipt EXCEPT ![update.id] = err]
        /\ \/ head' = head
           \/ head' = [head EXCEPT ![m] =
                [hash |-> Append(update.currentHash, update.id[1]), obj |-> update.id]]
    BY <1>7 DEF Land, locals
  <2>4. \A x \in Mints : head[x] # NoHead => head'[x] # NoHead
    <3>1. [hash |-> Append(update.currentHash, update.id[1]), obj |-> update.id] \in WriterHead
      BY <1>0, <2>1 DEF TypeInv, TypeOK, WriterHead, Digest
    <3> QED BY <2>1, <2>3, <3>1, NothingAssumption DEF TypeInv, TypeOK
  <2>5. \A s \in Sessions : HasHead(s) => HasHead(s)'
    BY <2>4, WriterAssumption DEF HasHead
  <2>6. receipt \in [ObjId -> {"none", "ok", "AnchorError", "TimestampRangeError", "HashMismatchError"}]
    BY DEF TypeInv, TypeOK
  <2>7. \A id \in ObjId : receipt'[id] # "AnchorError"
    <3> HIDE DEF err
    <3> QED BY <2>2, <2>3, <2>6
  <2> QED BY <1>0, <2>3, <2>5, <2>7
<1>8. ASSUME NEW m \in Mints, CreateHead(m) PROVE HeadsFound'
  <2>1. UNCHANGED <<pending, receipt, pc, create>> /\ head' = [head EXCEPT ![m] = EmptyHead]
    BY <1>8 DEF CreateHead, locals
  <2>2. \A s \in Sessions : HasHead(s) => HasHead(s)'
    BY <1>8, <2>1, EmptyHeadType, WriterAssumption, NothingAssumption DEF HasHead, CreateHead, TypeInv, TypeOK
  <2> QED BY <1>0, <2>1, <2>2
<1>9. ASSUME NEW update \in pending, Expire(update) PROVE HeadsFound'
  BY <1>0, <1>9 DEF Expire, HasHead, locals
<1>10. CASE Elsewhere \/ UNCHANGED vars
  BY <1>0, <1>10 DEF Elsewhere, Frame, vars, chain, locals, HasHead
<1>11. ASSUME NEW s \in Sessions, SubmitAnswerLost(s) PROVE HeadsFound'
  <2>1. /\ HasHead(s) /\ Update(s).id[1] = s
        /\ head' = head /\ receipt' = receipt /\ create' = create
        /\ pending' = pending \cup {Update(s)} /\ pc' = [pc EXCEPT ![s] = "rejected"]
    BY <1>11, IdType DEF SubmitAnswerLost, GoTo, locals, Update
  <2> QED BY <1>0, <2>1 DEF HasHead
<1>12. ASSUME NEW s \in Sessions, GivesUp(s) PROVE HeadsFound'
  <2>1. /\ UNCHANGED <<head, pending, receipt, create>>
        /\ \E to \in {"rejected", "dead"} : pc' = [pc EXCEPT ![s] = to]
    BY <1>12 DEF GivesUp, Frame
  <2> QED BY <1>0, <1>1, <2>1
<1> QED BY <1>2, <1>3, <1>4, <1>5, <1>6, <1>7, <1>8, <1>9, <1>10, <1>11, <1>12, Shape

\* What the run create shows of one call is so of all: appendItemCreate over a
\* missing head sends nothing and never resolves (writer/index.ts:359-366), and
\* what any call does send finds its head on the chain.
THEOREM CreatingNeverResolves ==
  Spec => [](/\ \A s \in Sessions : create[s] => pc[s] \notin {"confirming", "resolved"}
             /\ \A update \in pending : HasHead(update.id[1])
             /\ \A id \in ObjId : receipt[id] # "AnchorError")
<1>1. Init => HeadsFound
  BY DEF Init, HeadsFound, Before
<1>2. HeadsFound => /\ \A s \in Sessions : create[s] => pc[s] \notin {"confirming", "resolved"}
                    /\ \A update \in pending : HasHead(update.id[1])
                    /\ \A id \in ObjId : receipt[id] # "AnchorError"
  BY DEF HeadsFound
<1> QED BY InitTypeInv, NextTypeInv, NextHeadsFound, <1>1, <1>2, PTL DEF Spec

(***************************************************************************)
(* Stories as logs.                                                        *)
(***************************************************************************)
ListOf(m) == IF head[m] = NoHead THEN NoHead ELSE head[m].hash
Stories == [m \in Mints |-> ListOf(m)]

LEMMA StoryStep ==
  ASSUME TypeInv, [Next]_vars
  PROVE  [List!Next]_Stories
<1>0. head \in [Mints -> WriterHead \cup {NoHead}]
  BY DEF TypeInv, TypeOK
<1>1. ASSUME NEW m \in Mints, CreateHead(m) PROVE List!Next
  <2>1. head[m] = NoHead /\ head' = [head EXCEPT ![m] = EmptyHead]
    BY <1>1 DEF CreateHead
  <2>2. EmptyHead # NoHead /\ EmptyHead.hash = <<>>
    BY EmptyHeadType, NothingAssumption DEF EmptyHead
  <2>3. Stories[m] = NoHead /\ Stories' = [Stories EXCEPT ![m] = <<>>]
    BY <1>0, <2>1, <2>2 DEF Stories, ListOf
  <2>4. List!Open(m)
    BY <2>3 DEF List!Open, Stories, ListOf
  <2> QED BY <2>4 DEF List!Next
<1>2. ASSUME NEW update \in pending, NEW inRange \in BOOLEAN, Land(update, inRange)
      PROVE  [List!Next]_Stories
  <2> DEFINE s == update.id[1]
             m == MintOf[s]
             new == [hash |-> Append(update.currentHash, s), obj |-> update.id]
  <2>1. update.id \in ObjId /\ update.currentHash \in Digest /\ s \in Sessions /\ m \in Mints
    BY ObjIdParts, WriterAssumption DEF TypeInv, TypeOK
  <2>2. CASE AppendError(m, update, inRange) = "ok"
    <3>1. head[m] # NoHead /\ update.currentHash = head[m].hash
      BY <2>2 DEF AppendError
    <3>2. head' = [head EXCEPT ![m] = new]
      BY <1>2, <2>2 DEF Land
    <3>3. new \in WriterHead /\ new.hash = Append(head[m].hash, s)
      <4>1. Append(update.currentHash, s) \in Digest
        BY <2>1 DEF Digest
      <4> QED BY <2>1, <3>1, <4>1 DEF WriterHead
    <3>4. new # NoHead
      BY <3>3, NothingAssumption
    <3>5. Stories[m] = head[m].hash /\ head[m].hash \in Digest
      BY <1>0, <2>1, <3>1 DEF Stories, ListOf, WriterHead
    <3>6. Stories[m] # NoHead
      BY <3>5, NothingAssumption
    <3> HIDE DEF new
    <3>7. Stories' = [Stories EXCEPT ![m] = Append(Stories[m], s)]
      BY <1>0, <2>1, <3>2, <3>3, <3>4, <3>5 DEF Stories, ListOf
    <3>8. List!Extend(m, s)
      BY <3>6, <3>7 DEF List!Extend, Stories, ListOf
    <3> QED BY <2>1, <3>8 DEF List!Next
  <2>3. CASE AppendError(m, update, inRange) # "ok"
    BY <1>2, <2>3 DEF Land, Stories, ListOf
  <2> QED BY <2>2, <2>3
<1>3. CASE UNCHANGED head
  BY <1>3 DEF Stories, ListOf
<1>4. \/ \E m \in Mints : CreateHead(m)
      \/ \E update \in pending, inRange \in BOOLEAN : Land(update, inRange)
      \/ UNCHANGED head
  BY Shape DEF vars, chain, Call, FetchHead, Quiet, Stores, Submit, SubmitAnswerLost, Confirm,
               GivesUp, Expire, Elsewhere, Frame
<1> QED BY <1>1, <1>2, <1>3, <1>4

\* The writer's stories implement the append-only logs of HashList, as they are
\* seen by callers that crash, repeat their calls and work from stale heads.
THEOREM ImplementsLogs == Spec => StoriesAreLogs
<1>1. Init => List!Init
  <2> SUFFICES ASSUME Init PROVE Stories \in [Mints -> {NoHead, <<>>}]
    BY DEF List!Init, Stories, ListOf
  <2>1. ASSUME NEW m \in Mints PROVE ListOf(m) \in {NoHead, <<>>}
    BY DEF Init, ListOf, EmptyHead
  <2> QED BY <2>1 DEF Stories
<1>2. TypeInv /\ [Next]_vars => [List!Next]_Stories
  BY StoryStep
<1>3. Stories = [m \in Mints |-> IF head[m] = NoHead THEN NoHead ELSE head[m].hash]
  BY DEF Stories, ListOf
<1> QED
  BY <1>1, <1>2, <1>3, InitTypeInv, NextTypeInv, PTL DEF Spec, StoriesAreLogs, List!Spec, Stories, ListOf

Logs == INSTANCE HashListProofs WITH
  Lists <- Mints, Entry <- Sessions, NoList <- NoHead, list <- Stories

\* What a reader once found a story to begin with, it begins with for ever,
\* whatever transactions of the writer's calls are still under way.
THEOREM StoriesNeverTakenBack ==
  ASSUME NEW CONSTANT m \in Mints, NEW CONSTANT log \in Digest
  PROVE  Spec => [](Logs!Commits(m, log) => []Logs!Commits(m, log))
<1>1. NoHead \notin Seq(Sessions)
  BY NothingAssumption DEF Digest
<1>2. Logs!TypeOK /\ [Logs!Next]_Stories /\ Logs!Commits(m, log) => Logs!Commits(m, log)'
  BY <1>1, Logs!StepCommits DEF Digest
<1>3. StoriesAreLogs => Logs!Spec
  BY DEF StoriesAreLogs, Stories, ListOf, List!Spec, Logs!Spec, List!Init, Logs!Init, List!Next,
         Logs!Next, List!Open, Logs!Open, List!OpenWith, Logs!OpenWith, List!Extend, Logs!Extend
<1> QED
  BY <1>2, <1>3, ImplementsLogs, Logs!TypeCorrect, PTL DEF Logs!Spec
=============================================================================
