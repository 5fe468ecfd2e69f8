---------------------------- MODULE WriterClient ----------------------------
(***************************************************************************)
(* A writer appends items through the API (api/src/writer/index.ts):       *)
(* appendItem and appendItemCreate read the head of the story from the     *)
(* chain, upload the item to permanent storage through bundlr, paying from *)
(* the balance bundlr keeps for the writer, and only then move the head.   *)
(* Every await is a point where the other calls of the same writer run, on *)
(* this machine or on another; what a call read before it may be stale     *)
(* after it.  The chain, bundlr and the network are modelled by what the   *)
(* code relies on.                                                         *)
(*                                                                         *)
(* A digest is the sequence of items it commits to (see SolstoryProgram);  *)
(* an item is the call that appends it.  The k-th call of s uploads the    *)
(* object <<s, k>>: createTransaction signs a new transaction each time.   *)
(*                                                                         *)
(* F_Suffix, just before F, is F with one plausible mistake, as in         *)
(* SolstoryProgram.                                                        *)
(***************************************************************************)
EXTENDS Integers, Sequences

CONSTANTS
  Sessions,       \* the items to append, one caller for each
  Mints,          \* the NFTs
  MintOf,         \* the mint a session's item is for
  Price,          \* bundlr's price of a session's item, in its smallest unit
  RATIO_PERCENT,  \* bundlrFundingRatio, in percent
  INITIAL_LOADED, \* what bundlr holds for the writer at the start
  Bundlrs,        \* the kinds of bundlr that are configured: "server", "web"
  FAULTS,         \* whether requests, transactions and processes may fail
  MAX_CALLS,      \* bound: how often one caller calls
  NoHead,         \* no account at the address of a head
  NoObject,       \* nothing is stored under this id
  ZERO_ID         \* the id of no object, in a head without items

ASSUME WriterAssumption ==
  /\ MintOf \in [Sessions -> Mints]
  /\ Price \in [Sessions -> Nat]
  /\ RATIO_PERCENT \in Nat /\ RATIO_PERCENT >= 100  \* index.ts:122, "must be at least 1"
  /\ INITIAL_LOADED \in Nat
  /\ Bundlrs \subseteq {"server", "web"}
  /\ FAULTS \in BOOLEAN
  /\ MAX_CALLS \in Nat

Digest == Seq(Sessions)
ObjId == Sessions \X (1 .. MAX_CALLS)
WriterHead == [hash : Digest, obj : ObjId \cup {ZERO_ID}]
EmptyHead == [hash |-> <<>>, obj |-> ZERO_ID]
Container == [item : Sessions, nextHash : Digest, next : ObjId \cup {ZERO_ID}]

ASSUME NothingAssumption ==
  NoHead \notin WriterHead \cup Digest /\ NoObject \notin Container /\ ZERO_ID \notin ObjId

VARIABLES
  head,     \* chain: by mint, the writer's head account
  pending,  \* chain: transactions sent, neither executed nor expired
  receipt,  \* chain: by transaction (its object's id), how it ended
  stored,   \* permanent storage: by id, the uploaded container
  loaded,   \* bundlr: the balance held for the writer
  bundlrReady, \* api: a bundlr was configured, and became ready
  connecting,  \* api: the WebBundlrs whose ready() has not resolved: "current" is
               \* the one in use, "earlier" any that were replaced
  pc,       \* by session: where its call is, or how it ended
  calls,    \* by session: how many calls it has made
  creates,  \* by session: the call is appendItemCreate, not appendItem
  create,   \* by session: the local of appendItemCreate, the head was missing
  headAct,  \* by session: the head the call works from
  unanswered \* history: the transactions sent whose call ended without their answer

chain == <<head, pending, receipt>>
bundlr == <<stored, loaded>>
config == <<bundlrReady, connecting>>
locals == <<creates, create, headAct>>
vars == <<chain, bundlr, config, pc, calls, locals, unanswered>>

InCall == {"fetching", "checking", "funding", "uploading", "submitting", "confirming"}
\* "dead": the process died.
Ended == {"idle", "resolved", "rejected", "dead"}

Id(s) == <<s, calls[s]>>

Init ==
  /\ head \in [Mints -> {NoHead, EmptyHead}]
  /\ pending = {}
  /\ receipt = [i \in ObjId |-> "none"]
  /\ stored = [i \in ObjId |-> NoObject]
  /\ loaded = INITIAL_LOADED
  /\ bundlrReady \in BOOLEAN  \* configured before, or not
  /\ connecting = {}
  /\ pc = [s \in Sessions |-> "idle"]
  /\ calls = [s \in Sessions |-> 0]
  /\ creates = [s \in Sessions |-> FALSE]
  /\ create = [s \in Sessions |-> FALSE]
  /\ headAct = [s \in Sessions |-> EmptyHead]
  /\ unanswered = {}

GoTo(s, to) == pc' = [pc EXCEPT ![s] = to]

(***************************************************************************)
(* The caller.  It calls again after a call that was rejected, for any     *)
(* reason, and after its process died and was started again: the API gives *)
(* it nothing by which it could know its item is on its way already.       *)
(***************************************************************************)
Call(s, creating) ==
  /\ pc[s] \in {"idle", "rejected", "dead"} /\ calls[s] < MAX_CALLS
  /\ GoTo(s, "fetching")
  /\ calls' = [calls EXCEPT ![s] = @ + 1]
  /\ creates' = [creates EXCEPT ![s] = creating]
  /\ create' = [create EXCEPT ![s] = FALSE]
  /\ UNCHANGED <<chain, bundlr, config, headAct, unanswered>>

(***************************************************************************)
(* The steps of a call, from one await to the next.                        *)
(***************************************************************************)
\* The head is read and the item hashed onto it; a missing one ends appendItem,
\* and appendItemCreate starts from zeros.  Then uploadItemBundlr is entered.
ReadHead_Memoized(s) ==
  IF calls[s] > 1 THEN headAct[s]
  ELSE IF head[MintOf[s]] = NoHead THEN EmptyHead ELSE head[MintOf[s]]
ReadHead(s) == IF head[MintOf[s]] = NoHead THEN EmptyHead ELSE head[MintOf[s]]

FetchHead(s) ==
  LET missing == head[MintOf[s]] = NoHead
  IN
  /\ pc[s] = "fetching"
  /\ IF missing /\ ~creates[s] THEN GoTo(s, "rejected") /\ UNCHANGED <<create, headAct>>
     ELSE /\ create' = [create EXCEPT ![s] = missing]
          /\ headAct' = [headAct EXCEPT ![s] = ReadHead(s)]
          /\ GoTo(s, IF bundlrReady THEN "checking" ELSE "rejected")
  /\ UNCHANGED <<chain, bundlr, config, calls, creates, unanswered>>

\* getPrice, getLoadedBalance, and the comparison of the two.
MustFund(s) == Price[s] > loaded

CheckBalance(s) ==
  /\ pc[s] = "checking"
  /\ GoTo(s, IF MustFund(s) THEN "funding" ELSE "uploading")
  /\ UNCHANGED <<chain, bundlr, config, calls, locals, unanswered>>

\* The price times the ratio, rounded up: not the difference to the balance.
FundAmount(s) == (Price[s] * RATIO_PERCENT + 99) \div 100

Fund(s) ==
  /\ pc[s] = "funding"
  /\ loaded' = loaded + FundAmount(s)
  /\ GoTo(s, "uploading")
  /\ UNCHANGED <<chain, stored, config, calls, locals, unanswered>>

\* What is uploaded: the item over the head the call read, and where that
\* head's own item is.
NewContainer(s) == [item |-> s, nextHash |-> headAct[s].hash, next |-> headAct[s].obj]

\* The id is known before the upload, and could be sent before it ended.
UploadItem_Unawaited(s) ==
  /\ stored' = IF loaded >= Price[s] THEN [stored EXCEPT ![Id(s)] = NewContainer(s)] ELSE stored
  /\ loaded' = IF loaded >= Price[s] THEN loaded - Price[s] ELSE loaded
  /\ GoTo(s, "submitting")
\* The balance was checked before, and could be relied on.
UploadItem_Overdrawn(s) ==
  /\ stored' = [stored EXCEPT ![Id(s)] = NewContainer(s)]
  /\ loaded' = loaded - Price[s]
  /\ GoTo(s, "submitting")
\* bundlr refuses an upload its balance does not cover, and the call with it.
UploadItem(s) ==
  IF loaded >= Price[s]
  THEN /\ stored' = [stored EXCEPT ![Id(s)] = NewContainer(s)]
       /\ loaded' = loaded - Price[s]
       /\ GoTo(s, "submitting")
  ELSE GoTo(s, "rejected") /\ UNCHANGED bundlr

Upload(s) ==
  /\ pc[s] = "uploading"
  /\ UploadItem(s)
  /\ UNCHANGED <<chain, config, calls, locals, unanswered>>

\* solstoryItemToUpdateHeadData: the object, and the hash it was linked to.
Update(s) == [id |-> Id(s), currentHash |-> headAct[s].hash]

\* The accounts of createAndAppend lack solstory_fee_destination, which the
\* program demands (lib.rs:493): Anchor refuses the transaction.
Submit(s) ==
  /\ pc[s] = "submitting"
  /\ IF create[s] THEN GoTo(s, "rejected") /\ UNCHANGED pending
     ELSE GoTo(s, "confirming") /\ pending' = pending \cup {Update(s)}
  /\ UNCHANGED <<head, receipt, bundlr, config, calls, locals, unanswered>>

\* A transaction that was executed and failed rejects the call.
Outcome_Executed(err) == "resolved"
Outcome_Inverted(err) == IF err = "ok" THEN "rejected" ELSE "resolved"
Outcome(err) == IF err = "ok" THEN "resolved" ELSE "rejected"

Confirm(s) ==
  /\ pc[s] = "confirming" /\ receipt[Id(s)] # "none"
  /\ GoTo(s, Outcome(receipt[Id(s)]))
  /\ UNCHANGED <<chain, bundlr, config, calls, locals, unanswered>>

(***************************************************************************)
(* The chain.                                                              *)
(***************************************************************************)
\* Any client that passes every account, on behalf of the writer or a creator.
CreateHead(m) ==
  /\ head[m] = NoHead
  /\ head' = [head EXCEPT ![m] = EmptyHead]
  /\ UNCHANGED <<pending, receipt, bundlr, config, pc, calls, locals, unanswered>>

\* processor.rs:71-81.  inRange: the machine that called has a clock near the
\* chain's.
AppendError_Unlinked(m, update, inRange) ==
  IF head[m] = NoHead THEN "AnchorError"
  ELSE IF ~inRange THEN "TimestampRangeError"
  ELSE "ok"
AppendError(m, update, inRange) ==
  IF head[m] = NoHead THEN "AnchorError"
  ELSE IF ~inRange THEN "TimestampRangeError"
  ELSE IF update.currentHash # head[m].hash THEN "HashMismatchError"
  ELSE "ok"

\* The transaction that carries an update is executed, once.
Land(update, inRange) ==
  LET s == update.id[1]  m == MintOf[s]  err == AppendError(m, update, inRange)
  IN
  /\ inRange \/ FAULTS
  /\ pending' = pending \ {update}
  /\ receipt' = [receipt EXCEPT ![update.id] = err]
  /\ head' = IF err = "ok"
             THEN [head EXCEPT ![m] = [hash |-> Append(update.currentHash, s), obj |-> update.id]]
             ELSE head
  /\ UNCHANGED <<bundlr, config, pc, calls, locals, unanswered>>

(***************************************************************************)
(* The configuration of bundlr, at any time and any number of times.       *)
(***************************************************************************)
Replaced == IF connecting = {} THEN {} ELSE {"earlier"}

configureBundlrServer ==
  /\ "server" \in Bundlrs
  /\ bundlrReady' = TRUE
  /\ connecting' = Replaced
  /\ UNCHANGED <<chain, bundlr, pc, calls, locals, unanswered>>

\* bundlrReady is left as it was: true, if something was ready before.
configureBundlrWeb ==
  /\ "web" \in Bundlrs
  /\ connecting' = Replaced \cup {"current"}
  /\ UNCHANGED <<bundlrReady, chain, bundlr, pc, calls, locals, unanswered>>

\* A ready() resolves, for whichever bundlr is in use by then.
BundlrReady(which) ==
  /\ bundlrReady' = TRUE
  /\ connecting' = connecting \ {which}
  /\ UNCHANGED <<chain, bundlr, pc, calls, locals, unanswered>>

(***************************************************************************)
(* Faults.                                                                 *)
(***************************************************************************)
\* A request fails: nothing was done, and the call is rejected.  To bundlr it may
\* fail without a fault, when the one in use is not ready.
RequestFails(s) ==
  /\ pc[s] \in InCall \ {"confirming"}
  /\ FAULTS \/ ("current" \in connecting /\ pc[s] \in {"checking", "funding", "uploading"})
  /\ GoTo(s, "rejected")
  /\ UNCHANGED <<chain, bundlr, config, calls, locals, unanswered>>

\* A request is carried out, and its answer is lost.
FundAnswerLost(s) ==
  /\ FAULTS /\ pc[s] = "funding"
  /\ loaded' = loaded + FundAmount(s)
  /\ GoTo(s, "rejected")
  /\ UNCHANGED <<chain, stored, config, calls, locals, unanswered>>

UploadAnswerLost(s) ==
  /\ FAULTS /\ pc[s] = "uploading" /\ loaded >= Price[s]
  /\ stored' = [stored EXCEPT ![Id(s)] = NewContainer(s)]
  /\ loaded' = loaded - Price[s]
  /\ GoTo(s, "rejected")
  /\ UNCHANGED <<chain, config, calls, locals, unanswered>>

SubmitAnswerLost(s) ==
  /\ FAULTS /\ pc[s] = "submitting" /\ ~create[s]
  /\ pending' = pending \cup {Update(s)}
  /\ unanswered' = unanswered \cup {Id(s)}
  /\ GoTo(s, "rejected")
  /\ UNCHANGED <<head, receipt, bundlr, config, calls, locals>>

\* A transaction expires with its blockhash before it is executed.
Expire(update) ==
  /\ FAULTS
  /\ pending' = pending \ {update}
  /\ UNCHANGED <<head, receipt, bundlr, config, pc, calls, locals, unanswered>>

\* The confirmation does not come in time, executed or not, and web3 rejects.
TimedOut_WhilePending(s) == FAULTS /\ pc[s] = "confirming" /\ Update(s) \in pending
TimedOut(s) == FAULTS /\ pc[s] = "confirming"

Timeout(s) ==
  /\ TimedOut(s)
  /\ unanswered' = unanswered \cup {Id(s)}
  /\ GoTo(s, "rejected")
  /\ UNCHANGED <<chain, bundlr, config, calls, locals>>

Crash(s) ==
  /\ FAULTS /\ pc[s] \in InCall
  /\ unanswered' = unanswered \cup IF pc[s] = "confirming" THEN {Id(s)} ELSE {}
  /\ GoTo(s, "dead")
  /\ UNCHANGED <<chain, bundlr, config, calls, locals>>

Step(s) ==
  \/ FetchHead(s) \/ CheckBalance(s) \/ Fund(s) \/ Upload(s) \/ Submit(s)
  \/ Confirm(s) \/ Timeout(s)

Fault(s) ==
  \/ RequestFails(s) \/ FundAnswerLost(s) \/ UploadAnswerLost(s) \/ SubmitAnswerLost(s)
  \/ Crash(s)

Executing == \E update \in pending : Expire(update) \/ \E inRange \in BOOLEAN : Land(update, inRange)

Next ==
  \/ \E s \in Sessions : Step(s) \/ Fault(s) \/ \E creating \in BOOLEAN : Call(s, creating)
  \/ Executing
  \/ \E m \in Mints : CreateHead(m)
  \/ configureBundlrServer \/ configureBundlrWeb
  \/ \E which \in connecting : BundlrReady(which)

\* A call goes on as long as its process lives, a transaction is executed or
\* expires, and a caller that was rejected calls again.
Fairness ==
  /\ \A s \in Sessions : WF_vars(Step(s)) /\ WF_vars(\E creating \in BOOLEAN : Call(s, creating))
  /\ WF_vars(Executing)

Spec == Init /\ [][Next]_vars /\ Fairness

(***************************************************************************)
(* Properties.                                                             *)
(***************************************************************************)
TypeOK ==
  /\ head \in [Mints -> WriterHead \cup {NoHead}]
  /\ pending \subseteq [id : ObjId, currentHash : Digest]
  /\ receipt \in [ObjId -> {"none", "ok", "AnchorError", "TimestampRangeError", "HashMismatchError"}]
  /\ stored \in [ObjId -> Container \cup {NoObject}]
  /\ loaded \in Nat
  /\ bundlrReady \in BOOLEAN /\ connecting \subseteq {"current", "earlier"}
  /\ pc \in [Sessions -> InCall \cup Ended]
  /\ calls \in [Sessions -> 0 .. MAX_CALLS]
  /\ creates \in [Sessions -> BOOLEAN]
  /\ create \in [Sessions -> BOOLEAN]
  /\ headAct \in [Sessions -> WriterHead]
  /\ unanswered \subseteq ObjId

\* The object a digest was computed for is among the objects stored, and links
\* to the digest before it; the digest of no items goes with the zero id.
Linked(objects, hash, obj) ==
  IF hash = <<>> THEN obj = ZERO_ID
  ELSE /\ obj \in ObjId /\ objects[obj] # NoObject
       /\ hash = Append(objects[obj].nextHash, objects[obj].item)

\* From any head, and from any object, a reader can walk back to the beginning:
\* every object named was uploaded before the transaction that names it was sent
\* (writer/index.ts:269-275), whichever calls, failures or crashes interleave.
StoryReadable ==
  /\ \A m \in Mints : head[m] # NoHead => Linked(stored, head[m].hash, head[m].obj)
  /\ \A id \in ObjId : stored[id] # NoObject => Linked(stored, stored[id].nextHash, stored[id].next)

ItemsOf(m) == {head[m].hash[i] : i \in 1 .. Len(head[m].hash)}
Landed(s) == head[MintOf[s]] # NoHead /\ s \in ItemsOf(MintOf[s])

LandedUnanswered(s) == \E id \in unanswered : id[1] = s /\ receipt[id] = "ok"

\* A caller whose call resolved has its item in the story.  One whose call was
\* rejected has it neither in the story nor on its way there, but by a
\* transaction that was sent and never answered (writer/index.ts:376): with none
\* of these it may call again and not append the item twice.
ReportedOutcomeTrue ==
  \A s \in Sessions :
    /\ pc[s] = "resolved" => Landed(s)
    /\ pc[s] = "rejected" =>
         /\ Landed(s) => LandedUnanswered(s)
         /\ \A update \in pending : update.id[1] = s => update.id \in unanswered

\* No item is in another story than its own, and none is in it twice, however often
\* it was uploaded, sent, and its caller called again, unless a transaction that
\* appended it was never answered: nothing in an append says that it is a
\* repetition (writer/index.ts:359-376).
ItemsAppendedOnce ==
  \A m \in Mints : head[m] # NoHead =>
    \A i \in 1 .. Len(head[m].hash) :
      /\ MintOf[head[m].hash[i]] = m
      /\ \A j \in 1 .. Len(head[m].hash) :
           head[m].hash[j] = head[m].hash[i] => j = i \/ LandedUnanswered(head[m].hash[i])

\* The stories of the writer are append-only logs (HashList): the calls work from
\* heads they read long ago, and yet none of them takes back what another has
\* appended, be it an update sent first and executed last (processor.rs:77-81).
List == INSTANCE HashList WITH
  Lists <- Mints, Entry <- Sessions, NoList <- NoHead,
  list <- [m \in Mints |-> IF head[m] = NoHead THEN NoHead ELSE head[m].hash]

StoriesAreLogs == List!Spec

\* Every call ends, also when its transaction is never executed.
CallsSettle == \A s \in Sessions : pc[s] \in InCall ~> pc[s] \in Ended

\* Without faults, when the heads exist and bundlr is ready, every item reaches its
\* story, unless bundlr is configured again to one that is not: the calls take each
\* other's head and balance away, but a call loses only to one that got further,
\* and starts again from the new state.
EveryItemLands ==
  (bundlrReady /\ \A m \in Mints : head[m] # NoHead) =>
    \A s \in Sessions : <>(Landed(s) \/ connecting # {})

\* writer/index.ts:285: appendItemCreate "will also automatically create a "head"
\* for the story": a call of it that uploaded its item over a missing head, is
\* not refused while the head is still missing.
HeadCreatedWhenMissing ==
  \A s \in Sessions :
    pc[s] = "rejected" /\ create[s] /\ calls[s] > 0 /\ stored[Id(s)] # NoObject
      => head[MintOf[s]] # NoHead
=============================================================================
