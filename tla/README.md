# A verification development of Solstory

Solstory attaches stories to NFTs. A *story* is a hash list of items, one list for
each pair of a token mint and a *writer*. The items live in permanent storage
(Arweave, through bundlr); the chain keeps only the *head* of each list: the
hash of the list, where its newest item is stored, and three settings owned by
three parties. The modules here describe the on-chain program
(`programs/solstory/src`) and the TypeScript API that writers and readers use
(`api/src`), are model-checked on small instances, and carry proofs of the
properties that matter most.

## The system

| Part | State | Operations | Where it is hard |
|---|---|---|---|
| Program, registry (`lib.rs:35-72, 131-163, 246-256, 280-286`) | singleton `solstory_pda` (a saturating counter of writers), one `WriterMetadata` and one `ExtendedMetadata` account a writer | initialize, create / update / delete metadata, set / delete extended metadata, verify | counter and rent over any order of creations and deletions; accounts found by seeds |
| Program, heads (`lib.rs:80-125, 165-273`, `processor.rs`) | one `WriterHead` a (mint, writer): authorization (creator), visibility (holder), hash, access type and object id (writer) | create (by writer, by creator, with the first item), authorize, deauthorize, set visibility, append | many clients with stale or wrong updates; three owners of one account; fee and rent in a transaction that may fail late; 64-bit times |
| Writer API, registry calls (`api/src/writer/index.ts:34-152`) | one call of a client | the five methods that manage metadata and heads | accounts of another version of the program; confirmations that time out, transactions executed late |
| Creator and holder API (`api/src/creator`, `api/src/holder`) | one call of a client | create, authorize, deauthorize a head; set a story's visibility | the same; a token account looked up and used after an await |
| Writer API, appending (`api/src/writer/index.ts:154-386`) | the locals of each call | `appendItem`, `appendItemCreate` and what they call | five awaits between reading the head and moving it; a balance at bundlr shared by all calls; crashes, lost answers, expired and late transactions |
| Bundlr configuration (`api/src/index.ts:124-188`) | `bundlr`, `bundlrReady` | `configureBundlrServer`, `configureBundlrWeb` | readiness that comes later, perhaps for a bundlr already replaced |
| Reader API (`api/src/common/index.ts:305-469`) | the `SolstoryStory` object a caller holds | `getStory`, `getStoryFromHead`, `getAdditionalItems`, `verifyStory`, `verifyItem` | overlapping calls on one object; storage that answers with anything; verification against another head than the one loaded from |
| Metadata cache (`api/src/common/index.ts:95-297`) | `metadataCache` of all writers' metadata with a time | `getMetadata`, `getAllMetadata`, `getHead`, `getHeadsForNFT` | refresh that is not awaited, answers out of order, reading the cache again after awaits, slices, inverted expiry |
| Conversions and hashes (`conversions.ts`, `utils`) | none | JSON to object and back, `simpleHash`, `solstoryHash` | what a round trip loses; keys that two parts call by two names |

A writer reads the head from the chain, hashes its item onto it, pays bundlr,
uploads, and sends `ext_append`; the program compares the hash the item was
linked to with the head's and moves the head or refuses. A reader gets the
head, fetches the object it names, checks it against the head's hash, and
follows the object's own link to the one before.

### What makes each part correct

- Registry: the counter is the number of writers; opening and closing accounts
  conserves lamports; a writer can update what it created (it cannot: see below).
- Heads: lists are append-only logs; a party writes its own part of a head, and signs for it; one
  fee a head, paid by who signed; the two ways to recognise an empty head agree; claimed times are
  near the chain's and nearly ordered.
- Clients of the registry and of heads: what a resolved call told stands; the one
  holder of a token is never refused.
- Appending: a head never names an object that was not uploaded; no call takes back what
  another appended; what a call reports is true, and calling again after a rejection puts no item in twice, but for
  transactions that were sent and never answered; every call ends; every item gets in when nothing fails.
- Reader: what is marked as validated is genuine; what is loaded is the story; a saved
  story restores or is refused.
- Metadata cache: it is one state of the chain; heads go with the metadata of their own writer; a
  lookup over a current cache misses no head.

## Modules

| Module | Models | Checked by | Proved in |
|---|---|---|---|
| `HashList` | what is promised of a list: it is opened once, and extended by one entry at a time | as a refinement | `HashListProofs` |
| `SolstoryProgram` | all fifteen instructions, with the account checks Anchor generates | `MCSolstoryProgram`, `MCSolstoryApi` | `SolstoryProgramProofs` |
| `SolstoryApi` | the nine methods of writers, creators and holders that send one transaction each, composed with the program | `MCSolstoryApi` | `SolstoryApiProofs` |
| `WriterClient` | concurrent `appendItem` and `appendItemCreate` calls, bundlr and its configuration, the head they contend for, faults | `MCWriterClient` | `WriterClientProofs` |
| `Conversions` | the five pairs of conversions between objects and JSON | with `StoryLoader` | `ConversionsProofs` |
| `StoryLoader` | `getStoryFromHead`, `getAdditionalItems` and `verifyStory` over storage that may answer with altered objects, and the story saved and restored | `MCStoryLoader` | `StoryLoaderProofs` |
| `MetadataCache` | `getMetadata`, `getAllMetadata`, `getHead` and `getHeadsForNFT` over the cache they share, answers in any order | `MCMetadataCache` | `MetadataCacheProofs` |

`SolstoryApi` extends `SolstoryProgram`: what a client sends is an instruction of the
program, and everybody who is not a client sends instructions directly. `StoryLoader` extends `Conversions`.
`SolstoryProgram` and `WriterClient` both state that their lists implement `HashList`
(`ListsAreLogs`, `StoriesAreLogs`): one from inside, where updates of any content arrive, the other from
outside, where calls work from heads read long ago.
`WriterClient` uses of the program only the compare-and-set of a head, in the
order of `processor.rs:71-81`: this is the part of `ext_append` its callers can
tell apart.

### SolstoryProgram

One action per instruction, named as in `lib.rs`. An action computes the error
the transaction ends with (Anchor's checks first, in the order of the fields of
the accounts struct, then the handler's), records it in `receipt`, and changes
accounts only when there is none: this is the atomicity of a Solana
transaction. Accounts at program-derived addresses are functions of their seeds;
absent accounts are `NoAccount`. `update_writer_metadata` and
`set_system_verified` derive the address of a *head* (`lib.rs:381`, `lib.rs:506`),
so they look there, as the program does, and find an account of another type.

Abstractions: strings and JSON are model values with one bit each, whether they fit
the account; keys are model values; rent and fees are the real numbers of
lamports. A digest is the sequence of entries hashed, so SHA-256 is assumed to
have no collision. Transaction fees of the cluster are left out. Of token
accounts only owner and mint are kept, as the handler reads nothing else (not
the amount: a holder of zero tokens passes). A transaction may pass the metaplex
account of another mint: that it belongs to the mint is a TODO in the
source (`lib.rs:95, 116, 143, 178, 201`), and the model has the freedom the code leaves. `HeadPartsSigned` therefore
says of an authorization that *an* update authority has signed it, of whichever mint: more does not hold of the code.
`metadata_extended` is true on both branches in the source, and is here.
The copy of the metaplex layout in `metaplex_metadata.rs` is compiled nowhere.

### SolstoryApi

The methods are operators that give the request each method makes: the instruction,
its arguments and the accounts it passes, addresses being the seeds they are derived from.
`Built` is Anchor's comparison of the accounts with the interface description
(`programs/solstory.json`), `Demanded` what the program demands of them whatever the ledger
holds. Only `createWriterMetadata`, `deleteWriterMetadata` and `updateVisibility` pass both:

| Method | Why it is refused |
|---|---|
| `updateWriterMetadata` | passes neither the mint nor the metaplex account |
| `setExtendedMetadata` | derives the metadata's own address (`common/index.ts:65-74`), where the program has `"extended"` in its seeds (`lib.rs:434-435`) |
| `createWriterHead`, `createWriterHeadCreator` | no account for the fee, which the description does not list either |
| `authorizeWriterHead`, `deauthorizeWriterHead` | call instructions that the description and the program name `authorizeWriter` and `deauthorizeWriter` |

A client makes one call at a time. Between its steps (`Call`, `Lookup`, `Land`, `Confirm`) everybody
else acts, and at any of them it may give up, with the promise rejected and its transaction still to be executed
(`late`), or never. The simulation the node makes before it sends a transaction
is no step of its own: what it refuses, the execution at that moment refuses as
well. `told` and `steady` are histories, for what the caller was told and for what it may rely on.

Of token accounts the amounts are left out, so that the lookup of `updateVisibility` may find any account of the
mint; `HolderObeyed` speaks of a holder that owns the only one.

### WriterClient

A session is one caller with one item to append. `pc` is the await its call
stands at; `creates`, `create` and `headAct` are locals of the call. Between two
awaits JavaScript runs without interruption, and machines share nothing but the
chain and bundlr, so one action is the code from one await to the next. The
two RPCs of a balance check are one step: what is read of the price does not
change.

The chain is `head`, the transactions sent and not yet executed (`pending`) and how
each ended (`receipt`). A transaction is executed once, expires, or stays under way;
a confirmation arrives or times out whether or not it did, and a timeout rejects the call. bundlr is its balance
and its objects; it refuses an upload that the balance does not cover, and may
carry out a request whose answer is lost, as the RPC node may a transaction that is sent to it (`SubmitAnswerLost`).
Any request of a call may fail with nothing done (`RequestFails`).

The caller calls again after any rejection, a timeout too, and after its process was started again: nothing the API
hands it would keep it from doing so. What became of a transaction whose confirmation timed out, whose sender died,
or the answer to whose sending was lost, no caller is told, and since no key makes an append idempotent, calling
again can then put an item into the story twice. The model has these behaviours. The history `unanswered` keeps the
transactions that were left so, and the properties say that nothing else does harm: `ReportedOutcomeTrue`, that a
rejected call's item is neither in the story nor on its way there but by one of them; `ItemsAppendedOnce`, that an item is in a story
twice only if one of them was executed.

`bundlrReady` is never reset. `connecting` holds the WebBundlrs whose `ready()` has not resolved:
the one in use, and any that were replaced, whose promise sets `bundlrReady` all the same. While the one in use is
not ready, requests to it may fail. The list of a story is its head's hash, which is how it implements `HashList`.

### StoryLoader

The items of a story are numbered, and the number of an item stands for the
digest of the list that ends with it. Storage answers with any container: a
validated part that is one of the story's or hashes to none of them (`Forged`),
and any unvalidated link. `items`, `next` and `loading` are fields of the story object that all
calls share; the code after the await of `retriever` is one action, and reads
`story.next.objId` and the last item then, as the source does. The number of altered
answers is bounded by `MAX_ALTERED`, and counted to state what holds when there
was none.

`getStory` is `Init`: the head it got may be of any age. `verifyStory` sets all marks in one step, after its await of
`getHead`; which heads it may be answered with is the constant `Heads`. Without a global CDN
that is none, since `getHead` fails; with one the head may be newer or older than the
story's. `marked` is the head the marks were last checked against.

### Conversions

An object is a function from the keys it has, so that what a conversion asks for is a set of
keys and what it drops is a domain. The one value that JSON does not carry as it is are the ids of
objects in storage: a `Uint8Array` becomes a plain object of its indices, from which
`Buffer.from` makes nothing. `StoryLoader` builds the objects that occur (`AsStory`, `AsContainer`) and says of every reachable
story whether it can be saved and restored (`RestoredOrRefused`): only one whose metadata came from a CDN and that has no
item loaded yet can. A head can never be restored: `solstoryHeadFromString` asks for `authority`, where the
chain and the types have `authorized`.

### MetadataCache

`metadata` and `lastAll` are the cache. `requests` are the calls of
`getAllMetadata` that went to the chain: the node reads the accounts (`Read`) some time
before the answer arrives (`Refresh`), and answers overtake each other. A request that
`getHeadsForNFT` started has nobody who awaits it. A call of `getHeadsForNFT` keeps
the writers whose addresses it derived (`writers`), the slices not answered (`waiting`)
and the heads found (`outs`); the code after each slice's await is `Fetched`, which reads the
cache as it is then. `past` is every state the chain's metadata had, so that "what the
chain held at one moment" can be said; `asked` is a history of what each call was told and met.
The order in which JavaScript enumerates the cache is left open.

`getMetadata` and `getHead` are one step each: they answer from the cache, or ask Anchor for an account type it does not
have under that name (`account.WriterMetadata`, `account.WriterHead`; the library has `writerMetadata` and `writerHead`)
and are rejected. `getMetadata` therefore answers only out of a cache that has expired.

Left out: the CDN branches, and what a Node process does about a rejection nobody catches
(the dropped refresh that fails). `Matching` is the set of writers the filter of
`getAllMetadata` lets through: which they are is decided by a byte of their key (see below), so that it is
constant. It is all of them in `cache`.

## Runs

| Run | Question | Bounds | Result |
|---|---|---|---|
| `lists` | are lists append-only, and signed for, whatever clients send? | 2 writers, a creator, a holder, 1 mint, 2 visibilities, lists to 2, times at both edges of the range | holds |
| `registry` | are writers and lamports accounted for, is only who signed charged, and does what a client was told stand? | 2 writers, one a client and a creator too, 2 lengths of JSON, funds for some of the accounts, 1 late transaction | holds |
| `heads` | fee, types, independence of the parts and their signatures, and is the holder obeyed? | 1 writer, 1 creator, a holder who is a client, 2 mints, wrong fee account, no late transactions | holds |
| `update` | can a writer update its metadata? | 1 writer | violated |
| `times` | are accepted times within the variance? | i64 of four bits, every value | violated |
| `faults` | readable and append-only story, true reports, repetitions only of what went unanswered, calls that end | 2 callers, 2 calls each, all faults, bundlr configured at any time | holds |
| `progress` | does every item get in? | 2 callers, 3 calls each, no faults, bundlr of both kinds configured at any time | holds |
| `create` | does appendItemCreate create? | 1 caller | violated |
| `load` | is what is loaded and marked genuine, and what is saved restored? | 3 items, 2 callers, 3 calls of 0 or 3 items, 1 altered answer, verifications against 3 heads | holds |
| `cache` | is the cache consistent, and the lookup complete? | 3 writers, slices of 2, 1 caller and the refreshes it dropped, 2 requests, 2 changes of metadata, a cache timeout of 0 (the default) and one tick | holds |
| `forced` | does a forced refresh come first? | 2 writers, one filtered out | violated |
| `overlap` | does a false mark mean tampering? | 2 items, 2 callers, 3 calls, no verification | violated |

Why the bounds are enough. Two writers or two callers show every race of the
code: each step compares one call's locals with one shared value. `lists` needs a
list of two to have an order, and the clocks 3 and 4 with times 1, 5 and 6 and a variance of
2 put a claim on both edges and beyond; a holder sets its override to either of two indexes before, between and after the appends.
Its states are told apart without the receipt (`VIEW Unreceipted`): no step reads the receipt, no invariant of the run
names it, and what `HeadPartsSigned` says of the receipt of a step is evaluated on every step. In `registry` a writer can pay its metadata or a few
smaller accounts, so that refusals for lack of funds occur; one client whose transaction is late while it calls again is
enough for a report to be contradicted, and the other writer, who sends instructions directly, does to it what any other
party could. In `heads` a payer affords exactly one
head; tokens are bought and sold during the await of the lookup. No item is appended in `heads` and no holder acts in
`registry`; the appends meet authorizations and overrides in `lists`, and `PartsIndependent` is proved of all
of them together. In `faults` the balance covers one item, so that funding, refused uploads
and leftovers of earlier calls occur in two calls each, and the second calls while transactions of the first
are still under way. It configures bundlrs of the server's kind only (`Bundlrs`): what one of the browser's kind adds is that requests fail while it
is not ready, and in `faults` they fail anyway; `progress`, where nothing else fails, has both. In `progress` a call loses the head or the
balance at most to each call of the other that went ahead, for which three calls suffice. The story of
three items in `load` has a first, a last and a middle one, and is verified against its own head, an older one and
one without items.
In `cache` three writers make two slices, the second not full; two requests overtake each other; the
writer that is not registered at the start, and two changes, make old answers differ from new ones; the tick lets
the cache expire after a refresh. Its writers are symmetric: all match the filter, and the
properties are invariants that name no writer. Calls share the cache alone, and what a second
caller could do to it is what the first one's dropped refreshes do.
`CHECK_DEADLOCK FALSE` is set because the systems may stop: clients need not
call, and the number of calls is bounded.

I32_MAX is 2 in the runs, as many as there are writers; what happens beyond it is covered by the proof of
`WritersAlwaysCounted`, which takes any number.

### Fairness

Only `WriterClient` has liveness properties. Weak fairness of the steps of a call:
every await ends, with an answer or a failure. The code guarantees this of the
confirmation alone, to which web3 gives a timeout; of the requests to bundlr and to the RPC node,
for which it sets none, it is the assumption that connections do end. Weak fairness of the execution of
transactions: a transaction whose blockhash is recent is executed or expires.
Weak fairness of calls: in `progress`, that a rejected caller tries again. No
fairness is assumed of faults, of `CreateHead`, of the configuration of bundlr or of `BundlrReady`;
`EveryItemLands` is stated for heads that exist and a bundlr that is ready, and asks nothing once bundlr was
configured to one that is not.

### What the violated runs show

- `update`: no accounts a writer can pass make `update_writer_metadata` succeed: the
  seeds at `lib.rs:381` include the mint. `set_system_verified` has the same seeds, so no
  writer can be verified either.
- `times`: `(data.timestamp-cur_time).abs()` wraps in a release build. Nothing but the claim about
  times breaks: `ClaimedTimesNearlyOrdered` holds (and is proved) where differences fit an i64.
- `create`: `appendItemCreate` pays for and uploads an item, then sends a transaction
  without the fee account the program demands; the interface description in `programs/solstory.json` is
  from before the fee.
- `forced`: `getHeadsForNFT` starts the refresh and does not wait for it, so that with an empty
  cache, which is every first call, it finds nothing. `QuietCallsComplete` is what remains true.
- `overlap`: two overlapping `getAdditionalItems` push one item twice, and mark
  the second copy as tampered with. The other properties of the loader hold with overlapping calls too.

## Proofs

`tlapm` checks every theorem for all values of the constants that satisfy the named
assumptions of the modules (roles of keys, finiteness where a set is counted, ranges of
numbers, distinctness of the placeholders).

- `SolstoryProgramProofs`. `TypeOK` is inductive, and under it every step does to the heads and to the fee account
  one of a few things, which say who signed it (`HeadStep`). By its cases: `FeePaidOncePerHead`, which needs that the fee account
  signs nothing (`RolesAssumption`) and how the number of heads changes with one head; `EmptyHeadsAgree`, inductive because an
  append makes a list non-empty; `PartsOfHeadIndependent`; `HeadPartsSigned`; the step refinement of `HashList`.
  `WritersCounted` needs that the registry is open before any metadata exists.
  `LamportsConserved` is inductive with `TypeOK`: each instruction moves lamports between a key and the account
  it opens or closes, or between two keys, so that one term of each of two sums changes, by as much (`SumProofs`).
  `OnlySignersCharged` goes by the three ways an instruction pays: it opens an account, pays a fee, or closes one to a key.
  `TimesNearlyOrdered` assumes `DifferencesFit`, and uses that the clock never goes back. `TimesAcceptedInVariance`
  has the same assumption: what `times` refutes holds without the wrap, so that the wrap is the whole of that defect. The assumption
  is true of any clock and timestamps whose differences stay below 2^63, and false of the four-bit run.
- `SumProofs`. The sum of `LamportsConserved` is a fold of the community modules, that is a recursive function on the
  subsets of a set, which takes out elements in an order nothing is known of. Induction over finite sets is out of
  reach, since the library's theorem has an operator for a parameter; in its place, among the subsets that lack a
  property there is a smallest one (`SmallestSubset`, by the well-foundedness of strict inclusion). With it: the
  recursive equation has one solution, any element may be taken out first (`SumTakeOut`), and changing
  the function at one element changes the sum by the difference (`SumChange`).
- `HashListProofs`. What a reader may rely on of any append-only log: a list never takes back what it
  committed to (`CommitmentsStand`). `ListsNeverTakenBack` and `StoriesNeverTakenBack` carry it to the program and to the
  writer's protocol, of which the refinement was proved.
- `SolstoryApiProofs`. `ApiImplementsProgram`: a step of a client is an instruction of the program or none, so that
  `ApiSpec` implies the program's `Spec`, and with it every theorem about the program: `ApiKeepsAccounts` draws the
  invariants, `ApiKeepsRoles` the action properties. `ApiTypeOK` says which requests ever wait for execution, with which the rest goes by cases of
  three instructions. `OwnMetadataStands` needs, between the execution of a call and its confirmation, that the
  metadata is what the call will tell; and that nobody but the writer itself opens or closes its metadata.
  `HolderObeyed` needs that the holder's call, sent or executed, names a token account that is the only one of the mint, and
  that no other instruction touches the visibility of a head.
- `WriterClientProofs`. A lemma sorts the steps of `Next` by what they touch, so that each later proof
  treats twelve kinds of step and not nineteen actions. The inductive invariant of `StoryReadable` adds that the head each
  call works from links to a stored object, that ids are fresh until their call uploads, and that a transaction under
  way carries the digest its stored object was linked to. That of `ReportedOutcomeTrue` (`OutcomeInv`) says why: a transaction
  under way, or an item that landed, is of a call that waits for it or resolved, or is unanswered; unanswered ones are of
  calls that ended; and receipts say what happened. `ItemsAppendedOnce` rests on it: when an update lands on a story that
  has its item, the copy there is unanswered, or the caller's last call has it, and then the update is one of an earlier
  call that was not answered (`SecondUnanswered`). `CreatingNeverResolves` needs that a call which goes on without creating has
  read a head, and that heads never go away. `ImplementsLogs` is a step refinement over the types: a transaction that is
  executed extends the list it finds, since the update's digest is the head's.
- `StoryLoaderProofs`. `ValidatedItemsGenuine` needs that the marks are closed upwards: below an unvalidated item
  none is validated, and the last validated one names the hash of the next. That a verification marks
  exactly the items up to the first one that differs takes an induction over positions, which
  `LeastElement` supplies: a set of numbers that is not empty has a least one, by the well-foundedness of `<` on
  `Nat`. `SequentialLoadsFaithful` needs that without overlap a call that waits waits for the story's own next item;
  `LoadedAsRequested`, that what a call got and what it still asks for add up; `LoadingTellsTheTruth`, that at most one
  call is under way. `RestoredOrRefused` holds by the forms of the ids in the objects a story is made of.
- `ConversionsProofs`. What is restored of containers, stories and heads, for objects with any keys and
  values, and when: `ContainerRoundTrip` is an equivalence, whose refused case is a link that is bytes. Some of
  the cases are those `RestoredOrRefused` meets; no story of `StoryLoader` is in the others.
- `MetadataCacheProofs`. `CacheIsSnapshot` needs that what a request read the chain held, and that the chain's `past`
  only grows. `HeadsPaired` follows from the type of the cache, whose entries are under their own
  key. `getMetadata` and
  `getHead` are treated as one kind of step, which answers at once. The invariant of `QuietCallsComplete` says of a call that fetches which addresses it derived, that
  each head is found or in a slice still to come, and that nothing else is found; that the slices leave out no
  address is a lemma on division, and that an enumeration leaves out no writer one on cardinalities.

Every invariant and every action property of a passing run is proved. Only model-checked: the liveness properties
`CallsSettle` and `EveryItemLands`, which are out of the prover's reach.

A violated run has one counterexample on one instance. How far the defect reaches is proved, for each of the five:

| Run | Theorem |
|---|---|
| `update` | `MetadataNeverUpdated`: no update is ever accepted, of any writer, and no writer is ever verified |
| `times` | `TimesAcceptedInVariance`: where differences fit an i64 the claim holds, so that the wrap is the whole of the defect |
| `create` | `CreatingNeverResolves`: no `appendItemCreate` over a missing head ever sends or resolves; whatever a call does send finds a head |
| `forced` | `ColdCallsFindNothing`: every call over an empty cache finds nothing; `QuietCallsAlwaysComplete`: over a current one, all |
| `overlap` | `SequentialMarksTrue`: without overlap, and with no other head to verify against, the claim holds |


## Not modelled

- Everything behind a CDN but the heads `verifyStory` may get there: in `getAdditionalItems` the branch is marked as
  unfinished (`common/index.ts:383`), in `getHeadsForNFT` it returns an empty list, in `getHead` it asks for
  `/metadata/<writer>`, without the mint; `getMetadata` hands on what it is given. `getAllMetadata` returns an empty list and
  writes the time of the cache (`common/index.ts:137`) without filling it; with a CDN nothing reads that time.
- `simpleHash`: it parses JSON text as hexadecimal (`utils/index.ts:19`), so that every pair of characters that are no
  hexadecimal digits contributes the same byte, and `itemHash` commits to less than the text. The models
  take `itemHash` as the identity of an item; what it says of the text is open.
- `solstoryHash` and `timestampToBytes` byte by byte: a digest is what it was computed of.
- Choice of networks and providers for bundlr, `bundlrPriceCheck`, logging, key and account formats. (`configureBundlrWeb`
  computes a URL from its argument and connects to `BUNDLR_NODE_URL` whatever it is, `index.ts:185`.)
- `metaplex_metadata.rs`, a copy of a layout that no `mod` declaration includes.
- Tests, migrations, the generated documentation, the test ledger.

Some divergences from the docs have no run:

- The six methods of the API that the program never accepts, in the table above.
- `getAdditionalItems(story, 0)` loads one item, where the doc promises up to the requested
  number. `story.loading` stays true after a failed request.
- The cache is used when it is older than `cacheTimeout` and not when it is younger
  (`common/index.ts:96, 142, 188`), where `index.ts:35` calls this "How long to cache metadata for before doing a refresh". The model has
  the comparison as the code does.
- `writerKey` of a head that `getHeadsForNFT` returns is that of the first address of its
  slice (`common/index.ts:274`), where `types.ts:50` calls it "the key back to that metadata". It is so in `HeadAt`.
- The filter for validated writers compares the byte at offset 32 (`common/index.ts:149`), which is
  one of the writer's key; `system_verified` is at 41.
- Heads from the chain have no key `authority`, and metadata from the chain none called `hasExtendedMetadata`
  (the interface description has `metadataExtended`): both are asked for when a text is parsed
  (`conversions.ts:35, 64`).

## Plan

Written, in this order: `HashList` and `SolstoryProgram` (the state everything
else contends for), `WriterClient` (the protocol with most interleavings), `StoryLoader`,
`MetadataCache`, `Conversions`, `SolstoryApi`.

What would come next:

1. `ItemHash`: what `simpleHash` tells apart of an item's text, so that
   `ValidatedItemsGenuine` says how much of an item a mark vouches for; `timestampToBytes` against the Rust `hash_from_prev`.
2. `SolstoryApi` and `WriterClient` in one composition, with the whole of `ext_append` where `WriterClient` has its
   compare-and-set.
3. `writerKey` as the key back to the metadata, beside `ForcedCallsComplete`.
