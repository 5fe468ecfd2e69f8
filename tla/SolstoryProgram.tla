-------------------------- MODULE SolstoryProgram --------------------------
(***************************************************************************)
(* The on-chain program (programs/solstory/src): its accounts and its      *)
(* fifteen instructions.  A transaction is atomic: one action executes    *)
(* one instruction, with the account checks Anchor generates from the      *)
(* #[derive(Accounts)] structs first and the handler's own checks in their *)
(* order after them.  An error of either leaves every account as it was,   *)
(* and is reported in the receipt.                                         *)
(*                                                                         *)
(* Strings, keys and JSON are abstracted to members of small sets.  A      *)
(* SHA-256 digest is abstracted to the sequence of entries it was computed *)
(* from, so that two digests are equal exactly when what was hashed is:    *)
(* the function is assumed to have no collision.                           *)
(*                                                                         *)
(* An operator F_Suffix defined just before an operator F is F with one    *)
(* plausible mistake.  It is used nowhere: it is there to see that the     *)
(* properties notice when it takes F's place.                              *)
(***************************************************************************)
EXTENDS Integers, Sequences, FiniteSets, Functions

CONSTANTS
  Keys,                     \* the public keys that hold lamports
  Writers,                  \* ... those that sign as writer programs
  Creators,                 \* ... those that sign as creators of an NFT
  Holders,                  \* ... those that sign as holders of an NFT
  VERIFICATION_AUTHORITY,   \* lib.rs:25
  SOLSTORY_FEE_DESTINATION, \* processor.rs:11
  FeeAccounts,              \* the accounts passed as solstory_fee_destination
  Mints,                    \* token mints, each with at most one metaplex account
  Contents,                 \* values of a WriterMetadataData argument
  OversizedContents,        \* ... those that do not fit WRITER_METADATA_LEN
  JsonLengths,              \* lengths of the metadata_json argument
  VisibilityIndexes,        \* values of the i8 argument of update_visibility_index
  DataHashes,               \* hashes of item data
  ObjIds,                   \* ids of stored items
  ClaimedAccessTypes,       \* access types a client may claim
  ZERO_ID,                  \* [0; 32], the obj_id of a head without item
  Timestamps,               \* the i64 timestamps a client may claim
  Clocks,                   \* the values of Clock::unix_timestamp
  TIMESTAMP_ACCEPTABLE_VARIANCE, \* lib.rs:24, 604800
  I64_HALF,                 \* 2^63: an i64 is in -I64_HALF .. I64_HALF - 1
  I32_MAX,                  \* std::i32::MAX
  MAX_ITEMS,                \* bound: the longest list a client hashes
  INITIAL_LAMPORTS,         \* what each key starts with
  NoAccount                 \* no account at this address

ASSUME RolesAssumption ==
  /\ Writers \cup Creators \cup {SOLSTORY_FEE_DESTINATION} \cup FeeAccounts \subseteq Keys
  /\ SOLSTORY_FEE_DESTINATION \notin Writers \cup Creators
  /\ OversizedContents \subseteq Contents
  /\ ClaimedAccessTypes \subseteq {"Ardrive", "Url", "Pda", "None"}

ASSUME FiniteAssumption ==
  IsFiniteSet(Keys) /\ IsFiniteSet(Writers) /\ IsFiniteSet(Mints)

ASSUME NumbersAssumption ==
  /\ I32_MAX \in Nat \ {0}
  /\ I64_HALF \in Nat \ {0}
  /\ TIMESTAMP_ACCEPTABLE_VARIANCE \in Nat
  /\ INITIAL_LAMPORTS \in Nat
  /\ MAX_ITEMS \in Nat
  /\ JsonLengths \subseteq Nat
  /\ VisibilityIndexes \subseteq -128 .. 127 /\ 0 \in VisibilityIndexes
  /\ Timestamps \cup Clocks \subseteq -I64_HALF .. I64_HALF - 1

\* state.rs:11-26, lib.rs:292 and lib.rs:437: the space of each account.
WRITER_METADATA_LEN == 1220
WRITER_HEAD_LEN == 75
SOLSTORY_PDA_LEN == 15
ExtendedMetadataLen(len) == 12 + 32 + len

\* The rent exemption of an account of this space (the Solana runtime).
Rent(space) == (128 + space) * 6960

SOLSTORY_FEE_LAMP == 141288

(***************************************************************************)
(* Accounts.                                                               *)
(***************************************************************************)
AccessType == {"Ardrive", "Url", "Pda", "None"}
Entry == [timestamp : Timestamps, data_hash : DataHashes]
Digest == Seq(Entry)
ZERO_HASH == <<>>

\* utils.rs: the digest of an item over the digest of the list before it.
hash_from_prev(timestamp, data_hash, current_hash) ==
  Append(current_hash, [timestamp |-> timestamp, data_hash |-> data_hash])

SolstoryPDA == [discriminator : {"SolstoryPDA"}, initialized : BOOLEAN, writers : 0 .. I32_MAX]
WriterMetadata ==
  [discriminator : {"WriterMetadata"}, writer_key : Writers, data : Contents,
   api_version : {1}, system_verified : BOOLEAN, metadata_extended : BOOLEAN]
WriterHead ==
  [discriminator : {"WriterHead"}, authorized : BOOLEAN,
   visibility_index : VisibilityIndexes, access_type : AccessType,
   obj_id : ObjIds \cup {ZERO_ID}, current_hash : Digest]
ExtendedMetadata ==
  [discriminator : {"ExtendedMetadata"}, writer_key : Writers, len : JsonLengths]

ASSUME NoAccountAssumption ==
  NoAccount \notin Keys \cup SolstoryPDA \cup WriterMetadata \cup WriterHead \cup ExtendedMetadata
                \cup Digest

\* The argument of ext_append.  A client hashes what it will, so current_hash
\* may be stale or of another list; new_hash is right or it is not.
ExtAppendData ==
  {[timestamp |-> t, data_hash |-> d, current_hash |-> c, access_type |-> a, obj_id |-> o,
    new_hash |-> IF right THEN hash_from_prev(t, d, c) ELSE ZERO_HASH] :
      t \in Timestamps, d \in DataHashes, c \in UNION {[1 .. n -> Entry] : n \in 0 .. MAX_ITEMS - 1},
      a \in ClaimedAccessTypes, o \in ObjIds, right \in BOOLEAN}

\* error.rs, and the errors of Anchor's checks and of the system program.
Errors ==
  {"ok", "AnchorError", "SystemError", "AccessViolationError", "HashMismatchError",
   "InvalidAccessTypeError", "InvalidCreatorError", "NotSupportedError",
   "TimestampRangeError", "VisibilityIndexAccessError"}

VARIABLES
  solstory_pda,       \* the singleton at [solstory_pda]
  writer_metadata,    \* by writer: the account at [solstory, writer]
  writer_head,        \* by mint and writer: the account at [solstory, mint, writer]
  extended_metadata,  \* by writer: the account at [solstory, extended, writer]
  lamports,           \* what each key holds
  update_authority,   \* metaplex: who may update each mint's metadata
  token_accounts,     \* token program: the <<owner, mint>> of the token accounts
  clock,              \* Clock::unix_timestamp
  receipt             \* the error of the last transaction, "ok" if it had none

accounts == <<solstory_pda, writer_metadata, writer_head, extended_metadata, lamports>>
environment == <<update_authority, token_accounts, clock>>
vars == <<accounts, environment, receipt>>

Exists(account) == account # NoAccount

\* lib.rs:58 and lib.rs:66: the counter saturates at both ends.
CountCreated(writers) == IF writers < I32_MAX THEN writers + 1 ELSE writers
CountDeleted_Forgotten(writers) == writers
CountDeleted(writers) == IF writers > 0 THEN writers - 1 ELSE writers

\* What Account<'info, T> checks: the discriminator of the data is T's.
Loads(account, type) == Exists(account) /\ account.discriminator = type

Heads == {h \in Mints \X Writers : Exists(writer_head[h])}
LiveWriters == {w \in Writers : Exists(writer_metadata[w])}

Init ==
  /\ solstory_pda = NoAccount
  /\ writer_metadata = [w \in Writers |-> NoAccount]
  /\ writer_head = [h \in Mints \X Writers |-> NoAccount]
  /\ extended_metadata = [w \in Writers |-> NoAccount]
  /\ lamports = [k \in Keys |-> INITIAL_LAMPORTS]
  /\ update_authority = [m \in Mints |-> NoAccount]
  /\ token_accounts = {}
  /\ clock \in Clocks
  /\ receipt = "ok"

\* The end of a transaction: report its error, and keep its writes only if
\* there was none.
Finish(err) == receipt' = err

(***************************************************************************)
(* The registry of writers.                                                *)
(***************************************************************************)
initialize(k) ==
  LET err == IF Exists(solstory_pda) \/ lamports[k] < Rent(SOLSTORY_PDA_LEN)
             THEN "AnchorError" ELSE "ok"
  IN
  /\ Finish(err)
  /\ IF err = "ok"
     THEN /\ solstory_pda' = [discriminator |-> "SolstoryPDA", initialized |-> TRUE, writers |-> 0]
          /\ lamports' = [lamports EXCEPT ![k] = @ - Rent(SOLSTORY_PDA_LEN)]
     ELSE UNCHANGED <<solstory_pda, lamports>>
  /\ UNCHANGED <<writer_metadata, writer_head, extended_metadata, environment>>

create_writer_metadata(w, data) ==
  LET err == IF \/ Exists(writer_metadata[w])
                \/ ~Exists(solstory_pda)
                \/ lamports[w] < Rent(WRITER_METADATA_LEN)
                \/ data \in OversizedContents
             THEN "AnchorError" ELSE "ok"
  IN
  /\ Finish(err)
  /\ IF err = "ok"
     THEN /\ writer_metadata' = [writer_metadata EXCEPT ![w] =
               [discriminator |-> "WriterMetadata", writer_key |-> w, data |-> data,
                api_version |-> 1, system_verified |-> FALSE, metadata_extended |-> TRUE]]
          /\ solstory_pda' = [solstory_pda EXCEPT !.writers = CountCreated(@)]
          /\ lamports' = [lamports EXCEPT ![w] = @ - Rent(WRITER_METADATA_LEN)]
     ELSE UNCHANGED <<writer_metadata, solstory_pda, lamports>>
  /\ UNCHANGED <<writer_head, extended_metadata, environment>>

delete_writer_metadata(w) ==
  LET err == IF Exists(writer_metadata[w]) /\ Exists(solstory_pda) THEN "ok" ELSE "AnchorError"
  IN
  /\ Finish(err)
  /\ IF err = "ok"
     THEN /\ writer_metadata' = [writer_metadata EXCEPT ![w] = NoAccount]
          /\ solstory_pda' = [solstory_pda EXCEPT !.writers = CountDeleted(@)]
          /\ lamports' = [lamports EXCEPT ![w] = @ + Rent(WRITER_METADATA_LEN)]
     ELSE UNCHANGED <<writer_metadata, solstory_pda, lamports>>
  /\ UNCHANGED <<writer_head, extended_metadata, environment>>

(***************************************************************************)
(* Both also take a token mint m and (the first) the metaplex account of a *)
(* mint x.  The seeds of writer_metadata_pda are [solstory, mint,          *)
(* writer] (lib.rs:381, lib.rs:506): the address of a head, never the      *)
(* [solstory, writer] that create_writer_metadata uses.                    *)
(***************************************************************************)
UpdateMetadataError(m, x, w, data) ==
  IF \/ ~Loads(writer_head[m, w], "WriterMetadata")
     \/ ~Exists(update_authority[x])
     \/ data \in OversizedContents
  THEN "AnchorError" ELSE "ok"

update_writer_metadata(m, x, w, data) ==
  LET err == UpdateMetadataError(m, x, w, data)
  IN
  /\ Finish(err)
  /\ IF err = "ok"
     THEN writer_head' = [writer_head EXCEPT ![<<m, w>>].data = data, ![<<m, w>>].metadata_extended = TRUE]
     ELSE UNCHANGED writer_head
  /\ UNCHANGED <<solstory_pda, writer_metadata, extended_metadata, lamports, environment>>

set_system_verified(k, m, w, value) ==
  LET err == IF ~Loads(writer_head[m, w], "WriterMetadata") THEN "AnchorError"
             ELSE IF k # VERIFICATION_AUTHORITY THEN "AccessViolationError" ELSE "ok"
  IN
  /\ Finish(err)
  /\ IF err = "ok"
     THEN writer_head' = [writer_head EXCEPT ![<<m, w>>].system_verified = value]
     ELSE UNCHANGED writer_head
  /\ UNCHANGED <<solstory_pda, writer_metadata, extended_metadata, lamports, environment>>

(***************************************************************************)
(* Extended metadata.  init_if_needed on an account that exists requires   *)
(* its size to be the space of the new value.                              *)
(***************************************************************************)
SizeMatches_Unchecked(w, len) == TRUE
SizeMatches(w, len) == Exists(extended_metadata[w]) => extended_metadata[w].len = len

set_extended_metadata(w, len) ==
  LET rent == IF Exists(extended_metadata[w]) THEN 0 ELSE Rent(ExtendedMetadataLen(len))
      err == IF lamports[w] < rent \/ ~SizeMatches(w, len) THEN "AnchorError" ELSE "ok"
  IN
  /\ Finish(err)
  /\ IF err = "ok"
     THEN /\ extended_metadata' = [extended_metadata EXCEPT ![w] =
               [discriminator |-> "ExtendedMetadata", writer_key |-> w, len |-> len]]
          /\ lamports' = [lamports EXCEPT ![w] = @ - rent]
     ELSE UNCHANGED <<extended_metadata, lamports>>
  /\ UNCHANGED <<solstory_pda, writer_metadata, writer_head, environment>>

delete_extended_metadata(w) ==
  LET err == IF Exists(extended_metadata[w]) THEN "ok" ELSE "AnchorError"
  IN
  /\ Finish(err)
  /\ IF err = "ok"
     THEN /\ extended_metadata' = [extended_metadata EXCEPT ![w] = NoAccount]
          /\ lamports' = [lamports EXCEPT ![w] =
               @ + Rent(ExtendedMetadataLen(extended_metadata[w].len))]
     ELSE UNCHANGED <<extended_metadata, lamports>>
  /\ UNCHANGED <<solstory_pda, writer_metadata, writer_head, environment>>

(***************************************************************************)
(* Heads.  x is the mint whose metaplex account the transaction passes,    *)
(* feeTo the account it passes as solstory_fee_destination.                *)
(***************************************************************************)
\* processor.rs init_head_account: what it writes, and who pays what.
NewHead_Authorized ==
  [discriminator |-> "WriterHead", authorized |-> TRUE, visibility_index |-> 0,
   access_type |-> "None", obj_id |-> ZERO_ID, current_hash |-> ZERO_HASH]
NewHead ==
  [discriminator |-> "WriterHead", authorized |-> FALSE, visibility_index |-> 0,
   access_type |-> "None", obj_id |-> ZERO_ID, current_hash |-> ZERO_HASH]

init_head_account_fee_Twice(payer) ==
  [lamports EXCEPT ![payer] = @ - Rent(WRITER_HEAD_LEN) - 2 * SOLSTORY_FEE_LAMP,
                   ![SOLSTORY_FEE_DESTINATION] = @ + 2 * SOLSTORY_FEE_LAMP]
init_head_account_fee(payer) ==
  [lamports EXCEPT ![payer] = @ - Rent(WRITER_HEAD_LEN) - SOLSTORY_FEE_LAMP,
                   ![SOLSTORY_FEE_DESTINATION] = @ + SOLSTORY_FEE_LAMP]

\* Anchor's checks of a head to be created, then the fee transfer.
CreateHeadError_Unfunded(h, x, payer, feeTo) ==
  IF Exists(writer_head[h]) \/ ~Exists(update_authority[x]) THEN "AnchorError"
  ELSE IF feeTo # SOLSTORY_FEE_DESTINATION THEN "AccessViolationError"
  ELSE "ok"
CreateHeadError(h, x, payer, feeTo) ==
  IF \/ Exists(writer_head[h])
     \/ lamports[payer] < Rent(WRITER_HEAD_LEN)
     \/ ~Exists(update_authority[x])
  THEN "AnchorError"
  ELSE IF feeTo # SOLSTORY_FEE_DESTINATION THEN "AccessViolationError"
  ELSE IF lamports[payer] < Rent(WRITER_HEAD_LEN) + SOLSTORY_FEE_LAMP THEN "SystemError"
  ELSE "ok"

create_writer_head_writer(m, x, w, feeTo) ==
  LET err == CreateHeadError(<<m, w>>, x, w, feeTo)
  IN
  /\ Finish(err)
  /\ IF err = "ok"
     THEN /\ writer_head' = [writer_head EXCEPT ![<<m, w>>] = NewHead]
          /\ lamports' = init_head_account_fee(w)
     ELSE UNCHANGED <<writer_head, lamports>>
  /\ UNCHANGED <<solstory_pda, writer_metadata, extended_metadata, environment>>

\* The creator signs and pays for the writer's head.
CreatorPays_Writer(w, creator) == init_head_account_fee(w)
CreatorPays(w, creator) == init_head_account_fee(creator)

create_writer_head_creator(m, x, w, creator, feeTo) ==
  LET head == CreateHeadError(<<m, w>>, x, creator, feeTo)
      err == IF head \in {"ok", "SystemError"} /\ update_authority[x] # creator
             THEN "InvalidCreatorError" ELSE head
  IN
  /\ Finish(err)
  /\ IF err = "ok"
     THEN /\ writer_head' = [writer_head EXCEPT ![<<m, w>>] = NewHead]
          /\ lamports' = CreatorPays(w, creator)
     ELSE UNCHANGED <<writer_head, lamports>>
  /\ UNCHANGED <<solstory_pda, writer_metadata, extended_metadata, environment>>

\* authorize_writer and deauthorize_writer differ in what they write only.
SetAuthorized(m, x, w, creator, value) ==
  LET err == IF ~Loads(writer_head[m, w], "WriterHead") \/ ~Exists(update_authority[x])
             THEN "AnchorError"
             ELSE IF update_authority[x] # creator THEN "InvalidCreatorError" ELSE "ok"
  IN
  /\ Finish(err)
  /\ IF err = "ok"
     THEN writer_head' = [writer_head EXCEPT ![<<m, w>>].authorized = value]
     ELSE UNCHANGED writer_head
  /\ UNCHANGED <<solstory_pda, writer_metadata, extended_metadata, lamports, environment>>

authorize_writer(m, x, w, creator) == SetAuthorized(m, x, w, creator, TRUE)
deauthorize_writer(m, x, w, creator) == SetAuthorized(m, x, w, creator, FALSE)

\* <<owner, mint>> is the token account the transaction passes.  The handler
\* compares its owner and its mint, and reads nothing else of it.
OwnsToken_AnyMint(m, holder, owner, mint) == owner = holder
OwnsToken(m, holder, owner, mint) == owner = holder /\ mint = m

update_visibility_index(m, w, holder, owner, mint, number) ==
  LET err == IF ~Loads(writer_head[m, w], "WriterHead") \/ <<owner, mint>> \notin token_accounts
             THEN "AnchorError"
             ELSE IF ~OwnsToken(m, holder, owner, mint) THEN "VisibilityIndexAccessError" ELSE "ok"
  IN
  /\ Finish(err)
  /\ IF err = "ok"
     THEN writer_head' = [writer_head EXCEPT ![<<m, w>>].visibility_index = number]
     ELSE UNCHANGED writer_head
  /\ UNCHANGED <<solstory_pda, writer_metadata, extended_metadata, lamports, environment>>

(***************************************************************************)
(* Appending an item.                                                      *)
(***************************************************************************)
\* i64 arithmetic of a release build: two's complement, no overflow check.
WrapI64(n) == ((n + I64_HALF) % (2 * I64_HALF)) - I64_HALF
AbsI64(n) == IF n < 0 THEN WrapI64(-n) ELSE n

InRange_Late(timestamp) == timestamp >= clock - TIMESTAMP_ACCEPTABLE_VARIANCE
InRange(timestamp) == AbsI64(WrapI64(timestamp - clock)) <= TIMESTAMP_ACCEPTABLE_VARIANCE

IsCurrent_Unchecked(head, d) == TRUE
IsCurrent(head, d) == d.current_hash = head.current_hash

HasAccess_Unchecked(d) == TRUE
HasAccess(d) == d.access_type # "None"

\* processor.rs append_data_to_writer: its checks, in its order, then its writes.
AppendError(head, d) ==
  IF hash_from_prev(d.timestamp, d.data_hash, d.current_hash) # d.new_hash THEN "HashMismatchError"
  ELSE IF ~InRange(d.timestamp) THEN "TimestampRangeError"
  ELSE IF ~IsCurrent(head, d) THEN "HashMismatchError"
  ELSE IF ~HasAccess(d) THEN "InvalidAccessTypeError"
  ELSE "ok"

append_data_to_writer_Fresh(head, d) ==
  [NewHead EXCEPT !.current_hash = hash_from_prev(d.timestamp, d.data_hash, d.current_hash),
                  !.access_type = d.access_type,
                  !.obj_id = d.obj_id]
append_data_to_writer_Shown(head, d) ==
  [head EXCEPT !.current_hash = hash_from_prev(d.timestamp, d.data_hash, d.current_hash),
               !.access_type = d.access_type,
               !.obj_id = d.obj_id,
               !.visibility_index = 0]
append_data_to_writer(head, d) ==
  [head EXCEPT !.current_hash = hash_from_prev(d.timestamp, d.data_hash, d.current_hash),
               !.access_type = d.access_type,
               !.obj_id = d.obj_id]

ext_append(m, w, d) ==
  LET err == IF ~Loads(writer_head[m, w], "WriterHead") THEN "AnchorError"
             ELSE AppendError(writer_head[m, w], d)
  IN
  /\ Finish(err)
  /\ IF err = "ok"
     THEN writer_head' = [writer_head EXCEPT ![<<m, w>>] = append_data_to_writer(@, d)]
     ELSE UNCHANGED writer_head
  /\ UNCHANGED <<solstory_pda, writer_metadata, extended_metadata, lamports, environment>>

\* The transfer built at lib.rs:216 is never invoked: one fee is paid, not two.
create_and_append(m, x, w, feeTo, d) ==
  LET head == CreateHeadError(<<m, w>>, x, w, feeTo)
      err == IF head # "ok" THEN head ELSE AppendError(NewHead, d)
  IN
  /\ Finish(err)
  /\ IF err = "ok"
     THEN /\ writer_head' = [writer_head EXCEPT ![<<m, w>>] = append_data_to_writer(NewHead, d)]
          /\ lamports' = init_head_account_fee(w)
     ELSE UNCHANGED <<writer_head, lamports>>
  /\ UNCHANGED <<solstory_pda, writer_metadata, extended_metadata, environment>>

sol_append == Finish("NotSupportedError") /\ UNCHANGED <<accounts, environment>>

(***************************************************************************)
(* What other programs and the cluster do.  The clock never goes back: the *)
(* runtime keeps a block's time at or after that of the block before it.   *)
(***************************************************************************)
MetaplexUpdate(m, k) ==
  /\ update_authority' = [update_authority EXCEPT ![m] = k]
  /\ UNCHANGED <<accounts, token_accounts, clock, receipt>>

OpenTokenAccount(k, m) ==
  /\ token_accounts' = token_accounts \cup {<<k, m>>}
  /\ UNCHANGED <<accounts, update_authority, clock, receipt>>

CloseTokenAccount(k, m) ==
  /\ token_accounts' = token_accounts \ {<<k, m>>}
  /\ UNCHANGED <<accounts, update_authority, clock, receipt>>

Tick ==
  /\ \E c \in Clocks : c > clock /\ clock' = c
  /\ UNCHANGED <<accounts, update_authority, token_accounts, receipt>>

\* The instructions, by who signs them.
Registry(writers, creators) ==
  \/ \E k \in creators : initialize(k)
  \/ \E w \in Writers, k \in creators \cup {VERIFICATION_AUTHORITY}, m \in Mints, value \in BOOLEAN :
       set_system_verified(k, m, w, value)
  \/ \E w \in writers :
       \/ \E data \in Contents : create_writer_metadata(w, data)
       \/ delete_writer_metadata(w)
       \/ \E m, x \in Mints, data \in Contents : update_writer_metadata(m, x, w, data)
       \/ \E len \in JsonLengths : set_extended_metadata(w, len)
       \/ delete_extended_metadata(w)

HeadInstruction(writers, creators, holders) ==
  \E m, x \in Mints :
    \/ \E w \in writers, feeTo \in FeeAccounts : create_writer_head_writer(m, x, w, feeTo)
    \/ \E w \in Writers, creator \in creators :
         \/ \E feeTo \in FeeAccounts : create_writer_head_creator(m, x, w, creator, feeTo)
         \/ authorize_writer(m, x, w, creator) \/ deauthorize_writer(m, x, w, creator)
    \/ \E w \in Writers, holder \in holders, owner \in Holders, number \in VisibilityIndexes :
         update_visibility_index(m, w, holder, owner, x, number)

Appending(writers) ==
  \/ \E m \in Mints, w \in writers, d \in ExtAppendData :
       \/ ext_append(m, w, d)
       \/ \E x \in Mints, feeTo \in FeeAccounts : create_and_append(m, x, w, feeTo, d)
  \/ sol_append

Instructions(writers, creators, holders) ==
  \/ Registry(writers, creators)
  \/ HeadInstruction(writers, creators, holders)
  \/ Appending(writers)

Environment ==
  \/ \E m \in Mints, k \in Creators : MetaplexUpdate(m, k)
  \/ \E m \in Mints, k \in Holders : OpenTokenAccount(k, m) \/ CloseTokenAccount(k, m)
  \/ Tick

Next == Instructions(Writers, Creators, Holders) \/ Environment

Spec == Init /\ [][Next]_vars

(***************************************************************************)
(* Properties.                                                             *)
(***************************************************************************)
\* Every account holds data of its own type, and no balance goes below zero.
TypeOK ==
  /\ solstory_pda \in SolstoryPDA \cup {NoAccount}
  /\ writer_metadata \in [Writers -> WriterMetadata \cup {NoAccount}]
  /\ writer_head \in [Mints \X Writers -> WriterHead \cup {NoAccount}]
  /\ extended_metadata \in [Writers -> ExtendedMetadata \cup {NoAccount}]
  /\ lamports \in [Keys -> Nat]
  /\ update_authority \in [Mints -> Keys \cup {NoAccount}]
  /\ token_accounts \subseteq Holders \X Mints
  /\ clock \in Clocks
  /\ receipt \in Errors

\* The registry's counter (lib.rs:58, lib.rs:66), incremented and decremented
\* by different transactions of different writers, never exceeds the number of
\* writers that have metadata, and is that number unless it can have saturated.
WritersCounted ==
  LET live == Cardinality(LiveWriters)
  IN IF Exists(solstory_pda)
     THEN /\ solstory_pda.writers <= live
          /\ Cardinality(Writers) <= I32_MAX => solstory_pda.writers = live
     ELSE live = 0

\* However a head comes to exist (by its writer, by a creator, or together with
\* its first item), exactly one fee was paid for it, and a transaction that
\* failed after its transfer paid none (processor.rs:34-46, lib.rs:216-218).
FeePaidOncePerHead ==
  lamports[SOLSTORY_FEE_DESTINATION] = INITIAL_LAMPORTS + SOLSTORY_FEE_LAMP * Cardinality(Heads)

\* What the open accounts lock as rent.
RentHeld ==
  LET rent(present, space) == IF present THEN Rent(space) ELSE 0
  IN rent(Exists(solstory_pda), SOLSTORY_PDA_LEN)
     + Cardinality(LiveWriters) * Rent(WRITER_METADATA_LEN)
     + Cardinality(Heads) * Rent(WRITER_HEAD_LEN)
     + SumFunction([w \in Writers |->
         rent(Exists(extended_metadata[w]), ExtendedMetadataLen(extended_metadata[w].len))])

\* No lamport is lost or made: what every key holds and what the open accounts
\* lock is what there was.  A close returns the rent of the size that was
\* opened, also after sets of extended metadata on an account that exists.
LamportsConserved ==
  SumFunction(lamports) + RentHeld = INITIAL_LAMPORTS * Cardinality(Keys)

\* A reader tells a head without items by its zero hash, or by its access type
\* None (state.rs:46).  The two agree, whatever clients append.
EmptyHeadsAgree ==
  \A h \in Heads : writer_head[h].current_hash = ZERO_HASH <=> writer_head[h].access_type = "None"

\* The timestamps and clocks whose difference an i64 can hold, as it can for any
\* two that are not negative.
DifferencesFit ==
  \A t \in Timestamps, c \in Clocks : t - c \in -(I64_HALF - 1) .. I64_HALF - 1

NearlyOrdered(list, now) ==
  \A i \in 1 .. Len(list) :
    /\ list[i].timestamp <= now + TIMESTAMP_ACCEPTABLE_VARIANCE
    /\ \A j \in 1 .. i : list[j].timestamp <= list[i].timestamp + 2 * TIMESTAMP_ACCEPTABLE_VARIANCE

\* "We can only make strong guarantees about ordering" (lib.rs:20): no item is
\* from further ahead than the variance, and two items of a list whose claimed
\* times are the other way round are at most two variances apart.
ClaimedTimesNearlyOrdered ==
  \A h \in Heads : NearlyOrdered(writer_head[h].current_hash, clock)

\* A head after a step that wrote it: a new one grants nothing, and in an older
\* one the writer's, the creator's or the holder's part is written.
OnePartWritten(old, new) ==
  IF old = NoAccount THEN ~new.authorized /\ new.visibility_index = 0
  ELSE \/ new = [old EXCEPT !.authorized = new.authorized]
       \/ new = [old EXCEPT !.visibility_index = new.visibility_index]
       \/ new = [old EXCEPT !.current_hash = new.current_hash,
                            !.access_type = new.access_type, !.obj_id = new.obj_id]

\* The writer, the creator and the holder each own a part of the head: an append
\* keeps the authorization and the holder's override, neither of those touches
\* the list, a creation grants nothing, and no head is ever deleted.
PartsOfHeadIndependent ==
  [][\A h \in Mints \X Writers :
       writer_head'[h] # writer_head[h] => OnePartWritten(writer_head[h], writer_head'[h])]_vars

Authorities == {update_authority[m] : m \in Mints}
HoldersOf(m) == {k \in Holders : <<k, m>> \in token_accounts}

\* Whatever accounts a transaction passes, no part of a head changes without the
\* signature it needs: the list its writer's, the authorization an update
\* authority's (of which mint the program does not ask: the TODO of lib.rs:178),
\* the override that of an owner of a token account of the mint, and a new head
\* its writer's or an authority's.
HeadPartsSigned ==
  [][\A m \in Mints, w \in Writers :
       LET old == writer_head[m, w]  new == writer_head'[m, w]
       IN IF old = NoAccount
          THEN new # old => ~Instructions(Writers \ {w}, Creators \ Authorities, Holders)
          ELSE /\ new.current_hash # old.current_hash =>
                    ~Instructions(Writers \ {w}, Creators, Holders)
               /\ new.authorized # old.authorized =>
                    ~Instructions(Writers, Creators \ Authorities, Holders)
               /\ new.visibility_index # old.visibility_index =>
                    ~Instructions(Writers, Creators, Holders \ HoldersOf(m))]_vars

\* No key's balance falls by a transaction that the key has not signed.
OnlySignersCharged ==
  [][\A k \in Keys :
       lamports'[k] < lamports[k] => ~Instructions(Writers \ {k}, Creators \ {k}, Holders)]_vars

\* The lists of the heads are append-only logs (HashList): concurrent writers
\* with stale, forked or repeated updates never rewrite or fork a list.
lists ==
  [h \in Mints \X Writers |-> IF Exists(writer_head[h]) THEN writer_head[h].current_hash ELSE NoAccount]

List == INSTANCE HashList WITH
  Lists <- Mints \X Writers, Entry <- Entry, NoList <- NoAccount, list <- lists

ListsAreLogs == List!Spec

(***************************************************************************)
(* What the comments of the program say, and the program does not do.      *)
(***************************************************************************)
\* lib.rs:128: update_writer_metadata "allows a writer program to update its own
\* base properties": once it has metadata, for some mint and metaplex account it
\* can pass, data that fits is accepted.
WriterUpdatesItself ==
  \A w \in LiveWriters, data \in Contents \ OversizedContents :
    (\E x \in Mints : Exists(update_authority[x])) =>
      \E m, x \in Mints : UpdateMetadataError(m, x, w, data) = "ok"

\* processor.rs:60: the "claimed timestamp iw within TIMESTAMP_ACCEPTABLE_VARIANCE
\* of current block time" when an item is added.
AcceptedTimesInVariance ==
  [][\A h \in Heads :
       LET list == writer_head'[h].current_hash
       IN list # writer_head[h].current_hash =>
            list[Len(list)].timestamp - clock
              \in -TIMESTAMP_ACCEPTABLE_VARIANCE .. TIMESTAMP_ACCEPTABLE_VARIANCE]_vars
=============================================================================
