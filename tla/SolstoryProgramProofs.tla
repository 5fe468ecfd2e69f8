----------------------- MODULE SolstoryProgramProofs -----------------------
(***************************************************************************)
(* Theorems about SolstoryProgram, for every value of its constants.       *)
(*                                                                         *)
(* The argument: TypeOK is inductive by itself.  Under TypeOK every step   *)
(* does to the heads and to the fee account one of the few things HeadStep *)
(* lists, with who signed it (LEMMA StepIsHeadStep); most invariants and   *)
(* action properties are then a short case analysis of HeadStep, not of    *)
(* fifteen instructions.  That lamports are conserved, and taken from      *)
(* nobody who has not signed, goes by the instructions themselves, with    *)
(* the sums of SumProofs.                                                  *)
(***************************************************************************)
EXTENDS SolstoryProgram, SumProofs

(***************************************************************************)
(* Types.                                                                  *)
(***************************************************************************)
\* Nothing a client puts into an append is outside its type.
LEMMA AppendDataTyped ==
  ASSUME NEW d \in ExtAppendData
  PROVE  /\ d.timestamp \in Timestamps
         /\ d.data_hash \in DataHashes
         /\ d.current_hash \in Digest
         /\ d.access_type \in AccessType
         /\ d.obj_id \in ObjIds
         /\ hash_from_prev(d.timestamp, d.data_hash, d.current_hash) \in Digest
<1>1. PICK t \in Timestamps, dh \in DataHashes,
           c \in UNION {[1 .. n -> Entry] : n \in 0 .. MAX_ITEMS - 1},
           a \in ClaimedAccessTypes, o \in ObjIds, right \in BOOLEAN :
        d = [timestamp |-> t, data_hash |-> dh, current_hash |-> c, access_type |-> a,
             obj_id |-> o, new_hash |-> IF right THEN hash_from_prev(t, dh, c) ELSE ZERO_HASH]
  BY DEF ExtAppendData
<1>2. PICK n \in 0 .. MAX_ITEMS - 1 : c \in [1 .. n -> Entry]
  OBVIOUS
<1>3. n \in Nat
  BY <1>2, NumbersAssumption
<1>4. c \in Digest
  BY <1>2, <1>3 DEF Digest
<1>5. [timestamp |-> t, data_hash |-> dh] \in Entry
  BY DEF Entry
<1>6. hash_from_prev(t, dh, c) \in Digest
  BY <1>4, <1>5 DEF Digest, hash_from_prev
<1> QED
  BY <1>1, <1>4, <1>6, RolesAssumption DEF AccessType

\* A new head, and a head after an append, hold data of a head's type.
LEMMA NewHeadTyped == NewHead \in WriterHead
  BY NumbersAssumption DEF NewHead, WriterHead, AccessType, ZERO_HASH, Digest

LEMMA AppendTyped ==
  ASSUME NEW head \in WriterHead, NEW d \in ExtAppendData
  PROVE  append_data_to_writer(head, d) \in WriterHead
  BY AppendDataTyped DEF append_data_to_writer, WriterHead

\* Paying for a head moves natural numbers between different keys.
LEMMA FeeTyped ==
  ASSUME lamports \in [Keys -> Nat], NEW payer \in Writers \cup Creators,
         lamports[payer] >= Rent(WRITER_HEAD_LEN) + SOLSTORY_FEE_LAMP
  PROVE  /\ init_head_account_fee(payer) \in [Keys -> Nat]
         /\ init_head_account_fee(payer)[SOLSTORY_FEE_DESTINATION]
              = lamports[SOLSTORY_FEE_DESTINATION] + SOLSTORY_FEE_LAMP
  BY RolesAssumption DEF init_head_account_fee, Rent, WRITER_HEAD_LEN, SOLSTORY_FEE_LAMP

\* A key that has the rent can pay it.
LEMMA DebitTyped ==
  ASSUME lamports \in [Keys -> Nat], NEW k \in Keys, NEW n \in Nat, ~(lamports[k] < n)
  PROVE  [lamports EXCEPT ![k] = @ - n] \in [Keys -> Nat]
  OBVIOUS

\* An address holds nothing or an account of its own type.
LEMMA AccountTyped ==
  ASSUME TypeOK
  PROVE  /\ Exists(solstory_pda) => solstory_pda \in SolstoryPDA
         /\ \A w \in Writers : Exists(writer_metadata[w]) => writer_metadata[w] \in WriterMetadata
         /\ \A h \in Mints \X Writers : Exists(writer_head[h]) => writer_head[h] \in WriterHead
         /\ \A w \in Writers :
              Exists(extended_metadata[w]) => extended_metadata[w] \in ExtendedMetadata
  BY DEF TypeOK, Exists

(***************************************************************************)
(* What a step can do to the heads.                                        *)
(***************************************************************************)
AppendOk(head, d) == AppendError(head, d) = "ok"

HeadCreated(h, new) ==
  /\ ~Exists(writer_head[h])
  /\ writer_head' = [writer_head EXCEPT ![h] = new]
  /\ \E payer \in Writers \cup Creators :
       /\ lamports[payer] >= Rent(WRITER_HEAD_LEN) + SOLSTORY_FEE_LAMP
       /\ lamports' = init_head_account_fee(payer)

HeadChanged(h, new) ==
  /\ Exists(writer_head[h])
  /\ writer_head' = [writer_head EXCEPT ![h] = new]
  /\ UNCHANGED lamports

SignedByAuthority(creators) == creators \cap Authorities # {}

HeadWritten(writers, creators, holders) ==
  \E h \in Mints \X Writers :
    \/ HeadCreated(h, NewHead) /\ (h[2] \in writers \/ SignedByAuthority(creators))
    \/ \E d \in ExtAppendData :
         /\ h[2] \in writers
         /\ \/ HeadCreated(h, append_data_to_writer(NewHead, d)) /\ AppendOk(NewHead, d)
            \/ HeadChanged(h, append_data_to_writer(writer_head[h], d)) /\ AppendOk(writer_head[h], d)
    \/ \E value \in BOOLEAN :
         /\ SignedByAuthority(creators)
         /\ HeadChanged(h, [writer_head[h] EXCEPT !.authorized = value])
    \/ \E holder \in holders, number \in VisibilityIndexes :
         /\ <<holder, h[1]>> \in token_accounts
         /\ HeadChanged(h, [writer_head[h] EXCEPT !.visibility_index = number])

HeadStepBy(writers, creators, holders) ==
  \/ /\ UNCHANGED writer_head
     /\ lamports'[SOLSTORY_FEE_DESTINATION] = lamports[SOLSTORY_FEE_DESTINATION]
  \/ HeadWritten(writers, creators, holders)

HeadStep == HeadStepBy(Writers, Creators, Holders)

LEMMA CreateHeadErrorOk ==
  ASSUME NEW h, NEW x, NEW payer, NEW feeTo,
         CreateHeadError(h, x, payer, feeTo) = "ok", TypeOK, payer \in Keys
  PROVE  /\ ~Exists(writer_head[h])
         /\ lamports[payer] >= Rent(WRITER_HEAD_LEN) + SOLSTORY_FEE_LAMP
  BY DEF CreateHeadError, TypeOK, Rent, WRITER_HEAD_LEN, SOLSTORY_FEE_LAMP

\* Every instruction that writes a head is one of these, and no other one on
\* heads or items, and nothing outside the program, moves a lamport.
LEMMA OtherIsHeadWrite ==
  ASSUME TypeOK, NEW writers \in SUBSET Writers, NEW creators \in SUBSET Creators,
         NEW holders \in SUBSET Holders,
         HeadInstruction(writers, creators, holders) \/ Appending(writers) \/ Environment
  PROVE  UNCHANGED <<writer_head, lamports>> \/ HeadWritten(writers, creators, holders)
<1> USE RolesAssumption
<1> DEFINE Writes == UNCHANGED <<writer_head, lamports>> \/ HeadWritten(writers, creators, holders)
<1>1. CASE HeadInstruction(writers, creators, holders)
  <2>1. ASSUME NEW m \in Mints, NEW x \in Mints, NEW w \in writers, NEW feeTo \in FeeAccounts,
               create_writer_head_writer(m, x, w, feeTo)
        PROVE  Writes
    <3>1. CASE CreateHeadError(<<m, w>>, x, w, feeTo) = "ok"
      <4>1. HeadCreated(<<m, w>>, NewHead)
        BY <2>1, <3>1, CreateHeadErrorOk DEF create_writer_head_writer, HeadCreated
      <4> QED
        BY <4>1 DEF HeadWritten, Writes
    <3>2. CASE CreateHeadError(<<m, w>>, x, w, feeTo) # "ok"
      BY <2>1, <3>2 DEF create_writer_head_writer, Writes
    <3> QED
      BY <3>1, <3>2
  <2>2. ASSUME NEW m \in Mints, NEW x \in Mints, NEW w \in Writers, NEW creator \in creators,
               NEW feeTo \in FeeAccounts, create_writer_head_creator(m, x, w, creator, feeTo)
        PROVE  Writes
    <3> DEFINE head == CreateHeadError(<<m, w>>, x, creator, feeTo)
    <3>1. CASE head = "ok" /\ update_authority[x] = creator
      <4>1. HeadCreated(<<m, w>>, NewHead)
        BY <2>2, <3>1, CreateHeadErrorOk DEF create_writer_head_creator, CreatorPays, HeadCreated
      <4>2. SignedByAuthority(creators)
        BY <3>1 DEF SignedByAuthority, Authorities
      <4> QED
        BY <4>1, <4>2 DEF HeadWritten, Writes
    <3>2. CASE ~(head = "ok" /\ update_authority[x] = creator)
      BY <2>2, <3>2 DEF create_writer_head_creator, Writes
    <3> QED
      BY <3>1, <3>2
  <2>3. ASSUME NEW m \in Mints, NEW x \in Mints, NEW w \in Writers, NEW creator \in creators,
               NEW value \in BOOLEAN, SetAuthorized(m, x, w, creator, value)
        PROVE  Writes
    <3>1. \/ /\ HeadChanged(<<m, w>>, [writer_head[m, w] EXCEPT !.authorized = value])
             /\ update_authority[x] = creator
          \/ UNCHANGED <<writer_head, lamports>>
      BY <2>3 DEF SetAuthorized, HeadChanged, Loads
    <3>2. update_authority[x] = creator => SignedByAuthority(creators)
      BY DEF SignedByAuthority, Authorities
    <3> QED
      BY <3>1, <3>2 DEF HeadWritten, Writes
  <2>4. ASSUME NEW m \in Mints, NEW x \in Mints, NEW w \in Writers, NEW holder \in holders, NEW owner,
               NEW number \in VisibilityIndexes,
               update_visibility_index(m, w, holder, owner, x, number)
        PROVE  Writes
    <3>1. \/ /\ <<holder, m>> \in token_accounts
             /\ HeadChanged(<<m, w>>, [writer_head[m, w] EXCEPT !.visibility_index = number])
          \/ UNCHANGED <<writer_head, lamports>>
      BY <2>4 DEF update_visibility_index, OwnsToken, HeadChanged, Loads
    <3> QED
      BY <3>1 DEF HeadWritten, Writes
  <2> QED
    BY <1>1, <2>1, <2>2, <2>3, <2>4 DEF HeadInstruction, authorize_writer, deauthorize_writer
<1>2. CASE Appending(writers)
  <2>1. ASSUME NEW m \in Mints, NEW w \in writers, NEW d \in ExtAppendData, ext_append(m, w, d)
        PROVE  Writes
    <3>1. \/ /\ HeadChanged(<<m, w>>, append_data_to_writer(writer_head[m, w], d))
             /\ AppendOk(writer_head[m, w], d)
          \/ UNCHANGED <<writer_head, lamports>>
      BY <2>1 DEF ext_append, HeadChanged, Loads, AppendOk
    <3> DEFINE h == <<m, w>>
    <3>2. h \in Mints \X Writers /\ h[2] \in writers
      OBVIOUS
    <3>3. \/ /\ HeadChanged(h, append_data_to_writer(writer_head[h], d))
             /\ AppendOk(writer_head[h], d)
          \/ UNCHANGED <<writer_head, lamports>>
      BY <3>1
    <3> HIDE DEF h
    <3> QED
      BY <3>2, <3>3 DEF HeadWritten, Writes
  <2>2. ASSUME NEW m \in Mints, NEW x \in Mints, NEW w \in writers, NEW d \in ExtAppendData,
               NEW feeTo \in FeeAccounts, create_and_append(m, x, w, feeTo, d)
        PROVE  Writes
    <3> DEFINE head == CreateHeadError(<<m, w>>, x, w, feeTo)
    <3>1. CASE head = "ok" /\ AppendOk(NewHead, d)
      <4>1. HeadCreated(<<m, w>>, append_data_to_writer(NewHead, d))
        BY <2>2, <3>1, CreateHeadErrorOk DEF create_and_append, HeadCreated, AppendOk
      <4> QED
        BY <3>1, <4>1 DEF HeadWritten, Writes
    <3>2. CASE ~(head = "ok" /\ AppendOk(NewHead, d))
      BY <2>2, <3>2 DEF create_and_append, Writes, AppendOk
    <3> QED
      BY <3>1, <3>2
  <2>3. CASE sol_append
    BY <2>3 DEF sol_append, accounts, Writes
  <2> QED
    BY <1>2, <2>1, <2>2, <2>3 DEF Appending
<1>3. CASE Environment
  BY <1>3 DEF Environment, MetaplexUpdate, OpenTokenAccount, CloseTokenAccount, Tick, accounts, Writes
<1> QED
  BY <1>1, <1>2, <1>3

\* The registry's instructions leave the heads and the fee account alone.  No
\* head's address ever holds a writer's metadata, so update_writer_metadata and
\* set_system_verified fail.
LEMMA InstructionIsHeadStep ==
  ASSUME TypeOK, NEW writers \in SUBSET Writers, NEW creators \in SUBSET Creators,
         NEW holders \in SUBSET Holders,
         Instructions(writers, creators, holders) \/ Environment
  PROVE  HeadStepBy(writers, creators, holders)
<1> USE RolesAssumption
<1>noMetadata. ASSUME NEW h \in Mints \X Writers
               PROVE  ~Loads(writer_head[h], "WriterMetadata")
  BY AccountTyped DEF Loads, WriterHead
<1>1. CASE Registry(writers, creators)
  <2>1. ASSUME NEW k \in Creators, initialize(k)
        PROVE  HeadStepBy(writers, creators, holders)
    BY <2>1 DEF initialize, HeadStepBy, TypeOK
  <2>2. ASSUME NEW w \in Writers, NEW data \in Contents, create_writer_metadata(w, data)
        PROVE  HeadStepBy(writers, creators, holders)
    BY <2>2 DEF create_writer_metadata, HeadStepBy, TypeOK
  <2>3. ASSUME NEW w \in Writers, delete_writer_metadata(w)
        PROVE  HeadStepBy(writers, creators, holders)
    BY <2>3 DEF delete_writer_metadata, HeadStepBy, TypeOK
  <2>4. ASSUME NEW m \in Mints, NEW x \in Mints, NEW w \in Writers, NEW data \in Contents,
               update_writer_metadata(m, x, w, data)
        PROVE  HeadStepBy(writers, creators, holders)
    <3>1. ~Loads(writer_head[m, w], "WriterMetadata")
      BY <1>noMetadata
    <3> QED
      BY <2>4, <3>1 DEF update_writer_metadata, UpdateMetadataError, HeadStepBy
  <2>5. ASSUME NEW k, NEW m \in Mints, NEW w \in Writers, NEW value \in BOOLEAN,
               set_system_verified(k, m, w, value)
        PROVE  HeadStepBy(writers, creators, holders)
    <3>1. ~Loads(writer_head[m, w], "WriterMetadata")
      BY <1>noMetadata
    <3> QED
      BY <2>5, <3>1 DEF set_system_verified, HeadStepBy
  <2>6. ASSUME NEW w \in Writers, NEW len \in JsonLengths, set_extended_metadata(w, len)
        PROVE  HeadStepBy(writers, creators, holders)
    BY <2>6 DEF set_extended_metadata, HeadStepBy, TypeOK
  <2>7. ASSUME NEW w \in Writers, delete_extended_metadata(w)
        PROVE  HeadStepBy(writers, creators, holders)
    BY <2>7 DEF delete_extended_metadata, HeadStepBy, TypeOK
  <2> QED
    BY <1>1, <2>1, <2>2, <2>3, <2>4, <2>5, <2>6, <2>7 DEF Registry
<1> QED
  BY <1>1, OtherIsHeadWrite DEF Instructions, HeadStepBy

LEMMA StepIsHeadStep ==
  ASSUME TypeOK, Next
  PROVE  HeadStep
  BY InstructionIsHeadStep DEF Next, HeadStep

(***************************************************************************)
(* Type correctness.                                                       *)
(***************************************************************************)
\* What a step writes to a head has a head's type.
LEMMA HeadWrittenTyped ==
  ASSUME TypeOK, HeadWritten(Writers, Creators, Holders)
  PROVE  \E h \in Mints \X Writers, new \in WriterHead : HeadCreated(h, new) \/ HeadChanged(h, new)
<1>1. ASSUME NEW h \in Mints \X Writers, NEW d \in ExtAppendData, Exists(writer_head[h])
      PROVE  append_data_to_writer(writer_head[h], d) \in WriterHead
  BY <1>1, AccountTyped, AppendTyped
<1>2. ASSUME NEW h \in Mints \X Writers, Exists(writer_head[h])
      PROVE  /\ \A value \in BOOLEAN :
                  [writer_head[h] EXCEPT !.authorized = value] \in WriterHead
             /\ \A number \in VisibilityIndexes :
                  [writer_head[h] EXCEPT !.visibility_index = number] \in WriterHead
  BY <1>2, AccountTyped DEF WriterHead
<1> QED
  BY <1>1, <1>2, NewHeadTyped, AppendTyped DEF HeadWritten, HeadChanged

LEMMA HeadStepWrites ==
  ASSUME TypeOK, HeadStep
  PROVE  \/ /\ UNCHANGED writer_head
            /\ lamports'[SOLSTORY_FEE_DESTINATION] = lamports[SOLSTORY_FEE_DESTINATION]
         \/ \E h \in Mints \X Writers, new \in WriterHead : HeadCreated(h, new) \/ HeadChanged(h, new)
  BY HeadWrittenTyped DEF HeadStep, HeadStepBy

LEMMA HeadStepTyped ==
  ASSUME TypeOK, HeadStep
  PROVE  writer_head' \in [Mints \X Writers -> WriterHead \cup {NoAccount}]
  BY HeadStepWrites DEF HeadCreated, HeadChanged, TypeOK

\* Whatever instructions run, in whatever order, each account keeps data of its
\* own type and each balance stays a natural number.
LEMMA TypeInductive ==
  ASSUME TypeOK, [Next]_vars
  PROVE  TypeOK'
<1> USE RolesAssumption
<1>1. CASE UNCHANGED vars
  BY <1>1 DEF vars, accounts, environment, TypeOK
<1>2. CASE Next
  <2>head. writer_head' \in [Mints \X Writers -> WriterHead \cup {NoAccount}]
    BY <1>2, StepIsHeadStep, HeadStepTyped
  <2>noMetadata. ASSUME NEW h \in Mints \X Writers
                 PROVE  ~Loads(writer_head[h], "WriterMetadata")
    BY AccountTyped DEF Loads, WriterHead
  <2>rent. /\ Rent(SOLSTORY_PDA_LEN) \in Nat
           /\ Rent(WRITER_METADATA_LEN) \in Nat
           /\ \A len \in JsonLengths : Rent(ExtendedMetadataLen(len)) \in Nat
    BY NumbersAssumption
       DEF Rent, SOLSTORY_PDA_LEN, WRITER_METADATA_LEN, ExtendedMetadataLen
  <2>1. CASE Registry(Writers, Creators)
    <3>1. ASSUME NEW k \in Creators, initialize(k)
          PROVE  TypeOK'
      <4>1. [discriminator |-> "SolstoryPDA", initialized |-> TRUE, writers |-> 0] \in SolstoryPDA
        BY NumbersAssumption DEF SolstoryPDA
      <4>2. solstory_pda' \in SolstoryPDA \cup {NoAccount} /\ lamports' \in [Keys -> Nat]
        <5>1. CASE Exists(solstory_pda) \/ lamports[k] < Rent(SOLSTORY_PDA_LEN)
          BY <3>1, <5>1 DEF initialize, TypeOK
        <5>2. CASE ~(Exists(solstory_pda) \/ lamports[k] < Rent(SOLSTORY_PDA_LEN))
          <6>1. solstory_pda' = [discriminator |-> "SolstoryPDA", initialized |-> TRUE, writers |-> 0]
            BY <3>1, <5>2 DEF initialize
          <6>2. lamports' = [lamports EXCEPT ![k] = @ - Rent(SOLSTORY_PDA_LEN)]
            BY <3>1, <5>2 DEF initialize
          <6>3. lamports' \in [Keys -> Nat]
            BY <5>2, <6>2, <2>rent, DebitTyped DEF TypeOK
          <6> QED
            BY <4>1, <6>1, <6>3
        <5> QED
          BY <5>1, <5>2
      <4>3. receipt' \in Errors
        BY <3>1 DEF initialize, Finish, Errors
      <4> QED
        BY <3>1, <2>head, <4>2, <4>3 DEF initialize, TypeOK, environment
    <3>2. ASSUME NEW w \in Writers, NEW data \in Contents, create_writer_metadata(w, data)
          PROVE  TypeOK'
      <4>1. [discriminator |-> "WriterMetadata", writer_key |-> w, data |-> data, api_version |-> 1,
             system_verified |-> FALSE, metadata_extended |-> TRUE] \in WriterMetadata
        BY DEF WriterMetadata
      <4>2. Exists(solstory_pda) =>
              [solstory_pda EXCEPT !.writers = CountCreated(@)] \in SolstoryPDA
        BY AccountTyped, NumbersAssumption DEF SolstoryPDA, CountCreated
      <4>3. /\ solstory_pda' \in SolstoryPDA \cup {NoAccount}
            /\ writer_metadata' \in [Writers -> WriterMetadata \cup {NoAccount}]
            /\ lamports' \in [Keys -> Nat]
        <5> DEFINE bad == \/ Exists(writer_metadata[w]) \/ ~Exists(solstory_pda)
                          \/ lamports[w] < Rent(WRITER_METADATA_LEN)
                          \/ data \in OversizedContents
        <5>1. CASE bad
          BY <3>2, <5>1 DEF create_writer_metadata, TypeOK
        <5>2. CASE ~bad
          <6>1. lamports' = [lamports EXCEPT ![w] = @ - Rent(WRITER_METADATA_LEN)]
            BY <3>2, <5>2 DEF create_writer_metadata
          <6>2. lamports' \in [Keys -> Nat]
            BY <5>2, <6>1, <2>rent, DebitTyped DEF TypeOK
          <6>3. /\ solstory_pda' \in SolstoryPDA \cup {NoAccount}
                /\ writer_metadata' \in [Writers -> WriterMetadata \cup {NoAccount}]
            BY <3>2, <4>1, <4>2, <5>2 DEF create_writer_metadata, TypeOK
          <6> QED
            BY <6>2, <6>3
        <5> QED
          BY <5>1, <5>2
      <4>4. receipt' \in Errors
        BY <3>2 DEF create_writer_metadata, Finish, Errors
      <4> QED
        BY <3>2, <2>head, <4>3, <4>4 DEF create_writer_metadata, TypeOK, environment
    <3>3. ASSUME NEW w \in Writers, delete_writer_metadata(w)
          PROVE  TypeOK'
      <4>1. Exists(solstory_pda) =>
              [solstory_pda EXCEPT !.writers = CountDeleted(@)] \in SolstoryPDA
        BY AccountTyped, NumbersAssumption DEF SolstoryPDA, CountDeleted
      <4>2. /\ solstory_pda' \in SolstoryPDA \cup {NoAccount}
            /\ writer_metadata' \in [Writers -> WriterMetadata \cup {NoAccount}]
            /\ lamports' \in [Keys -> Nat]
        BY <3>3, <4>1, <2>rent DEF delete_writer_metadata, TypeOK
      <4>3. receipt' \in Errors
        BY <3>3 DEF delete_writer_metadata, Finish, Errors
      <4> QED
        BY <3>3, <2>head, <4>2, <4>3 DEF delete_writer_metadata, TypeOK, environment
    <3>4. ASSUME NEW m \in Mints, NEW x \in Mints, NEW w \in Writers, NEW data \in Contents,
                 update_writer_metadata(m, x, w, data)
          PROVE  TypeOK'
      <4>1. receipt' \in Errors
        BY <3>4 DEF update_writer_metadata, UpdateMetadataError, Finish, Errors
      <4> QED
        BY <3>4, <2>head, <4>1 DEF update_writer_metadata, TypeOK, environment
    <3>5. ASSUME NEW k, NEW m \in Mints, NEW w \in Writers, NEW value \in BOOLEAN,
                 set_system_verified(k, m, w, value)
          PROVE  TypeOK'
      <4>1. receipt' \in Errors
        BY <3>5 DEF set_system_verified, Finish, Errors
      <4> QED
        BY <3>5, <2>head, <4>1 DEF set_system_verified, TypeOK, environment
    <3>6. ASSUME NEW w \in Writers, NEW len \in JsonLengths, set_extended_metadata(w, len)
          PROVE  TypeOK'
      <4>1. [discriminator |-> "ExtendedMetadata", writer_key |-> w, len |-> len] \in ExtendedMetadata
        BY DEF ExtendedMetadata
      <4>2. /\ extended_metadata' \in [Writers -> ExtendedMetadata \cup {NoAccount}]
            /\ lamports' \in [Keys -> Nat]
        BY <3>6, <4>1, <2>rent DEF set_extended_metadata, TypeOK
      <4>3. receipt' \in Errors
        BY <3>6 DEF set_extended_metadata, Finish, Errors
      <4> QED
        BY <3>6, <2>head, <4>2, <4>3 DEF set_extended_metadata, TypeOK, environment
    <3>7. ASSUME NEW w \in Writers, delete_extended_metadata(w)
          PROVE  TypeOK'
      <4>1. Exists(extended_metadata[w]) => extended_metadata[w].len \in JsonLengths
        BY AccountTyped DEF ExtendedMetadata
      <4>2. /\ extended_metadata' \in [Writers -> ExtendedMetadata \cup {NoAccount}]
            /\ lamports' \in [Keys -> Nat]
        BY <3>7, <4>1, <2>rent DEF delete_extended_metadata, TypeOK
      <4>3. receipt' \in Errors
        BY <3>7 DEF delete_extended_metadata, Finish, Errors
      <4> QED
        BY <3>7, <2>head, <4>2, <4>3 DEF delete_extended_metadata, TypeOK, environment
    <3> QED
      BY <2>1, <3>1, <3>2, <3>3, <3>4, <3>5, <3>6, <3>7 DEF Registry
  <2>2. CASE HeadInstruction(Writers, Creators, Holders)
    <3>1. ASSUME NEW m \in Mints, NEW x \in Mints, NEW w \in Writers, NEW payer \in Writers \cup Creators,
                 NEW feeTo \in FeeAccounts
          PROVE  /\ CreateHeadError(<<m, w>>, x, payer, feeTo) \in Errors
                 /\ CreateHeadError(<<m, w>>, x, payer, feeTo) = "ok" =>
                      init_head_account_fee(payer) \in [Keys -> Nat]
      <4>1. CreateHeadError(<<m, w>>, x, payer, feeTo) \in Errors
        BY DEF CreateHeadError, Errors
      <4>2. CreateHeadError(<<m, w>>, x, payer, feeTo) = "ok" =>
              lamports[payer] >= Rent(WRITER_HEAD_LEN) + SOLSTORY_FEE_LAMP
        BY CreateHeadErrorOk
      <4> QED
        BY <4>1, <4>2, FeeTyped DEF TypeOK
    <3>2. ASSUME NEW m \in Mints, NEW x \in Mints, NEW w \in Writers, NEW feeTo \in FeeAccounts,
                 create_writer_head_writer(m, x, w, feeTo)
          PROVE  TypeOK'
      <4>1. receipt' \in Errors /\ lamports' \in [Keys -> Nat]
        BY <3>1, <3>2 DEF create_writer_head_writer, Finish, TypeOK
      <4> QED
        BY <3>2, <2>head, <4>1 DEF create_writer_head_writer, TypeOK, environment
    <3>3. ASSUME NEW m \in Mints, NEW x \in Mints, NEW w \in Writers, NEW creator \in Creators,
                 NEW feeTo \in FeeAccounts, create_writer_head_creator(m, x, w, creator, feeTo)
          PROVE  TypeOK'
      <4>1. "InvalidCreatorError" \in Errors
        BY DEF Errors
      <4>2. receipt' \in Errors /\ lamports' \in [Keys -> Nat]
        BY <3>1, <3>3, <4>1 DEF create_writer_head_creator, CreatorPays, Finish, TypeOK
      <4> QED
        BY <3>3, <2>head, <4>2 DEF create_writer_head_creator, TypeOK, environment
    <3>4. ASSUME NEW m \in Mints, NEW x \in Mints, NEW w \in Writers, NEW creator \in Creators,
                 NEW value \in BOOLEAN, SetAuthorized(m, x, w, creator, value)
          PROVE  TypeOK'
      <4>1. receipt' \in Errors
        BY <3>4 DEF SetAuthorized, Finish, Errors
      <4> QED
        BY <3>4, <2>head, <4>1 DEF SetAuthorized, TypeOK, environment
    <3>5. ASSUME NEW m \in Mints, NEW x \in Mints, NEW w \in Writers, NEW holder, NEW owner,
                 NEW number \in VisibilityIndexes,
                 update_visibility_index(m, w, holder, owner, x, number)
          PROVE  TypeOK'
      <4>1. receipt' \in Errors
        BY <3>5 DEF update_visibility_index, Finish, Errors
      <4> QED
        BY <3>5, <2>head, <4>1 DEF update_visibility_index, TypeOK, environment
    <3> QED
      BY <2>2, <3>2, <3>3, <3>4, <3>5 DEF HeadInstruction, authorize_writer, deauthorize_writer
  <2>3. CASE Appending(Writers)
    <3>1. ASSUME NEW head, NEW d
          PROVE  AppendError(head, d) \in Errors
      BY DEF AppendError, Errors
    <3>2. ASSUME NEW m \in Mints, NEW w \in Writers, NEW d \in ExtAppendData, ext_append(m, w, d)
          PROVE  TypeOK'
      <4>1. "AnchorError" \in Errors
        BY DEF Errors
      <4>2. receipt' \in Errors
        BY <3>1, <3>2, <4>1 DEF ext_append, Finish
      <4> QED
        BY <3>2, <2>head, <4>2 DEF ext_append, TypeOK, environment
    <3>3. ASSUME NEW m \in Mints, NEW x \in Mints, NEW w \in Writers, NEW d \in ExtAppendData,
                 NEW feeTo \in FeeAccounts, create_and_append(m, x, w, feeTo, d)
          PROVE  TypeOK'
      <4> DEFINE head == CreateHeadError(<<m, w>>, x, w, feeTo)
      <4>1. head \in Errors
        BY DEF CreateHeadError, Errors
      <4>2. head = "ok" => init_head_account_fee(w) \in [Keys -> Nat]
        BY CreateHeadErrorOk, FeeTyped DEF TypeOK
      <4> HIDE DEF head
      <4>3. receipt' \in Errors /\ lamports' \in [Keys -> Nat]
        BY <3>1, <3>3, <4>1, <4>2 DEF create_and_append, Finish, TypeOK, head
      <4> QED
        BY <3>3, <2>head, <4>3 DEF create_and_append, TypeOK, environment
    <3>4. CASE sol_append
      <4>1. receipt' \in Errors
        BY <3>4 DEF sol_append, Finish, Errors
      <4> QED
        BY <3>4, <4>1 DEF sol_append, TypeOK, accounts, environment
    <3> QED
      BY <2>3, <3>2, <3>3, <3>4 DEF Appending
  <2>4. CASE Environment
    BY <2>4 DEF Environment, MetaplexUpdate, OpenTokenAccount, CloseTokenAccount, Tick, accounts, TypeOK
  <2> QED
    BY <1>2, <2>1, <2>2, <2>3, <2>4 DEF Next, Instructions
<1> QED
  BY <1>1, <1>2

\* Type correctness of every reachable state.
THEOREM TypeCorrect == Spec => []TypeOK
<1>1. Init => TypeOK
  BY NumbersAssumption DEF Init, TypeOK, Errors
<1> QED
  BY <1>1, TypeInductive, PTL DEF Spec

(***************************************************************************)
(* Fees.                                                                   *)
(***************************************************************************)
LEMMA HeadsFinite == IsFiniteSet(Heads)
<1>1. IsFiniteSet(Mints \X Writers)
  BY FS_Product, FiniteAssumption
<1> QED
  BY <1>1, FS_Subset DEF Heads

\* A new head adds one address to Heads, and a change of a head none.
LEMMA HeadsAfter ==
  ASSUME TypeOK, NEW h \in Mints \X Writers, NEW new \in WriterHead,
         writer_head' = [writer_head EXCEPT ![h] = new]
  PROVE  Heads' = Heads \cup {h}
  BY NoAccountAssumption DEF Heads, Exists, TypeOK

LEMMA FeeInductive ==
  ASSUME TypeOK, FeePaidOncePerHead, [Next]_vars
  PROVE  FeePaidOncePerHead'
<1> USE RolesAssumption
<1>0. Cardinality(Heads) \in Nat /\ INITIAL_LAMPORTS \in Nat
  BY HeadsFinite, FS_CardinalityType, NumbersAssumption
<1>1. CASE UNCHANGED vars
  BY <1>1 DEF vars, accounts, FeePaidOncePerHead, Heads
<1>2. CASE Next
  <2>1. ASSUME NEW h \in Mints \X Writers, NEW new \in WriterHead, HeadCreated(h, new)
        PROVE  FeePaidOncePerHead'
    <3>1. Heads' = Heads \cup {h} /\ h \notin Heads
      BY <2>1, HeadsAfter DEF HeadCreated, Heads
    <3>2. Cardinality(Heads') = Cardinality(Heads) + 1
      BY <3>1, HeadsFinite, FS_AddElement
    <3>3. lamports'[SOLSTORY_FEE_DESTINATION]
            = lamports[SOLSTORY_FEE_DESTINATION] + SOLSTORY_FEE_LAMP
      BY <2>1, FeeTyped DEF HeadCreated, TypeOK
    <3> QED
      BY <1>0, <3>2, <3>3 DEF FeePaidOncePerHead, SOLSTORY_FEE_LAMP
  <2>2. ASSUME NEW h \in Mints \X Writers, NEW new \in WriterHead, HeadChanged(h, new)
        PROVE  FeePaidOncePerHead'
    <3>1. Heads' = Heads
      BY <2>2, HeadsAfter DEF HeadChanged, Heads
    <3> QED
      BY <2>2, <3>1 DEF HeadChanged, FeePaidOncePerHead
  <2>3. CASE UNCHANGED writer_head
             /\ lamports'[SOLSTORY_FEE_DESTINATION] = lamports[SOLSTORY_FEE_DESTINATION]
    BY <2>3 DEF FeePaidOncePerHead, Heads
  <2> QED
    BY <1>2, <2>1, <2>2, <2>3, StepIsHeadStep, HeadStepWrites
<1> QED
  BY <1>1, <1>2

\* The fee account holds one fee for each head there is, however it came to be.
THEOREM FeesMatchHeads == Spec => []FeePaidOncePerHead
<1>1. Init => FeePaidOncePerHead
  <2>1. Init => Heads = {}
    BY DEF Init, Heads, Exists
  <2> QED
    <3>1. Init => Cardinality(Heads) = 0
      BY <2>1, FS_EmptySet
    <3>2. Init => lamports[SOLSTORY_FEE_DESTINATION] = INITIAL_LAMPORTS
      BY RolesAssumption DEF Init
    <3> QED
      BY <3>1, <3>2, NumbersAssumption DEF FeePaidOncePerHead, SOLSTORY_FEE_LAMP
<1> QED
  BY <1>1, FeeInductive, TypeCorrect, PTL DEF Spec

(***************************************************************************)
(* The registry's counter.                                                 *)
(***************************************************************************)
\* Nothing on heads or items, and nothing outside the program, touches the
\* registry's accounts.
LEMMA OthersLeaveRegistry ==
  ASSUME NEW writers, NEW creators, NEW holders,
         HeadInstruction(writers, creators, holders) \/ Appending(writers) \/ Environment
  PROVE  UNCHANGED <<solstory_pda, writer_metadata, extended_metadata>>
<1>1. CASE HeadInstruction(writers, creators, holders)
  <2>1. ASSUME NEW m, NEW x, NEW w, NEW creator, NEW feeTo,
               \/ create_writer_head_writer(m, x, w, feeTo)
               \/ create_writer_head_creator(m, x, w, creator, feeTo)
        PROVE  UNCHANGED <<solstory_pda, writer_metadata, extended_metadata>>
    BY <2>1 DEF create_writer_head_writer, create_writer_head_creator
  <2>2. ASSUME NEW m, NEW x, NEW w, NEW creator, NEW value, SetAuthorized(m, x, w, creator, value)
        PROVE  UNCHANGED <<solstory_pda, writer_metadata, extended_metadata>>
    BY <2>2 DEF SetAuthorized
  <2>3. ASSUME NEW m, NEW x, NEW w, NEW holder, NEW owner, NEW number,
               update_visibility_index(m, w, holder, owner, x, number)
        PROVE  UNCHANGED <<solstory_pda, writer_metadata, extended_metadata>>
    BY <2>3 DEF update_visibility_index
  <2> QED
    BY <1>1, <2>1, <2>2, <2>3 DEF HeadInstruction, authorize_writer, deauthorize_writer
<1>2. CASE Appending(writers)
  BY <1>2 DEF Appending, ext_append, create_and_append, sol_append, accounts
<1>3. CASE Environment
  BY <1>3 DEF Environment, MetaplexUpdate, OpenTokenAccount, CloseTokenAccount, Tick, accounts
<1> QED
  BY <1>1, <1>2, <1>3

\* No other action than these two changes the counter or who has metadata.
LEMMA RegistryUnchanged ==
  ASSUME [Next]_vars,
         ~\E w \in Writers, data \in Contents : create_writer_metadata(w, data),
         ~\E w \in Writers : delete_writer_metadata(w),
         ~\E k \in Creators : initialize(k)
  PROVE  UNCHANGED <<solstory_pda, writer_metadata>>
<1>1. CASE Registry(Writers, Creators)
  BY <1>1 DEF Registry, update_writer_metadata, set_system_verified, set_extended_metadata,
              delete_extended_metadata
<1>2. CASE UNCHANGED vars
  BY <1>2 DEF vars, accounts
<1> QED
  BY <1>1, <1>2, OthersLeaveRegistry DEF Next, Instructions

LEMMA CountInductive ==
  ASSUME TypeOK, WritersCounted, [Next]_vars
  PROVE  WritersCounted'
<1>0. /\ IsFiniteSet(LiveWriters)
      /\ Cardinality(LiveWriters) \in Nat
      /\ Cardinality(LiveWriters) <= Cardinality(Writers)
      /\ Cardinality(Writers) \in Nat
      /\ I32_MAX \in Nat \ {0}
  BY FS_Subset, FS_CardinalityType, FiniteAssumption, NumbersAssumption DEF LiveWriters
<1>1. ASSUME NEW w \in Writers, NEW data \in Contents, create_writer_metadata(w, data)
      PROVE  WritersCounted'
  <2>1. CASE UNCHANGED <<solstory_pda, writer_metadata>>
    BY <2>1 DEF WritersCounted, LiveWriters
  <2>2. CASE ~UNCHANGED <<solstory_pda, writer_metadata>>
    <3>1. /\ ~Exists(writer_metadata[w])
          /\ Exists(solstory_pda)
          /\ \E new \in WriterMetadata : writer_metadata' = [writer_metadata EXCEPT ![w] = new]
          /\ solstory_pda' = [solstory_pda EXCEPT !.writers = CountCreated(@)]
      BY <1>1, <2>2 DEF create_writer_metadata, WriterMetadata
    <3>2. LiveWriters' = LiveWriters \cup {w} /\ w \notin LiveWriters
      BY <3>1, NoAccountAssumption DEF LiveWriters, Exists, TypeOK
    <3>3. Cardinality(LiveWriters') = Cardinality(LiveWriters) + 1
      BY <1>0, <3>2, FS_AddElement
    <3>4. LiveWriters' \subseteq Writers
      BY <3>2 DEF LiveWriters
    <3>5. Cardinality(LiveWriters') <= Cardinality(Writers)
      BY <3>4, FS_Subset, FiniteAssumption
    <3>6. /\ solstory_pda'.writers = CountCreated(solstory_pda.writers)
          /\ solstory_pda.writers \in 0 .. I32_MAX
          /\ solstory_pda' \in SolstoryPDA
      BY <3>1, AccountTyped, NumbersAssumption DEF SolstoryPDA, CountCreated
    <3>7. Exists(solstory_pda')
      BY <3>6, NoAccountAssumption DEF Exists
    <3> QED
      BY <1>0, <3>1, <3>3, <3>5, <3>6, <3>7 DEF WritersCounted, CountCreated
  <2> QED
    BY <2>1, <2>2
<1>2. ASSUME NEW w \in Writers, delete_writer_metadata(w)
      PROVE  WritersCounted'
  <2>1. CASE UNCHANGED <<solstory_pda, writer_metadata>>
    BY <2>1 DEF WritersCounted, LiveWriters
  <2>2. CASE ~UNCHANGED <<solstory_pda, writer_metadata>>
    <3>1. /\ Exists(writer_metadata[w])
          /\ Exists(solstory_pda)
          /\ writer_metadata' = [writer_metadata EXCEPT ![w] = NoAccount]
          /\ solstory_pda' = [solstory_pda EXCEPT !.writers = CountDeleted(@)]
      BY <1>2, <2>2 DEF delete_writer_metadata
    <3>2. LiveWriters' = LiveWriters \ {w} /\ w \in LiveWriters
      BY <3>1 DEF LiveWriters, Exists, TypeOK
    <3>3. Cardinality(LiveWriters') = Cardinality(LiveWriters) - 1
      BY <1>0, <3>2, FS_RemoveElement
    <3>4. Cardinality(LiveWriters') \in Nat
      BY <1>0, <3>2, FS_RemoveElement, FS_CardinalityType
    <3>5. /\ solstory_pda'.writers = CountDeleted(solstory_pda.writers)
          /\ solstory_pda.writers \in 0 .. I32_MAX
          /\ solstory_pda' \in SolstoryPDA
      BY <3>1, AccountTyped, NumbersAssumption DEF SolstoryPDA, CountDeleted
    <3>6. Exists(solstory_pda')
      BY <3>5, NoAccountAssumption DEF Exists
    <3> QED
      BY <1>0, <3>1, <3>3, <3>4, <3>5, <3>6 DEF WritersCounted, CountDeleted
  <2> QED
    BY <2>1, <2>2
<1>3. ASSUME NEW k \in Creators, initialize(k)
      PROVE  WritersCounted'
  <2>1. CASE UNCHANGED solstory_pda
    BY <1>3, <2>1 DEF initialize, WritersCounted, LiveWriters
  <2>2. CASE ~UNCHANGED solstory_pda
    <3>1. /\ ~Exists(solstory_pda)
          /\ solstory_pda' = [discriminator |-> "SolstoryPDA", initialized |-> TRUE, writers |-> 0]
          /\ UNCHANGED writer_metadata
      BY <1>3, <2>2 DEF initialize
    <3>2. Exists(solstory_pda') /\ solstory_pda'.writers = 0
      <4>1. solstory_pda' \in SolstoryPDA
        BY <3>1, NumbersAssumption DEF SolstoryPDA
      <4> QED
        BY <3>1, <4>1, NoAccountAssumption DEF Exists
    <3>3. Cardinality(LiveWriters') = 0
      BY <3>1 DEF WritersCounted, LiveWriters
    <3> QED
      BY <3>2, <3>3 DEF WritersCounted
  <2> QED
    BY <2>1, <2>2
<1>4. CASE UNCHANGED <<solstory_pda, writer_metadata>>
  BY <1>4 DEF WritersCounted, LiveWriters
<1> QED
  BY <1>1, <1>2, <1>3, <1>4, RegistryUnchanged

\* The counter of the registry counts the writers that have metadata, up to
\* the saturation of an i32, for every history of creations and deletions.
THEOREM WritersAlwaysCounted == Spec => []WritersCounted
<1>1. Init => WritersCounted
  <2>1. Init => LiveWriters = {} /\ ~Exists(solstory_pda)
    BY DEF Init, LiveWriters, Exists
  <2> QED
    BY <2>1, FS_EmptySet DEF WritersCounted
<1> QED
  BY <1>1, CountInductive, TypeCorrect, PTL DEF Spec

(***************************************************************************)
(* Lamports: the sum of what every key holds and what the open accounts    *)
(* lock.  A step changes one or two balances and one kind of account.      *)
(***************************************************************************)
ExtendedRent(account) == IF Exists(account) THEN Rent(ExtendedMetadataLen(account.len)) ELSE 0
ExtendedRents == [w \in Writers |-> ExtendedRent(extended_metadata[w])]
RegistryRent == IF Exists(solstory_pda) THEN Rent(SOLSTORY_PDA_LEN) ELSE 0

AllLamports == SumFunction(lamports) + RentHeld

LEMMA AllLamportsIs ==
  AllLamports = SumFunction(lamports)
                  + (RegistryRent
                      + Cardinality(LiveWriters) * Rent(WRITER_METADATA_LEN)
                      + Cardinality(Heads) * Rent(WRITER_HEAD_LEN)
                      + SumFunction(ExtendedRents))
BY DEF AllLamports, RentHeld, RegistryRent, ExtendedRents, ExtendedRent

LEMMA ExtendedRentIsNatural ==
  /\ ExtendedRent(NoAccount) = 0
  /\ \A account \in ExtendedMetadata :
       ExtendedRent(account) = Rent(ExtendedMetadataLen(account.len))
  /\ \A account \in ExtendedMetadata \cup {NoAccount} : ExtendedRent(account) \in Nat
<1>1. ASSUME NEW account \in ExtendedMetadata
      PROVE  account # NoAccount /\ Rent(ExtendedMetadataLen(account.len)) \in Nat
  <2>1. account.len \in Nat
    BY NumbersAssumption DEF ExtendedMetadata
  <2>2. Rent(ExtendedMetadataLen(account.len)) \in Nat
    BY <2>1 DEF ExtendedMetadataLen, Rent
  <2> QED BY <2>2, NoAccountAssumption
<1> QED BY <1>1 DEF ExtendedRent, Exists

LEMMA AmountsAreNumbers ==
  ASSUME TypeOK
  PROVE  /\ SumFunction(lamports) \in Int
         /\ RegistryRent \in Int
         /\ Cardinality(LiveWriters) \in Int
         /\ Cardinality(Heads) \in Int
         /\ ExtendedRents \in [Writers -> Int]
         /\ SumFunction(ExtendedRents) \in Int
<1>1. lamports \in [Keys -> Int]
  BY DEF TypeOK
<1>2. ExtendedRents \in [Writers -> Int]
  BY ExtendedRentIsNatural DEF ExtendedRents, TypeOK
<1>3. IsFiniteSet(LiveWriters)
  BY FS_Subset, FiniteAssumption DEF LiveWriters
<1>4. RegistryRent \in Int
  BY DEF RegistryRent, Rent, SOLSTORY_PDA_LEN
<1> QED BY <1>1, <1>2, <1>3, <1>4, SumOfInts, HeadsFinite, FS_CardinalityType, FiniteAssumption

\* What one key gains or pays, the sum of the balances does.
LEMMA BalanceMoved ==
  ASSUME NEW f \in [Keys -> Int], NEW g \in [Keys -> Int], NEW k \in Keys, NEW n \in Int,
         g[k] = f[k] + n, \A j \in Keys \ {k} : g[j] = f[j]
  PROVE  SumFunction(g) = SumFunction(f) + n
<1>1. IsFiniteSet(Keys)
  BY FiniteAssumption
<1>2. SumFunction(g) = SumFunction(f) + g[k] - f[k]
  BY <1>1, SumChange
<1>3. SumFunction(f) \in Int /\ f[k] \in Int
  BY <1>1, SumOfInts
<1> QED BY <1>2, <1>3

\* A head costs its payer its rent; the fee only changes hands.
LEMMA HeadPaid ==
  ASSUME TypeOK, NEW payer \in Writers \cup Creators, lamports' = init_head_account_fee(payer)
  PROVE  SumFunction(lamports') = SumFunction(lamports) - Rent(WRITER_HEAD_LEN)
<1> DEFINE cost == Rent(WRITER_HEAD_LEN) + SOLSTORY_FEE_LAMP
           paid == [k \in Keys |-> IF k = payer THEN lamports[k] - cost ELSE lamports[k]]
<1>1. payer \in Keys /\ SOLSTORY_FEE_DESTINATION \in Keys /\ payer # SOLSTORY_FEE_DESTINATION
  BY RolesAssumption
<1>2. Rent(WRITER_HEAD_LEN) \in Int /\ SOLSTORY_FEE_LAMP \in Int /\ lamports \in [Keys -> Int]
  BY DEF TypeOK, Rent, WRITER_HEAD_LEN, SOLSTORY_FEE_LAMP
<1>3. cost \in Int /\ 0 - cost \in Int
  BY <1>2
<1>4. /\ paid \in [Keys -> Int]
      /\ paid[payer] = lamports[payer] + (0 - cost)
      /\ \A j \in Keys \ {payer} : paid[j] = lamports[j]
  BY <1>1, <1>2
<1>5. /\ lamports' \in [Keys -> Int]
      /\ lamports'[SOLSTORY_FEE_DESTINATION] = paid[SOLSTORY_FEE_DESTINATION] + SOLSTORY_FEE_LAMP
      /\ \A j \in Keys \ {SOLSTORY_FEE_DESTINATION} : lamports'[j] = paid[j]
  BY <1>1, <1>2 DEF init_head_account_fee
<1> HIDE DEF paid, cost
<1>6. SumFunction(paid) = SumFunction(lamports) + (0 - cost)
  BY <1>1, <1>2, <1>3, <1>4, BalanceMoved
<1>7. SumFunction(lamports') = SumFunction(paid) + SOLSTORY_FEE_LAMP
  BY <1>1, <1>2, <1>4, <1>5, BalanceMoved
<1>8. SumFunction(lamports) \in Int
  BY AmountsAreNumbers
<1> QED BY <1>2, <1>6, <1>7, <1>8 DEF cost

LEMMA AllLamportsAfter ==
  AllLamports' = SumFunction(lamports')
                   + (RegistryRent'
                       + Cardinality(LiveWriters') * Rent(WRITER_METADATA_LEN)
                       + Cardinality(Heads') * Rent(WRITER_HEAD_LEN)
                       + SumFunction(ExtendedRents'))
BY DEF AllLamports, RentHeld, RegistryRent, ExtendedRents, ExtendedRent

LEMMA NothingMoved ==
  ASSUME UNCHANGED accounts
  PROVE  AllLamports' = AllLamports
BY DEF accounts, AllLamports, RentHeld, LiveWriters, Heads

\* What a key pays, and what it gets back, the sum of the balances does too.
LEMMA SignerPaid ==
  ASSUME TypeOK, TypeOK', NEW k \in Keys, NEW n \in Int
  PROVE  /\ lamports' = [lamports EXCEPT ![k] = @ - n] =>
              SumFunction(lamports') = SumFunction(lamports) - n
         /\ lamports' = [lamports EXCEPT ![k] = @ + n] =>
              SumFunction(lamports') = SumFunction(lamports) + n
<1>1. lamports \in [Keys -> Int] /\ lamports' \in [Keys -> Int] /\ 0 - n \in Int
  BY DEF TypeOK
<1>2. ASSUME lamports' = [lamports EXCEPT ![k] = @ - n]
      PROVE  SumFunction(lamports') = SumFunction(lamports) - n
  <2>1. lamports'[k] = lamports[k] + (0 - n) /\ \A j \in Keys \ {k} : lamports'[j] = lamports[j]
    BY <1>1, <1>2
  <2>2. SumFunction(lamports') = SumFunction(lamports) + (0 - n)
    BY <1>1, <2>1, BalanceMoved
  <2> QED BY <2>2, AmountsAreNumbers
<1>3. ASSUME lamports' = [lamports EXCEPT ![k] = @ + n]
      PROVE  SumFunction(lamports') = SumFunction(lamports) + n
  <2>1. lamports'[k] = lamports[k] + n /\ \A j \in Keys \ {k} : lamports'[j] = lamports[j]
    BY <1>1, <1>3
  <2> QED BY <1>1, <2>1, BalanceMoved
<1> QED BY <1>2, <1>3

LEMMA InitializeConserves ==
  ASSUME TypeOK, TypeOK', NEW k \in Creators, initialize(k)
  PROVE  AllLamports' = AllLamports
<1>1. CASE UNCHANGED <<solstory_pda, lamports>>
  BY <1>1, NothingMoved DEF initialize, accounts
<1>2. CASE ~UNCHANGED <<solstory_pda, lamports>>
  <2> DEFINE rent == Rent(SOLSTORY_PDA_LEN)
  <2>1. /\ ~Exists(solstory_pda)
        /\ solstory_pda' = [discriminator |-> "SolstoryPDA", initialized |-> TRUE, writers |-> 0]
        /\ lamports' = [lamports EXCEPT ![k] = @ - rent]
        /\ UNCHANGED <<writer_metadata, writer_head, extended_metadata>>
    BY <1>2 DEF initialize
  <2>2. Exists(solstory_pda')
    <3>1. solstory_pda' \in SolstoryPDA
      BY <2>1, NumbersAssumption DEF SolstoryPDA
    <3> QED BY <3>1, NoAccountAssumption DEF Exists
  <2>3. RegistryRent = 0 /\ RegistryRent' = rent /\ rent \in Int
    BY <2>1, <2>2 DEF RegistryRent, Rent, SOLSTORY_PDA_LEN
  <2>4. LiveWriters' = LiveWriters /\ Heads' = Heads /\ ExtendedRents' = ExtendedRents
    BY <2>1 DEF LiveWriters, Heads, ExtendedRents
  <2> HIDE DEF rent
  <2>5. SumFunction(lamports') = SumFunction(lamports) - rent
    BY <2>1, <2>3, SignerPaid, RolesAssumption
  <2>6. Rent(WRITER_METADATA_LEN) \in Int /\ Rent(WRITER_HEAD_LEN) \in Int
    BY DEF Rent, WRITER_METADATA_LEN, WRITER_HEAD_LEN
  <2> QED BY <2>3, <2>4, <2>5, <2>6, AllLamportsIs, AllLamportsAfter, AmountsAreNumbers
<1> QED BY <1>1, <1>2

LEMMA WriterMetadataConserves ==
  ASSUME TypeOK, TypeOK', NEW w \in Writers,
         delete_writer_metadata(w) \/ \E data \in Contents : create_writer_metadata(w, data)
  PROVE  AllLamports' = AllLamports
<1> DEFINE rent == Rent(WRITER_METADATA_LEN)
<1>0. /\ rent \in Int /\ Rent(WRITER_HEAD_LEN) \in Int
      /\ w \in Keys /\ IsFiniteSet(LiveWriters)
  BY FS_Subset, FiniteAssumption, RolesAssumption
     DEF LiveWriters, Rent, WRITER_METADATA_LEN, WRITER_HEAD_LEN
<1>1. ASSUME NEW n \in {1, -1}, SumFunction(lamports') = SumFunction(lamports) + (0 - n) * rent,
             Cardinality(LiveWriters') = Cardinality(LiveWriters) + n,
             Exists(solstory_pda), Exists(solstory_pda'), UNCHANGED <<writer_head, extended_metadata>>
      PROVE  AllLamports' = AllLamports
  <2>1. RegistryRent' = RegistryRent /\ Heads' = Heads /\ ExtendedRents' = ExtendedRents
    BY <1>1 DEF RegistryRent, Heads, ExtendedRents
  <2>2. Cardinality(LiveWriters') * rent = Cardinality(LiveWriters) * rent + n * rent
    BY <1>0, <1>1, AmountsAreNumbers DEF Rent, WRITER_METADATA_LEN
  <2> QED BY <1>0, <1>1, <2>1, <2>2, AllLamportsIs, AllLamportsAfter, AmountsAreNumbers
<1>2. ASSUME NEW data \in Contents, create_writer_metadata(w, data)
      PROVE  AllLamports' = AllLamports
  <2>1. CASE UNCHANGED <<writer_metadata, solstory_pda, lamports>>
    BY <1>2, <2>1, NothingMoved DEF create_writer_metadata, accounts
  <2>2. CASE ~UNCHANGED <<writer_metadata, solstory_pda, lamports>>
    <3>1. /\ ~Exists(writer_metadata[w])
          /\ Exists(solstory_pda)
          /\ \E new \in WriterMetadata : writer_metadata' = [writer_metadata EXCEPT ![w] = new]
          /\ solstory_pda' = [solstory_pda EXCEPT !.writers = CountCreated(@)]
          /\ lamports' = [lamports EXCEPT ![w] = @ - rent]
          /\ UNCHANGED <<writer_head, extended_metadata>>
      BY <1>2, <2>2 DEF create_writer_metadata, WriterMetadata
    <3>2. LiveWriters' = LiveWriters \cup {w} /\ w \notin LiveWriters
      BY <3>1, NoAccountAssumption DEF LiveWriters, Exists, TypeOK
    <3>3. Cardinality(LiveWriters') = Cardinality(LiveWriters) + 1
      BY <1>0, <3>2, FS_AddElement
    <3>4. Exists(solstory_pda')
      <4>1. solstory_pda' \in SolstoryPDA
        BY <3>1, AccountTyped, NumbersAssumption DEF SolstoryPDA, CountCreated
      <4> QED BY <4>1, NoAccountAssumption DEF Exists
    <3>5. SumFunction(lamports') = SumFunction(lamports) + (0 - 1) * rent
      <4> HIDE DEF rent
      <4>1. SumFunction(lamports') = SumFunction(lamports) - rent
        BY <1>0, <3>1, SignerPaid
      <4> QED BY <1>0, <4>1, AmountsAreNumbers
    <3> QED BY <1>1, <3>1, <3>3, <3>4, <3>5
  <2> QED BY <2>1, <2>2
<1>3. CASE delete_writer_metadata(w)
  <2>1. CASE UNCHANGED <<writer_metadata, solstory_pda, lamports>>
    BY <1>3, <2>1, NothingMoved DEF delete_writer_metadata, accounts
  <2>2. CASE ~UNCHANGED <<writer_metadata, solstory_pda, lamports>>
    <3>1. /\ Exists(writer_metadata[w])
          /\ Exists(solstory_pda)
          /\ writer_metadata' = [writer_metadata EXCEPT ![w] = NoAccount]
          /\ solstory_pda' = [solstory_pda EXCEPT !.writers = CountDeleted(@)]
          /\ lamports' = [lamports EXCEPT ![w] = @ + rent]
          /\ UNCHANGED <<writer_head, extended_metadata>>
      BY <1>3, <2>2 DEF delete_writer_metadata
    <3>2. LiveWriters' = LiveWriters \ {w} /\ w \in LiveWriters
      BY <3>1 DEF LiveWriters, Exists, TypeOK
    <3>3. Cardinality(LiveWriters') = Cardinality(LiveWriters) + (-1)
      BY <1>0, <3>2, FS_RemoveElement, AmountsAreNumbers
    <3>4. Exists(solstory_pda')
      <4>1. solstory_pda' \in SolstoryPDA
        BY <3>1, AccountTyped, NumbersAssumption DEF SolstoryPDA, CountDeleted
      <4> QED BY <4>1, NoAccountAssumption DEF Exists
    <3>5. SumFunction(lamports') = SumFunction(lamports) + (0 - (-1)) * rent
      <4> HIDE DEF rent
      <4>1. SumFunction(lamports') = SumFunction(lamports) + rent
        BY <1>0, <3>1, SignerPaid
      <4> QED BY <1>0, <4>1, AmountsAreNumbers
    <3> QED BY <1>1, <3>1, <3>3, <3>4, <3>5
  <2> QED BY <2>1, <2>2
<1> QED BY <1>2, <1>3

\* What the account of one writer's extended metadata locks, changed.
LEMMA ExtendedRentMoved ==
  ASSUME TypeOK, NEW w \in Writers, NEW new \in ExtendedMetadata \cup {NoAccount},
         extended_metadata' = [extended_metadata EXCEPT ![w] = new]
  PROVE  SumFunction(ExtendedRents')
           = SumFunction(ExtendedRents) + ExtendedRent(new) - ExtendedRent(extended_metadata[w])
<1>1. extended_metadata' \in [Writers -> ExtendedMetadata \cup {NoAccount}]
  BY DEF TypeOK
<1>2. ExtendedRents' \in [Writers -> Int] /\ ExtendedRents \in [Writers -> Int]
  BY <1>1, AmountsAreNumbers, ExtendedRentIsNatural DEF ExtendedRents
<1>3. /\ ExtendedRents'[w] = ExtendedRent(new)
      /\ ExtendedRents[w] = ExtendedRent(extended_metadata[w])
      /\ \A v \in Writers \ {w} : ExtendedRents'[v] = ExtendedRents[v]
  BY DEF ExtendedRents, TypeOK
<1>4. IsFiniteSet(Writers)
  BY FiniteAssumption
<1> QED BY <1>2, <1>3, <1>4, SumChange

LEMMA ExtendedMetadataConserves ==
  ASSUME TypeOK, TypeOK', NEW w \in Writers,
         delete_extended_metadata(w) \/ \E len \in JsonLengths : set_extended_metadata(w, len)
  PROVE  AllLamports' = AllLamports
<1> DEFINE old == ExtendedRent(extended_metadata[w])
<1>0. /\ old \in Int /\ w \in Keys
      /\ Rent(WRITER_METADATA_LEN) \in Int /\ Rent(WRITER_HEAD_LEN) \in Int
  BY ExtendedRentIsNatural, RolesAssumption DEF TypeOK, Rent, WRITER_METADATA_LEN, WRITER_HEAD_LEN
<1>1. ASSUME NEW new \in ExtendedMetadata \cup {NoAccount},
             extended_metadata' = [extended_metadata EXCEPT ![w] = new],
             SumFunction(lamports') = SumFunction(lamports) + (old - ExtendedRent(new)),
             UNCHANGED <<solstory_pda, writer_metadata, writer_head>>
      PROVE  AllLamports' = AllLamports
  <2>1. RegistryRent' = RegistryRent /\ LiveWriters' = LiveWriters /\ Heads' = Heads
    BY <1>1 DEF RegistryRent, LiveWriters, Heads
  <2>2. SumFunction(ExtendedRents') = SumFunction(ExtendedRents) + ExtendedRent(new) - old
    BY <1>1, ExtendedRentMoved
  <2>3. ExtendedRent(new) \in Int
    BY ExtendedRentIsNatural
  <2> HIDE DEF old
  <2> QED BY <1>0, <1>1, <2>1, <2>2, <2>3, AllLamportsIs, AllLamportsAfter, AmountsAreNumbers
<1>2. ASSUME NEW len \in JsonLengths, set_extended_metadata(w, len)
      PROVE  AllLamports' = AllLamports
  <2> DEFINE new == [discriminator |-> "ExtendedMetadata", writer_key |-> w, len |-> len]
             rent == IF Exists(extended_metadata[w]) THEN 0 ELSE Rent(ExtendedMetadataLen(len))
  <2>1. CASE UNCHANGED <<extended_metadata, lamports>>
    BY <1>2, <2>1, NothingMoved DEF set_extended_metadata, accounts
  <2>2. CASE ~UNCHANGED <<extended_metadata, lamports>>
    <3>1. /\ SizeMatches(w, len)
          /\ extended_metadata' = [extended_metadata EXCEPT ![w] = new]
          /\ lamports' = [lamports EXCEPT ![w] = @ - rent]
          /\ UNCHANGED <<solstory_pda, writer_metadata, writer_head>>
      BY <1>2, <2>2 DEF set_extended_metadata
    <3>2. new \in ExtendedMetadata
      BY DEF ExtendedMetadata
    <3>3. ExtendedRent(new) = Rent(ExtendedMetadataLen(len)) /\ ExtendedRent(new) \in Int
      BY <3>2, ExtendedRentIsNatural
    <3>4. old - ExtendedRent(new) = 0 - rent
      <4>1. CASE Exists(extended_metadata[w])
        BY <1>0, <3>1, <3>3, <4>1 DEF SizeMatches, ExtendedRent
      <4>2. CASE ~Exists(extended_metadata[w])
        BY <3>3, <4>2 DEF ExtendedRent
      <4> QED BY <4>1, <4>2
    <3>5. rent \in Int
      BY <3>3
    <3> HIDE DEF rent, old, new
    <3>6. SumFunction(lamports') = SumFunction(lamports) - rent
      BY <1>0, <3>1, <3>5, SignerPaid
    <3>7. SumFunction(lamports') = SumFunction(lamports) + (old - ExtendedRent(new))
      BY <3>4, <3>5, <3>6, AmountsAreNumbers
    <3> QED BY <1>1, <3>1, <3>2, <3>7 DEF old
  <2> QED BY <2>1, <2>2
<1>3. CASE delete_extended_metadata(w)
  <2>1. CASE UNCHANGED <<extended_metadata, lamports>>
    BY <1>3, <2>1, NothingMoved DEF delete_extended_metadata, accounts
  <2>2. CASE ~UNCHANGED <<extended_metadata, lamports>>
    <3>1. /\ extended_metadata' = [extended_metadata EXCEPT ![w] = NoAccount]
          /\ lamports' = [lamports EXCEPT ![w] = @ + old]
          /\ UNCHANGED <<solstory_pda, writer_metadata, writer_head>>
      BY <1>3, <2>2 DEF delete_extended_metadata, ExtendedRent
    <3>2. ExtendedRent(NoAccount) = 0
      BY ExtendedRentIsNatural
    <3> HIDE DEF old
    <3>3. SumFunction(lamports') = SumFunction(lamports) + old
      BY <1>0, <3>1, SignerPaid
    <3>4. old = old - ExtendedRent(NoAccount)
      BY <1>0, <3>2
    <3> QED BY <1>1, <3>1, <3>3, <3>4 DEF old
  <2> QED BY <2>1, <2>2
<1> QED BY <1>2, <1>3

LEMMA HeadsConserve ==
  ASSUME TypeOK, UNCHANGED <<solstory_pda, writer_metadata, extended_metadata>>,
         UNCHANGED <<writer_head, lamports>> \/ HeadWritten(Writers, Creators, Holders)
  PROVE  AllLamports' = AllLamports
<1> DEFINE rent == Rent(WRITER_HEAD_LEN)
<1>0. rent \in Int /\ Rent(WRITER_METADATA_LEN) \in Int
  BY DEF Rent, WRITER_METADATA_LEN, WRITER_HEAD_LEN
<1>1. RegistryRent' = RegistryRent /\ LiveWriters' = LiveWriters /\ ExtendedRents' = ExtendedRents
  BY DEF RegistryRent, LiveWriters, ExtendedRents
<1>2. CASE UNCHANGED <<writer_head, lamports>>
  BY <1>2, NothingMoved DEF accounts
<1>3. ASSUME NEW h \in Mints \X Writers, NEW new \in WriterHead, HeadChanged(h, new)
      PROVE  AllLamports' = AllLamports
  <2>1. Heads' = Heads /\ UNCHANGED lamports
    BY <1>3, HeadsAfter DEF HeadChanged, Heads
  <2> QED BY <1>1, <2>1, AllLamportsIs, AllLamportsAfter
<1>4. ASSUME NEW h \in Mints \X Writers, NEW new \in WriterHead, HeadCreated(h, new)
      PROVE  AllLamports' = AllLamports
  <2>1. Heads' = Heads \cup {h} /\ h \notin Heads
    BY <1>4, HeadsAfter DEF HeadCreated, Heads
  <2>2. Cardinality(Heads') = Cardinality(Heads) + 1
    BY <2>1, HeadsFinite, FS_AddElement
  <2>3. Cardinality(Heads') * rent = Cardinality(Heads) * rent + rent
    BY <2>2, AmountsAreNumbers DEF Rent, WRITER_HEAD_LEN
  <2>4. SumFunction(lamports') = SumFunction(lamports) - rent
    BY <1>4, HeadPaid DEF HeadCreated
  <2> HIDE DEF rent
  <2> QED BY <1>0, <1>1, <2>3, <2>4, AllLamportsIs, AllLamportsAfter, AmountsAreNumbers DEF rent
<1> QED BY <1>2, <1>3, <1>4, HeadWrittenTyped

LEMMA LamportsInductive ==
  ASSUME TypeOK, [Next]_vars
  PROVE  AllLamports' = AllLamports
<1>0. TypeOK'
  BY TypeInductive
<1>1. CASE Registry(Writers, Creators)
  <2>1. ASSUME NEW m \in Mints, NEW w \in Writers
        PROVE  ~Loads(writer_head[m, w], "WriterMetadata")
    BY AccountTyped DEF Loads, WriterHead
  <2>2. ASSUME NEW m \in Mints, NEW x \in Mints, NEW w \in Writers, NEW data \in Contents,
               update_writer_metadata(m, x, w, data)
        PROVE  UNCHANGED accounts
    BY <2>1, <2>2 DEF update_writer_metadata, UpdateMetadataError, accounts
  <2>3. ASSUME NEW k, NEW m \in Mints, NEW w \in Writers, NEW value \in BOOLEAN,
               set_system_verified(k, m, w, value)
        PROVE  UNCHANGED accounts
    BY <2>1, <2>3 DEF set_system_verified, accounts
  <2> QED
    BY <1>0, <1>1, <2>2, <2>3, NothingMoved, InitializeConserves, WriterMetadataConserves,
       ExtendedMetadataConserves DEF Registry
<1>2. CASE HeadInstruction(Writers, Creators, Holders) \/ Appending(Writers) \/ Environment
  BY <1>2, OthersLeaveRegistry, OtherIsHeadWrite, HeadsConserve
<1>3. CASE UNCHANGED vars
  BY <1>3, NothingMoved DEF vars
<1> QED BY <1>1, <1>2, <1>3 DEF Next, Instructions

\* No lamport is lost or made: what the keys hold and what the open accounts
\* lock add up to what there was at the start, whatever is opened and closed.
THEOREM LamportsAlwaysConserved == Spec => []LamportsConserved
<1>1. Init => LamportsConserved
  <2> SUFFICES ASSUME Init PROVE LamportsConserved
    OBVIOUS
  <2>1. RegistryRent = 0 /\ Heads = {} /\ LiveWriters = {}
    BY DEF Init, RegistryRent, Heads, LiveWriters, Exists
  <2>2. Cardinality(Heads) = 0 /\ Cardinality(LiveWriters) = 0
    BY <2>1, FS_EmptySet
  <2>3. SumFunction(ExtendedRents) = 0
    <3>1. ExtendedRents = [w \in Writers |-> 0]
      BY ExtendedRentIsNatural DEF Init, ExtendedRents
    <3>2. SumFunction([w \in Writers |-> 0]) = 0 * Cardinality(Writers)
      <4>1. IsFiniteSet(Writers) /\ 0 \in Int
        BY FiniteAssumption
      <4> QED BY <4>1, SumConstant, Zenon
    <3>3. Cardinality(Writers) \in Nat
      BY FiniteAssumption, FS_CardinalityType
    <3> QED BY <3>1, <3>2, <3>3
  <2>4. SumFunction(lamports) = INITIAL_LAMPORTS * Cardinality(Keys)
    <3>1. IsFiniteSet(Keys) /\ INITIAL_LAMPORTS \in Int
      BY FiniteAssumption, NumbersAssumption
    <3>2. SumFunction([k \in Keys |-> INITIAL_LAMPORTS]) = INITIAL_LAMPORTS * Cardinality(Keys)
      BY <3>1, SumConstant, Zenon
    <3> QED BY <3>2 DEF Init
  <2>5. INITIAL_LAMPORTS * Cardinality(Keys) \in Int
    BY FiniteAssumption, FS_CardinalityType, NumbersAssumption
  <2>6. Rent(WRITER_METADATA_LEN) \in Int /\ Rent(WRITER_HEAD_LEN) \in Int
    BY DEF Rent, WRITER_METADATA_LEN, WRITER_HEAD_LEN
  <2>7. AllLamports = SumFunction(lamports)
    BY <2>1, <2>2, <2>3, <2>4, <2>5, <2>6, AllLamportsIs
  <2> QED BY <2>4, <2>7 DEF LamportsConserved, AllLamports
<1>2. TypeOK /\ LamportsConserved /\ [Next]_vars => LamportsConserved'
  BY LamportsInductive DEF LamportsConserved, AllLamports
<1> QED
  BY <1>1, <1>2, TypeCorrect, PTL DEF Spec

(***************************************************************************)
(* The lists.                                                              *)
(***************************************************************************)
\* An accepted append extends the list by its item.
LEMMA AppendExtends ==
  ASSUME NEW head \in WriterHead, NEW d \in ExtAppendData, AppendOk(head, d)
  PROVE  /\ append_data_to_writer(head, d).current_hash
              = Append(head.current_hash, [timestamp |-> d.timestamp, data_hash |-> d.data_hash])
         /\ append_data_to_writer(head, d).access_type # "None"
         /\ InRange(d.timestamp)
  BY DEF AppendOk, AppendError, IsCurrent, HasAccess, append_data_to_writer, hash_from_prev, WriterHead

\* A head of the right type is an account.
LEMMA HeadExists == \A head \in WriterHead : Exists(head)
  BY NoAccountAssumption DEF Exists

LEMMA EmptyInductive ==
  ASSUME TypeOK, EmptyHeadsAgree, [Next]_vars
  PROVE  EmptyHeadsAgree'
<1> DEFINE Agrees(head) == head.current_hash = ZERO_HASH <=> head.access_type = "None"
<1>1. CASE UNCHANGED vars
  BY <1>1 DEF vars, accounts, EmptyHeadsAgree, Heads
<1>2. CASE Next
  <2>0. ASSUME NEW h \in Mints \X Writers, NEW new, Agrees(new),
               writer_head' = [writer_head EXCEPT ![h] = new]
        PROVE  EmptyHeadsAgree'
    BY <2>0 DEF EmptyHeadsAgree, Heads, TypeOK
  <2>1. ASSUME NEW head \in WriterHead, NEW d \in ExtAppendData, AppendOk(head, d)
        PROVE  Agrees(append_data_to_writer(head, d))
    <3>1. head.current_hash \in Seq(Entry)
      BY DEF WriterHead, Digest
    <3>2. [timestamp |-> d.timestamp, data_hash |-> d.data_hash] \in Entry
      BY AppendDataTyped DEF Entry
    <3>3. append_data_to_writer(head, d).current_hash # << >>
      BY <2>1, <3>1, <3>2, AppendExtends
    <3> QED
      BY <2>1, <3>3, AppendExtends DEF ZERO_HASH
  <2>2. ASSUME NEW h \in Mints \X Writers, HeadCreated(h, NewHead)
        PROVE  EmptyHeadsAgree'
    BY <2>0, <2>2 DEF HeadCreated, NewHead
  <2>3. ASSUME NEW h \in Mints \X Writers, NEW d \in ExtAppendData, AppendOk(NewHead, d),
               HeadCreated(h, append_data_to_writer(NewHead, d))
        PROVE  EmptyHeadsAgree'
    BY <2>0, <2>1, <2>3, NewHeadTyped DEF HeadCreated
  <2>4. ASSUME NEW h \in Mints \X Writers, NEW d \in ExtAppendData, AppendOk(writer_head[h], d),
               HeadChanged(h, append_data_to_writer(writer_head[h], d))
        PROVE  EmptyHeadsAgree'
    BY <2>0, <2>1, <2>4, AccountTyped DEF HeadChanged
  <2>5. ASSUME NEW h \in Mints \X Writers, Exists(writer_head[h]), NEW value, NEW number
        PROVE  /\ Agrees([writer_head[h] EXCEPT !.authorized = value])
               /\ Agrees([writer_head[h] EXCEPT !.visibility_index = number])
    BY <2>5, AccountTyped DEF EmptyHeadsAgree, Heads, WriterHead
  <2>6. ASSUME NEW h \in Mints \X Writers, NEW value,
               \/ HeadChanged(h, [writer_head[h] EXCEPT !.authorized = value])
               \/ HeadChanged(h, [writer_head[h] EXCEPT !.visibility_index = value])
        PROVE  EmptyHeadsAgree'
    <3> HIDE DEF Agrees
    <3> QED
      BY <2>0, <2>5, <2>6 DEF HeadChanged
  <2>7. CASE UNCHANGED writer_head
    BY <2>7 DEF EmptyHeadsAgree, Heads
  <2> QED
    BY <1>2, <2>2, <2>3, <2>4, <2>6, <2>7, StepIsHeadStep DEF HeadStep, HeadStepBy, HeadWritten
<1> QED
  BY <1>1, <1>2

\* A reader may tell an empty list by its hash or by its access type.
THEOREM EmptyHeadsAlwaysAgree == Spec => []EmptyHeadsAgree
<1>1. Init => EmptyHeadsAgree
  BY DEF Init, EmptyHeadsAgree, Heads, Exists
<1> QED
  BY <1>1, EmptyInductive, TypeCorrect, PTL DEF Spec

\* A step writes the part of the head of one of writer, creator and holder.
LEMMA PartsStep ==
  ASSUME TypeOK, Next, NEW h \in Mints \X Writers, writer_head'[h] # writer_head[h]
  PROVE  OnePartWritten(writer_head[h], writer_head'[h])
<1>0. writer_head \in [Mints \X Writers -> WriterHead \cup {NoAccount}]
  BY DEF TypeOK
<1>1. ASSUME HeadCreated(h, NewHead)
      PROVE  OnePartWritten(writer_head[h], writer_head'[h])
  BY <1>0, <1>1 DEF HeadCreated, Exists, NewHead, OnePartWritten
<1>2. ASSUME NEW d, HeadCreated(h, append_data_to_writer(NewHead, d))
      PROVE  OnePartWritten(writer_head[h], writer_head'[h])
  BY <1>0, <1>2 DEF HeadCreated, Exists, append_data_to_writer, NewHead, OnePartWritten
<1>3. ASSUME NEW d, HeadChanged(h, append_data_to_writer(writer_head[h], d))
      PROVE  OnePartWritten(writer_head[h], writer_head'[h])
  <2>1. writer_head[h] \in WriterHead
    BY <1>3, AccountTyped DEF HeadChanged
  <2> QED
    BY <1>0, <1>3, <2>1 DEF HeadChanged, Exists, append_data_to_writer, WriterHead, OnePartWritten
<1>4. ASSUME NEW value, HeadChanged(h, [writer_head[h] EXCEPT !.authorized = value])
      PROVE  OnePartWritten(writer_head[h], writer_head'[h])
  <2>1. writer_head[h] \in WriterHead
    BY <1>4, AccountTyped DEF HeadChanged
  <2> QED
    BY <1>0, <1>4, <2>1 DEF HeadChanged, Exists, WriterHead, OnePartWritten
<1>5. ASSUME NEW number, HeadChanged(h, [writer_head[h] EXCEPT !.visibility_index = number])
      PROVE  OnePartWritten(writer_head[h], writer_head'[h])
  <2>1. writer_head[h] \in WriterHead
    BY <1>5, AccountTyped DEF HeadChanged
  <2> QED
    BY <1>0, <1>5, <2>1 DEF HeadChanged, Exists, WriterHead, OnePartWritten
<1>6. ASSUME NEW g \in Mints \X Writers, NEW new, HeadCreated(g, new) \/ HeadChanged(g, new)
      PROVE  g = h
  BY <1>0, <1>6 DEF HeadCreated, HeadChanged
<1>7. HeadStep
  BY StepIsHeadStep
<1> QED
  BY <1>1, <1>2, <1>3, <1>4, <1>5, <1>6, <1>7 DEF HeadStep, HeadStepBy, HeadWritten

\* No instruction of one role disturbs what another one has set on a head, and
\* a head once created is never deleted.
THEOREM PartsIndependent == Spec => PartsOfHeadIndependent
<1>1. TypeOK /\ [Next]_vars =>
        [\A h \in Mints \X Writers :
           writer_head'[h] # writer_head[h] => OnePartWritten(writer_head[h], writer_head'[h])]_vars
  BY PartsStep
<1> QED
  BY <1>1, TypeCorrect, PTL DEF Spec, PartsOfHeadIndependent

(***************************************************************************)
(* The signatures a change needs.                                          *)
(***************************************************************************)
\* A head after a step, if what was needed for it is among these signatures.
PartsSigned(m, w, writers, creators, holders) ==
  LET old == writer_head[<<m, w>>]  new == writer_head'[<<m, w>>]
  IN IF old = NoAccount THEN new # old => w \in writers \/ SignedByAuthority(creators)
     ELSE /\ new.current_hash # old.current_hash => w \in writers
          /\ new.authorized # old.authorized => SignedByAuthority(creators)
          /\ new.visibility_index # old.visibility_index => holders \cap HoldersOf(m) # {}

\* What signers of some roles can do to a head.
LEMMA ChangeSigned ==
  ASSUME TypeOK, NEW writers \in SUBSET Writers, NEW creators \in SUBSET Creators,
         NEW holders \in SUBSET Holders, Instructions(writers, creators, holders),
         NEW m \in Mints, NEW w \in Writers
  PROVE  PartsSigned(m, w, writers, creators, holders)
<1> DEFINE h == <<m, w>>
           old == writer_head[h]
           new == writer_head'[h]
           Signed == PartsSigned(m, w, writers, creators, holders)
<1>0. /\ writer_head \in [Mints \X Writers -> WriterHead \cup {NoAccount}]
      /\ h \in Mints \X Writers /\ h[1] = m /\ h[2] = w
  BY DEF TypeOK
<1>1. ASSUME new = old
      PROVE  Signed
  BY <1>1 DEF PartsSigned
<1>2. ASSUME NEW g \in Mints \X Writers, g # h, NEW value, HeadCreated(g, value) \/ HeadChanged(g, value)
      PROVE  new = old
  BY <1>0, <1>2 DEF HeadCreated, HeadChanged
<1>3. ASSUME w \in writers \/ SignedByAuthority(creators), NEW value, HeadCreated(h, value)
      PROVE  Signed
  BY <1>0, <1>3 DEF HeadCreated, Exists, PartsSigned
<1>4. ASSUME NEW value, HeadChanged(h, value)
      PROVE  old \in WriterHead /\ old # NoAccount /\ new = value
  BY <1>0, <1>4 DEF HeadChanged, Exists
<1>5. ASSUME w \in writers, NEW d, HeadChanged(h, append_data_to_writer(writer_head[h], d))
      PROVE  Signed
  <2>1. new = append_data_to_writer(old, d) /\ old \in WriterHead /\ old # NoAccount
    BY <1>0, <1>4, <1>5
  <2>2. new.authorized = old.authorized /\ new.visibility_index = old.visibility_index
    BY <2>1 DEF append_data_to_writer, WriterHead
  <2> QED
    BY <1>5, <2>1, <2>2 DEF PartsSigned
<1>6. ASSUME SignedByAuthority(creators), NEW value,
             HeadChanged(h, [writer_head[h] EXCEPT !.authorized = value])
      PROVE  Signed
  <2>1. new = [old EXCEPT !.authorized = value] /\ old \in WriterHead /\ old # NoAccount
    BY <1>0, <1>4, <1>6
  <2>2. new.current_hash = old.current_hash /\ new.visibility_index = old.visibility_index
    BY <2>1 DEF WriterHead
  <2> QED
    BY <1>6, <2>1, <2>2 DEF PartsSigned
<1>7. ASSUME NEW holder \in holders, <<holder, m>> \in token_accounts, NEW number,
             HeadChanged(h, [writer_head[h] EXCEPT !.visibility_index = number])
      PROVE  Signed
  <2>1. new = [old EXCEPT !.visibility_index = number] /\ old \in WriterHead /\ old # NoAccount
    BY <1>0, <1>4, <1>7
  <2>2. new.current_hash = old.current_hash /\ new.authorized = old.authorized
    BY <2>1 DEF WriterHead
  <2>3. holder \in holders \cap HoldersOf(m)
    BY <1>7 DEF HoldersOf
  <2> QED
    BY <2>1, <2>2, <2>3 DEF PartsSigned
<1>8. HeadStepBy(writers, creators, holders)
  BY InstructionIsHeadStep
<1>9. CASE UNCHANGED writer_head
  BY <1>1, <1>9
<1>10. CASE HeadWritten(writers, creators, holders)
  <2> HIDE DEF h, old, new
  <2> QED
    BY <1>0, <1>1, <1>2, <1>3, <1>5, <1>6, <1>7, <1>10 DEF HeadWritten
<1> QED
  BY <1>8, <1>9, <1>10 DEF HeadStepBy

\* Nobody writes a part of a head without the signature it needs, whatever
\* accounts, arguments and other signatures a transaction has.
THEOREM PartsAlwaysSigned == Spec => HeadPartsSigned
<1> DEFINE Signed(m, w) ==
             LET old == writer_head[m, w]  new == writer_head'[m, w]
             IN IF old = NoAccount
                THEN new # old => ~Instructions(Writers \ {w}, Creators \ Authorities, Holders)
                ELSE /\ new.current_hash # old.current_hash =>
                          ~Instructions(Writers \ {w}, Creators, Holders)
                     /\ new.authorized # old.authorized =>
                          ~Instructions(Writers, Creators \ Authorities, Holders)
                     /\ new.visibility_index # old.visibility_index =>
                          ~Instructions(Writers, Creators, Holders \ HoldersOf(m))
<1>1. ASSUME TypeOK, NEW m \in Mints, NEW w \in Writers
      PROVE  Signed(m, w)
  <2> DEFINE old == writer_head[<<m, w>>]
             new == writer_head'[<<m, w>>]
  <2>1. ASSUME Instructions(Writers \ {w}, Creators \ Authorities, Holders)
        PROVE  old = NoAccount => new = old
    <3>1. w \notin Writers \ {w} /\ (Creators \ Authorities) \cap Authorities = {}
      OBVIOUS
    <3> QED
      BY <1>1, <2>1, <3>1, ChangeSigned DEF PartsSigned, SignedByAuthority
  <2>2. ASSUME Instructions(Writers \ {w}, Creators, Holders), old # NoAccount
        PROVE  new.current_hash = old.current_hash
    BY <1>1, <2>2, ChangeSigned DEF PartsSigned
  <2>3. ASSUME Instructions(Writers, Creators \ Authorities, Holders), old # NoAccount
        PROVE  new.authorized = old.authorized
    <3>1. (Creators \ Authorities) \cap Authorities = {}
      OBVIOUS
    <3> QED
      BY <1>1, <2>3, <3>1, ChangeSigned DEF PartsSigned, SignedByAuthority
  <2>4. ASSUME Instructions(Writers, Creators, Holders \ HoldersOf(m)), old # NoAccount
        PROVE  new.visibility_index = old.visibility_index
    <3>1. (Holders \ HoldersOf(m)) \cap HoldersOf(m) = {}
      OBVIOUS
    <3> QED
      BY <1>1, <2>4, <3>1, ChangeSigned DEF PartsSigned
  <2> QED
    BY <2>1, <2>2, <2>3, <2>4
<1>2. TypeOK /\ [Next]_vars => [\A m \in Mints, w \in Writers : Signed(m, w)]_vars
  BY <1>1
<1> QED
  BY <1>2, TypeCorrect, PTL DEF Spec, HeadPartsSigned

Uncharged(k) == lamports'[k] >= lamports[k]

\* Who pays in an instruction has signed it.
LEMMA ChargesSigned ==
  ASSUME TypeOK, NEW writers \in SUBSET Writers, NEW creators \in SUBSET Creators,
         NEW holders \in SUBSET Holders, Instructions(writers, creators, holders),
         NEW k \in Keys, k \notin writers, k \notin creators
  PROVE  Uncharged(k)
<1> USE RolesAssumption
<1>0. lamports \in [Keys -> Nat] /\ Rent(WRITER_METADATA_LEN) \in Nat
  BY DEF TypeOK, Rent, WRITER_METADATA_LEN
<1>1. ASSUME UNCHANGED lamports
      PROVE  Uncharged(k)
  BY <1>0, <1>1 DEF Uncharged
<1>2. ASSUME NEW j \in writers \cup creators, NEW n, lamports' = [lamports EXCEPT ![j] = @ - n]
      PROVE  Uncharged(k)
  BY <1>0, <1>2 DEF Uncharged
<1>3. ASSUME NEW j \in writers, NEW n \in Nat, lamports' = [lamports EXCEPT ![j] = @ + n]
      PROVE  Uncharged(k)
  BY <1>0, <1>3 DEF Uncharged
<1>4. ASSUME NEW j \in writers \cup creators, lamports' = init_head_account_fee(j)
      PROVE  Uncharged(k)
  BY <1>0, <1>4 DEF init_head_account_fee, SOLSTORY_FEE_LAMP, Uncharged
<1>5. CASE Registry(writers, creators)
  <2>1. ASSUME NEW j \in creators, initialize(j)
        PROVE  Uncharged(k)
    BY <1>1, <1>2, <2>1 DEF initialize
  <2>2. ASSUME NEW j, NEW m, NEW w, NEW value, set_system_verified(j, m, w, value)
        PROVE  Uncharged(k)
    BY <1>1, <2>2 DEF set_system_verified
  <2>3. ASSUME NEW w \in writers, NEW data, create_writer_metadata(w, data)
        PROVE  Uncharged(k)
    BY <1>1, <1>2, <2>3 DEF create_writer_metadata
  <2>4. ASSUME NEW w \in writers, delete_writer_metadata(w)
        PROVE  Uncharged(k)
    BY <1>0, <1>1, <1>3, <2>4 DEF delete_writer_metadata
  <2>5. ASSUME NEW w \in writers, NEW m, NEW x, NEW data, update_writer_metadata(m, x, w, data)
        PROVE  Uncharged(k)
    BY <1>1, <2>5 DEF update_writer_metadata
  <2>6. ASSUME NEW w \in writers, NEW len, set_extended_metadata(w, len)
        PROVE  Uncharged(k)
    BY <1>1, <1>2, <2>6 DEF set_extended_metadata
  <2>7. ASSUME NEW w \in writers, delete_extended_metadata(w)
        PROVE  Uncharged(k)
    <3>1. Exists(extended_metadata[w]) =>
            Rent(ExtendedMetadataLen(extended_metadata[w].len)) \in Nat
      <4>1. ASSUME NEW account \in ExtendedMetadata
            PROVE  Rent(ExtendedMetadataLen(account.len)) \in Nat
        BY ExtendedRentIsNatural
      <4>2. ASSUME Exists(extended_metadata[w])
            PROVE  extended_metadata[w] \in ExtendedMetadata
        BY <4>2, AccountTyped
      <4> QED
        BY <4>1, <4>2
    <3> QED
      BY <1>1, <1>3, <2>7, <3>1 DEF delete_extended_metadata
  <2> QED
    BY <1>5, <2>1, <2>2, <2>3, <2>4, <2>5, <2>6, <2>7 DEF Registry
<1>6. CASE HeadInstruction(writers, creators, holders)
  <2>1. ASSUME NEW m, NEW x, NEW w \in writers, NEW feeTo, create_writer_head_writer(m, x, w, feeTo)
        PROVE  Uncharged(k)
    BY <1>1, <1>4, <2>1 DEF create_writer_head_writer
  <2>2. ASSUME NEW m, NEW x, NEW w, NEW creator \in creators, NEW feeTo,
               create_writer_head_creator(m, x, w, creator, feeTo)
        PROVE  Uncharged(k)
    BY <1>1, <1>4, <2>2 DEF create_writer_head_creator, CreatorPays
  <2>3. ASSUME NEW m, NEW x, NEW w, NEW creator, NEW value, SetAuthorized(m, x, w, creator, value)
        PROVE  Uncharged(k)
    BY <1>1, <2>3 DEF SetAuthorized
  <2>4. ASSUME NEW m, NEW x, NEW w, NEW holder, NEW owner, NEW number,
               update_visibility_index(m, w, holder, owner, x, number)
        PROVE  Uncharged(k)
    BY <1>1, <2>4 DEF update_visibility_index
  <2> QED
    BY <1>6, <2>1, <2>2, <2>3, <2>4 DEF HeadInstruction, authorize_writer, deauthorize_writer
<1>7. CASE Appending(writers)
  <2>1. ASSUME NEW m, NEW w, NEW d, ext_append(m, w, d)
        PROVE  Uncharged(k)
    BY <1>1, <2>1 DEF ext_append
  <2>2. ASSUME NEW m, NEW x, NEW w \in writers, NEW feeTo, NEW d, create_and_append(m, x, w, feeTo, d)
        PROVE  Uncharged(k)
    BY <1>1, <1>4, <2>2 DEF create_and_append
  <2>3. CASE sol_append
    BY <1>1, <2>3 DEF sol_append, accounts
  <2> QED
    BY <1>7, <2>1, <2>2, <2>3 DEF Appending
<1> QED
  BY <1>5, <1>6, <1>7 DEF Instructions

\* No transaction takes a lamport from a key that has not signed it.
THEOREM OnlySignersEverCharged == Spec => OnlySignersCharged
<1>1. ASSUME TypeOK, NEW k \in Keys, lamports'[k] < lamports[k],
             Instructions(Writers \ {k}, Creators \ {k}, Holders), TypeOK'
      PROVE  FALSE
  <2>1. lamports'[k] >= lamports[k]
    BY <1>1, ChargesSigned DEF Uncharged
  <2>2. lamports[k] \in Nat /\ lamports'[k] \in Nat
    BY <1>1 DEF TypeOK
  <2> QED
    BY <1>1, <2>1, <2>2
<1>2. TypeOK /\ TypeOK' /\ [Next]_vars =>
        [\A k \in Keys :
           lamports'[k] < lamports[k] => ~Instructions(Writers \ {k}, Creators \ {k}, Holders)]_vars
  BY <1>1
<1> QED
  BY <1>2, TypeCorrect, PTL DEF Spec, OnlySignersCharged

(***************************************************************************)
(* The heads implement the abstract log.                                   *)
(***************************************************************************)
\* The list an append commits to is the one before it and one entry.
LEMMA ListAfter ==
  ASSUME TypeOK, NEW h \in Mints \X Writers, NEW new \in WriterHead,
         writer_head' = [writer_head EXCEPT ![h] = new]
  PROVE  lists' = [lists EXCEPT ![h] = new.current_hash]
  BY HeadExists DEF lists, TypeOK

\* A digest is not the value of a list that does not exist.
LEMMA ListsNotAccounts ==
  ASSUME NEW h \in Mints \X Writers, TypeOK
  PROVE  lists[h] = NoAccount <=> ~Exists(writer_head[h])
  BY AccountTyped, NoAccountAssumption DEF lists, WriterHead

LEMMA ListStep ==
  ASSUME TypeOK, [Next]_vars
  PROVE  [List!Next]_lists
<1>1. CASE UNCHANGED vars
  BY <1>1 DEF vars, accounts, lists
<1>2. CASE Next
  <2>entry. ASSUME NEW d \in ExtAppendData
            PROVE  [timestamp |-> d.timestamp, data_hash |-> d.data_hash] \in Entry
    BY AppendDataTyped DEF Entry
  <2>1. ASSUME NEW h \in Mints \X Writers, HeadCreated(h, NewHead)
        PROVE  List!Next
    <3>1. List!Open(h)
      BY <2>1, ListAfter, ListsNotAccounts, NewHeadTyped
         DEF HeadCreated, NewHead, ZERO_HASH, List!Open
    <3> QED
      BY <3>1 DEF List!Next
  <2>2. ASSUME NEW h \in Mints \X Writers, NEW d \in ExtAppendData, AppendOk(NewHead, d),
               HeadCreated(h, append_data_to_writer(NewHead, d))
        PROVE  List!Next
    <3> DEFINE e == [timestamp |-> d.timestamp, data_hash |-> d.data_hash]
    <3>1. append_data_to_writer(NewHead, d).current_hash = Append(NewHead.current_hash, e)
      BY <2>2, NewHeadTyped, AppendExtends
    <3>2. NewHead.current_hash = << >>
      BY DEF NewHead, ZERO_HASH
    <3>3. Append(<< >>, e) = <<e>>
      BY <2>entry
    <3>4. append_data_to_writer(NewHead, d) \in WriterHead
      BY NewHeadTyped, AppendTyped
    <3>5. lists' = [lists EXCEPT ![h] = append_data_to_writer(NewHead, d).current_hash]
      BY <2>2, <3>4, ListAfter DEF HeadCreated
    <3>6. lists[h] = NoAccount
      BY <2>2, ListsNotAccounts DEF HeadCreated
    <3>7. List!OpenWith(h, e)
      BY <3>1, <3>2, <3>3, <3>5, <3>6 DEF List!OpenWith
    <3> QED
      BY <2>entry, <3>7 DEF List!Next
  <2>3. ASSUME NEW h \in Mints \X Writers, NEW d \in ExtAppendData, AppendOk(writer_head[h], d),
               HeadChanged(h, append_data_to_writer(writer_head[h], d))
        PROVE  List!Next
    <3> DEFINE e == [timestamp |-> d.timestamp, data_hash |-> d.data_hash]
    <3>1. writer_head[h] \in WriterHead
      BY <2>3, AccountTyped DEF HeadChanged
    <3>2. append_data_to_writer(writer_head[h], d).current_hash
            = Append(writer_head[h].current_hash, e)
      BY <2>3, <3>1, AppendExtends
    <3>3. lists[h] = writer_head[h].current_hash
      BY <2>3 DEF HeadChanged, lists
    <3>4. append_data_to_writer(writer_head[h], d) \in WriterHead
      BY <3>1, AppendTyped
    <3>5. lists' = [lists EXCEPT ![h] = append_data_to_writer(writer_head[h], d).current_hash]
      BY <2>3, <3>4, ListAfter DEF HeadChanged
    <3>6. lists[h] # NoAccount
      BY <2>3, ListsNotAccounts DEF HeadChanged
    <3>7. List!Extend(h, e)
      BY <3>2, <3>3, <3>5, <3>6 DEF List!Extend
    <3> QED
      BY <2>entry, <3>7 DEF List!Next
  <2>4. ASSUME NEW h \in Mints \X Writers, NEW new \in WriterHead, HeadChanged(h, new),
               new.current_hash = writer_head[h].current_hash
        PROVE  UNCHANGED lists
    <3>1. lists' = [lists EXCEPT ![h] = writer_head[h].current_hash]
      BY <2>4, ListAfter DEF HeadChanged
    <3>2. lists[h] = writer_head[h].current_hash
      BY <2>4 DEF HeadChanged, lists
    <3> QED
      BY <3>1, <3>2 DEF lists
  <2>5. ASSUME NEW h \in Mints \X Writers, NEW value \in BOOLEAN,
               HeadChanged(h, [writer_head[h] EXCEPT !.authorized = value])
        PROVE  UNCHANGED lists
    BY <2>4, <2>5, AccountTyped DEF HeadChanged, WriterHead
  <2>6. ASSUME NEW h \in Mints \X Writers, NEW number \in VisibilityIndexes,
               HeadChanged(h, [writer_head[h] EXCEPT !.visibility_index = number])
        PROVE  UNCHANGED lists
    BY <2>4, <2>6, AccountTyped DEF HeadChanged, WriterHead
  <2>7. CASE UNCHANGED writer_head
    BY <2>7 DEF lists
  <2>8. HeadStep
    BY <1>2, StepIsHeadStep
  <2> QED
    BY <2>1, <2>2, <2>3, <2>5, <2>6, <2>7, <2>8 DEF HeadStep, HeadStepBy, HeadWritten
<1> QED
  BY <1>1, <1>2

\* The program implements the abstract append-only logs of HashList: whatever
\* updates clients hash and however their transactions interleave.
THEOREM ImplementsLogs == Spec => ListsAreLogs
<1>1. Init => List!Init
  BY DEF Init, List!Init, lists, Exists
<1>2. TypeOK /\ [Next]_vars => [List!Next]_lists
  BY ListStep
<1> QED
  BY <1>1, <1>2, TypeCorrect, PTL DEF Spec, ListsAreLogs, List!Spec

Logs == INSTANCE HashListProofs WITH
  Lists <- Mints \X Writers, Entry <- Entry, NoList <- NoAccount, list <- lists

\* What a reader once found a head to commit to, the head commits to for ever:
\* every entry, at its place.
THEOREM ListsNeverTakenBack ==
  ASSUME NEW CONSTANT h \in Mints \X Writers, NEW CONSTANT log \in Digest
  PROVE  Spec => [](Logs!Commits(h, log) => []Logs!Commits(h, log))
<1>1. NoAccount \notin Seq(Entry)
  BY NoAccountAssumption DEF Digest
<1>2. Logs!TypeOK /\ [Logs!Next]_lists /\ Logs!Commits(h, log) => Logs!Commits(h, log)'
  BY <1>1, Logs!StepCommits DEF Digest
<1>3. List!Spec => Logs!Spec
  BY DEF List!Spec, Logs!Spec, List!Init, Logs!Init, List!Next, Logs!Next,
         List!Open, Logs!Open, List!OpenWith, Logs!OpenWith, List!Extend, Logs!Extend
<1> QED
  BY <1>2, <1>3, ImplementsLogs, Logs!TypeCorrect, PTL DEF ListsAreLogs, Logs!Spec

(***************************************************************************)
(* The order of the claimed times.                                         *)
(***************************************************************************)
\* Where the difference fits an i64, the wrapping test is the exact one.
LEMMA InRangeIsExact ==
  ASSUME DifferencesFit, NEW t \in Timestamps, clock \in Clocks, InRange(t)
  PROVE  /\ t <= clock + TIMESTAMP_ACCEPTABLE_VARIANCE
         /\ clock <= t + TIMESTAMP_ACCEPTABLE_VARIANCE
<1> DEFINE n == t - clock
<1>1. /\ t \in Int /\ clock \in Int /\ I64_HALF \in Nat \ {0}
      /\ n \in -(I64_HALF - 1) .. I64_HALF - 1
      /\ TIMESTAMP_ACCEPTABLE_VARIANCE \in Nat
  BY NumbersAssumption DEF DifferencesFit
<1>2. ASSUME NEW a \in Nat, NEW b \in Nat, a < b
      PROVE  a % b = a
  BY <1>2
<1>3. ASSUME NEW i \in -(I64_HALF - 1) .. I64_HALF - 1
      PROVE  WrapI64(i) = i
  <2>1. (i + I64_HALF) % (2 * I64_HALF) = i + I64_HALF
    BY <1>1, <1>2
  <2> QED
    BY <1>1, <2>1 DEF WrapI64
<1>4. -n \in -(I64_HALF - 1) .. I64_HALF - 1
  BY <1>1
<1>5. AbsI64(WrapI64(n)) = IF n < 0 THEN -n ELSE n
  BY <1>1, <1>3, <1>4 DEF AbsI64
<1>6. AbsI64(WrapI64(n)) <= TIMESTAMP_ACCEPTABLE_VARIANCE
  BY DEF InRange
<1> QED
  BY <1>1, <1>5, <1>6

\* Time only moves on, and the items of a step are of its time.
LEMMA ClockMonotone ==
  ASSUME [Next]_vars
  PROVE  \/ clock' = clock
         \/ clock' > clock /\ UNCHANGED writer_head
<1>1. CASE Registry(Writers, Creators)
  BY <1>1 DEF Registry, initialize, create_writer_metadata, delete_writer_metadata,
              update_writer_metadata, set_system_verified, set_extended_metadata,
              delete_extended_metadata, environment
<1>2. CASE HeadInstruction(Writers, Creators, Holders)
  <2>1. ASSUME NEW m, NEW x, NEW w, NEW creator, NEW feeTo,
               \/ create_writer_head_writer(m, x, w, feeTo)
               \/ create_writer_head_creator(m, x, w, creator, feeTo)
        PROVE  UNCHANGED clock
    BY <2>1 DEF create_writer_head_writer, create_writer_head_creator, environment
  <2>2. ASSUME NEW m, NEW x, NEW w, NEW creator, NEW value, SetAuthorized(m, x, w, creator, value)
        PROVE  UNCHANGED clock
    BY <2>2 DEF SetAuthorized, environment
  <2>3. ASSUME NEW m, NEW x, NEW w, NEW holder, NEW owner, NEW number,
               update_visibility_index(m, w, holder, owner, x, number)
        PROVE  UNCHANGED clock
    BY <2>3 DEF update_visibility_index, environment
  <2> QED
    BY <1>2, <2>1, <2>2, <2>3 DEF HeadInstruction, authorize_writer, deauthorize_writer
<1>3. CASE Appending(Writers)
  BY <1>3 DEF Appending, ext_append, create_and_append, sol_append, environment
<1>4. CASE Environment
  BY <1>4 DEF Environment, MetaplexUpdate, OpenTokenAccount, CloseTokenAccount, Tick, accounts
<1>5. CASE UNCHANGED vars
  BY <1>5 DEF vars, environment
<1> QED
  BY <1>1, <1>2, <1>3, <1>4, <1>5 DEF Next, Instructions

\* The claimed times of a list are integers.
LEMMA TimesAreIntegers ==
  /\ \A e \in Entry : e.timestamp \in Int
  /\ \A list \in Digest : \A i \in 1 .. Len(list) : list[i].timestamp \in Int
<1>1. Timestamps \subseteq Int
  BY NumbersAssumption
<1>2. \A e \in Entry : e.timestamp \in Int
  BY <1>1 DEF Entry
<1>3. \A list \in Digest : \A i \in 1 .. Len(list) : list[i] \in Entry
  BY DEF Digest
<1> QED
  BY <1>2, <1>3

LEMMA NearlyOrderedLater ==
  ASSUME NEW list \in Digest, NEW now \in Int, NEW later \in Int, now <= later,
         NearlyOrdered(list, now)
  PROVE  NearlyOrdered(list, later)
<1>1. \A i \in 1 .. Len(list) : list[i].timestamp \in Int
  BY TimesAreIntegers
<1> QED
  BY <1>1, NumbersAssumption DEF NearlyOrdered

\* An earlier item is at most one variance ahead of the clock, and the new one
\* at most one behind it.
LEMMA NearlyOrderedAppend ==
  ASSUME NEW list \in Digest, NEW e \in Entry, NEW now \in Int, NearlyOrdered(list, now),
         e.timestamp <= now + TIMESTAMP_ACCEPTABLE_VARIANCE,
         now <= e.timestamp + TIMESTAMP_ACCEPTABLE_VARIANCE
  PROVE  NearlyOrdered(Append(list, e), now)
<1> DEFINE new == Append(list, e)
           V == TIMESTAMP_ACCEPTABLE_VARIANCE
<1>1. /\ Len(new) = Len(list) + 1 /\ Len(list) \in Nat
      /\ \A i \in 1 .. Len(list) : new[i] = list[i]
      /\ new[Len(list) + 1] = e
  BY DEF Digest
<1>2. V \in Nat /\ e.timestamp \in Int /\ \A i \in 1 .. Len(list) : list[i].timestamp \in Int
  BY NumbersAssumption, TimesAreIntegers
<1>3. ASSUME NEW i \in 1 .. Len(list)
      PROVE  /\ new[i].timestamp <= now + V
             /\ \A j \in 1 .. i : new[j].timestamp <= new[i].timestamp + 2 * V
  BY <1>1, <1>3 DEF NearlyOrdered
<1>4. /\ new[Len(list) + 1].timestamp <= now + V
      /\ \A j \in 1 .. Len(list) + 1 : new[j].timestamp <= new[Len(list) + 1].timestamp + 2 * V
  <2>1. ASSUME NEW j \in 1 .. Len(list)
        PROVE  list[j].timestamp <= e.timestamp + 2 * V
    <3>1. list[j].timestamp <= now + V
      BY <2>1 DEF NearlyOrdered
    <3> QED
      BY <1>2, <3>1
  <2> QED
    BY <1>1, <1>2, <2>1
<1>5. \A i \in 1 .. Len(new) : i \in 1 .. Len(list) \/ i = Len(list) + 1
  BY <1>1
<1> HIDE DEF new
<1>6. NearlyOrdered(new, now)
  BY <1>1, <1>3, <1>4, <1>5 DEF NearlyOrdered
<1> QED
  BY <1>6 DEF new

LEMMA OrderInductive ==
  ASSUME DifferencesFit, TypeOK, ClaimedTimesNearlyOrdered, [Next]_vars
  PROVE  ClaimedTimesNearlyOrdered'
<1>0. clock \in Int /\ clock' \in Clocks /\ clock' \in Int
  BY TypeInductive, NumbersAssumption DEF TypeOK
<1>1. CASE UNCHANGED writer_head
  <2>1. ASSUME NEW h \in Heads
        PROVE  NearlyOrdered(writer_head[h].current_hash, clock')
    <3>1. writer_head[h].current_hash \in Digest
      BY AccountTyped DEF Heads, WriterHead
    <3>2. clock <= clock'
      BY <1>0, ClockMonotone
    <3> QED
      BY <1>0, <3>1, <3>2, NearlyOrderedLater DEF ClaimedTimesNearlyOrdered
  <2> QED
    BY <1>1, <2>1 DEF ClaimedTimesNearlyOrdered, Heads
<1>2. CASE ~UNCHANGED writer_head
  <2>0. Next /\ clock' = clock
    BY <1>2, ClockMonotone DEF vars, accounts
  <2>1. ASSUME NEW h \in Mints \X Writers, NEW new, NearlyOrdered(new.current_hash, clock),
               writer_head' = [writer_head EXCEPT ![h] = new]
        PROVE  ClaimedTimesNearlyOrdered'
    BY <2>0, <2>1 DEF ClaimedTimesNearlyOrdered, Heads, TypeOK
  <2>2. ASSUME NEW head \in WriterHead, NEW d \in ExtAppendData, AppendOk(head, d),
               NearlyOrdered(head.current_hash, clock)
        PROVE  NearlyOrdered(append_data_to_writer(head, d).current_hash, clock)
    <3> DEFINE e == [timestamp |-> d.timestamp, data_hash |-> d.data_hash]
    <3>1. head.current_hash \in Digest /\ e \in Entry /\ d.timestamp \in Timestamps
      BY AppendDataTyped DEF WriterHead, Entry
    <3>2. /\ e.timestamp <= clock + TIMESTAMP_ACCEPTABLE_VARIANCE
          /\ clock <= e.timestamp + TIMESTAMP_ACCEPTABLE_VARIANCE
      BY <2>2, <3>1, AppendExtends, InRangeIsExact DEF TypeOK
    <3>3. NearlyOrdered(Append(head.current_hash, e), clock)
      BY <1>0, <2>2, <3>1, <3>2, NearlyOrderedAppend
    <3> QED
      BY <2>2, <3>3, AppendExtends
  <2>3. NearlyOrdered(NewHead.current_hash, clock)
    BY DEF NewHead, ZERO_HASH, NearlyOrdered
  <2>4. ASSUME NEW h \in Mints \X Writers, HeadCreated(h, NewHead)
        PROVE  ClaimedTimesNearlyOrdered'
    BY <2>1, <2>3, <2>4 DEF HeadCreated
  <2>5. ASSUME NEW h \in Mints \X Writers, NEW d \in ExtAppendData, AppendOk(NewHead, d),
               HeadCreated(h, append_data_to_writer(NewHead, d))
        PROVE  ClaimedTimesNearlyOrdered'
    BY <2>1, <2>2, <2>3, <2>5, NewHeadTyped DEF HeadCreated
  <2>6. ASSUME NEW h \in Mints \X Writers, NEW d \in ExtAppendData, AppendOk(writer_head[h], d),
               HeadChanged(h, append_data_to_writer(writer_head[h], d))
        PROVE  ClaimedTimesNearlyOrdered'
    BY <2>1, <2>2, <2>6, AccountTyped DEF HeadChanged, ClaimedTimesNearlyOrdered, Heads
  <2>7. ASSUME NEW h \in Mints \X Writers, NEW value,
               \/ HeadChanged(h, [writer_head[h] EXCEPT !.authorized = value])
               \/ HeadChanged(h, [writer_head[h] EXCEPT !.visibility_index = value])
        PROVE  ClaimedTimesNearlyOrdered'
    <3>1. writer_head[h] \in WriterHead /\ NearlyOrdered(writer_head[h].current_hash, clock)
      BY <2>7, AccountTyped DEF HeadChanged, ClaimedTimesNearlyOrdered, Heads
    <3> QED
      BY <2>1, <2>7, <3>1 DEF HeadChanged, WriterHead
  <2>8. HeadStep
    BY <2>0, StepIsHeadStep
  <2> QED
    BY <1>2, <2>4, <2>5, <2>6, <2>7, <2>8 DEF HeadStep, HeadStepBy, HeadWritten
<1> QED
  BY <1>1, <1>2

\* Two items that a list holds in the wrong order of their claimed times are at
\* most two variances apart, where the timestamps' differences fit an i64.
THEOREM TimesNearlyOrdered ==
  ASSUME DifferencesFit
  PROVE  Spec => []ClaimedTimesNearlyOrdered
<1>1. Init => ClaimedTimesNearlyOrdered
  BY DEF Init, ClaimedTimesNearlyOrdered, Heads, Exists
<1>2. TypeOK /\ ClaimedTimesNearlyOrdered /\ [Next]_vars => ClaimedTimesNearlyOrdered'
  BY OrderInductive
<1> QED
  BY <1>1, <1>2, TypeCorrect, PTL DEF Spec

\* A list changes only by an item whose claimed time passed the range check.
LEMMA AcceptedStep ==
  ASSUME DifferencesFit, TypeOK, Next, NEW h \in Heads,
         writer_head'[h].current_hash # writer_head[h].current_hash
  PROVE  LET list == writer_head'[h].current_hash
         IN list[Len(list)].timestamp - clock
              \in -TIMESTAMP_ACCEPTABLE_VARIANCE .. TIMESTAMP_ACCEPTABLE_VARIANCE
<1> DEFINE list == writer_head'[h].current_hash
<1>0. /\ writer_head \in [Mints \X Writers -> WriterHead \cup {NoAccount}]
      /\ h \in Mints \X Writers /\ Exists(writer_head[h]) /\ writer_head[h] \in WriterHead
      /\ clock \in Clocks
  BY AccountTyped DEF Heads, TypeOK
<1>1. ASSUME NEW g \in Mints \X Writers, NEW new, HeadCreated(g, new)
      PROVE  FALSE
  BY <1>0, <1>1 DEF HeadCreated
<1>2. ASSUME NEW g \in Mints \X Writers, NEW new, HeadChanged(g, new)
      PROVE  g = h /\ list = new.current_hash
  BY <1>0, <1>2 DEF HeadChanged
<1>3. ASSUME NEW g \in Mints \X Writers, NEW value,
             \/ HeadChanged(g, [writer_head[g] EXCEPT !.authorized = value])
             \/ HeadChanged(g, [writer_head[g] EXCEPT !.visibility_index = value])
      PROVE  FALSE
  <2>1. g = h
    BY <1>2, <1>3
  <2>2. /\ [writer_head[h] EXCEPT !.authorized = value].current_hash = writer_head[h].current_hash
        /\ [writer_head[h] EXCEPT !.visibility_index = value].current_hash = writer_head[h].current_hash
    BY <1>0 DEF WriterHead
  <2> QED
    BY <1>2, <1>3, <2>1, <2>2
<1>4. PICK d \in ExtAppendData :
        /\ HeadChanged(h, append_data_to_writer(writer_head[h], d))
        /\ AppendOk(writer_head[h], d)
  <2>1. HeadStep
    BY StepIsHeadStep
  <2>2. HeadWritten(Writers, Creators, Holders)
    BY <2>1 DEF HeadStep, HeadStepBy
  <2>3. PICK g \in Mints \X Writers, d \in ExtAppendData :
          /\ HeadChanged(g, append_data_to_writer(writer_head[g], d))
          /\ AppendOk(writer_head[g], d)
    BY <1>1, <1>3, <2>2 DEF HeadWritten
  <2>4. g = h
    BY <1>2, <2>3
  <2> QED
    BY <2>3, <2>4
<1> DEFINE old == writer_head[h].current_hash
           e == [timestamp |-> d.timestamp, data_hash |-> d.data_hash]
<1>5. d.timestamp \in Timestamps /\ e \in Entry /\ old \in Digest
  BY <1>0, AppendDataTyped DEF Entry, WriterHead
<1>6. InRange(d.timestamp) /\ list = Append(old, e)
  BY <1>0, <1>2, <1>4, AppendExtends
<1>7. list[Len(list)].timestamp = d.timestamp
  BY <1>5, <1>6 DEF Digest
<1>8. /\ d.timestamp <= clock + TIMESTAMP_ACCEPTABLE_VARIANCE
      /\ clock <= d.timestamp + TIMESTAMP_ACCEPTABLE_VARIANCE
  BY <1>0, <1>5, <1>6, InRangeIsExact
<1>9. d.timestamp \in Int /\ clock \in Int /\ TIMESTAMP_ACCEPTABLE_VARIANCE \in Nat
  BY <1>0, <1>5, NumbersAssumption
<1> QED
  BY <1>7, <1>8, <1>9

\* The range check does what its comment says (processor.rs:60) where the
\* timestamps' differences fit an i64; the run times shows that it does not
\* where they do not.
THEOREM TimesAcceptedInVariance ==
  ASSUME DifferencesFit
  PROVE  Spec => AcceptedTimesInVariance
<1>1. TypeOK /\ [Next]_vars =>
        [\A h \in Heads :
           LET list == writer_head'[h].current_hash
           IN list # writer_head[h].current_hash =>
                list[Len(list)].timestamp - clock
                  \in -TIMESTAMP_ACCEPTABLE_VARIANCE .. TIMESTAMP_ACCEPTABLE_VARIANCE]_vars
  BY AcceptedStep
<1> QED
  BY <1>1, TypeCorrect, PTL DEF Spec, AcceptedTimesInVariance

(***************************************************************************)
(* The metadata of writers.                                                *)
(***************************************************************************)
\* What the run update shows of one writer is so of all: the account that
\* update_writer_metadata and set_system_verified look for is a head's, of
\* another type, so that no update is accepted and no writer verified.
THEOREM MetadataNeverUpdated ==
  Spec => [](/\ \A m, x \in Mints, w \in Writers, data \in Contents :
                  UpdateMetadataError(m, x, w, data) # "ok"
             /\ \A w \in LiveWriters : ~writer_metadata[w].system_verified)
<1> DEFINE Unverified == \A w \in LiveWriters : ~writer_metadata[w].system_verified
<1>1. Init => Unverified
  BY DEF Init, LiveWriters, Exists
<1>2. ASSUME TypeOK, Unverified, [Next]_vars PROVE Unverified'
  <2>0. writer_metadata \in [Writers -> WriterMetadata \cup {NoAccount}]
    BY <1>2 DEF TypeOK
  <2>1. ASSUME NEW w \in Writers, NEW data \in Contents, create_writer_metadata(w, data)
        PROVE  Unverified'
    BY <1>2, <2>0, <2>1 DEF create_writer_metadata, LiveWriters
  <2>2. ASSUME NEW w \in Writers, delete_writer_metadata(w)
        PROVE  Unverified'
    BY <1>2, <2>0, <2>2 DEF delete_writer_metadata, LiveWriters, Exists
  <2>3. ASSUME writer_metadata' = writer_metadata
        PROVE  Unverified'
    BY <1>2, <2>3 DEF LiveWriters
  <2>4. ASSUME NEW k \in Creators, initialize(k)
        PROVE  writer_metadata' = writer_metadata
    BY <2>4 DEF initialize
  <2> QED
    BY <1>2, <2>1, <2>2, <2>3, <2>4, RegistryUnchanged
<1>3. ASSUME TypeOK, NEW m \in Mints, NEW x \in Mints, NEW w \in Writers, NEW data \in Contents
      PROVE  UpdateMetadataError(m, x, w, data) # "ok"
  <2> DEFINE h == <<m, w>>
  <2>1. h \in Mints \X Writers
    OBVIOUS
  <2>2. ~Loads(writer_head[h], "WriterMetadata")
    BY <1>3, <2>1, AccountTyped DEF Loads, WriterHead
  <2> QED
    BY <2>2 DEF UpdateMetadataError
<1>4. TypeOK => \A m, x \in Mints, w \in Writers, data \in Contents :
                  UpdateMetadataError(m, x, w, data) # "ok"
  BY <1>3
<1>5. TypeOK /\ Unverified /\ [Next]_vars => Unverified'
  BY <1>2
<1> QED
  BY <1>1, <1>4, <1>5, TypeCorrect, PTL DEF Spec
=============================================================================
