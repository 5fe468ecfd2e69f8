------------------------- MODULE SolstoryApiProofs -------------------------
(***************************************************************************)
(* Theorems about SolstoryApi.                                             *)
(*                                                                         *)
(* The argument: only three kinds of requests are ever sent (ApiTypeOK),   *)
(* so that every step of the clients is a step of the program or none, and *)
(* what holds of the program holds with clients (ApiImplementsProgram).    *)
(* What clients are told and what the ledger holds is then compared step   *)
(* by step, with the program's types and with what InstructionIsHeadStep   *)
(* says of instructions that others sign.                                  *)
(***************************************************************************)
EXTENDS SolstoryApi, SolstoryProgramProofs

(***************************************************************************)
(* Requests and their execution.                                           *)
(***************************************************************************)
VisibilityRequest(c, r) ==
  /\ c \in Holders /\ r.rpc = "updateVisibilityIndex"
  /\ r.accounts.tokenMint \in Mints /\ r.accounts.writerProgram \in Writers
  /\ r.number \in VisibilityIndexes

\* What the requests that are sent, and those whose token account is still
\* looked up, consist of.
LEMMA SentFields ==
  ASSUME NEW c \in Clients, NEW r, SentRequest(c, r)
  PROVE  \/ c \in Writers /\ r.rpc = "createWriterMetadata" /\ r.data \in Contents
         \/ c \in Writers /\ r.rpc = "deleteWriterMetadata"
         \/ /\ VisibilityRequest(c, r)
            /\ r.accounts.token \in Holders \X Mints
            /\ r.tokenAcct \in {Undefined, r.accounts.token}
<1>1. CASE WriterRequest(c, r)
  BY <1>1 DEF WriterRequest, createWriterMetadata, deleteWriterMetadata
<1>2. CASE HolderRequest(c, r)
  <2>1. PICK w \in Writers, m \in Mints, index \in VisibilityIndexes, t \in Holders \X Mints :
          \/ r = updateVisibility(c, w, m, index, t)
          \/ r = [updateVisibility(c, w, m, index, Undefined) EXCEPT !.accounts.token = t]
    BY <1>2 DEF HolderRequest
  <2> QED
    BY <1>2, <2>1 DEF HolderRequest, updateVisibility, VisibilityRequest
<1> QED
  BY <1>1, <1>2 DEF SentRequest

LEMMA LookupFields ==
  ASSUME NEW c \in Clients, NEW r, LookupRequest(c, r)
  PROVE  VisibilityRequest(c, r) /\ r.tokenAcct = Undefined /\ r.accounts.token = Undefined
  BY DEF LookupRequest, updateVisibility, VisibilityRequest

\* Instructions of fewer signers are instructions of the program.
LEMMA InstructionsMonotone ==
  ASSUME NEW writers \in SUBSET Writers, NEW creators \in SUBSET Creators,
         NEW holders \in SUBSET Holders, Instructions(writers, creators, holders)
  PROVE  Instructions(Writers, Creators, Holders)
<1>1. CASE Registry(writers, creators)
  <2>1. Registry(Writers, Creators)
    BY <1>1 DEF Registry
  <2> QED
    BY <2>1 DEF Instructions
<1>2. CASE HeadInstruction(writers, creators, holders)
  <2>1. HeadInstruction(Writers, Creators, Holders)
    BY <1>2 DEF HeadInstruction
  <2> QED
    BY <2>1 DEF Instructions
<1>3. CASE Appending(writers)
  <2>1. Appending(Writers)
    BY <1>3 DEF Appending
  <2> QED
    BY <2>1 DEF Instructions
<1> QED
  BY <1>1, <1>2, <1>3 DEF Instructions

\* A request that was sent runs an instruction that its client signs.
LEMMA ExecuteIsInstruction ==
  ASSUME NEW c \in Clients, NEW r, SentRequest(c, r), Execute(c, r)
  PROVE  /\ Instructions({c} \cap Writers, {}, {c} \cap Holders)
         /\ Instructions(Writers, Creators, Holders)
<1>1. CASE c \in Writers /\ r.rpc = "createWriterMetadata" /\ r.data \in Contents
  <2>1. create_writer_metadata(c, r.data)
    BY <1>1 DEF Execute
  <2>2. Registry({c} \cap Writers, {})
    BY <1>1, <2>1 DEF Registry
  <2> QED
    BY <2>2, InstructionsMonotone DEF Instructions
<1>2. CASE c \in Writers /\ r.rpc = "deleteWriterMetadata"
  <2>1. delete_writer_metadata(c)
    BY <1>2 DEF Execute
  <2>2. Registry({c} \cap Writers, {})
    BY <1>2, <2>1 DEF Registry
  <2> QED
    BY <2>2, InstructionsMonotone DEF Instructions
<1>3. CASE VisibilityRequest(c, r) /\ r.accounts.token \in Holders \X Mints
  <2> DEFINE m == r.accounts.tokenMint
             w == r.accounts.writerProgram
             owner == r.accounts.token[1]
             x == r.accounts.token[2]
  <2>1. update_visibility_index(m, w, c, owner, x, r.number)
    BY <1>3 DEF Execute, VisibilityRequest
  <2>2. m \in Mints /\ x \in Mints /\ w \in Writers /\ c \in Holders /\ owner \in Holders
        /\ r.number \in VisibilityIndexes
    BY <1>3 DEF VisibilityRequest
  <2>3. HeadInstruction({c} \cap Writers, {}, {c} \cap Holders)
    BY <2>1, <2>2 DEF HeadInstruction
  <2> QED
    BY <2>3, InstructionsMonotone DEF Instructions
<1> QED
  BY <1>1, <1>2, <1>3, SentFields

(***************************************************************************)
(* The state of the calls.                                                 *)
(***************************************************************************)
CallStates == {"idle", "lookup", "sent", "landed", "failed", "resolved", "rejected", "unknown"}

\* What ApiTypeOK says of one client.
CallTyped(c, state, r, requests) ==
  /\ \A q \in requests : SentRequest(c, q)
  /\ CASE state = "lookup" -> LookupRequest(c, r)
       [] state \in {"sent", "landed", "failed", "resolved"} -> SentRequest(c, r)
       [] OTHER -> r = NoRequest \/ SentRequest(c, r) \/ LookupRequest(c, r)

\* A step of one client leaves the calls of the others as they are.
LEMMA OneCallTyped ==
  ASSUME ApiTypeOK, NEW c \in Clients,
         pc' \in [Clients -> CallStates], DOMAIN request' = Clients, DOMAIN late' = Clients,
         told' \in [Clients -> Contents \cup {NoAccount, Undefined}],
         steady' \in [Clients -> BOOLEAN],
         \A d \in Clients \ {c} : /\ pc'[d] = pc[d]
                                  /\ request'[d] = request[d]
                                  /\ late'[d] = late[d],
         CallTyped(c, pc'[c], request'[c], late'[c])
  PROVE  ApiTypeOK'
<1>1. ASSUME NEW d \in Clients
      PROVE  CallTyped(d, pc'[d], request'[d], late'[d])
  <2>1. CASE d # c
    <3>1. CallTyped(d, pc[d], request[d], late[d])
      BY DEF ApiTypeOK, CallTyped
    <3> QED
      BY <2>1, <3>1
  <2> QED
    BY <2>1
<1> QED
  BY <1>1 DEF ApiTypeOK, CallTyped, CallStates

\* Six of the methods are refused before they are sent.
LEMMA DriftedMethods ==
  ASSUME NEW c, NEW data, NEW len, NEW m, NEW w
  PROVE  /\ ~Accepted(updateWriterMetadata(c, data))
         /\ ~Accepted(setExtendedMetadata(c, len))
         /\ ~Accepted(createWriterHead(c, m))
         /\ ~Accepted(createWriterHeadCreator(c, m, w))
         /\ ~Accepted(authorizeWriterHead(c, m, w))
         /\ ~Accepted(deauthorizeWriterHead(c, m, w))
<1>1. ~Accepted(updateWriterMetadata(c, data))
  BY DEF Accepted, Built, Described, updateWriterMetadata
<1>2. ~Accepted(setExtendedMetadata(c, len))
  <2> DEFINE r == setExtendedMetadata(c, len)
  <2>1. /\ r.accounts.extendedMetadataPda = <<"solstory", c>>
        /\ "extendedMetadataPda" \in Described[r.rpc]
    BY DEF setExtendedMetadata, Described, getWriterExtendedMetadataPda
  <2>2. <<"solstory", c>> # <<"solstory", "extended", r.accounts.writerProgram>>
    OBVIOUS
  <2> QED
    BY <2>1, <2>2 DEF Accepted, Demanded
<1>3. ~Accepted(createWriterHead(c, m))
  BY DEF Accepted, Demanded, Described, createWriterHead
<1>4. ~Accepted(createWriterHeadCreator(c, m, w))
  BY DEF Accepted, Demanded, Described, createWriterHeadCreator
<1>5. ~Accepted(authorizeWriterHead(c, m, w)) /\ ~Accepted(deauthorizeWriterHead(c, m, w))
  BY DEF Accepted, Built, Described, authorizeWriterHead, deauthorizeWriterHead
<1> QED
  BY <1>1, <1>2, <1>3, <1>4, <1>5

\* What a call that is accepted leaves.
CalledRequest(c, r) ==
  Accepted(r) => IF r.rpc = "updateVisibilityIndex" /\ r.tokenAcct = Undefined
                 THEN LookupRequest(c, r) ELSE SentRequest(c, r)

LEMMA CallKeepsTypes ==
  ASSUME ApiTypeOK, NEW c \in Clients, NEW r, Call(c, r), CalledRequest(c, r)
  PROVE  ApiTypeOK'
<1> DEFINE state == IF ~Accepted(r) THEN "rejected"
                    ELSE IF r.rpc = "updateVisibilityIndex" /\ r.tokenAcct = Undefined
                    THEN "lookup" ELSE "sent"
           s == Accepted(r) /\ IsHolder(c, r)
<1>1. /\ pc' = [pc EXCEPT ![c] = state]
      /\ request' = [request EXCEPT ![c] = IF Accepted(r) THEN r ELSE NoRequest]
      /\ steady' = [steady EXCEPT ![c] = s]
      /\ late' = late /\ told' = told
  BY DEF Call
<1>2. s \in BOOLEAN /\ state \in CallStates
  BY DEF CallStates
<1>3. /\ pc' \in [Clients -> CallStates] /\ DOMAIN request' = Clients /\ DOMAIN late' = Clients
      /\ told' \in [Clients -> Contents \cup {NoAccount, Undefined}]
      /\ steady' \in [Clients -> BOOLEAN]
      /\ pc'[c] = state
      /\ request'[c] = (IF Accepted(r) THEN r ELSE NoRequest)
  <2> HIDE DEF state, s
  <2> QED
    BY <1>1, <1>2 DEF ApiTypeOK, CallStates
<1>4. CallTyped(c, pc[c], request[c], late[c])
  BY DEF ApiTypeOK, CallTyped
<1>5. CallTyped(c, pc'[c], request'[c], late'[c])
  BY <1>1, <1>3, <1>4 DEF CallTyped, CalledRequest
<1>6. \A d \in Clients \ {c} : pc'[d] = pc[d] /\ request'[d] = request[d] /\ late'[d] = late[d]
  <2> HIDE DEF state, s
  <2> QED
    BY <1>1 DEF ApiTypeOK
<1> QED
  BY <1>3, <1>5, <1>6, OneCallTyped

LEMMA MethodKeepsTypes ==
  ASSUME ApiTypeOK, NEW c \in Clients,
         \/ c \in Writers /\ WriterCall(c)
         \/ c \in Creators /\ CreatorCall(c)
         \/ c \in Holders /\ HolderCall(c)
  PROVE  ApiTypeOK'
<1>1. ASSUME NEW data \in Contents, c \in Writers
      PROVE  CalledRequest(c, createWriterMetadata(c, data))
  BY <1>1 DEF CalledRequest, SentRequest, WriterRequest, createWriterMetadata
<1>2. ASSUME c \in Writers
      PROVE  CalledRequest(c, deleteWriterMetadata(c))
  BY <1>2 DEF CalledRequest, SentRequest, WriterRequest, deleteWriterMetadata
<1>3. ASSUME NEW w \in Writers, NEW m \in Mints, NEW index \in VisibilityIndexes,
             NEW tokenAcct \in (Holders \X Mints) \cup {Undefined}, c \in Holders
      PROVE  CalledRequest(c, updateVisibility(c, w, m, index, tokenAcct))
  <2> DEFINE r == updateVisibility(c, w, m, index, tokenAcct)
  <2>1. r.rpc = "updateVisibilityIndex" /\ r.tokenAcct = tokenAcct
    BY DEF updateVisibility
  <2>2. CASE tokenAcct = Undefined
    <3>1. LookupRequest(c, r)
      BY <1>3, <2>2 DEF LookupRequest
    <3> QED
      BY <2>1, <2>2, <3>1 DEF CalledRequest
  <2>3. CASE tokenAcct # Undefined
    <3>1. HolderRequest(c, r)
      BY <1>3, <2>3 DEF HolderRequest
    <3> QED
      BY <2>1, <2>3, <3>1 DEF CalledRequest, SentRequest
  <2> QED
    BY <2>2, <2>3
<1>4. CASE c \in Writers /\ WriterCall(c)
  BY <1>1, <1>2, <1>4, DriftedMethods, CallKeepsTypes DEF WriterCall, CalledRequest
<1>5. CASE c \in Creators /\ CreatorCall(c)
  BY <1>5, DriftedMethods, CallKeepsTypes DEF CreatorCall, CalledRequest
<1>6. CASE c \in Holders /\ HolderCall(c)
  BY <1>3, <1>6, CallKeepsTypes DEF HolderCall
<1> QED
  BY <1>4, <1>5, <1>6
\* What ApiTypeOK says of a client whose transaction is not rejected.
LEMMA SentCall ==
  ASSUME ApiTypeOK, NEW c \in Clients, pc[c] \in {"sent", "landed", "failed", "resolved"}
  PROVE  SentRequest(c, request[c])
  BY DEF ApiTypeOK

LEMMA AwaitKeepsTypes ==
  ASSUME TypeOK, ApiTypeOK, NEW c \in Clients, Lookup(c) \/ LookupFindsNone(c) \/ LookupFails(c)
  PROVE  ApiTypeOK'
<1> DEFINE r == request[c]
<1>1. pc[c] = "lookup" /\ LookupRequest(c, r) /\ \A q \in late[c] : SentRequest(c, q)
  BY DEF Lookup, LookupFindsNone, LookupFails, ApiTypeOK
<1>2. CASE Lookup(c)
  <2>1. PICK t \in Candidates(r) : /\ request' = [request EXCEPT ![c].accounts.token = t]
                                   /\ pc' = [pc EXCEPT ![c] = "sent"]
    BY <1>2 DEF Lookup
  <2>2. t \in Holders \X Mints
    BY <2>1 DEF Candidates, TokenAccounts, TypeOK
  <2>3. request'[c] = [r EXCEPT !.accounts.token = t]
    BY <2>1 DEF ApiTypeOK
  <2>4. HolderRequest(c, request'[c])
    <3>1. PICK w \in Writers, m \in Mints, index \in VisibilityIndexes :
            r = updateVisibility(c, w, m, index, Undefined)
      BY <1>1 DEF LookupRequest
    <3>2. request'[c] = [updateVisibility(c, w, m, index, Undefined) EXCEPT !.accounts.token = t]
      BY <2>3, <3>1
    <3>3. c \in Holders
      BY <1>1 DEF LookupRequest
    <3> QED
      BY <2>2, <3>2, <3>3 DEF HolderRequest
  <2>5. CallTyped(c, pc'[c], request'[c], late'[c])
    BY <1>1, <1>2, <2>1, <2>4 DEF CallTyped, SentRequest, ApiTypeOK, Lookup
  <2> QED
    BY <1>2, <2>1, <2>5, OneCallTyped DEF Lookup, ApiTypeOK, CallStates
<1>3. CASE LookupFindsNone(c)
  <2>1. CallTyped(c, pc'[c], request'[c], late'[c])
    BY <1>1, <1>3 DEF LookupFindsNone, ApiTypeOK, CallTyped
  <2> QED
    BY <1>3, <2>1, OneCallTyped DEF LookupFindsNone, ApiTypeOK, CallStates
<1>4. CASE LookupFails(c)
  <2>1. CallTyped(c, pc'[c], request'[c], late'[c])
    BY <1>1, <1>4 DEF LookupFails, GiveUp, ApiTypeOK, CallTyped
  <2> QED
    BY <1>4, <2>1, OneCallTyped DEF LookupFails, GiveUp, ApiTypeOK, CallStates
<1> QED
  BY <1>2, <1>3, <1>4

\* What a resolved call tells of a writer's metadata.
LEMMA ToldTyped ==
  ASSUME NEW c \in Clients, NEW r, SentRequest(c, r),
         NEW before \in Contents \cup {NoAccount, Undefined}
  PROVE  Told(r, before) \in Contents \cup {NoAccount, Undefined}
  BY SentFields DEF Told, VisibilityRequest

LEMMA AnswerKeepsTypes ==
  ASSUME TypeOK, ApiTypeOK, NEW c \in Clients, Land(c) \/ Confirm(c) \/ Timeout(c)
  PROVE  ApiTypeOK'
<1>1. SentRequest(c, request[c]) /\ \A q \in late[c] : SentRequest(c, q)
  BY DEF ApiTypeOK, Land, Confirm, Timeout
<1>2. CASE Land(c)
  <2>1. CallTyped(c, pc'[c], request'[c], late'[c])
    BY <1>1, <1>2 DEF Land, ApiTypeOK, CallTyped
  <2> QED
    BY <1>2, <2>1, OneCallTyped DEF Land, ApiTypeOK, CallStates
<1>3. CASE Confirm(c)
  <2>1. CallTyped(c, pc'[c], request'[c], late'[c])
    BY <1>1, <1>3 DEF Confirm, Outcome, ApiTypeOK, CallTyped
  <2>2. Told(request[c], told[c]) \in Contents \cup {NoAccount, Undefined}
    BY <1>1, ToldTyped DEF ApiTypeOK
  <2>3. told' \in [Clients -> Contents \cup {NoAccount, Undefined}]
    BY <1>3, <2>2 DEF Confirm, ApiTypeOK
  <2> QED
    BY <1>3, <2>1, <2>3, OneCallTyped DEF Confirm, Outcome, ApiTypeOK, CallStates
<1>4. CASE Timeout(c)
  <2>1. CallTyped(c, pc'[c], request'[c], late'[c])
    BY <1>1, <1>4 DEF Timeout, GiveUp, ApiTypeOK, CallTyped
  <2> QED
    BY <1>4, <2>1, OneCallTyped DEF Timeout, GiveUp, ApiTypeOK, CallStates
<1> QED
  BY <1>2, <1>3, <1>4

LEMMA LateKeepsTypes ==
  ASSUME ApiTypeOK, NEW c \in Clients, NEW r \in late[c], LandLate(c, r) \/ Expire(c, r)
  PROVE  ApiTypeOK'
<1>1. CallTyped(c, pc[c], request[c], late[c])
  BY DEF ApiTypeOK, CallTyped
<1>2. CASE LandLate(c, r)
  <2>1. CallTyped(c, pc'[c], request'[c], late'[c])
    BY <1>1, <1>2 DEF LandLate, ApiTypeOK, CallTyped
  <2> QED
    BY <1>2, <2>1, OneCallTyped DEF LandLate, ApiTypeOK, CallStates
<1>3. CASE Expire(c, r)
  <2>1. CallTyped(c, pc'[c], request'[c], late'[c])
    BY <1>1, <1>3 DEF Expire, ApiTypeOK, CallTyped
  <2> QED
    BY <1>3, <2>1, OneCallTyped DEF Expire, ApiTypeOK, CallStates
<1> QED
  BY <1>2, <1>3

(***************************************************************************)
(* The program with clients is the program.                                *)
(***************************************************************************)
LEMMA ApiStepIsProgramStep ==
  ASSUME ApiTypeOK, [ApiNext]_apiVars
  PROVE  [Next]_vars
<1>1. CASE UNCHANGED vars
  BY <1>1
<1>2. ASSUME NEW c \in Clients, Land(c)
      PROVE  Next
  <2>1. SentRequest(c, request[c]) /\ Execute(c, request[c])
    BY <1>2, SentCall DEF Land
  <2> QED
    BY <2>1, ExecuteIsInstruction DEF Next
<1>3. ASSUME NEW c \in Clients, NEW r \in late[c], LandLate(c, r)
      PROVE  Next
  <2>1. SentRequest(c, r) /\ Execute(c, r)
    BY <1>3 DEF LandLate, ApiTypeOK
  <2> QED
    BY <2>1, ExecuteIsInstruction DEF Next
<1>4. CASE Direct
  BY <1>4, InstructionsMonotone DEF Direct, Next
<1>5. CASE Surroundings
  BY <1>5 DEF Surroundings, Next
<1>6. ASSUME NEW c \in Clients, WriterCall(c) \/ CreatorCall(c) \/ HolderCall(c)
      PROVE  UNCHANGED vars
  BY <1>6 DEF WriterCall, CreatorCall, HolderCall, Call
<1>7. ASSUME NEW c \in Clients,
             \/ Lookup(c) \/ LookupFindsNone(c) \/ LookupFails(c) \/ Confirm(c) \/ Timeout(c)
             \/ \E r \in late[c] : Expire(c, r)
      PROVE  UNCHANGED vars
  BY <1>7 DEF Lookup, LookupFindsNone, LookupFails, Confirm, Timeout, Expire
<1> QED
  BY <1>1, <1>2, <1>3, <1>4, <1>5, <1>6, <1>7 DEF ApiNext, apiVars

LEMMA ApiTypeInductive ==
  ASSUME TypeOK, ApiTypeOK, [ApiNext]_apiVars
  PROVE  TypeOK' /\ ApiTypeOK'
<1>1. TypeOK'
  BY ApiStepIsProgramStep, TypeInductive
<1>2. ApiTypeOK'
  <2>1. CASE UNCHANGED apiVars
    BY <2>1 DEF apiVars, api, ApiTypeOK
  <2>2. CASE Direct
    BY <2>2 DEF Direct, api, ApiTypeOK
  <2>3. CASE Surroundings
    <3>1. ASSUME NEW c \in Clients
          PROVE  IsHolder(c, request[c])' \in BOOLEAN
      BY DEF IsHolder
    <3>2. steady' \in [Clients -> BOOLEAN]
      BY <2>3, <3>1 DEF Surroundings, ApiTypeOK
    <3> QED
      BY <2>3, <3>2 DEF Surroundings, ApiTypeOK
  <2>4. ASSUME NEW c \in Clients,
               \/ c \in Writers /\ WriterCall(c)
               \/ c \in Creators /\ CreatorCall(c)
               \/ c \in Holders /\ HolderCall(c)
        PROVE  ApiTypeOK'
    BY <2>4, MethodKeepsTypes
  <2>5. ASSUME NEW c \in Clients, Lookup(c) \/ LookupFindsNone(c) \/ LookupFails(c)
        PROVE  ApiTypeOK'
    BY <2>5, AwaitKeepsTypes
  <2>6. ASSUME NEW c \in Clients, Land(c) \/ Confirm(c) \/ Timeout(c)
        PROVE  ApiTypeOK'
    BY <2>6, AnswerKeepsTypes
  <2>7. ASSUME NEW c \in Clients, NEW r \in late[c], LandLate(c, r) \/ Expire(c, r)
        PROVE  ApiTypeOK'
    BY <2>7, LateKeepsTypes
  <2> QED
    BY <2>1, <2>2, <2>3, <2>4, <2>5, <2>6, <2>7 DEF ApiNext
<1> QED
  BY <1>1, <1>2

\* Whatever clients call and whatever happens to their transactions, six of the
\* nine methods never send one, and what the others send is as the program
\* takes it.
THEOREM ApiTypeCorrect == ApiSpec => [](TypeOK /\ ApiTypeOK)
<1>1. ApiInit => TypeOK /\ ApiTypeOK
  <2>1. ASSUME ApiInit
        PROVE  TypeOK
    BY <2>1, NumbersAssumption DEF ApiInit, Init, TypeOK, Errors
  <2>2. ASSUME ApiInit
        PROVE  ApiTypeOK
    BY <2>2 DEF ApiInit, ApiTypeOK
  <2> QED
    BY <2>1, <2>2
<1>2. TypeOK /\ ApiTypeOK /\ [ApiNext]_apiVars => (TypeOK /\ ApiTypeOK)'
  BY ApiTypeInductive
<1> QED
  BY <1>1, <1>2, PTL DEF ApiSpec

\* Clients do to the ledger nothing that the program's own specification does
\* not allow: each theorem about the program holds with its clients.
THEOREM ApiImplementsProgram == ApiSpec => Spec
<1>1. ApiInit => Init
  BY DEF ApiInit
<1>2. TypeOK /\ ApiTypeOK /\ [ApiNext]_apiVars => [Next]_vars
  BY ApiStepIsProgramStep
<1> QED
  BY <1>1, <1>2, ApiTypeCorrect, PTL DEF ApiSpec, Spec

\* With clients, too, the registry's counter, the fees and the lamports are right,
\* and so are the heads of the stories.
COROLLARY ApiKeepsAccounts ==
  ApiSpec => [](WritersCounted /\ FeePaidOncePerHead /\ LamportsConserved /\ EmptyHeadsAgree)
  BY ApiImplementsProgram, WritersAlwaysCounted, FeesMatchHeads, LamportsAlwaysConserved,
     EmptyHeadsAlwaysAgree, PTL

\* Nothing that clients call, give up or retry gets round the owners of a head's
\* parts and of the keys that pay, or rewrites a list.
COROLLARY ApiKeepsRoles ==
  ApiSpec => HeadPartsSigned /\ OnlySignersCharged /\ PartsOfHeadIndependent /\ ListsAreLogs
  BY ApiImplementsProgram, PartsAlwaysSigned, OnlySignersEverCharged, PartsIndependent,
     ImplementsLogs, PTL

(***************************************************************************)
(* What others do to the accounts of a client.                             *)
(***************************************************************************)
\* A writer's metadata changes by its own instructions only.
LEMMA MetadataOfOthers ==
  ASSUME TypeOK, NEW writers \in SUBSET Writers, NEW creators, NEW holders,
         NEW c \in Writers \ writers, Instructions(writers, creators, holders)
  PROVE  writer_metadata'[c] = writer_metadata[c]
<1>1. CASE Registry(writers, creators)
  BY <1>1 DEF Registry, initialize, create_writer_metadata, delete_writer_metadata,
              update_writer_metadata, set_system_verified, set_extended_metadata,
              delete_extended_metadata, TypeOK
<1>2. CASE HeadInstruction(writers, creators, holders)
  <2>1. ASSUME NEW m, NEW x, NEW w, NEW creator, NEW feeTo,
               \/ create_writer_head_writer(m, x, w, feeTo)
               \/ create_writer_head_creator(m, x, w, creator, feeTo)
        PROVE  UNCHANGED writer_metadata
    BY <2>1 DEF create_writer_head_writer, create_writer_head_creator
  <2>2. ASSUME NEW m, NEW x, NEW w, NEW creator, NEW value, SetAuthorized(m, x, w, creator, value)
        PROVE  UNCHANGED writer_metadata
    BY <2>2 DEF SetAuthorized
  <2>3. ASSUME NEW m, NEW x, NEW w, NEW holder, NEW owner, NEW number,
               update_visibility_index(m, w, holder, owner, x, number)
        PROVE  UNCHANGED writer_metadata
    BY <2>3 DEF update_visibility_index
  <2> QED
    BY <1>2, <2>1, <2>2, <2>3 DEF HeadInstruction, authorize_writer, deauthorize_writer
<1>3. CASE Appending(writers)
  BY <1>3 DEF Appending, ext_append, create_and_append, sol_append, accounts
<1> QED
  BY <1>1, <1>2, <1>3 DEF Instructions

\* No instruction opens or closes a token account.
LEMMA InstructionsLeaveTokens ==
  ASSUME NEW writers, NEW creators, NEW holders, Instructions(writers, creators, holders)
  PROVE  UNCHANGED token_accounts
<1>1. CASE Registry(writers, creators)
  BY <1>1 DEF Registry, initialize, create_writer_metadata, delete_writer_metadata,
              update_writer_metadata, set_system_verified, set_extended_metadata,
              delete_extended_metadata, environment
<1>2. CASE HeadInstruction(writers, creators, holders)
  <2>1. ASSUME NEW m, NEW x, NEW w, NEW creator, NEW feeTo,
               \/ create_writer_head_writer(m, x, w, feeTo)
               \/ create_writer_head_creator(m, x, w, creator, feeTo)
        PROVE  UNCHANGED token_accounts
    BY <2>1 DEF create_writer_head_writer, create_writer_head_creator, environment
  <2>2. ASSUME NEW m, NEW x, NEW w, NEW creator, NEW value, SetAuthorized(m, x, w, creator, value)
        PROVE  UNCHANGED token_accounts
    BY <2>2 DEF SetAuthorized, environment
  <2>3. ASSUME NEW m, NEW x, NEW w, NEW holder, NEW owner, NEW number,
               update_visibility_index(m, w, holder, owner, x, number)
        PROVE  UNCHANGED token_accounts
    BY <2>3 DEF update_visibility_index, environment
  <2> QED
    BY <1>2, <2>1, <2>2, <2>3 DEF HeadInstruction, authorize_writer, deauthorize_writer
<1>3. CASE Appending(writers)
  BY <1>3 DEF Appending, ext_append, create_and_append, sol_append, environment
<1> QED
  BY <1>1, <1>2, <1>3 DEF Instructions

\* The head of a story, and its visibility, are safe from everybody but the
\* only owner of an account of its mint.
LEMMA VisibilityOfOthers ==
  ASSUME TypeOK, NEW writers \in SUBSET Writers, NEW creators \in SUBSET Creators,
         NEW holders \in SUBSET Holders,
         NEW m \in Mints, NEW w \in Writers, NEW d \in Holders \ holders,
         TokenAccounts(m) = {<<d, m>>}, Exists(writer_head[<<m, w>>]),
         Instructions(writers, creators, holders) \/ Environment
  PROVE  /\ Exists(writer_head'[<<m, w>>])
         /\ writer_head'[<<m, w>>].visibility_index = writer_head[<<m, w>>].visibility_index
<1> DEFINE h == <<m, w>>
           Kept == Exists(writer_head'[h]) /\ writer_head'[h].visibility_index = writer_head[h].visibility_index
<1>0. h \in Mints \X Writers /\ writer_head[h] \in WriterHead /\ h \in DOMAIN writer_head
  BY AccountTyped DEF TypeOK
<1>1. ASSUME NEW g \in Mints \X Writers, NEW new, HeadCreated(g, new)
      PROVE  Kept
  BY <1>0, <1>1 DEF HeadCreated
<1>2. ASSUME NEW g \in Mints \X Writers, NEW new \in WriterHead, HeadChanged(g, new),
             new.visibility_index = writer_head[g].visibility_index
      PROVE  Kept
  <2>1. new # NoAccount
    BY NoAccountAssumption
  <2> QED
    BY <1>0, <1>2, <2>1 DEF HeadChanged, Exists
<1>3. ASSUME NEW g \in Mints \X Writers, NEW d2 \in ExtAppendData,
             HeadChanged(g, append_data_to_writer(writer_head[g], d2))
      PROVE  Kept
  <2>1. writer_head[g] \in WriterHead
    BY <1>3, AccountTyped DEF HeadChanged
  <2>2. append_data_to_writer(writer_head[g], d2).visibility_index = writer_head[g].visibility_index
    BY <2>1 DEF append_data_to_writer, WriterHead
  <2> QED
    BY <1>2, <1>3, <2>1, <2>2, AppendTyped
<1>4. ASSUME NEW g \in Mints \X Writers, NEW value \in BOOLEAN,
             HeadChanged(g, [writer_head[g] EXCEPT !.authorized = value])
      PROVE  Kept
  <2>1. writer_head[g] \in WriterHead
    BY <1>4, AccountTyped DEF HeadChanged
  <2>2. [writer_head[g] EXCEPT !.authorized = value] \in WriterHead
    BY <2>1 DEF WriterHead
  <2>3. [writer_head[g] EXCEPT !.authorized = value].visibility_index = writer_head[g].visibility_index
    BY <2>1 DEF WriterHead
  <2> QED
    BY <1>2, <1>4, <2>2, <2>3
<1>5. ASSUME NEW g \in Mints \X Writers, NEW holder \in holders, NEW number,
             <<holder, g[1]>> \in token_accounts,
             HeadChanged(g, [writer_head[g] EXCEPT !.visibility_index = number])
      PROVE  Kept
  <2>1. ASSUME g = h
        PROVE  FALSE
    <3>1. <<holder, m>> \in TokenAccounts(m)
      BY <1>5, <2>1 DEF TokenAccounts
    <3>2. <<holder, m>> = <<d, m>>
      BY <3>1
    <3> QED
      BY <3>2
  <2> QED
    BY <1>0, <1>5, <2>1 DEF HeadChanged
<1>6. HeadStepBy(writers, creators, holders)
  BY InstructionIsHeadStep
<1>7. CASE UNCHANGED writer_head
  BY <1>7
<1> QED
  BY <1>1, <1>3, <1>4, <1>5, <1>6, <1>7 DEF HeadStepBy, HeadWritten
(***************************************************************************)
(* What a writer is told of its metadata.                                  *)
(***************************************************************************)
Stands(c, t) ==
  IF t = NoAccount THEN ~Exists(writer_metadata[c])
  ELSE Exists(writer_metadata[c]) /\ writer_metadata[c].data = t

\* Once the transaction has landed, what the call will tell, stands already.
Standing(c) ==
  /\ told[c] # Undefined /\ pc[c] # "landed" => Stands(c, told[c])
  /\ pc[c] = "landed" /\ steady[c] /\ Told(request[c], told[c]) # Undefined
       => Stands(c, Told(request[c], told[c]))

MetadataInv == \A c \in Clients \cap Writers : Standing(c)

\* Nothing that a client waits for or was told changes while its own metadata
\* and its own call stay as they are.
LEMMA OthersLeaveStanding ==
  ASSUME NEW c \in Clients \cap Writers, Standing(c),
         writer_metadata'[c] = writer_metadata[c], told'[c] = told[c],
         pc'[c] = pc[c], request'[c] = request[c], steady'[c] => steady[c]
  PROVE  Standing(c)'
  BY DEF Standing, Stands, Told, Exists

\* What the execution of a client's request does to the metadata.
LEMMA ExecuteMetadata ==
  ASSUME TypeOK, NEW c \in Clients, NEW r, SentRequest(c, r), Execute(c, r)
  PROVE  /\ \A d \in Writers \ {c} : writer_metadata'[d] = writer_metadata[d]
         /\ receipt' # "ok" => writer_metadata' = writer_metadata
         /\ \A t : c \in Writers /\ receipt' = "ok" /\ (t # Undefined => Stands(c, t))
                     /\ Told(r, t) # Undefined => Stands(c, Told(r, t))'
<1>1. ASSUME NEW d \in Writers \ {c}
      PROVE  writer_metadata'[d] = writer_metadata[d]
  <2>1. Instructions({c} \cap Writers, {}, {c} \cap Holders)
    BY ExecuteIsInstruction
  <2> QED
    BY <2>1, MetadataOfOthers
<1>2. CASE c \in Writers /\ r.rpc = "createWriterMetadata" /\ r.data \in Contents
  <2>1. create_writer_metadata(c, r.data)
    BY <1>2 DEF Execute
  <2>2. receipt' # "ok" => writer_metadata' = writer_metadata
    BY <2>1 DEF create_writer_metadata, Finish
  <2>3. ASSUME receipt' = "ok"
        PROVE  Exists(writer_metadata'[c]) /\ writer_metadata'[c].data = r.data
    <3> DEFINE new == [discriminator |-> "WriterMetadata", writer_key |-> c, data |-> r.data,
                       api_version |-> 1, system_verified |-> FALSE, metadata_extended |-> TRUE]
    <3>1. writer_metadata' = [writer_metadata EXCEPT ![c] = new]
      BY <2>1, <2>3 DEF create_writer_metadata, Finish
    <3>2. writer_metadata'[c] = new
      BY <1>2, <3>1 DEF TypeOK
    <3>3. new \in WriterMetadata
      BY <1>2 DEF WriterMetadata
    <3>4. new # NoAccount
      BY <3>3, NoAccountAssumption
    <3>5. new.data = r.data
      OBVIOUS
    <3> QED
      BY <3>2, <3>4, <3>5 DEF Exists
  <2>4. r.data # NoAccount
    BY <1>2, ClientsAssumption
  <2>5. \A t : Told(r, t) = r.data
    BY <1>2 DEF Told
  <2> QED
    BY <1>1, <2>2, <2>3, <2>4, <2>5 DEF Stands, Exists
<1>3. CASE c \in Writers /\ r.rpc = "deleteWriterMetadata"
  <2>1. delete_writer_metadata(c)
    BY <1>3 DEF Execute
  <2>2. receipt' # "ok" => writer_metadata' = writer_metadata
    BY <2>1 DEF delete_writer_metadata, Finish
  <2>3. receipt' = "ok" => writer_metadata'[c] = NoAccount
    BY <1>3, <2>1 DEF delete_writer_metadata, Finish, TypeOK
  <2>4. \A t : Told(r, t) = NoAccount
    BY <1>3 DEF Told
  <2> QED
    BY <1>1, <2>2, <2>3, <2>4 DEF Stands, Exists
<1>4. CASE VisibilityRequest(c, r)
  <2>1. writer_metadata' = writer_metadata
    BY <1>4 DEF VisibilityRequest, Execute, update_visibility_index
  <2>2. \A t : Told(r, t) = t
    BY <1>4 DEF VisibilityRequest, Told
  <2> QED
    BY <1>1, <2>1, <2>2 DEF Stands, Exists
<1> QED
  BY <1>2, <1>3, <1>4, SentFields

LEMMA MetadataInductive ==
  ASSUME TypeOK, ApiTypeOK, MetadataInv, [ApiNext]_apiVars
  PROVE  MetadataInv'
<1> SUFFICES ASSUME NEW c \in Clients \cap Writers
             PROVE  Standing(c)'
  BY DEF MetadataInv
<1>0. Standing(c) /\ c \in DOMAIN request
  BY DEF MetadataInv, ApiTypeOK
<1>1. CASE UNCHANGED apiVars
  BY <1>0, <1>1, OthersLeaveStanding DEF apiVars, api, vars, accounts
<1>2. CASE Direct
  <2>1. writer_metadata'[c] = writer_metadata[c]
    BY <1>2, MetadataOfOthers DEF Direct
  <2> QED
    BY <1>0, <1>2, <2>1, OthersLeaveStanding DEF Direct, api
<1>3. CASE Surroundings
  <2>1. writer_metadata' = writer_metadata
    BY <1>3 DEF Surroundings, Environment, MetaplexUpdate, OpenTokenAccount, CloseTokenAccount,
                Tick, accounts
  <2>2. steady'[c] => steady[c]
    BY <1>3 DEF Surroundings
  <2> QED
    BY <1>0, <1>3, <2>1, <2>2, OthersLeaveStanding DEF Surroundings
<1>4. ASSUME NEW d \in Clients, WriterCall(d) \/ CreatorCall(d) \/ HolderCall(d)
      PROVE  Standing(c)'
  <2>1. PICK r : Call(d, r)
    BY <1>4 DEF WriterCall, CreatorCall, HolderCall
  <2>2. CASE d = c
    <3>1. pc[c] # "landed" /\ pc'[c] # "landed" /\ told' = told /\ writer_metadata' = writer_metadata
      BY <2>1, <2>2 DEF Call, Busy, vars, accounts, ApiTypeOK
    <3> QED
      BY <1>0, <3>1 DEF Standing, Stands, Exists
  <2>3. CASE d # c
    BY <1>0, <2>1, <2>3, OthersLeaveStanding DEF Call, ApiTypeOK, vars, accounts
  <2> QED
    BY <2>2, <2>3
<1>5. ASSUME NEW d \in Clients,
             \/ Lookup(d) \/ LookupFindsNone(d) \/ LookupFails(d)
             \/ Confirm(d) \/ Timeout(d)
             \/ \E r \in late[d] : Expire(d, r)
      PROVE  Standing(c)'
  <2>0. writer_metadata' = writer_metadata
    BY <1>5 DEF Lookup, LookupFindsNone, LookupFails, Confirm, Timeout, Expire, vars, accounts
  <2>1. CASE d # c
    BY <1>0, <1>5, <2>0, <2>1, OthersLeaveStanding
       DEF Lookup, LookupFindsNone, LookupFails, GiveUp, Confirm, Timeout, Expire, ApiTypeOK
  <2>2. CASE d = c /\ (Lookup(c) \/ LookupFindsNone(c) \/ LookupFails(c))
    <3>1. pc[c] # "landed" /\ pc'[c] # "landed" /\ told' = told
      BY <2>2 DEF Lookup, LookupFindsNone, LookupFails, GiveUp, ApiTypeOK
    <3> QED
      BY <1>0, <2>0, <3>1 DEF Standing, Stands, Exists
  <2>3. CASE d = c /\ Confirm(c)
    <3>1. CASE pc[c] = "landed"
      <4>1. /\ told'[c] = (IF steady[c] THEN Told(request[c], told[c]) ELSE Undefined)
            /\ pc'[c] = "resolved"
        BY <2>3, <3>1 DEF Confirm, Outcome, ApiTypeOK
      <4> QED
        BY <1>0, <2>0, <3>1, <4>1 DEF Standing, Stands, Exists
    <3>2. CASE pc[c] # "landed"
      <4>1. told'[c] = told[c] /\ pc'[c] = "rejected"
        BY <2>3, <3>2 DEF Confirm, Outcome, ApiTypeOK
      <4> QED
        BY <1>0, <2>0, <3>2, <4>1 DEF Standing, Stands, Exists
    <3> QED
      BY <3>1, <3>2
  <2>4. CASE d = c /\ Timeout(c)
    <3>1. told'[c] = Undefined /\ pc'[c] = "unknown"
      BY <2>4 DEF Timeout, GiveUp, ApiTypeOK
    <3> QED
      BY <3>1 DEF Standing
  <2>5. CASE d = c /\ \E r \in late[c] : Expire(c, r)
    BY <1>0, <2>0, <2>5, OthersLeaveStanding DEF Expire
  <2> QED
    BY <1>5, <2>1, <2>2, <2>3, <2>4, <2>5
<1>6. ASSUME NEW d \in Clients, Land(d)
      PROVE  Standing(c)'
  <2>0. SentRequest(d, request[d]) /\ Execute(d, request[d])
    BY <1>6, SentCall DEF Land
  <2>1. CASE d # c
    <3>1. writer_metadata'[c] = writer_metadata[c]
      BY <2>0, <2>1, ExecuteMetadata
    <3> QED
      BY <1>0, <1>6, <2>1, <3>1, OthersLeaveStanding DEF Land, ApiTypeOK
  <2>2. CASE d = c /\ receipt' = "ok"
    <3>1. /\ pc[c] = "sent" /\ pc'[c] = "landed" /\ told' = told /\ request' = request
          /\ steady' = steady
      BY <1>6, <2>2 DEF Land, ApiTypeOK
    <3>2. told[c] # Undefined => Stands(c, told[c])
      BY <1>0, <3>1 DEF Standing
    <3>3. Told(request[c], told[c]) # Undefined => Stands(c, Told(request[c], told[c]))'
      BY <2>0, <2>2, <3>2, ExecuteMetadata, <3>1 DEF Told, Stands, Exists
    <3> QED
      BY <3>1, <3>3 DEF Standing, Stands, Told, Exists
  <2>3. CASE d = c /\ receipt' # "ok"
    <3>1. /\ pc[c] = "sent" /\ pc'[c] = "failed" /\ told' = told
          /\ writer_metadata' = writer_metadata
      BY <1>6, <2>0, <2>3, ExecuteMetadata DEF Land, ApiTypeOK
    <3> QED
      BY <1>0, <3>1 DEF Standing, Stands, Exists
  <2> QED
    BY <2>1, <2>2, <2>3
<1>7. ASSUME NEW d \in Clients, NEW r \in late[d], LandLate(d, r)
      PROVE  Standing(c)'
  <2>0. SentRequest(d, r) /\ Execute(d, r)
    BY <1>7 DEF LandLate, ApiTypeOK
  <2>1. CASE d # c
    <3>1. writer_metadata'[c] = writer_metadata[c]
      BY <2>0, <2>1, ExecuteMetadata
    <3> QED
      BY <1>0, <1>7, <2>1, <3>1, OthersLeaveStanding DEF LandLate, ApiTypeOK
  <2>2. CASE d = c
    <3>1. ~steady'[c] /\ pc' = pc /\ told'[c] = (IF receipt' = "ok" THEN Undefined ELSE told[c])
      BY <1>7, <2>2 DEF LandLate, ApiTypeOK
    <3>2. receipt' # "ok" => writer_metadata' = writer_metadata
      BY <2>0, ExecuteMetadata
    <3> QED
      BY <1>0, <3>1, <3>2 DEF Standing, Stands, Exists
  <2> QED
    BY <2>1, <2>2
<1> QED
  BY <1>1, <1>2, <1>3, <1>4, <1>5, <1>6, <1>7 DEF ApiNext

\* A client's own calls, some rejected, some given up and executed later, and
\* whatever others do, never make what it was told last of its metadata wrong.
THEOREM OwnMetadataAlwaysStands == ApiSpec => []OwnMetadataStands
<1>1. ApiInit => MetadataInv
  BY DEF ApiInit, Init, MetadataInv, Standing, Stands, Exists
<1>2. TypeOK /\ ApiTypeOK /\ MetadataInv /\ [ApiNext]_apiVars => MetadataInv'
  BY MetadataInductive
<1>3. MetadataInv => OwnMetadataStands
  BY DEF MetadataInv, Standing, Stands, OwnMetadataStands
<1> QED
  BY <1>1, <1>2, <1>3, ApiTypeCorrect, PTL DEF ApiSpec

(***************************************************************************)
(* The holder's override.                                                  *)
(***************************************************************************)
\* A call of the holder of a story, with its own token account or none given.
HoldersCall(c) ==
  LET r == request[c]
  IN /\ steady[c] /\ r.rpc = "updateVisibilityIndex"
     /\ r.tokenAcct \in {Undefined, <<c, r.accounts.tokenMint>>}

\* It passes the account that is its own, however it came to it, and what the
\* transaction did stands.
HolderServed(c) ==
  LET r == request[c]
      m == r.accounts.tokenMint
      w == r.accounts.writerProgram
  IN HoldersCall(c) =>
       /\ TokenAccounts(m) = {<<c, m>>} /\ Exists(writer_head[<<m, w>>])
       /\ pc[c] \notin {"failed", "rejected"}
       /\ pc[c] # "lookup" => r.accounts.token = <<c, m>>
       /\ pc[c] \in {"landed", "resolved"} => writer_head[<<m, w>>].visibility_index = r.number

HolderInv == \A c \in Clients : HolderServed(c)

LEMMA HolderFields ==
  ASSUME ApiTypeOK, NEW c \in Clients, request[c].rpc = "updateVisibilityIndex"
  PROVE  VisibilityRequest(c, request[c])
<1>1. \/ SentRequest(c, request[c]) \/ LookupRequest(c, request[c]) \/ request[c] = NoRequest
  BY DEF ApiTypeOK
<1> QED
  BY <1>1, SentFields, LookupFields DEF NoRequest, VisibilityRequest

\* What others do, and what happens around the program, spares the holder.
LEMMA OthersLeaveHolder ==
  ASSUME TypeOK, ApiTypeOK, NEW c \in Clients, HolderServed(c),
         NEW writers \in SUBSET Writers, NEW creators \in SUBSET Creators,
         NEW holders \in SUBSET Holders, c \notin holders,
         Instructions(writers, creators, holders) \/ Environment,
         HoldersCall(c)' => HoldersCall(c) /\ TokenAccounts(request[c].accounts.tokenMint)'
                                                = {<<c, request[c].accounts.tokenMint>>},
         pc'[c] = pc[c], request'[c] = request[c]
  PROVE  HolderServed(c)'
<1> DEFINE r == request[c]
           m == r.accounts.tokenMint
           w == r.accounts.writerProgram
<1> SUFFICES ASSUME HoldersCall(c)'
             PROVE  /\ TokenAccounts(m)' = {<<c, m>>} /\ Exists(writer_head'[<<m, w>>])
                    /\ pc[c] \notin {"failed", "rejected"}
                    /\ pc[c] # "lookup" => r.accounts.token = <<c, m>>
                    /\ pc[c] \in {"landed", "resolved"} =>
                         writer_head'[<<m, w>>].visibility_index = r.number
  BY DEF HolderServed, TokenAccounts, Exists
<1>1. HoldersCall(c) /\ TokenAccounts(m)' = {<<c, m>>}
  OBVIOUS
<1>2. m \in Mints /\ w \in Writers /\ c \in Holders
  BY <1>1, HolderFields DEF HoldersCall, VisibilityRequest
<1>3. /\ TokenAccounts(m) = {<<c, m>>} /\ Exists(writer_head[<<m, w>>])
      /\ pc[c] \notin {"failed", "rejected"}
      /\ pc[c] # "lookup" => r.accounts.token = <<c, m>>
      /\ pc[c] \in {"landed", "resolved"} => writer_head[<<m, w>>].visibility_index = r.number
  BY <1>1 DEF HolderServed
<1>4. /\ Exists(writer_head'[<<m, w>>])
      /\ writer_head'[<<m, w>>].visibility_index = writer_head[<<m, w>>].visibility_index
  <2>1. c \in Holders \ holders
    BY <1>2
  <2>2. /\ TokenAccounts(m) = {<<c, m>>} /\ Exists(writer_head[<<m, w>>])
        /\ m \in Mints /\ w \in Writers
    BY <1>2, <1>3
  <2> HIDE DEF m, w
  <2> QED
    BY <2>1, <2>2, VisibilityOfOthers
<1> QED
  BY <1>1, <1>3, <1>4

\* Nothing concerns the holder while the ledger and its call stay as they are.
LEMMA HolderUndisturbed ==
  ASSUME NEW c \in Clients, HolderServed(c), UNCHANGED <<writer_head, token_accounts>>,
         pc'[c] = pc[c], request'[c] = request[c], steady'[c] => steady[c]
  PROVE  HolderServed(c)'
  BY DEF HolderServed, HoldersCall, TokenAccounts, Exists

\* The program does what the holder's request says.
LEMMA HolderLands ==
  ASSUME TypeOK, ApiTypeOK, NEW c \in Clients, HolderServed(c), Land(c), HoldersCall(c)
  PROVE  LET r == request[c]
             h == <<r.accounts.tokenMint, r.accounts.writerProgram>>
         IN /\ receipt' = "ok" /\ UNCHANGED token_accounts
            /\ Exists(writer_head'[h]) /\ writer_head'[h].visibility_index = r.number
<1> DEFINE r == request[c]
           m == r.accounts.tokenMint
           w == r.accounts.writerProgram
           h == <<m, w>>
           new == [writer_head[h] EXCEPT !.visibility_index = r.number]
<1>1. /\ TokenAccounts(m) = {<<c, m>>} /\ Exists(writer_head[h])
      /\ r.accounts.token = <<c, m>> /\ r.rpc = "updateVisibilityIndex"
  BY DEF HolderServed, HoldersCall, Land
<1>2. m \in Mints /\ w \in Writers /\ c \in Holders /\ r.number \in VisibilityIndexes
  BY <1>1, HolderFields DEF VisibilityRequest
<1>3. update_visibility_index(m, w, c, c, m, r.number)
  BY <1>1 DEF Land, Execute
<1>4. writer_head[h] \in WriterHead
  BY <1>1, <1>2, AccountTyped
<1>5. Loads(writer_head[h], "WriterHead") /\ <<c, m>> \in token_accounts
  BY <1>1, <1>4 DEF Loads, WriterHead, TokenAccounts
<1>6. receipt' = "ok" /\ writer_head' = [writer_head EXCEPT ![h] = new] /\ UNCHANGED token_accounts
  BY <1>3, <1>5 DEF update_visibility_index, OwnsToken, Finish, environment
<1>7. new \in WriterHead /\ new.visibility_index = r.number
  BY <1>2, <1>4 DEF WriterHead
<1>8. writer_head'[h] = new
  BY <1>2, <1>6 DEF TypeOK
<1> QED
  BY <1>6, <1>7, <1>8, NoAccountAssumption DEF Exists

LEMMA HolderInductive ==
  ASSUME TypeOK, ApiTypeOK, HolderInv, [ApiNext]_apiVars
  PROVE  HolderInv'
<1> SUFFICES ASSUME NEW c \in Clients
             PROVE  HolderServed(c)'
  BY DEF HolderInv
<1>0. HolderServed(c)
  BY DEF HolderInv
<1>1. CASE UNCHANGED apiVars
  BY <1>0, <1>1, HolderUndisturbed DEF apiVars, api, vars, accounts, environment
<1>2. CASE Direct
  <2>1. UNCHANGED <<pc, request, steady, token_accounts>>
    BY <1>2, InstructionsLeaveTokens DEF Direct, api
  <2>2. HoldersCall(c)' => HoldersCall(c) /\ TokenAccounts(request[c].accounts.tokenMint)'
                                               = {<<c, request[c].accounts.tokenMint>>}
    BY <1>0, <2>1 DEF HoldersCall, TokenAccounts, HolderServed
  <2> QED
    BY <1>0, <1>2, <2>1, <2>2, OthersLeaveHolder DEF Direct
<1>3. CASE Surroundings
  <2>1. UNCHANGED <<pc, request>>
    BY <1>3 DEF Surroundings
  <2>2. steady'[c] => steady[c] /\ IsHolder(c, request[c])'
    BY <1>3 DEF Surroundings
  <2>3. HoldersCall(c)' => HoldersCall(c) /\ TokenAccounts(request[c].accounts.tokenMint)'
                                               = {<<c, request[c].accounts.tokenMint>>}
    BY <2>1, <2>2 DEF HoldersCall, IsHolder, TokenAccounts
  <2>4. {} \in SUBSET Writers /\ {} \in SUBSET Creators /\ {} \in SUBSET Holders /\ c \notin {}
    OBVIOUS
  <2>5. Environment
    BY <1>3 DEF Surroundings
  <2> QED
    BY <1>0, <2>1, <2>3, <2>4, <2>5, OthersLeaveHolder
<1>4. ASSUME NEW d \in Clients, WriterCall(d) \/ CreatorCall(d) \/ HolderCall(d)
      PROVE  HolderServed(c)'
  <2>1. PICK r : Call(d, r) /\ (r.rpc = "updateVisibilityIndex" => r.accounts.token = r.tokenAcct)
    <3>1. CASE WriterCall(d)
      <4>1. /\ deleteWriterMetadata(d).rpc # "updateVisibilityIndex"
            /\ \A x : /\ createWriterMetadata(d, x).rpc # "updateVisibilityIndex"
                     /\ updateWriterMetadata(d, x).rpc # "updateVisibilityIndex"
                     /\ setExtendedMetadata(d, x).rpc # "updateVisibilityIndex"
                     /\ createWriterHead(d, x).rpc # "updateVisibilityIndex"
        BY DEF createWriterMetadata, updateWriterMetadata, deleteWriterMetadata,
               setExtendedMetadata, createWriterHead
      <4> QED
        BY <3>1, <4>1 DEF WriterCall
    <3>2. CASE CreatorCall(d)
      BY <3>2 DEF CreatorCall, createWriterHeadCreator, authorizeWriterHead, deauthorizeWriterHead
    <3>3. CASE HolderCall(d)
      BY <3>3 DEF HolderCall, updateVisibility
    <3> QED
      BY <1>4, <3>1, <3>2, <3>3
  <2>2. UNCHANGED <<writer_head, token_accounts>>
    BY <2>1 DEF Call, vars, accounts, environment
  <2>3. CASE d # c
    BY <1>0, <2>1, <2>2, <2>3, HolderUndisturbed DEF Call, ApiTypeOK
  <2>4. CASE d = c /\ Accepted(r)
    <3>1. /\ request'[c] = r
          /\ steady'[c] => IsHolder(c, r)
          /\ pc'[c] = IF r.rpc = "updateVisibilityIndex" /\ r.tokenAcct = Undefined
                      THEN "lookup" ELSE "sent"
      <4>1. request' = [request EXCEPT ![c] = r]
        BY <2>1, <2>4 DEF Call
      <4>2. steady' = [steady EXCEPT ![c] = Accepted(r) /\ IsHolder(c, r)]
        BY <2>1, <2>4 DEF Call
      <4>3. pc' = [pc EXCEPT ![c] = IF r.rpc = "updateVisibilityIndex" /\ r.tokenAcct = Undefined
                                    THEN "lookup" ELSE "sent"]
        BY <2>1, <2>4 DEF Call
      <4> QED
        BY <4>1, <4>2, <4>3 DEF ApiTypeOK
    <3>2. CASE r.rpc = "updateVisibilityIndex" /\ r.tokenAcct \in {Undefined, <<c, r.accounts.tokenMint>>}
               /\ steady'[c]
      <4>1. /\ TokenAccounts(r.accounts.tokenMint) = {<<c, r.accounts.tokenMint>>}
            /\ Exists(writer_head[<<r.accounts.tokenMint, r.accounts.writerProgram>>])
        BY <3>1, <3>2 DEF IsHolder
      <4>2. r.accounts.token = r.tokenAcct
        BY <2>1, <3>2
      <4> QED
        BY <2>2, <3>1, <3>2, <4>1, <4>2 DEF HolderServed, TokenAccounts, Exists
    <3>3. CASE ~(r.rpc = "updateVisibilityIndex" /\ r.tokenAcct \in {Undefined, <<c, r.accounts.tokenMint>>}
               /\ steady'[c])
      BY <3>1, <3>3 DEF HolderServed, HoldersCall
    <3> QED
      BY <3>2, <3>3
  <2>5. CASE d = c /\ ~Accepted(r)
    <3>1. ~steady'[c]
      BY <2>1, <2>5 DEF Call, ApiTypeOK
    <3> QED
      BY <3>1 DEF HolderServed, HoldersCall
  <2> QED
    BY <2>3, <2>4, <2>5
<1>5. ASSUME NEW d \in Clients,
             \/ Lookup(d) \/ LookupFindsNone(d) \/ LookupFails(d)
             \/ Confirm(d) \/ Timeout(d)
             \/ \E r \in late[d] : Expire(d, r)
      PROVE  HolderServed(c)'
  <2>0. UNCHANGED <<writer_head, token_accounts>>
    BY <1>5 DEF Lookup, LookupFindsNone, LookupFails, Confirm, Timeout, Expire, vars, accounts, environment
  <2>1. CASE d # c
    BY <1>0, <1>5, <2>0, <2>1, HolderUndisturbed
       DEF Lookup, LookupFindsNone, LookupFails, GiveUp, Confirm, Timeout, Expire, ApiTypeOK
  <2>2. CASE d = c /\ Lookup(c)
    <3>1. PICK t \in Candidates(request[c]) : request' = [request EXCEPT ![c].accounts.token = t]
      BY <2>2 DEF Lookup
    <3>2. LookupRequest(c, request[c])
      BY <2>2 DEF Lookup, ApiTypeOK
    <3>3. request'[c] = [request[c] EXCEPT !.accounts.token = t]
      BY <3>1 DEF ApiTypeOK
    <3>4. /\ request'[c].rpc = request[c].rpc /\ request'[c].tokenAcct = request[c].tokenAcct
          /\ request'[c].number = request[c].number
          /\ request'[c].accounts.tokenMint = request[c].accounts.tokenMint
          /\ request'[c].accounts.writerProgram = request[c].accounts.writerProgram
          /\ request'[c].accounts.token = t
      BY <3>2, <3>3 DEF LookupRequest, updateVisibility
    <3>5. pc'[c] = "sent" /\ steady' = steady
      BY <2>2 DEF Lookup, ApiTypeOK
    <3>6. t \in TokenAccounts(request[c].accounts.tokenMint)
      BY <3>1 DEF Candidates
    <3> QED
      BY <1>0, <2>0, <3>4, <3>5, <3>6 DEF HolderServed, HoldersCall, TokenAccounts, Exists
  <2>3. CASE d = c /\ LookupFindsNone(c)
    <3>1. TokenAccounts(request[c].accounts.tokenMint) = {} /\ LookupRequest(c, request[c])
      BY <2>3 DEF LookupFindsNone, Candidates, ApiTypeOK
    <3>2. ~HoldersCall(c)
      BY <1>0, <3>1 DEF HolderServed
    <3> QED
      BY <2>3, <3>2 DEF LookupFindsNone, HolderServed, HoldersCall
  <2>4. CASE d = c /\ (LookupFails(c) \/ Timeout(c))
    <3>1. ~steady'[c]
      BY <2>4 DEF LookupFails, Timeout, GiveUp, ApiTypeOK
    <3> QED
      BY <3>1 DEF HolderServed, HoldersCall
  <2>5. CASE d = c /\ Confirm(c)
    <3>1. /\ pc[c] \in {"landed", "failed"} /\ request' = request /\ steady' = steady
          /\ pc'[c] = IF pc[c] = "landed" THEN "resolved" ELSE "rejected"
      BY <2>5 DEF Confirm, Outcome, ApiTypeOK
    <3> QED
      BY <1>0, <2>0, <3>1 DEF HolderServed, HoldersCall, TokenAccounts, Exists
  <2>6. CASE d = c /\ \E r \in late[c] : Expire(c, r)
    BY <1>0, <2>0, <2>6, HolderUndisturbed DEF Expire
  <2> QED
    BY <1>5, <2>1, <2>2, <2>3, <2>4, <2>5, <2>6
<1>execute. ASSUME NEW d \in Clients, NEW r, SentRequest(d, r), Execute(d, r), d # c,
                   pc'[c] = pc[c], request'[c] = request[c], steady'[c] = steady[c]
            PROVE  HolderServed(c)'
  <2>1. Instructions({d} \cap Writers, {}, {d} \cap Holders)
    BY <1>execute, ExecuteIsInstruction
  <2>2. UNCHANGED token_accounts
    BY <2>1, InstructionsLeaveTokens
  <2>3. HoldersCall(c)' => HoldersCall(c) /\ TokenAccounts(request[c].accounts.tokenMint)'
                                               = {<<c, request[c].accounts.tokenMint>>}
    BY <1>0, <1>execute, <2>2 DEF HoldersCall, TokenAccounts, HolderServed
  <2>4. /\ {d} \cap Writers \in SUBSET Writers /\ {} \in SUBSET Creators
        /\ {d} \cap Holders \in SUBSET Holders /\ c \notin {d} \cap Holders
    BY <1>execute
  <2> QED
    BY <1>0, <1>execute, <2>1, <2>3, <2>4, OthersLeaveHolder
<1>6. ASSUME NEW d \in Clients, Land(d)
      PROVE  HolderServed(c)'
  <2>1. CASE d # c
    <3>1. SentRequest(d, request[d]) /\ Execute(d, request[d])
      BY <1>6, SentCall DEF Land
    <3>2. pc'[c] = pc[c] /\ request'[c] = request[c] /\ steady'[c] = steady[c]
      BY <1>6, <2>1 DEF Land, ApiTypeOK
    <3> QED
      BY <2>1, <3>1, <3>2, <1>execute
  <2>2. CASE d = c /\ HoldersCall(c)
    <3>1. LET r == request[c]
              h == <<r.accounts.tokenMint, r.accounts.writerProgram>>
          IN /\ receipt' = "ok" /\ UNCHANGED token_accounts
             /\ Exists(writer_head'[h]) /\ writer_head'[h].visibility_index = r.number
      BY <1>0, <1>6, <2>2, HolderLands
    <3>2. pc[c] = "sent" /\ pc'[c] = "landed" /\ request' = request
      BY <1>6, <2>2, <3>1 DEF Land, ApiTypeOK
    <3> QED
      BY <1>0, <2>2, <3>1, <3>2 DEF HolderServed, TokenAccounts, Exists
  <2>3. CASE d = c /\ ~HoldersCall(c)
    <3>1. ~HoldersCall(c)'
      BY <1>6, <2>3 DEF Land, HoldersCall
    <3> QED
      BY <3>1 DEF HolderServed
  <2> QED
    BY <2>1, <2>2, <2>3
<1>7. ASSUME NEW d \in Clients, NEW r \in late[d], LandLate(d, r)
      PROVE  HolderServed(c)'
  <2>1. CASE d # c
    <3>1. SentRequest(d, r) /\ Execute(d, r)
      BY <1>7 DEF LandLate, ApiTypeOK
    <3>2. pc'[c] = pc[c] /\ request'[c] = request[c] /\ steady'[c] = steady[c]
      BY <1>7, <2>1 DEF LandLate, ApiTypeOK
    <3> QED
      BY <2>1, <3>1, <3>2, <1>execute
  <2>2. CASE d = c
    <3>1. ~steady'[c]
      BY <1>7, <2>2 DEF LandLate, ApiTypeOK
    <3> QED
      BY <3>1 DEF HolderServed, HoldersCall
  <2> QED
    BY <2>1, <2>2
<1> QED
  BY <1>1, <1>2, <1>3, <1>4, <1>5, <1>6, <1>7 DEF ApiNext

\* Whoever is and remains the only owner of an account of the mint overrides
\* the visibility of a story without being refused, and nobody else undoes it.
THEOREM HolderAlwaysObeyed == ApiSpec => []HolderObeyed
<1>1. ApiInit => HolderInv
  BY DEF ApiInit, HolderInv, HolderServed, HoldersCall
<1>2. TypeOK /\ ApiTypeOK /\ HolderInv /\ [ApiNext]_apiVars => HolderInv'
  BY HolderInductive
<1>3. HolderInv => HolderObeyed
  BY DEF HolderInv, HolderServed, HoldersCall, HolderObeyed
<1> QED
  BY <1>1, <1>2, <1>3, ApiTypeCorrect, PTL DEF ApiSpec
=============================================================================
