---------------------------- MODULE SolstoryApi ----------------------------
(***************************************************************************)
(* Writers, creators and holders that use the program through the API      *)
(* (api/src/writer, creator, holder): every method but appendItem, which   *)
(* is WriterClient's.  A method makes one request and awaits it: Anchor    *)
(* compares the accounts the method passes with the interface description  *)
(* (programs/solstory.json), the node simulates the transaction, then it   *)
(* is sent and its confirmation awaited.  Meanwhile everybody else acts,   *)
(* and the client that gave up waiting calls again.                        *)
(*                                                                         *)
(* A client makes one call at a time.  Of the accounts, those that are the *)
(* same in every call (system and token program, rent) are left out.  What *)
(* the simulation refuses on account of the ledger is refused as well when *)
(* the transaction is executed at once, so it is no step of its own.       *)
(***************************************************************************)
EXTENDS SolstoryProgram

CONSTANTS
  Clients,    \* the keys that use the program through the API only
  Undefined,  \* an optional argument not given; a history not known
  MAX_LATE    \* bound: transactions under way that a client no longer awaits

ASSUME ClientsAssumption ==
  /\ Clients \subseteq Writers \cup Creators \cup Holders
  /\ MAX_LATE \in Nat
  /\ NoAccount \notin Contents
  /\ Undefined \notin Contents \cup {NoAccount} \cup (Holders \X Mints)

(***************************************************************************)
(* Addresses, as the seeds they are derived from.  That of the extended    *)
(* metadata is the metadata's own; the program's is another (lib.rs:434).  *)
(***************************************************************************)
getSolstoryPda == <<"solstory_pda">>
getWriterMetadataPda(writerKey) == <<"solstory", writerKey>>
getWriterExtendedMetadataPda(writerKey) == <<"solstory", writerKey>>
getWriterHeadPda(writerKey, mintKey) == <<"solstory", mintKey, writerKey>>
getPDA(mintId) == <<"metadata", mintId>>

(***************************************************************************)
(* The request each method of the API makes, with its arguments and the    *)
(* accounts it passes.  c is the key of the wallet.                        *)
(***************************************************************************)
createWriterMetadata(c, data) ==
  [rpc |-> "createWriterMetadata", data |-> data,
   accounts |-> [writerProgram |-> c, writerMetadataPda |-> getWriterMetadataPda(c),
                 solstoryPda |-> getSolstoryPda]]

deleteWriterMetadata(c) ==
  [rpc |-> "deleteWriterMetadata",
   accounts |-> [writerProgram |-> c, writerMetadataPda |-> getWriterMetadataPda(c),
                 solstoryPda |-> getSolstoryPda]]

updateWriterMetadata(c, data) ==
  [rpc |-> "updateWriterMetadata", data |-> data,
   accounts |-> [writerProgram |-> c, writerMetadataPda |-> getWriterMetadataPda(c)]]

setExtendedMetadata(c, len) ==
  [rpc |-> "setExtendedMetadata", len |-> len,
   accounts |-> [writerProgram |-> c, writerMetadataPda |-> getWriterMetadataPda(c),
                 extendedMetadataPda |-> getWriterExtendedMetadataPda(c)]]

createWriterHead(c, mintId) ==
  [rpc |-> "createWriterHeadWriter",
   accounts |-> [writerProgram |-> c, tokenMint |-> mintId,
                 writerHeadPda |-> getWriterHeadPda(c, mintId),
                 metaplexMetadataPda |-> getPDA(mintId)]]

CreatorAccounts(c, mintId, writerKey) ==
  [writerProgram |-> writerKey, creatorProgram |-> c, tokenMint |-> mintId,
   writerHeadPda |-> getWriterHeadPda(writerKey, mintId), metaplexMetadataPda |-> getPDA(mintId)]

createWriterHeadCreator(c, mintId, writerKey) ==
  [rpc |-> "createWriterHeadCreator", accounts |-> CreatorAccounts(c, mintId, writerKey)]
authorizeWriterHead(c, mintId, writerKey) ==
  [rpc |-> "authorizeWriterHead", accounts |-> CreatorAccounts(c, mintId, writerKey)]
deauthorizeWriterHead(c, mintId, writerKey) ==
  [rpc |-> "deauthorizeWriterHead", accounts |-> CreatorAccounts(c, mintId, writerKey)]

\* Without tokenAcct the token account is looked up first.
updateVisibility(c, writerKey, mintKey, index, tokenAcct) ==
  [rpc |-> "updateVisibilityIndex", number |-> index, tokenAcct |-> tokenAcct,
   accounts |-> [writerProgram |-> writerKey, tokenMint |-> mintKey, token |-> tokenAcct,
                 writerHeadPda |-> getWriterHeadPda(writerKey, mintKey), holderKey |-> c]]

\* The accounts of each instruction in the interface description.
Described ==
  LET registry == {"writerProgram", "writerMetadataPda", "solstoryPda"}
      head == {"writerProgram", "tokenMint", "writerHeadPda"}
      metaplex == {"metaplexMetadataPda"}
      creator == {"creatorProgram"}
  IN [createWriterMetadata |-> registry,
      deleteWriterMetadata |-> registry,
      updateWriterMetadata |-> {"writerProgram", "tokenMint", "writerMetadataPda"} \cup metaplex,
      setExtendedMetadata |-> {"writerProgram", "extendedMetadataPda"},
      createWriterHeadWriter |-> head \cup metaplex,
      createWriterHeadCreator |-> head \cup metaplex \cup creator,
      authorizeWriter |-> head \cup metaplex \cup creator,
      deauthorizeWriter |-> head \cup metaplex \cup creator,
      updateVisibilityIndex |-> head \cup {"token", "holderKey"}]

\* Anchor rejects a call of an instruction it finds no description of, and one
\* that passes too few accounts; what is passed in excess it leaves out.
Built(r) == r.rpc \in DOMAIN Described /\ Described[r.rpc] \subseteq DOMAIN r.accounts

\* What the program demands of the accounts whatever the ledger holds: their
\* seeds, and where a head is created, the account of the fee.
Demanded(r) ==
  LET a == r.accounts  has == Described[r.rpc]
  IN /\ "solstoryPda" \in has => a.solstoryPda = <<"solstory_pda">>
     /\ "writerMetadataPda" \in has => a.writerMetadataPda = <<"solstory", a.writerProgram>>
     /\ "extendedMetadataPda" \in has =>
          a.extendedMetadataPda = <<"solstory", "extended", a.writerProgram>>
     /\ "writerHeadPda" \in has =>
          a.writerHeadPda = <<"solstory", a.tokenMint, a.writerProgram>>
     /\ r.rpc \in {"createWriterHeadWriter", "createWriterHeadCreator"} =>
          "solstoryFeeDestination" \in has

Accepted_Described(r) == Built(r)
Accepted(r) == Built(r) /\ Demanded(r)

VARIABLES
  pc,       \* by client: where its call is, or how its last one ended
  request,  \* by client: the request of its last call, if it was sent and not given up
  late,     \* by client: the requests whose transactions it no longer awaits
  told,     \* history: by writer, what the calls that resolved made of its metadata
  steady    \* history: by client, whether since its call began nothing late has
            \* landed, and it has been the holder, if it acts as one

api == <<pc, request, late, told, steady>>
apiVars == <<vars, api>>

NoRequest == [rpc |-> "none"]
Busy(c) == pc[c] \in {"lookup", "sent", "landed", "failed"}
TokenAccounts(m) == {t \in token_accounts : t[2] = m}

\* For the history steady, nothing the code checks: a holder owns the only token
\* account of the mint of a story that has a head.
IsHolder(c, r) ==
  r.rpc = "updateVisibilityIndex" =>
    /\ TokenAccounts(r.accounts.tokenMint) = {<<c, r.accounts.tokenMint>>}
    /\ Exists(writer_head[r.accounts.tokenMint, r.accounts.writerProgram])

ApiInit ==
  /\ Init
  /\ pc = [c \in Clients |-> "idle"]
  /\ request = [c \in Clients |-> NoRequest]
  /\ late = [c \in Clients |-> {}]
  /\ told = [c \in Clients |-> NoAccount]
  /\ steady = [c \in Clients |-> FALSE]

\* A method is called, up to the await of the lookup or of the transaction.
Call(c, r) ==
  /\ ~Busy(c)
  /\ request' = [request EXCEPT ![c] = IF Accepted(r) THEN r ELSE NoRequest]
  /\ pc' = [pc EXCEPT ![c] = IF ~Accepted(r) THEN "rejected"
                             ELSE IF r.rpc = "updateVisibilityIndex" /\ r.tokenAcct = Undefined
                             THEN "lookup" ELSE "sent"]
  /\ steady' = [steady EXCEPT ![c] = Accepted(r) /\ IsHolder(c, r)]
  /\ UNCHANGED <<vars, late, told>>

WriterCall(w) ==
  \/ \E data \in Contents :
       Call(w, createWriterMetadata(w, data)) \/ Call(w, updateWriterMetadata(w, data))
  \/ Call(w, deleteWriterMetadata(w))
  \/ \E len \in JsonLengths : Call(w, setExtendedMetadata(w, len))
  \/ \E m \in Mints : Call(w, createWriterHead(w, m))

CreatorCall(c) ==
  \E m \in Mints, w \in Writers :
    \/ Call(c, createWriterHeadCreator(c, m, w))
    \/ Call(c, authorizeWriterHead(c, m, w))
    \/ Call(c, deauthorizeWriterHead(c, m, w))

HolderCall(h) ==
  \E w \in Writers, m \in Mints, index \in VisibilityIndexes,
     tokenAcct \in (Holders \X Mints) \cup {Undefined} :
    Call(h, updateVisibility(h, w, m, index, tokenAcct))

\* getTokenLargestAccounts answers with accounts of the mint, the largest first.
\* Amounts are left out, so that may be any; if there is none, the call throws.
Candidates_Any(r) == token_accounts
Candidates(r) == TokenAccounts(r.accounts.tokenMint)

Lookup(c) ==
  /\ pc[c] = "lookup"
  /\ \E t \in Candidates(request[c]) :
       /\ request' = [request EXCEPT ![c].accounts.token = t]
       /\ pc' = [pc EXCEPT ![c] = "sent"]
  /\ UNCHANGED <<vars, late, told, steady>>

LookupFindsNone(c) ==
  /\ pc[c] = "lookup" /\ Candidates(request[c]) = {}
  /\ pc' = [pc EXCEPT ![c] = "rejected"]
  /\ UNCHANGED <<vars, request, late, told, steady>>

\* The promise is rejected with an error that tells nothing of the transaction.
GiveUp(c) ==
  /\ pc' = [pc EXCEPT ![c] = "unknown"]
  /\ request' = [request EXCEPT ![c] = NoRequest]
  /\ steady' = [steady EXCEPT ![c] = FALSE]

LookupFails(c) ==
  /\ pc[c] = "lookup"
  /\ GiveUp(c)
  /\ UNCHANGED <<vars, late, told>>

\* The transaction of a request that was accepted is executed.
Execute(c, r) ==
  \/ r.rpc = "createWriterMetadata" /\ create_writer_metadata(c, r.data)
  \/ r.rpc = "deleteWriterMetadata" /\ delete_writer_metadata(c)
  \/ /\ r.rpc = "updateVisibilityIndex"
     /\ update_visibility_index(r.accounts.tokenMint, r.accounts.writerProgram, c,
                                r.accounts.token[1], r.accounts.token[2], r.number)

Land(c) ==
  /\ pc[c] = "sent"
  /\ Execute(c, request[c])
  /\ pc' = [pc EXCEPT ![c] = IF receipt' = "ok" THEN "landed" ELSE "failed"]
  /\ UNCHANGED <<request, late, told, steady>>

\* What a resolved call tells its caller of its metadata.
Told(r, before) ==
  CASE r.rpc = "createWriterMetadata" -> r.data
    [] r.rpc = "deleteWriterMetadata" -> NoAccount
    [] OTHER -> before

\* The confirmation arrives; with an error in it, the promise is rejected.
Outcome_Executed(c) == "resolved"
Outcome(c) == IF pc[c] = "landed" THEN "resolved" ELSE "rejected"

Confirm(c) ==
  /\ pc[c] \in {"landed", "failed"}
  /\ pc' = [pc EXCEPT ![c] = Outcome(c)]
  /\ told' = [told EXCEPT ![c] =
       IF Outcome(c) # "resolved" THEN @
       ELSE IF steady[c] THEN Told(request[c], @) ELSE Undefined]
  /\ UNCHANGED <<vars, request, late, steady>>

\* It does not, or the node's answer is lost: the promise is rejected, and the
\* transaction may have been executed, or may be yet.
Timeout(c) ==
  /\ pc[c] \in {"sent", "landed", "failed"}
  /\ GiveUp(c)
  /\ late' = [late EXCEPT ![c] = IF pc[c] = "sent" THEN @ \cup {request[c]} ELSE @]
  /\ Cardinality(late'[c]) <= MAX_LATE
  /\ told' = [told EXCEPT ![c] = Undefined]
  /\ UNCHANGED vars

LandLate(c, r) ==
  /\ Execute(c, r)
  /\ late' = [late EXCEPT ![c] = @ \ {r}]
  /\ told' = [told EXCEPT ![c] = IF receipt' = "ok" THEN Undefined ELSE @]
  /\ steady' = [steady EXCEPT ![c] = FALSE]
  /\ UNCHANGED <<pc, request>>

\* Its blockhash is too old for it to be executed any more.
Expire(c, r) ==
  /\ late' = [late EXCEPT ![c] = @ \ {r}]
  /\ UNCHANGED <<vars, pc, request, told, steady>>

\* The others send instructions as they like.
Direct ==
  /\ Instructions(Writers \ Clients, Creators \ Clients, Holders \ Clients)
  /\ UNCHANGED api

Surroundings ==
  /\ Environment
  /\ UNCHANGED <<pc, request, late, told>>
  /\ steady' = [c \in Clients |-> steady[c] /\ IsHolder(c, request[c])']

ApiNext ==
  \/ \E c \in Clients :
       \/ c \in Writers /\ WriterCall(c)
       \/ c \in Creators /\ CreatorCall(c)
       \/ c \in Holders /\ HolderCall(c)
       \/ Lookup(c) \/ LookupFindsNone(c) \/ LookupFails(c)
       \/ Land(c) \/ Confirm(c) \/ Timeout(c)
       \/ \E r \in late[c] : LandLate(c, r) \/ Expire(c, r)
  \/ Direct
  \/ Surroundings

ApiSpec == ApiInit /\ [][ApiNext]_apiVars

(***************************************************************************)
(* Properties.                                                             *)
(***************************************************************************)
\* A request that reached the program, or may yet.
WriterRequest(c, r) ==
  c \in Writers /\ (r = deleteWriterMetadata(c) \/ \E data \in Contents : r = createWriterMetadata(c, data))

HolderRequest(c, r) ==
  /\ c \in Holders
  /\ \E w \in Writers, m \in Mints, index \in VisibilityIndexes, t \in Holders \X Mints :
       \/ r = updateVisibility(c, w, m, index, t)
       \/ r = [updateVisibility(c, w, m, index, Undefined) EXCEPT !.accounts.token = t]

SentRequest(c, r) == WriterRequest(c, r) \/ HolderRequest(c, r)

LookupRequest(c, r) ==
  /\ c \in Holders
  /\ \E w \in Writers, m \in Mints, index \in VisibilityIndexes :
       r = updateVisibility(c, w, m, index, Undefined)

\* The state of the calls.  Of the nine methods only createWriterMetadata,
\* deleteWriterMetadata and updateVisibility ever make a transaction: the other
\* six pass accounts, or name instructions, that the description or the program
\* of this version does not take (writer/index.ts:92-152, creator/index.ts).
ApiTypeOK ==
  /\ pc \in [Clients -> {"idle", "lookup", "sent", "landed", "failed",
                        "resolved", "rejected", "unknown"}]
  /\ DOMAIN request = Clients /\ DOMAIN late = Clients
  /\ told \in [Clients -> Contents \cup {NoAccount, Undefined}]
  /\ steady \in [Clients -> BOOLEAN]
  /\ \A c \in Clients :
       /\ \A r \in late[c] : SentRequest(c, r)
       /\ CASE pc[c] = "lookup" -> LookupRequest(c, request[c])
            [] pc[c] \in {"sent", "landed", "failed", "resolved"} -> SentRequest(c, request[c])
            [] OTHER -> request[c] = NoRequest \/ SentRequest(c, request[c]) \/ LookupRequest(c, request[c])

\* What the resolved calls of a client tell of its metadata stands, whatever the
\* other writers and creators do, and although calls that failed came between:
\* until its own next call lands, or one it had given up (writer/index.ts:50, 75).
OwnMetadataStands ==
  \A c \in Clients \cap Writers :
    told[c] # Undefined /\ pc[c] # "landed" =>
      IF told[c] = NoAccount THEN ~Exists(writer_metadata[c])
      ELSE Exists(writer_metadata[c]) /\ writer_metadata[c].data = told[c]

\* The only owner of an account of the mint is never refused, although its token
\* account is looked up first and used after an await (holder/index.ts:60), and
\* the visibility it set is not changed by anybody else.
HolderObeyed ==
  \A c \in Clients : LET r == request[c] IN
    /\ steady[c] /\ r.rpc = "updateVisibilityIndex"
    /\ r.tokenAcct \in {Undefined, <<c, r.accounts.tokenMint>>}
    => /\ pc[c] \notin {"failed", "rejected"}
       /\ pc[c] = "resolved" =>
            writer_head[r.accounts.tokenMint, r.accounts.writerProgram].visibility_index = r.number
=============================================================================
