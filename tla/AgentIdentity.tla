----------------------------- MODULE AgentIdentity ----------------------------
(***************************************************************************)
(* The identity document of an agent: made for the account of the wallet,  *)
(* saved under that account, signed by the account the wallet is at when   *)
(* its user signs, or by nobody where no callback for signatures is        *)
(* configured.  The account can change under a document, and account and   *)
(* document while a signature is awaited.  The same operations serve a     *)
(* MonmouthWallet here and a chain adapter in AgentIdentityManager, which  *)
(* give them the account.                                                  *)
(*                                                                         *)
(* What a document says is its version; a DID is the account it encodes.   *)
(***************************************************************************)
EXTENDS Naturals

CONSTANTS
  Controllers,
  NoAddress,
  MaxVersion     \* bound on updates of a document

ASSUME IdentityAssumption == NoAddress \notin Controllers /\ MaxVersion \in Nat

VARIABLES
  connectedAddress, \* of the wallet
  hasCallback,      \* signTypedData is set, as it is not by default
  document,
  documents,        \* localStorage: account -> what is saved under it
  signing,          \* the signature that is awaited
  signed,           \* the signed identity handed out in the last step
  unswitched        \* history: the account is the one the document was adopted for

identityWallet == <<connectedAddress, hasCallback>>
identityVars == <<document, documents, signing, signed, unswitched>>

NoDocument == [version |-> MaxVersion + 1]
Document == [id: Controllers, controller: Controllers, version: 0 .. MaxVersion]
NotSigned == [signer |-> NoAddress]
Signers == Controllers \cup {NoAddress}
\* A stub has no signer, and a signature has none yet that nobody has given.
Signature == [over: Document, signer: Signers, ours: BOOLEAN, stub: BOOLEAN]

IdentityTypeOK ==
  /\ connectedAddress \in Signers /\ hasCallback \in BOOLEAN
  /\ document \in Document \cup {NoDocument}
  /\ documents \in [Controllers -> Document \cup {NoDocument}]
  /\ signing \in Signature \cup {NotSigned}
  /\ signed \in [over: Document, signer: Signers, ours: BOOLEAN, stub: BOOLEAN, document: Document] \cup {NotSigned}
  /\ unswitched \in BOOLEAN

IdentityInit ==
  /\ connectedAddress = NoAddress /\ hasCallback \in BOOLEAN
  /\ document = NoDocument
  /\ documents = [a \in Controllers |-> NoDocument]
  /\ signing = NotSigned /\ signed = NotSigned
  /\ unswitched = TRUE

-----------------------------------------------------------------------------
(* The operations, for the account or the signer at hand *)

SaveKey(doc, address) == doc.controller

\* persistIdentity: localStorage may refuse.
PersistIdentity(address) ==
  \/ documents' = [documents EXCEPT ![SaveKey(document', address)] = document']
  \/ UNCHANGED documents

\* generateDID, and what initialize builds around it.
NewDocument(address) == [id |-> address, controller |-> address, version |-> 0]

\* Mutant: any document will do.
HasDocument(address) == document # NoDocument

BelongsTo(address) == document # NoDocument /\ document.controller = address

\* What is saved is not looked at.
InitializeIdentity(address) ==
  /\ address # NoAddress
  /\ IF BelongsTo(address) THEN UNCHANGED <<document, documents>>
     ELSE document' = NewDocument(address) /\ PersistIdentity(address)
  /\ unswitched' = TRUE
  /\ signed' = NotSigned /\ UNCHANGED signing

\* updateCapabilities, updateMetadata.
Update(address) ==
  /\ document # NoDocument /\ document.version < MaxVersion
  /\ document' = [document EXCEPT !.version = @ + 1]
  /\ PersistIdentity(address)
  /\ signed' = NotSigned /\ UNCHANGED <<signing, unswitched>>

\* A stub is a hash of the document: no wallet is asked, and none need be there.
SignIdentity(stub) ==
  /\ document # NoDocument /\ signing = NotSigned
  /\ signing' = [over |-> document, signer |-> NoAddress, ours |-> unswitched, stub |-> stub]
  /\ signed' = NotSigned /\ UNCHANGED <<document, documents, unswitched>>

Unsigned == signing # NotSigned /\ ~signing.stub /\ signing.signer = NoAddress

\* The request names no account: the user signs with the one the wallet is at.
WalletSignsIdentity(account) ==
  /\ Unsigned /\ account # NoAddress
  /\ signing' = [signing EXCEPT !.signer = account]
  /\ signed' = NotSigned /\ UNCHANGED <<document, documents, unswitched>>

\* The signature is there; the document is read only now.
SignatureArrives ==
  /\ signing # NotSigned /\ ~Unsigned
  /\ signing' = NotSigned
  /\ signed' = IF document = NoDocument THEN NotSigned
               ELSE [over |-> signing.over, signer |-> signing.signer, ours |-> signing.ours,
                     stub |-> signing.stub, document |-> document]
  /\ UNCHANGED <<document, documents, unswitched>>

SignatureRefused ==
  /\ Unsigned
  /\ signing' = NotSigned
  /\ signed' = NotSigned /\ UNCHANGED <<document, documents, unswitched>>

ClearIdentity ==
  /\ document # NoDocument
  /\ documents' = [documents EXCEPT ![document.controller] = NoDocument]
  /\ document' = NoDocument
  /\ signed' = NotSigned /\ UNCHANGED <<signing, unswitched>>

\* The constructor, in a page that is loaded again: only here is a saved document
\* restored, and only if the wallet is connected by then.
NewManager(address) ==
  /\ document' = IF address = NoAddress THEN NoDocument ELSE documents[address]
  /\ signing' = NotSigned
  /\ unswitched' = TRUE
  /\ signed' = NotSigned /\ UNCHANGED documents

\* What the DID encodes is the address of the controller.
MatchesDID(doc) == doc.id = doc.controller

\* verifyIdentity of a signature less than a day old, which it does not check
\* against the document.
VerifyIdentity(result) == result # NotSigned /\ MatchesDID(result.document)

\* A signature that was not given yet will be given by the new account.
AccountChanges(same) ==
  /\ unswitched' = (unswitched /\ same)
  /\ signing' = IF Unsigned THEN [signing EXCEPT !.ours = @ /\ same] ELSE signing
  /\ signed' = NotSigned /\ UNCHANGED <<document, documents>>

-----------------------------------------------------------------------------
(* With a MonmouthWallet *)

ConnectIdentityWallet ==
  /\ connectedAddress' \in Signers \ {connectedAddress}
  /\ AccountChanges(FALSE)
  /\ UNCHANGED hasCallback

SetSignTypedData ==
  /\ hasCallback' = TRUE
  /\ signed' = NotSigned
  /\ UNCHANGED <<connectedAddress, document, documents, signing, unswitched>>

\* The new page configures a callback or does not.
NewPage == NewManager(connectedAddress) /\ hasCallback' \in BOOLEAN /\ UNCHANGED connectedAddress

\* The application tells the SDK at once where the wallet is.
IdentityStep ==
  \/ ConnectIdentityWallet \/ SetSignTypedData \/ NewPage
  \/ /\ UNCHANGED identityWallet
     /\ \/ InitializeIdentity(connectedAddress) \/ Update(connectedAddress)
        \/ SignIdentity(~hasCallback) \/ WalletSignsIdentity(connectedAddress)
        \/ SignatureArrives \/ SignatureRefused \/ ClearIdentity

IdentitySpec == IdentityInit /\ [][IdentityStep]_<<identityWallet, identityVars>>

-----------------------------------------------------------------------------
(* Properties *)

\* What is saved under an account is a document of that account, whatever was
\* connected when it was saved: a page that starts with the account adopts it.
SavedUnderController ==
  \A a \in Controllers : documents[a] # NoDocument => documents[a].controller = a

\* A signed identity that verifyIdentity accepts and a wallet signed was signed by its
\* controller, and over what it shows, unless the account was switched between the
\* document's adoption and the signing or the document was changed while the signature
\* was awaited.
AcceptedIsAttested ==
  VerifyIdentity(signed) /\ ~signed.stub /\ signed.ours /\ signed.document = signed.over =>
    signed.signer = signed.document.controller

\* wallet-sdk/src/identity/AgentIdentity.ts:353 says of verifyIdentity: "Verify a signed
\* identity".  What it accepts has been signed by somebody.
AcceptedIsSigned == VerifyIdentity(signed) => signed.signer # NoAddress

\* wallet-sdk/src/identity/AgentIdentity.ts:168 says of initialize: "Initialize or
\* restore identity".
InitializeRestores ==
  [][\A a \in Controllers :
       documents[a] # NoDocument /\ documents'[a] # NoDocument => documents'[a].version >= documents[a].version]_identityVars
=============================================================================
