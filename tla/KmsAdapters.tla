----------------------------- MODULE KmsAdapters -----------------------------
(***************************************************************************)
(* The cloud KMS adapters (pkg/adapter/kms/src): AWS KMS, Azure Key Vault  *)
(* and Google Cloud KMS behind one interface.  A signature and a wrapped   *)
(* data key are identified with the call that made them.  Azure fetches    *)
(* the newest version of the key before it uses it, and the key may be     *)
(* rotated at any time; requests fail; a response may lack its field.      *)
(***************************************************************************)
EXTENDS ObjectStore, Naturals

CONSTANT MaxVersion  \* bound: the last version of the signing key

ASSUME VersionAssumption == MaxVersion \in Nat \ {0}

VARIABLES
    current, \* the newest version of the signing key in Key Vault
    kpc,     \* kpc[c]: the request call c awaits, or its result
    kop,     \* kop[c]: its operation
    arg,     \* arg[c]: the call whose signature or wrapped key it is given
    ver,     \* ver[c]: the key version that its request uses
    trouble  \* history: the calls with a failed request or an empty response

kmsVars == <<current, kpc, kop, arg, ver, trouble>>

KeyOps  == {"sign", "verify", "generate", "decrypt", "publicKeyPem"}
Results == {"signed", "true", "false", "wrapped", "unwrapped", "ciphertext", "pem", "failed"}
Aliased == {"generate", "decrypt"}  \* called with the key name 'encrypt'

KmsTypeOK ==
    /\ current \in 1 .. MaxVersion
    /\ kpc \in [Calls -> {"idle", "sent", "second"} \cup Results]
    /\ kop \in [Calls -> KeyOps \cup {Null}]
    /\ arg \in [Calls -> Calls \cup {Null}]
    /\ ver \in [Calls -> 0 .. MaxVersion]
    /\ trouble \subseteq Calls

KmsInit ==
    /\ current = 1
    /\ kpc = [c \in Calls |-> "idle"]
    /\ kop = [c \in Calls |-> Null]
    /\ arg = [c \in Calls |-> Null]
    /\ ver = [c \in Calls |-> 0]
    /\ trouble = {}

KmsGoTo(c, l) == kpc' = [kpc EXCEPT ![c] = l]
At(c, p, o)   == provider = p /\ kop[c] = o /\ kpc[c] = "sent"

\* What the call is given was made by the adapter.
Genuine(c) == arg[c] # Null
KmsRest    == <<provider, kop, arg>>

\* The outcomes of a request to decrypt: an empty wrapped key may be refused.
Decrypted(c) ==
    \/ Genuine(c) /\ KmsGoTo(c, "unwrapped")
    \/ (~Genuine(c) \/ arg[c] \in trouble) /\ KmsGoTo(c, "failed")

-----------------------------------------------------------------------------
\* A call is made with a signature (for verify) or a wrapped key (for decrypt)
\* of an earlier call, or with foreign bytes (Null).  The name 'encrypt' is
\* replaced by the configured key, except for AWS, which knows no such key.
KmsCall(c, o, a, alias) ==
    /\ kpc[c] = "idle"
    /\ a # Null => \/ o = "verify" /\ kpc[a] = "signed"
                   \/ o = "decrypt" /\ kpc[a] = "wrapped"
    /\ alias => o \in Aliased
    /\ kop' = [kop EXCEPT ![c] = o]
    /\ arg' = [arg EXCEPT ![c] = a]
    /\ KmsGoTo(c, IF alias /\ provider = "aws" THEN "failed" ELSE "sent")
    /\ UNCHANGED <<provider, current, ver, trouble>>

\* Key Vault makes a new version of the signing key.
Rotate ==
    /\ current < MaxVersion
    /\ current' = current + 1
    /\ UNCHANGED <<KmsRest, kpc, ver, trouble>>

\* AWS: one request.  An invalid signature is an exception or false.
AwsSend(c) ==
    /\ \/ At(c, "aws", "sign") /\ KmsGoTo(c, "signed")
       \/ At(c, "aws", "verify") /\ IF Genuine(c) THEN KmsGoTo(c, "true")
                                    ELSE KmsGoTo(c, "false") \/ KmsGoTo(c, "failed")
       \/ At(c, "aws", "generate") /\ KmsGoTo(c, "wrapped")
       \/ At(c, "aws", "decrypt") /\ Decrypted(c)
       \/ At(c, "aws", "publicKeyPem") /\ KmsGoTo(c, "pem")
    /\ ver' = [ver EXCEPT ![c] = 1]
    /\ UNCHANGED <<KmsRest, current, trouble>>

\* Azure: getKey returns the newest version.  generateDataKey then wraps by
\* itself, with a prefix that decryptDataKey never recognises, since it
\* compares other bytes: it returns the wrapped key as it is.
GetKey(c) ==
    /\ provider = "azure" /\ kpc[c] = "sent" /\ kop[c] # "publicKeyPem"
    /\ ver' = [ver EXCEPT ![c] = current]
    /\ KmsGoTo(c, CASE kop[c] \in {"sign", "verify"} -> "second"
                    [] kop[c] = "generate"           -> "wrapped"
                    [] kop[c] = "decrypt"            -> "ciphertext")
    /\ UNCHANGED <<KmsRest, current, trouble>>

\* Azure: the newest public key, unless it cannot be exported.
PublicKeyPem(c) ==
    /\ At(c, "azure", "publicKeyPem")
    /\ ver' = [ver EXCEPT ![c] = current]
    /\ KmsGoTo(c, "pem") \/ KmsGoTo(c, "failed")
    /\ UNCHANGED <<KmsRest, current, trouble>>

\* Azure: CryptographyClient signs or verifies with that version.  That a right
\* verdict reaches the caller is the most the code may do: verify takes
\* result.result.isValid, which is not there if the SDK answers a plain Boolean;
\* then EmptyResponse is the step it makes.
UseKey(c) ==
    /\ provider = "azure" /\ kpc[c] = "second"
    /\ KmsGoTo(c, IF kop[c] = "sign" THEN "signed"
                  ELSE IF Genuine(c) /\ arg[c] \notin trouble /\ ver[arg[c]] = ver[c]
                  THEN "true" ELSE "false")
    /\ UNCHANGED <<KmsRest, current, ver, trouble>>

\* Google: version 1, always.  verify asks for the decryption of the signature
\* with the signing key, which is refused, and answers false.  A data key is
\* drawn in a first request and wrapped in a second.
GcpSend(c) ==
    /\ \/ At(c, "gcp", "sign") /\ KmsGoTo(c, "signed")
       \/ At(c, "gcp", "verify") /\ KmsGoTo(c, "false")
       \/ At(c, "gcp", "generate") /\ KmsGoTo(c, "second")
       \/ At(c, "gcp", "decrypt") /\ Decrypted(c)
       \/ At(c, "gcp", "publicKeyPem") /\ KmsGoTo(c, "pem")
       \/ provider = "gcp" /\ kpc[c] = "second" /\ KmsGoTo(c, "wrapped")
    /\ ver' = [ver EXCEPT ![c] = 1]
    /\ UNCHANGED <<KmsRest, current, trouble>>

\* A response lacks its field.  AWS throws, or says false in verify; Azure and
\* Google go on with an empty signature, false, an empty wrapped key, a zero
\* key or an empty plaintext.
EmptyResponse(c) ==
    /\ kpc[c] = "second" \/ (kpc[c] = "sent" /\ provider \in {"aws", "gcp"})
    /\ trouble' = trouble \cup {c}
    /\ \/ kop[c] = "verify" /\ KmsGoTo(c, "false")
       \/ kop[c] # "verify" /\ provider = "aws" /\ KmsGoTo(c, "failed")
       \/ kop[c] = "publicKeyPem" /\ KmsGoTo(c, "failed")
       \/ /\ provider # "aws"
          /\ \/ kop[c] = "sign" /\ KmsGoTo(c, "signed")
             \/ kop[c] = "generate" /\ KmsGoTo(c, IF kpc[c] = "sent" THEN "second" ELSE "wrapped")
             \/ kop[c] = "decrypt" /\ KmsGoTo(c, "unwrapped")
    /\ UNCHANGED <<KmsRest, current, ver>>

\* Mutation of KmsFails: verify answers true when it cannot ask.
KmsFailsOpen(c) ==
    /\ kpc[c] \in {"sent", "second"}
    /\ KmsGoTo(c, IF kop[c] = "verify" /\ provider \in {"azure", "gcp"} THEN "true" ELSE "failed")
    /\ trouble' = trouble \cup {c}
    /\ UNCHANGED <<KmsRest, current, ver>>

\* A request fails: provider_error, but verify of Azure and Google says false.
KmsFails(c) ==
    /\ kpc[c] \in {"sent", "second"}
    /\ KmsGoTo(c, IF kop[c] = "verify" /\ provider \in {"azure", "gcp"} THEN "false" ELSE "failed")
    /\ trouble' = trouble \cup {c}
    /\ UNCHANGED <<KmsRest, current, ver>>

KmsStep(c) ==
    \/ AwsSend(c)
    \/ GetKey(c)
    \/ PublicKeyPem(c)
    \/ UseKey(c)
    \/ GcpSend(c)
    \/ EmptyResponse(c)
    \/ KmsFails(c)

-----------------------------------------------------------------------------
\* What verify says of a signature that the adapter made and of one it did
\* not: true only of its own, with the version that made it; and false of its
\* own only if a request failed, the signature came out empty, the key was
\* rotated between the two getKeys (Azure), or the adapter is Google's.
VerdictsExplained ==
    \A c \in Calls :
        /\ kpc[c] = "true" => Genuine(c) /\ ver[arg[c]] = ver[c]
        /\ kpc[c] = "false" /\ Genuine(c) =>
              \/ provider = "gcp" \/ c \in trouble \/ arg[c] \in trouble
              \/ provider = "azure" /\ ver[arg[c]] < ver[c]

-----------------------------------------------------------------------------
(***************************************************************************)
(* The inductive invariant behind the theorems of CloudAdaptersProofs.     *)
(***************************************************************************)
\* Only verify answers true or false, and what it is given was made by a call
\* that is over.  AWS signs with one version; Azure verifies with the version
\* that signed or a newer one.
VersionShape ==
    /\ \A c \in Calls :
          /\ kpc[c] # "idle" => kop[c] \in KeyOps
          /\ kpc[c] \in {"true", "false"} => kop[c] = "verify"
          /\ provider = "azure" /\ kpc[c] = "second" => kop[c] \in {"sign", "verify"}
          /\ ver[c] <= current
          /\ provider = "aws" /\ kpc[c] = "signed" => ver[c] = 1
    /\ \A c \in Calls : kop[c] = "verify" /\ Genuine(c) =>
          /\ kpc[arg[c]] = "signed"
          /\ provider = "azure" /\ kpc[c] = "second" => ver[arg[c]] <= ver[c]

KmsInv == KmsTypeOK /\ VersionShape /\ VerdictsExplained
=============================================================================
