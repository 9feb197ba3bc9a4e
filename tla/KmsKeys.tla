------------------------------- MODULE KmsKeys -------------------------------
(***************************************************************************)
(* The key service of the local stack.  A key is made at its first use:    *)
(* the handler looks in memory, then on disk, and else generates and       *)
(* writes it, suspended in readFile and writeFile while other calls run.   *)
(* writeFile truncates the file before it fills it, and the service may    *)
(* restart between any two steps.  Key material is named by the call that  *)
(* generated it.                                                           *)
(***************************************************************************)
EXTENDS Naturals

CONSTANTS
    Calls,       \* HTTP calls, each made once
    KeyIds,      \* key ids, each naming a KEK and a signing key
    Messages,    \* what may be signed
    MaxRestarts, \* bound: restarts of the service
    Empty,       \* content of a file that is truncated and not yet filled
    Null         \* no value

ASSUME KmsAssumption ==
    /\ Empty \notin Calls /\ Null \notin Calls /\ Null # Empty
    /\ MaxRestarts \in Nat

VARIABLES
    kekFile,      \* kek-<id>.bin: Null without a file, Empty, or a material
    pemFiles,     \* which of sig-<id>.pem ("priv") and sig-<id>.pub ("pub") exist;
                  \*   what they contain is never used
    keks,         \* map keks of the process, Null without an entry
    signingKeys,  \* map signingKeys of the process
    at,           \* at[c]: where call c is
    req,          \* req[c]: its request, Null before it arrives
    mat,          \* mat[c]: the material c generated, read or found
    answer,       \* answer[c]: the kind of its answer
    signatures,   \* history: all signatures answered
    dataKeys,     \* history: all data keys answered
    overlapped,   \* history: keys that two calls generated at the same time
    restarts      \* bound counter

kmsVars == <<kekFile, pemFiles, keks, signingKeys, at, req, mat,
             answer, signatures, dataKeys, overlapped, restarts>>
files   == <<kekFile, pemFiles>>
maps    == <<keks, signingKeys>>
issued  == <<signatures, dataKeys>>

Signatures == [key : KeyIds, by : Calls, msg : Messages]
DataKeys   == [key : KeyIds, by : Calls]

\* The routes that need a KEK, and those that need a signing key.
KekOps  == {"generate", "decrypt"}
PairOps == {"sign", "verify", "publicKey"}

\* The fields that a route does not read hold Null.
SignRequest(k, m)      == [op |-> "sign", key |-> k, msg |-> m, arg |-> Null]
VerifyRequest(k, m, s) == [op |-> "verify", key |-> k, msg |-> m, arg |-> s]
PublicKeyRequest(k)    == [op |-> "publicKey", key |-> k, msg |-> Null, arg |-> Null]
GenerateRequest(k)     == [op |-> "generate", key |-> k, msg |-> Null, arg |-> Null]
DecryptRequest(d)      == [op |-> "decrypt", key |-> d.key, msg |-> Null, arg |-> d]

Requests ==
    [op : KekOps \cup PairOps, key : KeyIds,
     msg : Messages \cup {Null}, arg : Signatures \cup DataKeys \cup {Null}]

ASSUME NullAssumption == Null \notin Requests \cup Signatures

KekSteps  == {"openKek", "writeKek", "wroteKek"}
PairSteps == {"writePriv", "writePub", "wrotePub"}

KmsTypeOK ==
    /\ kekFile  \in [KeyIds -> Calls \cup {Null, Empty}]
    /\ pemFiles \in [KeyIds -> SUBSET {"priv", "pub"}]
    /\ keks     \in [KeyIds -> Calls \cup {Null, Empty}]
    /\ signingKeys \in [KeyIds -> Calls \cup {Null}]
    /\ at     \in [Calls -> KekSteps \cup PairSteps \cup
                   {"idle", "reading", "read", "unreadable", "ready", "done"}]
    /\ req    \in [Calls -> Requests \cup {Null}]
    /\ mat    \in [Calls -> Calls \cup {Null, Empty}]
    /\ answer \in [Calls -> {"none", "signed", "valid", "invalid", "published",
                             "generated", "decrypted", "error"}]
    /\ signatures \subseteq Signatures
    /\ dataKeys   \subseteq DataKeys
    /\ overlapped \subseteq {"kek", "pair"} \X KeyIds
    /\ restarts \in 0 .. MaxRestarts

KmsInit ==
    /\ kekFile     = [k \in KeyIds |-> Null]
    /\ pemFiles    = [k \in KeyIds |-> {}]
    /\ keks        = [k \in KeyIds |-> Null]
    /\ signingKeys = [k \in KeyIds |-> Null]
    /\ at          = [c \in Calls |-> "idle"]
    /\ req         = [c \in Calls |-> Null]
    /\ mat         = [c \in Calls |-> Null]
    /\ answer      = [c \in Calls |-> "none"]
    /\ signatures = {} /\ dataKeys = {} /\ overlapped = {}
    /\ restarts = 0

-----------------------------------------------------------------------------
(***************************************************************************)
(* loadOrCreateKek and loadOrCreateSigningKey up to their first await.     *)
(***************************************************************************)
GoTo(c, l) == at' = [at EXCEPT ![c] = l]

Hold(c, m) == mat' = [mat EXCEPT ![c] = m]

\* History: another call is generating the same key.
NoteOverlap(kind, k, steps) ==
    overlapped' = IF \E d \in Calls : at[d] \in steps /\ req[d].key = k
                  THEN overlapped \cup {<<kind, k>>} ELSE overlapped

\* Mutation of LoadOrCreateKek: a new key enters the map before it is written.
LoadOrCreateKekEarly(c, k) ==
    \/ /\ keks[k] # Null
       /\ GoTo(c, "ready") /\ Hold(c, keks[k])
       /\ UNCHANGED <<overlapped, keks>>
    \/ /\ keks[k] = Null /\ kekFile[k] # Null
       /\ GoTo(c, "reading")
       /\ UNCHANGED <<mat, overlapped, keks>>
    \/ /\ keks[k] = Null /\ kekFile[k] = Null
       /\ GoTo(c, "openKek") /\ Hold(c, c)
       /\ NoteOverlap("kek", k, KekSteps)
       /\ keks' = [keks EXCEPT ![k] = c]

LoadOrCreateKek(c, k) ==
    \/ /\ keks[k] # Null
       /\ GoTo(c, "ready") /\ Hold(c, keks[k])
       /\ UNCHANGED <<overlapped, keks>>
    \/ /\ keks[k] = Null /\ kekFile[k] # Null
       /\ GoTo(c, "reading")
       /\ UNCHANGED <<mat, overlapped, keks>>
    \/ /\ keks[k] = Null /\ kekFile[k] = Null
       /\ GoTo(c, "openKek") /\ Hold(c, c)
       /\ NoteOverlap("kek", k, KekSteps)
       /\ UNCHANGED keks

\* Mutation of LoadOrCreateSigningKey: the map is not consulted.
LoadOrCreateSigningKeyAnew(c, k) ==
    /\ GoTo(c, "writePriv") /\ Hold(c, c)
    /\ NoteOverlap("pair", k, PairSteps)

\* Two files that exist are never loaded: the public key is read with
\* createPrivateKey, which throws.
LoadOrCreateSigningKey(c, k) ==
    \/ /\ signingKeys[k] # Null
       /\ GoTo(c, "ready") /\ Hold(c, signingKeys[k])
       /\ UNCHANGED overlapped
    \/ /\ signingKeys[k] = Null
       /\ pemFiles[k] = {"priv", "pub"}
       /\ GoTo(c, "unreadable")
       /\ UNCHANGED <<mat, overlapped>>
    \/ /\ signingKeys[k] = Null
       /\ pemFiles[k] # {"priv", "pub"}
       /\ GoTo(c, "writePriv") /\ Hold(c, c)
       /\ NoteOverlap("pair", k, PairSteps)

\* A route receives its request.
Call(c, r) ==
    /\ at[c] = "idle"
    /\ req' = [req EXCEPT ![c] = r]
    /\ \/ r.op \in KekOps /\ LoadOrCreateKek(c, r.key)
       \/ /\ r.op \in PairOps /\ LoadOrCreateSigningKey(c, r.key)
          /\ UNCHANGED keks
    /\ UNCHANGED <<files, signingKeys, answer, issued, restarts>>

-----------------------------------------------------------------------------
(***************************************************************************)
(* The disk, on the thread pool.                                           *)
(***************************************************************************)
Put(file, c, content) == [file EXCEPT ![req[c].key] = content]

OpenFile(c) ==
    /\ at[c] = "openKek" /\ GoTo(c, "writeKek")
    /\ kekFile' = Put(kekFile, c, Empty)
    /\ UNCHANGED <<pemFiles, maps, req, mat, answer, issued, overlapped, restarts>>

WriteFile(c) ==
    /\ at[c] = "writeKek" /\ GoTo(c, "wroteKek")
    /\ kekFile' = Put(kekFile, c, mat[c])
    /\ UNCHANGED <<pemFiles, maps, req, mat, answer, issued, overlapped, restarts>>

\* A PEM file exists; as its content is never used, opening it and filling it
\* are one step.
WritePem(c) ==
    /\ \/ /\ at[c] = "writePriv" /\ GoTo(c, "writePub")
          /\ pemFiles' = Put(pemFiles, c, pemFiles[req[c].key] \cup {"priv"})
       \/ /\ at[c] = "writePub" /\ GoTo(c, "wrotePub")
          /\ pemFiles' = Put(pemFiles, c, pemFiles[req[c].key] \cup {"pub"})
    /\ UNCHANGED <<kekFile, maps, req, mat, answer, issued, overlapped, restarts>>

ReadFile(c) ==
    /\ at[c] = "reading"
    /\ GoTo(c, "read") /\ Hold(c, kekFile[req[c].key])
    /\ UNCHANGED <<files, maps, req, answer, issued, overlapped, restarts>>

-----------------------------------------------------------------------------
(***************************************************************************)
(* The event loop again.                                                   *)
(***************************************************************************)
\* keks.set and signingKeys.set after the last await.
Remember(c) ==
    /\ \/ /\ at[c] \in {"wroteKek", "read"}
          /\ keks' = Put(keks, c, mat[c]) /\ UNCHANGED signingKeys
       \/ /\ at[c] = "wrotePub"
          /\ signingKeys' = Put(signingKeys, c, mat[c]) /\ UNCHANGED keks
    /\ GoTo(c, "ready")
    /\ UNCHANGED <<files, req, mat, answer, issued, overlapped, restarts>>

SignatureOf(c) == [key |-> req[c].key, by |-> mat[c], msg |-> req[c].msg]
DataKeyOf(c)   == [key |-> req[c].key, by |-> mat[c]]

Answers(c, a) == GoTo(c, "done") /\ answer' = [answer EXCEPT ![c] = a]

\* The locals of calls that end are gone, but for a signing request and its
\* answer, which are read together.
Forget(S) ==
    /\ req' = [c \in Calls |-> IF c \in S THEN Null ELSE req[c]]
    /\ mat' = [c \in Calls |-> IF c \in S THEN Null ELSE mat[c]]

Ends(c, a) == Answers(c, a) /\ Forget({c})
Stays(c, a) == Answers(c, a) /\ UNCHANGED <<req, mat>>

Sign(c) ==
    /\ req[c].op = "sign" /\ Stays(c, "signed")
    /\ signatures' = signatures \cup {SignatureOf(c)} /\ UNCHANGED dataKeys

\* Mutation of Verify: only the key is looked at, not the message.
VerifyKeyOnly(c) ==
    /\ req[c].op = "verify"
    /\ Stays(c, IF req[c].arg # Null /\ req[c].arg.by = mat[c]
                THEN "valid" ELSE "invalid")
    /\ UNCHANGED issued

Verify(c) ==
    /\ req[c].op = "verify"
    /\ Stays(c, IF /\ req[c].arg # Null
                   /\ req[c].arg.by = mat[c] /\ req[c].arg.msg = req[c].msg
                THEN "valid" ELSE "invalid")
    /\ UNCHANGED issued

PublicKey(c) ==
    req[c].op = "publicKey" /\ Ends(c, "published") /\ UNCHANGED issued

\* An empty key is refused by createCipheriv.
GenerateDek(c) ==
    /\ req[c].op = "generate"
    /\ \/ mat[c] = Empty /\ Ends(c, "error") /\ UNCHANGED dataKeys
       \/ /\ mat[c] # Empty /\ Ends(c, "generated")
          /\ dataKeys' = dataKeys \cup {DataKeyOf(c)}
    /\ UNCHANGED signatures

Decrypt(c) ==
    /\ req[c].op = "decrypt"
    /\ Ends(c, IF req[c].arg.by = mat[c] THEN "decrypted" ELSE "error")
    /\ UNCHANGED issued

Reply(c) ==
    /\ \/ at[c] = "ready" /\ (Sign(c) \/ Verify(c) \/ PublicKey(c) \/ GenerateDek(c)
                              \/ Decrypt(c))
       \/ at[c] = "unreadable" /\ Ends(c, "error") /\ UNCHANGED issued
    /\ UNCHANGED <<files, maps, overlapped, restarts>>

\* The process dies with its maps and its calls; the files stay as they are.
Restart ==
    /\ restarts < MaxRestarts
    /\ restarts' = restarts + 1
    /\ keks' = [k \in KeyIds |-> Null]
    /\ signingKeys' = [k \in KeyIds |-> Null]
    /\ at' = [c \in Calls |-> IF at[c] = "idle" THEN "idle" ELSE "done"]
    /\ answer' = [c \in Calls |-> IF at[c] \in {"idle", "done"}
                                  THEN answer[c] ELSE "error"]
    /\ Forget({c \in Calls : at[c] \notin {"idle", "done"}})
    /\ UNCHANGED <<files, issued, overlapped>>

KmsStep ==
    \/ \E c \in Calls : OpenFile(c) \/ WriteFile(c) \/ WritePem(c) \/ ReadFile(c)
                        \/ Remember(c) \/ Reply(c)
    \/ Restart

-----------------------------------------------------------------------------
(***************************************************************************)
(* The parts of the inductive invariant that are about keys alone.         *)
(***************************************************************************)
Busy == {c \in Calls : at[c] \notin {"idle", "done"}}

\* What a call holds at each step, and that a verdict is of a verification.
CallShape ==
    \A c \in Calls :
        /\ c \in Busy => req[c] \in Requests
        /\ at[c] \in KekSteps \cup {"reading", "read"} =>
              req[c].op \in KekOps
        /\ at[c] \in PairSteps => req[c].op \in PairOps
        /\ c \in Busy /\ req[c].op = "sign" => req[c].msg \in Messages
        /\ at[c] \in KekSteps \cup PairSteps => mat[c] = c
        /\ at[c] = "reading" => kekFile[req[c].key] # Null
        /\ at[c] \in {"read", "ready"} => mat[c] # Null
        /\ at[c] = "ready" /\ req[c].op \in PairOps => mat[c] # Empty
        /\ at[c] # "done" => answer[c] = "none"
        /\ req[c] \in Requests /\ req[c].op = "verify" =>
              req[c].arg \in signatures \cup {Null}
        /\ answer[c] \in {"valid", "invalid"} =>
              req[c] \in Requests /\ req[c].op = "verify"
        /\ answer[c] = "valid" =>
              req[c].arg \in signatures /\ req[c].arg.msg = req[c].msg

\* Whoever holds a KEK holds the one on disk, and the file of a KEK that is
\* being made has not been read by anyone.
KekShape ==
    \A k \in KeyIds : <<"kek", k>> \notin overlapped =>
        /\ keks[k] \in Calls => kekFile[k] = keks[k]
        /\ \A c \in Calls :
              /\ at[c] \in {"read", "ready"} /\ req[c].key = k
                 /\ req[c].op \in KekOps /\ mat[c] \in Calls
                 => kekFile[k] = mat[c]
              /\ at[c] = "openKek" /\ req[c].key = k => kekFile[k] = Null
              /\ at[c] = "writeKek" /\ req[c].key = k => kekFile[k] = Empty
              /\ at[c] = "wroteKek" /\ req[c].key = k => kekFile[k] = c
        /\ \A c, d \in Calls :
              /\ at[c] \in KekSteps /\ req[c].key = k
              /\ at[d] \in KekSteps /\ req[d].key = k
              => c = d

\* Signing key m of id k is, or has been, ready to sign or verify with.
PairUsed(k, m) ==
    \/ signingKeys[k] = m
    \/ \E c \in Calls : /\ at[c] = "ready" /\ mat[c] = m /\ req[c].key = k
                        /\ req[c].op \in PairOps
    \/ \E s \in signatures : s.key = k /\ s.by = m

PairMaker(k, c) == at[c] \in PairSteps /\ req[c].key = k

\* A pair is used only when both its files are there, which keeps others from
\* making another; so there is one of it, and none while it is being made.
PairShape ==
    \A k \in KeyIds :
        /\ \A m \in Calls : PairUsed(k, m) => pemFiles[k] = {"priv", "pub"}
        /\ \A c \in Calls : PairMaker(k, c) =>
              /\ at[c] = "writePub" => "priv" \in pemFiles[k]
              /\ at[c] = "wrotePub" => pemFiles[k] = {"priv", "pub"}
        /\ <<"pair", k>> \notin overlapped =>
              /\ \A m, n \in Calls : PairUsed(k, m) /\ PairUsed(k, n) => m = n
              /\ \A c, m \in Calls : PairMaker(k, c) => ~PairUsed(k, m)
              /\ \A c, d \in Calls : PairMaker(k, c) /\ PairMaker(k, d) => c = d
=============================================================================
