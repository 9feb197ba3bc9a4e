---------------------------- MODULE CloudAdapters ----------------------------
(***************************************************************************)
(* A process and its cloud adapters: pkg/bootstrap/src/cloud-adapters.ts   *)
(* chooses one provider for the KMS and the object store, and the process  *)
(* calls both.  The stub KMS itself is in KmsKeys.                         *)
(***************************************************************************)
EXTENDS KmsAdapters

cloudVars == <<provider, storeVars, kmsVars>>

Clouds == {"aws", "azure", "gcp", "stub"}

\* getCloudConfig: the stub is taken without CLOUD_PROVIDER, and also for a
\* value that is none of the known ones; in production it is refused only if
\* it was named, or nothing was.
Chosen(cloud, production) ==
    IF cloud \in {"stub", "unset"} /\ production THEN {}
    ELSE {IF cloud \in Clouds THEN cloud ELSE "stub"}

CloudInit ==
    /\ provider \in UNION {Chosen(cloud, production) :
                           cloud \in Clouds \cup {"unset", "unknown"}, production \in BOOLEAN}
    /\ StoreInit
    /\ KmsInit

\* createObjectStoreAdapter: the process calls the provider's object store.
CallStore(c) ==
    /\ kpc[c] = "idle"
    /\ SignUrl(c) \/ \E o \in Writes \cup Reads : StoreCall(c, o)
    /\ UNCHANGED kmsVars

\* createKmsAdapter: the process calls the provider's KMS.
CallKms(c) ==
    /\ spc[c] = "idle" /\ provider # "stub"
    /\ \E o \in KeyOps, a \in Calls \cup {Null}, alias \in BOOLEAN : KmsCall(c, o, a, alias)
    /\ UNCHANGED storeVars

CloudNext ==
    \/ \E c \in Calls : \/ CallStore(c)
                        \/ CallKms(c)
                        \/ StoreStep(c) /\ UNCHANGED kmsVars
                        \/ KmsStep(c) /\ UNCHANGED storeVars
    \/ provider = "azure" /\ Rotate /\ UNCHANGED storeVars

CloudSpec == CloudInit /\ [][CloudNext]_cloudVars
=============================================================================
