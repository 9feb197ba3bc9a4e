-------------------------- MODULE CloudAdaptersProofs --------------------------
(***************************************************************************)
(* Proofs about CloudAdapters, for any number of calls and any number of   *)
(* key versions.  StoreInv and KmsInv are inductive, and no step disturbs  *)
(* both.  The argument for the store: a call that is over has no write to  *)
(* come, so a new content of the object is never one that the histories    *)
(* over and before[c] hold.  For the KMS: the version that a call used     *)
(* stays what it was when the call signed.                                 *)
(***************************************************************************)
EXTENDS CloudAdapters, TLAPS

LEMMA StoreStarts ==
  ASSUME provider \in Providers, StoreInit
  PROVE  StoreInv
  BY CallsAssumption
  DEF StoreInit, StoreInv, StoreTypeOK, OverShape, Over, SecondShape, SawShape,
      StoredIsAcknowledged, Ended

LEMMA StoreCallKeeps ==
  ASSUME StoreInv, NEW c \in Calls, NEW o \in Writes \cup Reads, StoreCall(c, o)
  PROVE  StoreInv'
  <1> USE DEF StoreCall, StoreGoTo, StoreInv
  <1>1. StoreTypeOK'
    BY CallsAssumption DEF StoreTypeOK, Over, Ended, Writes, Reads
  <1>2. Over \subseteq Over' /\ (object' = object \/ object' \notin Over)
    BY CallsAssumption DEF StoreTypeOK, Over, Ended
  <1>3. OverShape'
    BY <1>2 DEF StoreTypeOK, OverShape, Over, Ended
  <1>4. StoredIsAcknowledged'
    BY <1>2 DEF StoreTypeOK, OverShape, StoredIsAcknowledged, SecondShape
  <1>5. SecondShape'
    BY <1>2, <1>3 DEF StoreTypeOK, OverShape, SecondShape, Over, Ended
  <1>6. SawShape'
    BY <1>2, <1>3 DEF StoreTypeOK, OverShape, SawShape, SecondShape, StoredIsAcknowledged, Over, Ended
  <1> QED BY <1>1, <1>3, <1>4, <1>5, <1>6

LEMMA SignUrlKeeps ==
  ASSUME StoreInv, NEW c \in Calls, SignUrl(c)
  PROVE  StoreInv'
  <1> USE DEF SignUrl, History, StoreGoTo, StoreInv
  <1>1. StoreTypeOK'
    BY CallsAssumption DEF StoreTypeOK, Over, Ended, Writes, Reads
  <1>2. Over \subseteq Over' /\ (object' = object \/ object' \notin Over)
    BY CallsAssumption DEF StoreTypeOK, Over, Ended
  <1>3. OverShape'
    BY <1>2 DEF StoreTypeOK, OverShape, Over, Ended
  <1>4. StoredIsAcknowledged'
    BY <1>2 DEF StoreTypeOK, OverShape, StoredIsAcknowledged, SecondShape
  <1>5. SecondShape'
    BY <1>2, <1>3 DEF StoreTypeOK, OverShape, SecondShape, Over, Ended
  <1>6. SawShape'
    BY <1>2, <1>3 DEF StoreTypeOK, OverShape, SawShape, SecondShape, StoredIsAcknowledged, Over, Ended
  <1> QED BY <1>1, <1>3, <1>4, <1>5, <1>6

LEMMA PutKeeps ==
  ASSUME StoreInv, NEW c \in Calls, Put(c)
  PROVE  StoreInv'
  <1> USE DEF Put, See, Acknowledge, StoreGoTo, StoreInv
  <1>1. StoreTypeOK'
    BY CallsAssumption DEF StoreTypeOK, Over, Ended, Writes, Reads
  <1>2. c \notin Over /\ Over \subseteq Over' /\ (object' = object \/ object' \notin Over)
    BY CallsAssumption DEF StoreTypeOK, Over, Ended
  <1>3. over' \subseteq over \cup before[c] /\ UNCHANGED <<before, overAt>>
    OBVIOUS
  <1>4. OverShape'
    <2>1. over' \subseteq Over'
      BY <1>2, <1>3 DEF OverShape
    <2>2. over \subseteq over'
      OBVIOUS
    <2> QED BY <1>2, <1>3, <2>1, <2>2 DEF OverShape
  <1>5. StoredIsAcknowledged'
    BY <1>2, <1>3 DEF OverShape, StoredIsAcknowledged
  <1>6. SecondShape'
    <2> SUFFICES ASSUME NEW d \in Calls
                 PROVE  /\ spc'[d] \in {"idle", "sent"} => saw'[d] = {}
                        /\ spc'[d] = "second" =>
                              /\ op'[d] \in {"put", "badput"} => object' \notin before'[d]
                              /\ \A v \in saw'[d] \cap before'[d] : object' \in before'[d] => v = object'
      BY DEF SecondShape
    <2>1. object' = object \/ object' \notin before'[d]
      BY <1>2, <1>3 DEF OverShape
    <2> QED BY <1>2, <1>3, <2>1, c \notin before[c] DEF StoreTypeOK, SecondShape, OverShape
  <1>7. SawShape'
    <2> SUFFICES ASSUME NEW d \in Calls
                 PROVE  /\ saw'[d] \cap overAt'[d] = {}
                        /\ op'[d] \in {"put", "badput"} => saw'[d] \cap before'[d] = {}
                        /\ \A v, w \in saw'[d] \cap before'[d] : v = w
      BY DEF SawShape
    <2>1. c \notin before[c] /\ c \notin overAt[c]
      BY <1>2 DEF OverShape
    <2> QED BY <1>3, <2>1 DEF StoreTypeOK, SawShape
  <1> QED BY <1>1, <1>4, <1>5, <1>6, <1>7

LEMMA PutMetadataKeeps ==
  ASSUME StoreInv, NEW c \in Calls, PutMetadata(c)
  PROVE  StoreInv'
  <1> USE DEF PutMetadata, See, Acknowledge, StoreGoTo, StoreInv
  <1>1. StoreTypeOK'
    BY CallsAssumption DEF StoreTypeOK, Over, Ended, Writes, Reads
  <1>2. Over \subseteq Over' /\ (object' = object \/ object' \notin Over)
    BY CallsAssumption DEF StoreTypeOK, Over, Ended
  <1>3. OverShape'
    BY <1>2 DEF StoreTypeOK, OverShape, Over, Ended
  <1>4. StoredIsAcknowledged'
    BY <1>2 DEF StoreTypeOK, OverShape, StoredIsAcknowledged, SecondShape
  <1>5. SecondShape'
    BY <1>2, <1>3 DEF StoreTypeOK, OverShape, SecondShape, Over, Ended
  <1>6. SawShape'
    BY <1>2, <1>3 DEF StoreTypeOK, OverShape, SawShape, SecondShape, StoredIsAcknowledged, Over, Ended
  <1> QED BY <1>1, <1>3, <1>4, <1>5, <1>6

LEMMA ReadKeeps ==
  ASSUME StoreInv, NEW c \in Calls, Read(c)
  PROVE  StoreInv'
  <1> USE DEF Read, See, Miss, History, StoreGoTo, StoreInv
  <1>1. StoreTypeOK'
    BY CallsAssumption DEF StoreTypeOK, Over, Ended, Writes, Reads
  <1>2. Over \subseteq Over' /\ (object' = object \/ object' \notin Over)
    BY CallsAssumption DEF StoreTypeOK, Over, Ended
  <1>3. OverShape'
    BY <1>2 DEF StoreTypeOK, OverShape, Over, Ended
  <1>4. StoredIsAcknowledged'
    BY <1>2 DEF StoreTypeOK, OverShape, StoredIsAcknowledged, SecondShape
  <1>5. SecondShape'
    BY <1>2, <1>3 DEF StoreTypeOK, OverShape, SecondShape, Over, Ended
  <1>6. SawShape'
    BY <1>2, <1>3 DEF StoreTypeOK, OverShape, SawShape, SecondShape, StoredIsAcknowledged, Over, Ended
  <1> QED BY <1>1, <1>3, <1>4, <1>5, <1>6

LEMMA ReadMetadataKeeps ==
  ASSUME StoreInv, NEW c \in Calls, ReadMetadata(c)
  PROVE  StoreInv'
  <1> USE DEF ReadMetadata, See, Miss, History, StoreGoTo, StoreInv
  <1>1. StoreTypeOK'
    BY CallsAssumption DEF StoreTypeOK, Over, Ended, Writes, Reads
  <1>2. Over \subseteq Over' /\ (object' = object \/ object' \notin Over)
    BY CallsAssumption DEF StoreTypeOK, Over, Ended
  <1>3. OverShape'
    BY <1>2 DEF StoreTypeOK, OverShape, Over, Ended
  <1>4. StoredIsAcknowledged'
    BY <1>2 DEF StoreTypeOK, OverShape, StoredIsAcknowledged, SecondShape
  <1>5. SecondShape'
    BY <1>2, <1>3 DEF StoreTypeOK, OverShape, SecondShape, Over, Ended
  <1>6. SawShape'
    BY <1>2, <1>3 DEF StoreTypeOK, OverShape, SawShape, SecondShape, StoredIsAcknowledged, Over, Ended
  <1> QED BY <1>1, <1>3, <1>4, <1>5, <1>6

LEMMA HeadKeeps ==
  ASSUME StoreInv, NEW c \in Calls, Head(c)
  PROVE  StoreInv'
  <1> USE DEF Head, See, Miss, History, StoreGoTo, StoreInv
  <1>1. StoreTypeOK'
    BY CallsAssumption DEF StoreTypeOK, Over, Ended, Writes, Reads
  <1>2. Over \subseteq Over' /\ (object' = object \/ object' \notin Over)
    BY CallsAssumption DEF StoreTypeOK, Over, Ended
  <1>3. OverShape'
    BY <1>2 DEF StoreTypeOK, OverShape, Over, Ended
  <1>4. StoredIsAcknowledged'
    BY <1>2 DEF StoreTypeOK, OverShape, StoredIsAcknowledged, SecondShape
  <1>5. SecondShape'
    BY <1>2, <1>3 DEF StoreTypeOK, OverShape, SecondShape, Over, Ended
  <1>6. SawShape'
    BY <1>2, <1>3 DEF StoreTypeOK, OverShape, SawShape, SecondShape, StoredIsAcknowledged, Over, Ended
  <1> QED BY <1>1, <1>3, <1>4, <1>5, <1>6

LEMMA DeleteKeeps ==
  ASSUME StoreInv, NEW c \in Calls, Delete(c)
  PROVE  StoreInv'
  <1> USE DEF Delete, Acknowledge, StoreGoTo, StoreInv
  <1>1. StoreTypeOK'
    BY CallsAssumption DEF StoreTypeOK, Over, Ended, Writes, Reads
  <1>2. c \notin Over /\ Over \subseteq Over' /\ (object' = object \/ object' \notin Over)
    BY CallsAssumption DEF StoreTypeOK, Over, Ended
  <1>3. over' \subseteq over \cup before[c] /\ UNCHANGED <<before, overAt>>
    OBVIOUS
  <1>4. OverShape'
    <2>1. over' \subseteq Over'
      BY <1>2, <1>3 DEF OverShape
    <2>2. over \subseteq over'
      OBVIOUS
    <2> QED BY <1>2, <1>3, <2>1, <2>2 DEF OverShape
  <1>5. StoredIsAcknowledged'
    BY <1>2, <1>3 DEF OverShape, StoredIsAcknowledged, Missing
  <1>6. SecondShape'
    <2> SUFFICES ASSUME NEW d \in Calls
                 PROVE  /\ spc'[d] \in {"idle", "sent"} => saw'[d] = {}
                        /\ spc'[d] = "second" =>
                              /\ op'[d] \in {"put", "badput"} => object' \notin before'[d]
                              /\ \A v \in saw'[d] \cap before'[d] : object' \in before'[d] => v = object'
      BY DEF SecondShape
    <2>1. object' = object \/ object' \notin before'[d]
      BY <1>2, <1>3 DEF OverShape
    <2> QED BY <1>2, <1>3, <2>1, c \notin before[c] DEF StoreTypeOK, SecondShape, OverShape
  <1>7. SawShape'
    <2> SUFFICES ASSUME NEW d \in Calls
                 PROVE  /\ saw'[d] \cap overAt'[d] = {}
                        /\ op'[d] \in {"put", "badput"} => saw'[d] \cap before'[d] = {}
                        /\ \A v, w \in saw'[d] \cap before'[d] : v = w
      BY DEF SawShape
    <2>1. c \notin before[c] /\ c \notin overAt[c]
      BY <1>2 DEF OverShape
    <2> QED BY <1>3, <2>1 DEF StoreTypeOK, SawShape
  <1> QED BY <1>1, <1>4, <1>5, <1>6, <1>7

LEMMA StoreFailsKeeps ==
  ASSUME StoreInv, NEW c \in Calls, StoreFails(c)
  PROVE  StoreInv'
  <1> USE DEF StoreFails, History, StoreGoTo, StoreInv
  <1>1. StoreTypeOK'
    BY CallsAssumption DEF StoreTypeOK, Over, Ended, Writes, Reads
  <1>2. Over \subseteq Over' /\ (object' = object \/ object' \notin Over)
    BY CallsAssumption DEF StoreTypeOK, Over, Ended
  <1>3. OverShape'
    BY <1>2 DEF StoreTypeOK, OverShape, Over, Ended
  <1>4. StoredIsAcknowledged'
    BY <1>2 DEF StoreTypeOK, OverShape, StoredIsAcknowledged, SecondShape
  <1>5. SecondShape'
    BY <1>2, <1>3 DEF StoreTypeOK, OverShape, SecondShape, Over, Ended
  <1>6. SawShape'
    BY <1>2, <1>3 DEF StoreTypeOK, OverShape, SawShape, SecondShape, StoredIsAcknowledged, Over, Ended
  <1> QED BY <1>1, <1>3, <1>4, <1>5, <1>6

LEMMA LandKeeps ==
  ASSUME StoreInv, NEW c \in Calls, Land(c)
  PROVE  StoreInv'
  <1> USE DEF Land, History, StoreInv
  <1>1. StoreTypeOK'
    BY CallsAssumption DEF StoreTypeOK, Over, Ended, Writes, Reads
  <1>2. Over \subseteq Over' /\ (object' = object \/ object' \notin Over)
    BY CallsAssumption DEF StoreTypeOK, Over, Ended
  <1>3. OverShape'
    BY <1>2 DEF StoreTypeOK, OverShape, Over, Ended
  <1>4. StoredIsAcknowledged'
    BY <1>2 DEF StoreTypeOK, OverShape, StoredIsAcknowledged, SecondShape
  <1>5. SecondShape'
    BY <1>2, <1>3 DEF StoreTypeOK, OverShape, SecondShape, Over, Ended
  <1>6. SawShape'
    BY <1>2, <1>3 DEF StoreTypeOK, OverShape, SawShape, SecondShape, StoredIsAcknowledged, Over, Ended
  <1> QED BY <1>1, <1>3, <1>4, <1>5, <1>6

-----------------------------------------------------------------------------
LEMMA KmsStarts ==
  ASSUME KmsInit
  PROVE  KmsInv
  BY CallsAssumption, VersionAssumption
  DEF KmsInit, KmsInv, KmsTypeOK, VersionShape, VerdictsExplained, Genuine, Results

LEMMA KmsCallKeeps ==
  ASSUME KmsInv, NEW c \in Calls, NEW o \in KeyOps, NEW a \in Calls \cup {Null}, NEW alias \in BOOLEAN, KmsCall(c, o, a, alias)
  PROVE  KmsInv'
  <1> USE CallsAssumption, VersionAssumption
      DEF KmsCall, KmsGoTo, KmsRest, KmsInv
  <1>1. KmsTypeOK'
    BY DEF KmsTypeOK, VersionShape, KeyOps, Results, Aliased
  <1>2. VersionShape'
    <2>1. \A d \in Calls : /\ kpc'[d] # "idle" => kop'[d] \in KeyOps
                           /\ kpc'[d] \in {"true", "false"} => kop'[d] = "verify"
                           /\ provider' = "azure" /\ kpc'[d] = "second" => kop'[d] \in {"sign", "verify"}
                           /\ ver'[d] <= current'
                           /\ provider' = "aws" /\ kpc'[d] = "signed" => ver'[d] = 1
      BY DEF KmsTypeOK, VersionShape, KeyOps, Results, Aliased
    <2>2. ASSUME NEW d \in Calls, kop'[d] = "verify", arg'[d] # Null
          PROVE  /\ kpc'[arg'[d]] = "signed"
                 /\ provider' = "azure" /\ kpc'[d] = "second" => ver'[arg'[d]] <= ver'[d]
      BY <2>2 DEF KmsTypeOK, VersionShape, Genuine
    <2> QED BY <2>1, <2>2 DEF VersionShape, Genuine
  <1>3. VerdictsExplained'
    <2> SUFFICES ASSUME NEW d \in Calls
                 PROVE  /\ kpc'[d] = "true" => arg'[d] # Null /\ ver'[arg'[d]] = ver'[d]
                        /\ kpc'[d] = "false" /\ arg'[d] # Null =>
                              \/ provider' = "gcp" \/ d \in trouble' \/ arg'[d] \in trouble'
                              \/ provider' = "azure" /\ ver'[arg'[d]] < ver'[d]
      BY DEF VerdictsExplained, Genuine
    <2> QED BY DEF KmsTypeOK, VersionShape, VerdictsExplained, Genuine
  <1> QED BY <1>1, <1>2, <1>3

LEMMA RotateKeeps ==
  ASSUME KmsInv, Rotate
  PROVE  KmsInv'
  <1> USE CallsAssumption, VersionAssumption
      DEF Rotate, KmsGoTo, KmsRest, KmsInv
  <1>1. KmsTypeOK'
    BY DEF KmsTypeOK, VersionShape, KeyOps, Results, Aliased
  <1>2. VersionShape'
    <2>1. \A d \in Calls : /\ kpc'[d] # "idle" => kop'[d] \in KeyOps
                           /\ kpc'[d] \in {"true", "false"} => kop'[d] = "verify"
                           /\ provider' = "azure" /\ kpc'[d] = "second" => kop'[d] \in {"sign", "verify"}
                           /\ ver'[d] <= current'
                           /\ provider' = "aws" /\ kpc'[d] = "signed" => ver'[d] = 1
      BY DEF KmsTypeOK, VersionShape, KeyOps, Results, Aliased
    <2>2. ASSUME NEW d \in Calls, kop'[d] = "verify", arg'[d] # Null
          PROVE  /\ kpc'[arg'[d]] = "signed"
                 /\ provider' = "azure" /\ kpc'[d] = "second" => ver'[arg'[d]] <= ver'[d]
      BY <2>2 DEF KmsTypeOK, VersionShape, Genuine
    <2> QED BY <2>1, <2>2 DEF VersionShape, Genuine
  <1>3. VerdictsExplained'
    <2> SUFFICES ASSUME NEW d \in Calls
                 PROVE  /\ kpc'[d] = "true" => arg'[d] # Null /\ ver'[arg'[d]] = ver'[d]
                        /\ kpc'[d] = "false" /\ arg'[d] # Null =>
                              \/ provider' = "gcp" \/ d \in trouble' \/ arg'[d] \in trouble'
                              \/ provider' = "azure" /\ ver'[arg'[d]] < ver'[d]
      BY DEF VerdictsExplained, Genuine
    <2> QED BY DEF KmsTypeOK, VersionShape, VerdictsExplained, Genuine
  <1> QED BY <1>1, <1>2, <1>3

LEMMA AwsSendKeeps ==
  ASSUME KmsInv, NEW c \in Calls, AwsSend(c)
  PROVE  KmsInv'
  <1> USE CallsAssumption, VersionAssumption
      DEF AwsSend, At, Decrypted, KmsGoTo, KmsRest, KmsInv
  <1>1. KmsTypeOK'
    BY DEF KmsTypeOK, VersionShape, KeyOps, Results, Aliased
  <1>2. VersionShape'
    <2>1. \A d \in Calls : /\ kpc'[d] # "idle" => kop'[d] \in KeyOps
                           /\ kpc'[d] \in {"true", "false"} => kop'[d] = "verify"
                           /\ provider' = "azure" /\ kpc'[d] = "second" => kop'[d] \in {"sign", "verify"}
                           /\ ver'[d] <= current'
                           /\ provider' = "aws" /\ kpc'[d] = "signed" => ver'[d] = 1
      BY DEF KmsTypeOK, VersionShape, KeyOps, Results, Aliased
    <2>2. ASSUME NEW d \in Calls, kop'[d] = "verify", arg'[d] # Null
          PROVE  /\ kpc'[arg'[d]] = "signed"
                 /\ provider' = "azure" /\ kpc'[d] = "second" => ver'[arg'[d]] <= ver'[d]
      BY <2>2 DEF KmsTypeOK, VersionShape, Genuine
    <2> QED BY <2>1, <2>2 DEF VersionShape, Genuine
  <1>3. VerdictsExplained'
    <2> SUFFICES ASSUME NEW d \in Calls
                 PROVE  /\ kpc'[d] = "true" => arg'[d] # Null /\ ver'[arg'[d]] = ver'[d]
                        /\ kpc'[d] = "false" /\ arg'[d] # Null =>
                              \/ provider' = "gcp" \/ d \in trouble' \/ arg'[d] \in trouble'
                              \/ provider' = "azure" /\ ver'[arg'[d]] < ver'[d]
      BY DEF VerdictsExplained, Genuine
    <2> QED BY DEF KmsTypeOK, VersionShape, VerdictsExplained, Genuine
  <1> QED BY <1>1, <1>2, <1>3

LEMMA GetKeyKeeps ==
  ASSUME KmsInv, NEW c \in Calls, GetKey(c)
  PROVE  KmsInv'
  <1> USE CallsAssumption, VersionAssumption
      DEF GetKey, KmsGoTo, KmsRest, KmsInv
  <1>1. KmsTypeOK'
    BY DEF KmsTypeOK, VersionShape, KeyOps, Results, Aliased
  <1>2. VersionShape'
    <2>1. \A d \in Calls : /\ kpc'[d] # "idle" => kop'[d] \in KeyOps
                           /\ kpc'[d] \in {"true", "false"} => kop'[d] = "verify"
                           /\ provider' = "azure" /\ kpc'[d] = "second" => kop'[d] \in {"sign", "verify"}
                           /\ ver'[d] <= current'
                           /\ provider' = "aws" /\ kpc'[d] = "signed" => ver'[d] = 1
      BY DEF KmsTypeOK, VersionShape, KeyOps, Results, Aliased
    <2>2. ASSUME NEW d \in Calls, kop'[d] = "verify", arg'[d] # Null
          PROVE  /\ kpc'[arg'[d]] = "signed"
                 /\ provider' = "azure" /\ kpc'[d] = "second" => ver'[arg'[d]] <= ver'[d]
      BY <2>2 DEF KmsTypeOK, VersionShape, Genuine
    <2> QED BY <2>1, <2>2 DEF VersionShape, Genuine
  <1>3. VerdictsExplained'
    <2> SUFFICES ASSUME NEW d \in Calls
                 PROVE  /\ kpc'[d] = "true" => arg'[d] # Null /\ ver'[arg'[d]] = ver'[d]
                        /\ kpc'[d] = "false" /\ arg'[d] # Null =>
                              \/ provider' = "gcp" \/ d \in trouble' \/ arg'[d] \in trouble'
                              \/ provider' = "azure" /\ ver'[arg'[d]] < ver'[d]
      BY DEF VerdictsExplained, Genuine
    <2>1. CASE d = c
      <3>1. kop[c] \in {"sign", "verify", "generate", "decrypt"}
        BY DEF KmsTypeOK, VersionShape, KeyOps
      <3>2. kpc'[c] \in {"second", "wrapped", "ciphertext"}
        BY <3>1 DEF KmsTypeOK
      <3> QED BY <2>1, <3>2
    <2>2. CASE d # c
      BY <2>2 DEF KmsTypeOK, VersionShape, VerdictsExplained, Genuine
    <2> QED BY <2>1, <2>2
  <1> QED BY <1>1, <1>2, <1>3

LEMMA PublicKeyPemKeeps ==
  ASSUME KmsInv, NEW c \in Calls, PublicKeyPem(c)
  PROVE  KmsInv'
  <1> USE CallsAssumption, VersionAssumption
      DEF PublicKeyPem, At, KmsGoTo, KmsRest, KmsInv
  <1>1. KmsTypeOK'
    BY DEF KmsTypeOK, VersionShape, KeyOps, Results, Aliased
  <1>2. VersionShape'
    <2>1. \A d \in Calls : /\ kpc'[d] # "idle" => kop'[d] \in KeyOps
                           /\ kpc'[d] \in {"true", "false"} => kop'[d] = "verify"
                           /\ provider' = "azure" /\ kpc'[d] = "second" => kop'[d] \in {"sign", "verify"}
                           /\ ver'[d] <= current'
                           /\ provider' = "aws" /\ kpc'[d] = "signed" => ver'[d] = 1
      BY DEF KmsTypeOK, VersionShape, KeyOps, Results, Aliased
    <2>2. ASSUME NEW d \in Calls, kop'[d] = "verify", arg'[d] # Null
          PROVE  /\ kpc'[arg'[d]] = "signed"
                 /\ provider' = "azure" /\ kpc'[d] = "second" => ver'[arg'[d]] <= ver'[d]
      BY <2>2 DEF KmsTypeOK, VersionShape, Genuine
    <2> QED BY <2>1, <2>2 DEF VersionShape, Genuine
  <1>3. VerdictsExplained'
    <2> SUFFICES ASSUME NEW d \in Calls
                 PROVE  /\ kpc'[d] = "true" => arg'[d] # Null /\ ver'[arg'[d]] = ver'[d]
                        /\ kpc'[d] = "false" /\ arg'[d] # Null =>
                              \/ provider' = "gcp" \/ d \in trouble' \/ arg'[d] \in trouble'
                              \/ provider' = "azure" /\ ver'[arg'[d]] < ver'[d]
      BY DEF VerdictsExplained, Genuine
    <2> QED BY DEF KmsTypeOK, VersionShape, VerdictsExplained, Genuine
  <1> QED BY <1>1, <1>2, <1>3

LEMMA UseKeyKeeps ==
  ASSUME KmsInv, NEW c \in Calls, UseKey(c)
  PROVE  KmsInv'
  <1> USE CallsAssumption, VersionAssumption
      DEF UseKey, KmsGoTo, KmsRest, KmsInv
  <1>1. KmsTypeOK'
    BY DEF KmsTypeOK, VersionShape, KeyOps, Results, Aliased
  <1>2. VersionShape'
    <2>1. \A d \in Calls : /\ kpc'[d] # "idle" => kop'[d] \in KeyOps
                           /\ kpc'[d] \in {"true", "false"} => kop'[d] = "verify"
                           /\ provider' = "azure" /\ kpc'[d] = "second" => kop'[d] \in {"sign", "verify"}
                           /\ ver'[d] <= current'
                           /\ provider' = "aws" /\ kpc'[d] = "signed" => ver'[d] = 1
      BY DEF KmsTypeOK, VersionShape, KeyOps, Results, Aliased
    <2>2. ASSUME NEW d \in Calls, kop'[d] = "verify", arg'[d] # Null
          PROVE  /\ kpc'[arg'[d]] = "signed"
                 /\ provider' = "azure" /\ kpc'[d] = "second" => ver'[arg'[d]] <= ver'[d]
      BY <2>2 DEF KmsTypeOK, VersionShape, Genuine
    <2> QED BY <2>1, <2>2 DEF VersionShape, Genuine
  <1>3. VerdictsExplained'
    <2> SUFFICES ASSUME NEW d \in Calls
                 PROVE  /\ kpc'[d] = "true" => arg'[d] # Null /\ ver'[arg'[d]] = ver'[d]
                        /\ kpc'[d] = "false" /\ arg'[d] # Null =>
                              \/ provider' = "gcp" \/ d \in trouble' \/ arg'[d] \in trouble'
                              \/ provider' = "azure" /\ ver'[arg'[d]] < ver'[d]
      BY DEF VerdictsExplained, Genuine
    <2> QED BY DEF KmsTypeOK, VersionShape, VerdictsExplained, Genuine
  <1> QED BY <1>1, <1>2, <1>3

LEMMA GcpSendKeeps ==
  ASSUME KmsInv, NEW c \in Calls, GcpSend(c)
  PROVE  KmsInv'
  <1> USE CallsAssumption, VersionAssumption
      DEF GcpSend, At, Decrypted, KmsGoTo, KmsRest, KmsInv
  <1>1. KmsTypeOK'
    BY DEF KmsTypeOK, VersionShape, KeyOps, Results, Aliased
  <1>2. VersionShape'
    <2>1. \A d \in Calls : /\ kpc'[d] # "idle" => kop'[d] \in KeyOps
                           /\ kpc'[d] \in {"true", "false"} => kop'[d] = "verify"
                           /\ provider' = "azure" /\ kpc'[d] = "second" => kop'[d] \in {"sign", "verify"}
                           /\ ver'[d] <= current'
                           /\ provider' = "aws" /\ kpc'[d] = "signed" => ver'[d] = 1
      BY DEF KmsTypeOK, VersionShape, KeyOps, Results, Aliased
    <2>2. ASSUME NEW d \in Calls, kop'[d] = "verify", arg'[d] # Null
          PROVE  /\ kpc'[arg'[d]] = "signed"
                 /\ provider' = "azure" /\ kpc'[d] = "second" => ver'[arg'[d]] <= ver'[d]
      BY <2>2 DEF KmsTypeOK, VersionShape, Genuine
    <2> QED BY <2>1, <2>2 DEF VersionShape, Genuine
  <1>3. VerdictsExplained'
    <2> SUFFICES ASSUME NEW d \in Calls
                 PROVE  /\ kpc'[d] = "true" => arg'[d] # Null /\ ver'[arg'[d]] = ver'[d]
                        /\ kpc'[d] = "false" /\ arg'[d] # Null =>
                              \/ provider' = "gcp" \/ d \in trouble' \/ arg'[d] \in trouble'
                              \/ provider' = "azure" /\ ver'[arg'[d]] < ver'[d]
      BY DEF VerdictsExplained, Genuine
    <2> QED BY DEF KmsTypeOK, VersionShape, VerdictsExplained, Genuine
  <1> QED BY <1>1, <1>2, <1>3

LEMMA EmptyResponseKeeps ==
  ASSUME KmsInv, NEW c \in Calls, EmptyResponse(c)
  PROVE  KmsInv'
  <1> USE CallsAssumption, VersionAssumption
      DEF EmptyResponse, KmsGoTo, KmsRest, KmsInv
  <1>1. KmsTypeOK'
    BY DEF KmsTypeOK, VersionShape, KeyOps, Results, Aliased
  <1>2. VersionShape'
    <2>1. \A d \in Calls : /\ kpc'[d] # "idle" => kop'[d] \in KeyOps
                           /\ kpc'[d] \in {"true", "false"} => kop'[d] = "verify"
                           /\ provider' = "azure" /\ kpc'[d] = "second" => kop'[d] \in {"sign", "verify"}
                           /\ ver'[d] <= current'
                           /\ provider' = "aws" /\ kpc'[d] = "signed" => ver'[d] = 1
      BY DEF KmsTypeOK, VersionShape, KeyOps, Results, Aliased
    <2>2. ASSUME NEW d \in Calls, kop'[d] = "verify", arg'[d] # Null
          PROVE  /\ kpc'[arg'[d]] = "signed"
                 /\ provider' = "azure" /\ kpc'[d] = "second" => ver'[arg'[d]] <= ver'[d]
      BY <2>2 DEF KmsTypeOK, VersionShape, Genuine
    <2> QED BY <2>1, <2>2 DEF VersionShape, Genuine
  <1>3. VerdictsExplained'
    <2> SUFFICES ASSUME NEW d \in Calls
                 PROVE  /\ kpc'[d] = "true" => arg'[d] # Null /\ ver'[arg'[d]] = ver'[d]
                        /\ kpc'[d] = "false" /\ arg'[d] # Null =>
                              \/ provider' = "gcp" \/ d \in trouble' \/ arg'[d] \in trouble'
                              \/ provider' = "azure" /\ ver'[arg'[d]] < ver'[d]
      BY DEF VerdictsExplained, Genuine
    <2> QED BY DEF KmsTypeOK, VersionShape, VerdictsExplained, Genuine
  <1> QED BY <1>1, <1>2, <1>3

LEMMA KmsFailsKeeps ==
  ASSUME KmsInv, NEW c \in Calls, KmsFails(c)
  PROVE  KmsInv'
  <1> USE CallsAssumption, VersionAssumption
      DEF KmsFails, KmsGoTo, KmsRest, KmsInv
  <1>1. KmsTypeOK'
    BY DEF KmsTypeOK, VersionShape, KeyOps, Results, Aliased
  <1>2. VersionShape'
    <2>1. \A d \in Calls : /\ kpc'[d] # "idle" => kop'[d] \in KeyOps
                           /\ kpc'[d] \in {"true", "false"} => kop'[d] = "verify"
                           /\ provider' = "azure" /\ kpc'[d] = "second" => kop'[d] \in {"sign", "verify"}
                           /\ ver'[d] <= current'
                           /\ provider' = "aws" /\ kpc'[d] = "signed" => ver'[d] = 1
      BY DEF KmsTypeOK, VersionShape, KeyOps, Results, Aliased
    <2>2. ASSUME NEW d \in Calls, kop'[d] = "verify", arg'[d] # Null
          PROVE  /\ kpc'[arg'[d]] = "signed"
                 /\ provider' = "azure" /\ kpc'[d] = "second" => ver'[arg'[d]] <= ver'[d]
      BY <2>2 DEF KmsTypeOK, VersionShape, Genuine
    <2> QED BY <2>1, <2>2 DEF VersionShape, Genuine
  <1>3. VerdictsExplained'
    <2> SUFFICES ASSUME NEW d \in Calls
                 PROVE  /\ kpc'[d] = "true" => arg'[d] # Null /\ ver'[arg'[d]] = ver'[d]
                        /\ kpc'[d] = "false" /\ arg'[d] # Null =>
                              \/ provider' = "gcp" \/ d \in trouble' \/ arg'[d] \in trouble'
                              \/ provider' = "azure" /\ ver'[arg'[d]] < ver'[d]
      BY DEF VerdictsExplained, Genuine
    <2> QED BY DEF KmsTypeOK, VersionShape, VerdictsExplained, Genuine
  <1> QED BY <1>1, <1>2, <1>3

-----------------------------------------------------------------------------
\* A step is one of the store, one of the KMS, or neither.
LEMMA CloudStep ==
  ASSUME StoreInv, KmsInv, [CloudNext]_cloudVars
  PROVE  StoreInv' /\ KmsInv'
  <1> DEFINE StoreSame == UNCHANGED <<provider, storeVars>> => StoreInv'
             KmsSame   == UNCHANGED <<provider, kmsVars>> => KmsInv'
  <1>1. StoreSame
    BY DEF storeVars, StoreInv, StoreTypeOK, OverShape, Over, SecondShape, SawShape,
           StoredIsAcknowledged
  <1>2. KmsSame
    BY DEF kmsVars, KmsInv, KmsTypeOK, VersionShape, VerdictsExplained, Genuine
  <1>3. ASSUME NEW c \in Calls, CallStore(c) PROVE StoreInv' /\ KmsInv'
    <2>1. UNCHANGED <<provider, kmsVars>>
      BY <1>3 DEF CallStore, SignUrl, StoreCall
    <2>2. StoreInv'
      BY <1>3, SignUrlKeeps, StoreCallKeeps DEF CallStore
    <2> QED BY <1>2, <2>1, <2>2
  <1>4. ASSUME NEW c \in Calls, CallKms(c) PROVE StoreInv' /\ KmsInv'
    <2>1. UNCHANGED <<provider, storeVars>>
      BY <1>4 DEF CallKms, KmsCall
    <2>2. KmsInv'
      BY <1>4, KmsCallKeeps DEF CallKms
    <2> QED BY <1>1, <2>1, <2>2
  <1>5. ASSUME NEW c \in Calls, StoreStep(c), UNCHANGED kmsVars PROVE StoreInv' /\ KmsInv'
    <2>1. UNCHANGED <<provider, kmsVars>>
      BY <1>5 DEF StoreStep, Put, PutMetadata, Read, ReadMetadata, Head, Delete, StoreFails, Land
    <2>2. StoreInv'
      BY <1>5, PutKeeps, PutMetadataKeeps, ReadKeeps, ReadMetadataKeeps, HeadKeeps,
         DeleteKeeps, StoreFailsKeeps, LandKeeps DEF StoreStep
    <2> QED BY <1>2, <2>1, <2>2
  <1>6. ASSUME NEW c \in Calls, KmsStep(c), UNCHANGED storeVars PROVE StoreInv' /\ KmsInv'
    <2>1. UNCHANGED <<provider, storeVars>>
      BY <1>6 DEF KmsStep, KmsRest, AwsSend, GetKey, PublicKeyPem, UseKey, GcpSend,
                  EmptyResponse, KmsFails
    <2>2. KmsInv'
      BY <1>6, AwsSendKeeps, GetKeyKeeps, PublicKeyPemKeeps, UseKeyKeeps, GcpSendKeeps,
         EmptyResponseKeeps, KmsFailsKeeps DEF KmsStep
    <2> QED BY <1>1, <2>1, <2>2
  <1>7. ASSUME Rotate, UNCHANGED storeVars PROVE StoreInv' /\ KmsInv'
    <2>1. UNCHANGED <<provider, storeVars>>
      BY <1>7 DEF Rotate, KmsRest
    <2> QED BY <1>1, <1>7, <2>1, RotateKeeps
  <1>8. CASE UNCHANGED cloudVars
    BY <1>1, <1>2, <1>8 DEF cloudVars
  <1> QED BY <1>3, <1>4, <1>5, <1>6, <1>7, <1>8 DEF CloudNext

\* Whatever the environment names, the provider is a known one.
LEMMA CloudStarts == CloudInit => StoreInv /\ KmsInv
  <1> SUFFICES ASSUME CloudInit PROVE StoreInv /\ KmsInv
    OBVIOUS
  <1>1. provider \in Providers
    BY DEF CloudInit, Chosen, Clouds, Providers
  <1> QED BY <1>1, StoreStarts, KmsStarts DEF CloudInit

\* The inductive invariant of a process with its adapters.
THEOREM AdaptersCorrect == CloudSpec => [](StoreInv /\ KmsInv)
  <1>1. StoreInv /\ KmsInv /\ [CloudNext]_cloudVars => (StoreInv /\ KmsInv)'
    BY CloudStep
  <1> QED BY CloudStarts, <1>1, PTL DEF CloudSpec

\* Whatever provider was chosen, no late, lost or failed request brings back a
\* content of the bucket that an acknowledged write had replaced.
THEOREM WritesStay == CloudSpec => []StoredIsAcknowledged
  <1>1. StoreInv /\ KmsInv => StoredIsAcknowledged
    BY DEF StoreInv
  <1> QED BY AdaptersCorrect, <1>1, PTL

\* No answer of the store, of one request or of two, is of a content that was
\* replaced before the call, or mixes two contents neither of which overlapped
\* it.
THEOREM ReadsAreCurrent == CloudSpec => []AnswersAreCurrent
  <1>1. StoreInv /\ KmsInv => AnswersAreCurrent
    BY DEF StoreInv, SawShape, AnswersAreCurrent
  <1> QED BY AdaptersCorrect, <1>1, PTL

\* Whatever cloud was chosen, verify never says true of a foreign signature or
\* with another version of the key, and what makes it reject its own is known.
THEOREM VerifyIsSound == CloudSpec => []VerdictsExplained
  <1>1. StoreInv /\ KmsInv => VerdictsExplained
    BY DEF KmsInv
  <1> QED BY AdaptersCorrect, <1>1, PTL
=============================================================================
