-------------------------- MODULE PolicyBundleProofs --------------------------
(***************************************************************************)
(* Proofs about PolicyBundle, for any number of calls, keys, bundles,      *)
(* restarts and any TTL.  KmsInv is the part of the inductive invariant    *)
(* that the key service keeps by itself.                                   *)
(***************************************************************************)
EXTENDS PolicyBundle, TLAPS

USE KmsAssumption, NullAssumption, PolicyAssumption DEF KekOps, PairOps

KmsInv == /\ KmsTypeOK /\ CallShape /\ KekShape /\ PairShape
          /\ DataKeysSurvive /\ RefusesOnlyForeign

LEMMA KeysStart == Init => KeysInv
  <1> SUFFICES ASSUME Init PROVE KeysInv
    OBVIOUS
  <1> USE DEF Init, KmsInit, PolicyInit
  <1>1. KmsTypeOK /\ PolicyTypeOK
    BY DEF KmsTypeOK, PolicyTypeOK, Instants
  <1>2. CallShape
    BY DEF CallShape, Busy, KekSteps, PairSteps
  <1>3. KekShape /\ DataKeysSurvive
    BY DEF KekShape, DataKeysSurvive, KekSteps
  <1>4. PairShape /\ RefusesOnlyForeign
    BY DEF PairShape, PairUsed, PairMaker, PairSteps, RefusesOnlyForeign
  <1>5. LoadShape /\ BundleShape
    BY DEF LoadShape, BundleShape
  <1> QED BY <1>1, <1>2, <1>3, <1>4, <1>5 DEF KeysInv

LEMMA OpenFileKeeps ==
  ASSUME KmsInv, NEW c \in Calls, OpenFile(c)
  PROVE  KmsInv'
  <1> USE DEF OpenFile, GoTo, Put, files, maps, issued, KekSteps, PairSteps
  <1>0. KmsTypeOK /\ CallShape /\ KekShape /\ PairShape /\ DataKeysSurvive
        /\ RefusesOnlyForeign
    BY DEF KmsInv
  <1>1. KmsTypeOK'
    BY <1>0 DEF KmsTypeOK, CallShape, Busy, Requests
  <1>2. CallShape'
    BY <1>0 DEF KmsTypeOK, Busy, CallShape, Requests
  <1>3. KekShape'
    BY <1>0 DEF KmsTypeOK, Busy, CallShape, KekShape, Requests
  <1>4. PairShape'
    <2>1. \A k \in KeyIds, m \in Calls : PairUsed(k, m)' => PairUsed(k, m)
      BY <1>0 DEF KmsTypeOK, CallShape, Busy, Requests, PairUsed
    <2>2. \A k \in KeyIds, d \in Calls : PairMaker(k, d)' => PairMaker(k, d)
      BY <1>0 DEF KmsTypeOK, CallShape, Busy, Requests, PairMaker
    <2>3. \A k \in KeyIds, m \in Calls : PairUsed(k, m)' => pemFiles'[k] = {"priv", "pub"}
      BY <1>0, <2>1 DEF KmsTypeOK, CallShape, Busy, PairShape
    <2>4. ASSUME NEW k \in KeyIds, NEW d \in Calls, PairMaker(k, d)'
          PROVE  /\ at'[d] = "writePub" => "priv" \in pemFiles'[k]
                 /\ at'[d] = "wrotePub" => pemFiles'[k] = {"priv", "pub"}
      <3>1. /\ at[d] = "writePub" => "priv" \in pemFiles[k]
            /\ at[d] = "wrotePub" => pemFiles[k] = {"priv", "pub"}
        BY <1>0, <2>2, <2>4 DEF PairShape
      <3> QED BY <1>0, <2>4, <3>1 DEF KmsTypeOK, CallShape, Busy, PairMaker
    <2> QED BY <1>0, <2>1, <2>2, <2>3, <2>4 DEF PairShape
  <1>5. DataKeysSurvive'
    BY <1>0 DEF KmsTypeOK, Busy, CallShape, KekShape, DataKeysSurvive, Requests, DataKeys
  <1>6. RefusesOnlyForeign'
    BY <1>0 DEF KmsTypeOK, Busy, CallShape, PairShape, PairUsed, RefusesOnlyForeign, Requests, Signatures
  <1> QED BY <1>1, <1>2, <1>3, <1>4, <1>5, <1>6 DEF KmsInv

LEMMA WriteFileKeeps ==
  ASSUME KmsInv, NEW c \in Calls, WriteFile(c)
  PROVE  KmsInv'
  <1> USE DEF WriteFile, GoTo, Put, files, maps, issued, KekSteps, PairSteps
  <1>0. KmsTypeOK /\ CallShape /\ KekShape /\ PairShape /\ DataKeysSurvive
        /\ RefusesOnlyForeign
    BY DEF KmsInv
  <1>1. KmsTypeOK'
    BY <1>0 DEF KmsTypeOK, CallShape, Busy, Requests
  <1>2. CallShape'
    BY <1>0 DEF KmsTypeOK, Busy, CallShape, Requests
  <1>3. KekShape'
    BY <1>0 DEF KmsTypeOK, Busy, CallShape, KekShape, Requests
  <1>4. PairShape'
    <2>1. \A k \in KeyIds, m \in Calls : PairUsed(k, m)' => PairUsed(k, m)
      BY <1>0 DEF KmsTypeOK, CallShape, Busy, Requests, PairUsed
    <2>2. \A k \in KeyIds, d \in Calls : PairMaker(k, d)' => PairMaker(k, d)
      BY <1>0 DEF KmsTypeOK, CallShape, Busy, Requests, PairMaker
    <2>3. \A k \in KeyIds, m \in Calls : PairUsed(k, m)' => pemFiles'[k] = {"priv", "pub"}
      BY <1>0, <2>1 DEF KmsTypeOK, CallShape, Busy, PairShape
    <2>4. ASSUME NEW k \in KeyIds, NEW d \in Calls, PairMaker(k, d)'
          PROVE  /\ at'[d] = "writePub" => "priv" \in pemFiles'[k]
                 /\ at'[d] = "wrotePub" => pemFiles'[k] = {"priv", "pub"}
      <3>1. /\ at[d] = "writePub" => "priv" \in pemFiles[k]
            /\ at[d] = "wrotePub" => pemFiles[k] = {"priv", "pub"}
        BY <1>0, <2>2, <2>4 DEF PairShape
      <3> QED BY <1>0, <2>4, <3>1 DEF KmsTypeOK, CallShape, Busy, PairMaker
    <2> QED BY <1>0, <2>1, <2>2, <2>3, <2>4 DEF PairShape
  <1>5. DataKeysSurvive'
    BY <1>0 DEF KmsTypeOK, Busy, CallShape, KekShape, DataKeysSurvive, Requests, DataKeys
  <1>6. RefusesOnlyForeign'
    BY <1>0 DEF KmsTypeOK, Busy, CallShape, PairShape, PairUsed, RefusesOnlyForeign, Requests, Signatures
  <1> QED BY <1>1, <1>2, <1>3, <1>4, <1>5, <1>6 DEF KmsInv

LEMMA WritePemKeeps ==
  ASSUME KmsInv, NEW c \in Calls, WritePem(c)
  PROVE  KmsInv'
  <1> USE DEF WritePem, GoTo, Put, files, maps, issued, KekSteps, PairSteps
  <1>0. KmsTypeOK /\ CallShape /\ KekShape /\ PairShape /\ DataKeysSurvive
        /\ RefusesOnlyForeign
    BY DEF KmsInv
  <1>1. KmsTypeOK'
    BY <1>0 DEF KmsTypeOK, CallShape, Busy, Requests
  <1>2. CallShape'
    BY <1>0 DEF KmsTypeOK, Busy, CallShape, Requests
  <1>3. KekShape'
    BY <1>0 DEF KmsTypeOK, Busy, CallShape, KekShape, Requests
  <1>4. PairShape'
    <2>1. \A k \in KeyIds, m \in Calls : PairUsed(k, m)' => PairUsed(k, m)
      BY <1>0 DEF KmsTypeOK, CallShape, Busy, Requests, PairUsed
    <2>2. \A k \in KeyIds, d \in Calls : PairMaker(k, d)' => PairMaker(k, d)
      BY <1>0 DEF KmsTypeOK, CallShape, Busy, Requests, PairMaker
    <2>3. ASSUME NEW k \in KeyIds, NEW m \in Calls, PairUsed(k, m)'
          PROVE  pemFiles'[k] = {"priv", "pub"}
      <3>1. pemFiles[k] = {"priv", "pub"}
        BY <1>0, <2>1, <2>3 DEF PairShape
      <3>2. pemFiles[k] \subseteq pemFiles'[k] /\ pemFiles'[k] \subseteq {"priv", "pub"}
        BY <1>0, <1>1 DEF KmsTypeOK
      <3> QED BY <3>1, <3>2
    <2>4. ASSUME NEW k \in KeyIds, NEW d \in Calls, PairMaker(k, d)'
          PROVE  /\ at'[d] = "writePub" => "priv" \in pemFiles'[k]
                 /\ at'[d] = "wrotePub" => pemFiles'[k] = {"priv", "pub"}
      <3>1. /\ at[d] = "writePub" => "priv" \in pemFiles[k]
            /\ at[d] = "wrotePub" => pemFiles[k] = {"priv", "pub"}
        BY <1>0, <2>2, <2>4 DEF PairShape
      <3> QED BY <1>0, <2>4, <3>1 DEF KmsTypeOK, CallShape, Busy, PairMaker
    <2> QED BY <1>0, <2>1, <2>2, <2>3, <2>4 DEF PairShape
  <1>5. DataKeysSurvive'
    BY <1>0 DEF KmsTypeOK, Busy, CallShape, KekShape, DataKeysSurvive, Requests, DataKeys
  <1>6. RefusesOnlyForeign'
    BY <1>0 DEF KmsTypeOK, Busy, CallShape, PairShape, PairUsed, RefusesOnlyForeign, Requests, Signatures
  <1> QED BY <1>1, <1>2, <1>3, <1>4, <1>5, <1>6 DEF KmsInv

LEMMA ReadFileKeeps ==
  ASSUME KmsInv, NEW c \in Calls, ReadFile(c)
  PROVE  KmsInv'
  <1> USE DEF ReadFile, GoTo, Hold, files, maps, issued, KekSteps, PairSteps
  <1>0. KmsTypeOK /\ CallShape /\ KekShape /\ PairShape /\ DataKeysSurvive
        /\ RefusesOnlyForeign
    BY DEF KmsInv
  <1>1. KmsTypeOK'
    BY <1>0 DEF KmsTypeOK, CallShape, Busy, Requests
  <1>2. CallShape'
    BY <1>0 DEF KmsTypeOK, Busy, CallShape, Requests
  <1>3. KekShape'
    BY <1>0 DEF KmsTypeOK, Busy, CallShape, KekShape, Requests
  <1>4. PairShape'
    <2>1. \A k \in KeyIds, m \in Calls : PairUsed(k, m)' => PairUsed(k, m)
      BY <1>0 DEF KmsTypeOK, CallShape, Busy, Requests, PairUsed
    <2>2. \A k \in KeyIds, d \in Calls : PairMaker(k, d)' => PairMaker(k, d)
      BY <1>0 DEF KmsTypeOK, CallShape, Busy, Requests, PairMaker
    <2>3. \A k \in KeyIds, m \in Calls : PairUsed(k, m)' => pemFiles'[k] = {"priv", "pub"}
      BY <1>0, <2>1 DEF KmsTypeOK, CallShape, Busy, PairShape
    <2>4. ASSUME NEW k \in KeyIds, NEW d \in Calls, PairMaker(k, d)'
          PROVE  /\ at'[d] = "writePub" => "priv" \in pemFiles'[k]
                 /\ at'[d] = "wrotePub" => pemFiles'[k] = {"priv", "pub"}
      <3>1. /\ at[d] = "writePub" => "priv" \in pemFiles[k]
            /\ at[d] = "wrotePub" => pemFiles[k] = {"priv", "pub"}
        BY <1>0, <2>2, <2>4 DEF PairShape
      <3> QED BY <1>0, <2>4, <3>1 DEF KmsTypeOK, CallShape, Busy, PairMaker
    <2> QED BY <1>0, <2>1, <2>2, <2>3, <2>4 DEF PairShape
  <1>5. DataKeysSurvive'
    BY <1>0 DEF KmsTypeOK, Busy, CallShape, KekShape, DataKeysSurvive, Requests, DataKeys
  <1>6. RefusesOnlyForeign'
    BY <1>0 DEF KmsTypeOK, Busy, CallShape, PairShape, PairUsed, RefusesOnlyForeign, Requests, Signatures
  <1> QED BY <1>1, <1>2, <1>3, <1>4, <1>5, <1>6 DEF KmsInv

LEMMA RememberKeeps ==
  ASSUME KmsInv, NEW c \in Calls, Remember(c)
  PROVE  KmsInv'
  <1> USE DEF Remember, GoTo, Put, files, maps, issued, KekSteps, PairSteps
  <1>0. KmsTypeOK /\ CallShape /\ KekShape /\ PairShape /\ DataKeysSurvive
        /\ RefusesOnlyForeign
    BY DEF KmsInv
  <1>1. KmsTypeOK'
    BY <1>0 DEF KmsTypeOK, CallShape, Busy, Requests
  <1>2. CallShape'
    BY <1>0 DEF KmsTypeOK, Busy, CallShape, Requests
  <1>3. KekShape'
    BY <1>0 DEF KmsTypeOK, Busy, CallShape, KekShape, Requests
  <1>4. PairShape'
    <2>1. \A k \in KeyIds, m \in Calls : PairUsed(k, m)' =>
              PairUsed(k, m) \/ (m = c /\ PairMaker(k, c) /\ at[c] = "wrotePub")
      BY <1>0 DEF KmsTypeOK, CallShape, Busy, Requests, PairUsed, PairMaker
    <2>2. \A k \in KeyIds, d \in Calls : PairMaker(k, d)' => PairMaker(k, d) /\ d # c
      BY <1>0 DEF KmsTypeOK, CallShape, Busy, Requests, PairMaker
    <2>3. \A k \in KeyIds, m \in Calls : PairUsed(k, m)' => pemFiles'[k] = {"priv", "pub"}
      BY <1>0, <2>1 DEF PairShape
    <2>4. ASSUME NEW k \in KeyIds, NEW d \in Calls, PairMaker(k, d)'
          PROVE  /\ at'[d] = "writePub" => "priv" \in pemFiles'[k]
                 /\ at'[d] = "wrotePub" => pemFiles'[k] = {"priv", "pub"}
      <3>1. /\ at[d] = "writePub" => "priv" \in pemFiles[k]
            /\ at[d] = "wrotePub" => pemFiles[k] = {"priv", "pub"}
        BY <1>0, <2>2, <2>4 DEF PairShape
      <3> QED BY <1>0, <2>4, <3>1 DEF KmsTypeOK, CallShape, Busy, PairMaker
    <2>5. ASSUME NEW k \in KeyIds, <<"pair", k>> \notin overlapped'
          PROVE  /\ \A m, n \in Calls : PairUsed(k, m)' /\ PairUsed(k, n)' => m = n
                 /\ \A d, m \in Calls : PairMaker(k, d)' => ~PairUsed(k, m)'
                 /\ \A d, b \in Calls : PairMaker(k, d)' /\ PairMaker(k, b)' => d = b
      <3>1. /\ \A m, n \in Calls : PairUsed(k, m) /\ PairUsed(k, n) => m = n
            /\ \A d, m \in Calls : PairMaker(k, d) => ~PairUsed(k, m)
            /\ \A d, b \in Calls : PairMaker(k, d) /\ PairMaker(k, b) => d = b
        BY <1>0, <2>5 DEF PairShape
      <3> QED BY <2>1, <2>2, <3>1
    <2> QED BY <2>3, <2>4, <2>5 DEF PairShape
  <1>5. DataKeysSurvive'
    BY <1>0 DEF KmsTypeOK, Busy, CallShape, KekShape, DataKeysSurvive, Requests, DataKeys
  <1>6. RefusesOnlyForeign'
    BY <1>0 DEF KmsTypeOK, Busy, CallShape, PairShape, PairUsed, RefusesOnlyForeign, Requests, Signatures
  <1> QED BY <1>1, <1>2, <1>3, <1>4, <1>5, <1>6 DEF KmsInv

LEMMA RestartKeeps ==
  ASSUME KmsInv, Restart
  PROVE  KmsInv'
  <1> USE DEF Restart, Forget, files, maps, issued, KekSteps, PairSteps
  <1>0. KmsTypeOK /\ CallShape /\ KekShape /\ PairShape /\ DataKeysSurvive
        /\ RefusesOnlyForeign
    BY DEF KmsInv
  <1>1. KmsTypeOK'
    BY <1>0 DEF KmsTypeOK, CallShape, Busy, Requests
  <1>2. CallShape'
    BY <1>0 DEF KmsTypeOK, Busy, CallShape, Requests
  <1>3. KekShape'
    BY <1>0 DEF KmsTypeOK, Busy, CallShape, KekShape, Requests
  <1>4. PairShape'
    <2>1. \A k \in KeyIds, m \in Calls : PairUsed(k, m)' => PairUsed(k, m)
      BY <1>0 DEF KmsTypeOK, CallShape, Busy, Requests, PairUsed
    <2>2. \A k \in KeyIds, d \in Calls : PairMaker(k, d)' => PairMaker(k, d)
      BY <1>0 DEF KmsTypeOK, CallShape, Busy, Requests, PairMaker
    <2>3. \A k \in KeyIds, m \in Calls : PairUsed(k, m)' => pemFiles'[k] = {"priv", "pub"}
      BY <1>0, <2>1 DEF KmsTypeOK, CallShape, Busy, PairShape
    <2>4. ASSUME NEW k \in KeyIds, NEW d \in Calls, PairMaker(k, d)'
          PROVE  /\ at'[d] = "writePub" => "priv" \in pemFiles'[k]
                 /\ at'[d] = "wrotePub" => pemFiles'[k] = {"priv", "pub"}
      <3>1. /\ at[d] = "writePub" => "priv" \in pemFiles[k]
            /\ at[d] = "wrotePub" => pemFiles[k] = {"priv", "pub"}
        BY <1>0, <2>2, <2>4 DEF PairShape
      <3> QED BY <1>0, <2>4, <3>1 DEF KmsTypeOK, CallShape, Busy, PairMaker
    <2> QED BY <1>0, <2>1, <2>2, <2>3, <2>4 DEF PairShape
  <1>5. DataKeysSurvive'
    BY <1>0 DEF KmsTypeOK, Busy, CallShape, KekShape, DataKeysSurvive, Requests, DataKeys
  <1>6. RefusesOnlyForeign'
    BY <1>0 DEF KmsTypeOK, Busy, CallShape, PairShape, PairUsed, RefusesOnlyForeign, Requests, Signatures
  <1> QED BY <1>1, <1>2, <1>3, <1>4, <1>5, <1>6 DEF KmsInv

LEMMA SignKeeps ==
  ASSUME KmsInv, NEW c \in Calls, at[c] = "ready", Sign(c),
         UNCHANGED <<files, maps, overlapped, restarts>>
  PROVE  KmsInv'
  <1> USE DEF Sign, Answers, Ends, Stays, Forget, GoTo, KekSteps, PairSteps,
              files, maps, issued
  <1>0. KmsTypeOK /\ CallShape /\ KekShape /\ PairShape /\ DataKeysSurvive
        /\ RefusesOnlyForeign
    BY DEF KmsInv
  <1>1. KmsTypeOK'
    BY <1>0 DEF KmsTypeOK, CallShape, Busy, Requests, SignatureOf, DataKeyOf, Signatures, DataKeys
  <1>2. CallShape'
    BY <1>0 DEF KmsTypeOK, CallShape, Busy, Requests
  <1>3. KekShape'
    BY <1>0 DEF KmsTypeOK, CallShape, Busy, KekShape, Requests
  <1>4. PairShape'
    <2>1. \A k \in KeyIds, m \in Calls : PairUsed(k, m)' => PairUsed(k, m)
      BY <1>0 DEF KmsTypeOK, CallShape, Busy, Requests, PairUsed, SignatureOf
    <2>2. \A k \in KeyIds, d \in Calls : PairMaker(k, d)' => PairMaker(k, d)
      BY <1>0 DEF KmsTypeOK, CallShape, Busy, Requests, PairMaker
    <2>3. \A k \in KeyIds, m \in Calls : PairUsed(k, m)' => pemFiles'[k] = {"priv", "pub"}
      BY <1>0, <2>1 DEF KmsTypeOK, CallShape, Busy, PairShape
    <2>4. ASSUME NEW k \in KeyIds, NEW d \in Calls, PairMaker(k, d)'
          PROVE  /\ at'[d] = "writePub" => "priv" \in pemFiles'[k]
                 /\ at'[d] = "wrotePub" => pemFiles'[k] = {"priv", "pub"}
      <3>1. /\ at[d] = "writePub" => "priv" \in pemFiles[k]
            /\ at[d] = "wrotePub" => pemFiles[k] = {"priv", "pub"}
        BY <1>0, <2>2, <2>4 DEF PairShape
      <3> QED BY <1>0, <2>4, <3>1 DEF KmsTypeOK, CallShape, Busy, PairMaker
    <2> QED BY <1>0, <2>1, <2>2, <2>3, <2>4 DEF PairShape
  <1>5. DataKeysSurvive'
    BY <1>0 DEF KmsTypeOK, CallShape, Busy, KekShape, DataKeysSurvive, Requests, DataKeys, DataKeyOf
  <1>6. RefusesOnlyForeign'
    <2> SUFFICES ASSUME NEW d \in Calls, answer'[d] = "invalid", req'[d].arg \in signatures',
                        req'[d].arg.key = req'[d].key, req'[d].arg.msg = req'[d].msg
                 PROVE  <<"pair", req'[d].key>> \in overlapped'
      BY DEF RefusesOnlyForeign
    <2>1. answer[d] = "invalid" /\ req'[d] = req[d] /\ overlapped' = overlapped
      BY <1>0 DEF KmsTypeOK
    <2>2. req[d].arg \in signatures \cup {Null} /\ req[d].arg # Null
      BY <1>0, <1>1, <2>1 DEF CallShape, KmsTypeOK
    <2> QED BY <1>0, <2>1, <2>2 DEF RefusesOnlyForeign
  <1> QED BY <1>1, <1>2, <1>3, <1>4, <1>5, <1>6 DEF KmsInv

LEMMA VerifyKeeps ==
  ASSUME KmsInv, NEW c \in Calls, at[c] = "ready", Verify(c),
         UNCHANGED <<files, maps, overlapped, restarts>>
  PROVE  KmsInv'
  <1> USE DEF Verify, Answers, Ends, Stays, Forget, GoTo, KekSteps, PairSteps,
              files, maps, issued
  <1>0. KmsTypeOK /\ CallShape /\ KekShape /\ PairShape /\ DataKeysSurvive
        /\ RefusesOnlyForeign
    BY DEF KmsInv
  <1>1. KmsTypeOK'
    BY <1>0 DEF KmsTypeOK, CallShape, Busy, Requests, SignatureOf, DataKeyOf, Signatures, DataKeys
  <1>2. CallShape'
    BY <1>0 DEF KmsTypeOK, CallShape, Busy, Requests
  <1>3. KekShape'
    BY <1>0 DEF KmsTypeOK, CallShape, Busy, KekShape, Requests
  <1>4. PairShape'
    <2>1. \A k \in KeyIds, m \in Calls : PairUsed(k, m)' => PairUsed(k, m)
      BY <1>0 DEF KmsTypeOK, CallShape, Busy, Requests, PairUsed, SignatureOf
    <2>2. \A k \in KeyIds, d \in Calls : PairMaker(k, d)' => PairMaker(k, d)
      BY <1>0 DEF KmsTypeOK, CallShape, Busy, Requests, PairMaker
    <2>3. \A k \in KeyIds, m \in Calls : PairUsed(k, m)' => pemFiles'[k] = {"priv", "pub"}
      BY <1>0, <2>1 DEF KmsTypeOK, CallShape, Busy, PairShape
    <2>4. ASSUME NEW k \in KeyIds, NEW d \in Calls, PairMaker(k, d)'
          PROVE  /\ at'[d] = "writePub" => "priv" \in pemFiles'[k]
                 /\ at'[d] = "wrotePub" => pemFiles'[k] = {"priv", "pub"}
      <3>1. /\ at[d] = "writePub" => "priv" \in pemFiles[k]
            /\ at[d] = "wrotePub" => pemFiles[k] = {"priv", "pub"}
        BY <1>0, <2>2, <2>4 DEF PairShape
      <3> QED BY <1>0, <2>4, <3>1 DEF KmsTypeOK, CallShape, Busy, PairMaker
    <2> QED BY <1>0, <2>1, <2>2, <2>3, <2>4 DEF PairShape
  <1>5. DataKeysSurvive'
    BY <1>0 DEF KmsTypeOK, CallShape, Busy, KekShape, DataKeysSurvive, Requests, DataKeys, DataKeyOf
  <1>6. RefusesOnlyForeign'
    BY <1>0 DEF KmsTypeOK, CallShape, Busy, PairShape, PairUsed, RefusesOnlyForeign, Requests, Signatures
  <1> QED BY <1>1, <1>2, <1>3, <1>4, <1>5, <1>6 DEF KmsInv

LEMMA GenerateDekKeeps ==
  ASSUME KmsInv, NEW c \in Calls, at[c] = "ready", GenerateDek(c),
         UNCHANGED <<files, maps, overlapped, restarts>>
  PROVE  KmsInv'
  <1> USE DEF GenerateDek, Answers, Ends, Stays, Forget, GoTo, KekSteps, PairSteps,
              files, maps, issued
  <1>0. KmsTypeOK /\ CallShape /\ KekShape /\ PairShape /\ DataKeysSurvive
        /\ RefusesOnlyForeign
    BY DEF KmsInv
  <1>1. KmsTypeOK'
    BY <1>0 DEF KmsTypeOK, CallShape, Busy, Requests, SignatureOf, DataKeyOf, Signatures, DataKeys
  <1>2. CallShape'
    BY <1>0 DEF KmsTypeOK, CallShape, Busy, Requests
  <1>3. KekShape'
    BY <1>0 DEF KmsTypeOK, CallShape, Busy, KekShape, Requests
  <1>4. PairShape'
    <2>1. \A k \in KeyIds, m \in Calls : PairUsed(k, m)' => PairUsed(k, m)
      BY <1>0 DEF KmsTypeOK, CallShape, Busy, Requests, PairUsed, SignatureOf
    <2>2. \A k \in KeyIds, d \in Calls : PairMaker(k, d)' => PairMaker(k, d)
      BY <1>0 DEF KmsTypeOK, CallShape, Busy, Requests, PairMaker
    <2>3. \A k \in KeyIds, m \in Calls : PairUsed(k, m)' => pemFiles'[k] = {"priv", "pub"}
      BY <1>0, <2>1 DEF KmsTypeOK, CallShape, Busy, PairShape
    <2>4. ASSUME NEW k \in KeyIds, NEW d \in Calls, PairMaker(k, d)'
          PROVE  /\ at'[d] = "writePub" => "priv" \in pemFiles'[k]
                 /\ at'[d] = "wrotePub" => pemFiles'[k] = {"priv", "pub"}
      <3>1. /\ at[d] = "writePub" => "priv" \in pemFiles[k]
            /\ at[d] = "wrotePub" => pemFiles[k] = {"priv", "pub"}
        BY <1>0, <2>2, <2>4 DEF PairShape
      <3> QED BY <1>0, <2>4, <3>1 DEF KmsTypeOK, CallShape, Busy, PairMaker
    <2> QED BY <1>0, <2>1, <2>2, <2>3, <2>4 DEF PairShape
  <1>5. DataKeysSurvive'
    BY <1>0 DEF KmsTypeOK, CallShape, Busy, KekShape, DataKeysSurvive, Requests, DataKeys, DataKeyOf
  <1>6. RefusesOnlyForeign'
    BY <1>0 DEF KmsTypeOK, RefusesOnlyForeign
  <1> QED BY <1>1, <1>2, <1>3, <1>4, <1>5, <1>6 DEF KmsInv

LEMMA DecryptKeeps ==
  ASSUME KmsInv, NEW c \in Calls, at[c] = "ready", Decrypt(c),
         UNCHANGED <<files, maps, overlapped, restarts>>
  PROVE  KmsInv'
  <1> USE DEF Decrypt, Answers, Ends, Stays, Forget, GoTo, KekSteps, PairSteps,
              files, maps, issued
  <1>0. KmsTypeOK /\ CallShape /\ KekShape /\ PairShape /\ DataKeysSurvive
        /\ RefusesOnlyForeign
    BY DEF KmsInv
  <1>1. KmsTypeOK'
    BY <1>0 DEF KmsTypeOK, CallShape, Busy, Requests, SignatureOf, DataKeyOf, Signatures, DataKeys
  <1>2. CallShape'
    BY <1>0 DEF KmsTypeOK, CallShape, Busy, Requests
  <1>3. KekShape'
    BY <1>0 DEF KmsTypeOK, CallShape, Busy, KekShape, Requests
  <1>4. PairShape'
    <2>1. \A k \in KeyIds, m \in Calls : PairUsed(k, m)' => PairUsed(k, m)
      BY <1>0 DEF KmsTypeOK, CallShape, Busy, Requests, PairUsed, SignatureOf
    <2>2. \A k \in KeyIds, d \in Calls : PairMaker(k, d)' => PairMaker(k, d)
      BY <1>0 DEF KmsTypeOK, CallShape, Busy, Requests, PairMaker
    <2>3. \A k \in KeyIds, m \in Calls : PairUsed(k, m)' => pemFiles'[k] = {"priv", "pub"}
      BY <1>0, <2>1 DEF KmsTypeOK, CallShape, Busy, PairShape
    <2>4. ASSUME NEW k \in KeyIds, NEW d \in Calls, PairMaker(k, d)'
          PROVE  /\ at'[d] = "writePub" => "priv" \in pemFiles'[k]
                 /\ at'[d] = "wrotePub" => pemFiles'[k] = {"priv", "pub"}
      <3>1. /\ at[d] = "writePub" => "priv" \in pemFiles[k]
            /\ at[d] = "wrotePub" => pemFiles[k] = {"priv", "pub"}
        BY <1>0, <2>2, <2>4 DEF PairShape
      <3> QED BY <1>0, <2>4, <3>1 DEF KmsTypeOK, CallShape, Busy, PairMaker
    <2> QED BY <1>0, <2>1, <2>2, <2>3, <2>4 DEF PairShape
  <1>5. DataKeysSurvive'
    BY <1>0 DEF KmsTypeOK, CallShape, Busy, KekShape, DataKeysSurvive, Requests, DataKeys, DataKeyOf
  <1>6. RefusesOnlyForeign'
    BY <1>0 DEF KmsTypeOK, RefusesOnlyForeign
  <1> QED BY <1>1, <1>2, <1>3, <1>4, <1>5, <1>6 DEF KmsInv

LEMMA PublicKeyKeeps ==
  ASSUME KmsInv, NEW c \in Calls, at[c] = "ready", PublicKey(c),
         UNCHANGED <<files, maps, overlapped, restarts>>
  PROVE  KmsInv'
  <1> USE DEF PublicKey, Answers, Ends, Stays, Forget, GoTo, KekSteps, PairSteps,
              files, maps, issued
  <1>0. KmsTypeOK /\ CallShape /\ KekShape /\ PairShape /\ DataKeysSurvive
        /\ RefusesOnlyForeign
    BY DEF KmsInv
  <1>1. KmsTypeOK'
    BY <1>0 DEF KmsTypeOK, CallShape, Busy, Requests, SignatureOf, DataKeyOf, Signatures, DataKeys
  <1>2. CallShape'
    BY <1>0 DEF KmsTypeOK, CallShape, Busy, Requests
  <1>3. KekShape'
    BY <1>0 DEF KmsTypeOK, CallShape, Busy, KekShape, Requests
  <1>4. PairShape'
    <2>1. \A k \in KeyIds, m \in Calls : PairUsed(k, m)' => PairUsed(k, m)
      BY <1>0 DEF KmsTypeOK, CallShape, Busy, Requests, PairUsed, SignatureOf
    <2>2. \A k \in KeyIds, d \in Calls : PairMaker(k, d)' => PairMaker(k, d)
      BY <1>0 DEF KmsTypeOK, CallShape, Busy, Requests, PairMaker
    <2>3. \A k \in KeyIds, m \in Calls : PairUsed(k, m)' => pemFiles'[k] = {"priv", "pub"}
      BY <1>0, <2>1 DEF KmsTypeOK, CallShape, Busy, PairShape
    <2>4. ASSUME NEW k \in KeyIds, NEW d \in Calls, PairMaker(k, d)'
          PROVE  /\ at'[d] = "writePub" => "priv" \in pemFiles'[k]
                 /\ at'[d] = "wrotePub" => pemFiles'[k] = {"priv", "pub"}
      <3>1. /\ at[d] = "writePub" => "priv" \in pemFiles[k]
            /\ at[d] = "wrotePub" => pemFiles[k] = {"priv", "pub"}
        BY <1>0, <2>2, <2>4 DEF PairShape
      <3> QED BY <1>0, <2>4, <3>1 DEF KmsTypeOK, CallShape, Busy, PairMaker
    <2> QED BY <1>0, <2>1, <2>2, <2>3, <2>4 DEF PairShape
  <1>5. DataKeysSurvive'
    BY <1>0 DEF KmsTypeOK, CallShape, Busy, KekShape, DataKeysSurvive, Requests, DataKeys, DataKeyOf
  <1>6. RefusesOnlyForeign'
    BY <1>0 DEF KmsTypeOK, RefusesOnlyForeign
  <1> QED BY <1>1, <1>2, <1>3, <1>4, <1>5, <1>6 DEF KmsInv

LEMMA UnreadableKeeps ==
  ASSUME KmsInv, NEW c \in Calls, at[c] = "unreadable", Ends(c, "error"), UNCHANGED issued,
         UNCHANGED <<files, maps, overlapped, restarts>>
  PROVE  KmsInv'
  <1> USE DEF Answers, Ends, Stays, Forget, GoTo, KekSteps, PairSteps,
              files, maps, issued
  <1>0. KmsTypeOK /\ CallShape /\ KekShape /\ PairShape /\ DataKeysSurvive
        /\ RefusesOnlyForeign
    BY DEF KmsInv
  <1>1. KmsTypeOK'
    BY <1>0 DEF KmsTypeOK, CallShape, Busy, Requests, SignatureOf, DataKeyOf, Signatures, DataKeys
  <1>2. CallShape'
    BY <1>0 DEF KmsTypeOK, CallShape, Busy, Requests
  <1>3. KekShape'
    BY <1>0 DEF KmsTypeOK, CallShape, Busy, KekShape, Requests
  <1>4. PairShape'
    <2>1. \A k \in KeyIds, m \in Calls : PairUsed(k, m)' => PairUsed(k, m)
      BY <1>0 DEF KmsTypeOK, CallShape, Busy, Requests, PairUsed, SignatureOf
    <2>2. \A k \in KeyIds, d \in Calls : PairMaker(k, d)' => PairMaker(k, d)
      BY <1>0 DEF KmsTypeOK, CallShape, Busy, Requests, PairMaker
    <2>3. \A k \in KeyIds, m \in Calls : PairUsed(k, m)' => pemFiles'[k] = {"priv", "pub"}
      BY <1>0, <2>1 DEF KmsTypeOK, CallShape, Busy, PairShape
    <2>4. ASSUME NEW k \in KeyIds, NEW d \in Calls, PairMaker(k, d)'
          PROVE  /\ at'[d] = "writePub" => "priv" \in pemFiles'[k]
                 /\ at'[d] = "wrotePub" => pemFiles'[k] = {"priv", "pub"}
      <3>1. /\ at[d] = "writePub" => "priv" \in pemFiles[k]
            /\ at[d] = "wrotePub" => pemFiles[k] = {"priv", "pub"}
        BY <1>0, <2>2, <2>4 DEF PairShape
      <3> QED BY <1>0, <2>4, <3>1 DEF KmsTypeOK, CallShape, Busy, PairMaker
    <2> QED BY <1>0, <2>1, <2>2, <2>3, <2>4 DEF PairShape
  <1>5. DataKeysSurvive'
    BY <1>0 DEF KmsTypeOK, CallShape, Busy, KekShape, DataKeysSurvive, Requests, DataKeys, DataKeyOf
  <1>6. RefusesOnlyForeign'
    BY <1>0 DEF KmsTypeOK, RefusesOnlyForeign
  <1> QED BY <1>1, <1>2, <1>3, <1>4, <1>5, <1>6 DEF KmsInv

LEMMA KekCallKeeps ==
  ASSUME KmsInv, NEW c \in Calls, NEW r \in Requests, Call(c, r), r.op \in KekOps,
         r.op = "verify" => r.arg \in signatures \cup {Null},
         r.op = "sign" => r.msg \in Messages
  PROVE  KmsInv'
  <1> USE DEF LoadOrCreateKek
  <1> USE DEF Call, GoTo, Hold, NoteOverlap, KekSteps, PairSteps, files, maps, issued
  <1>0. KmsTypeOK /\ CallShape /\ KekShape /\ PairShape /\ DataKeysSurvive
        /\ RefusesOnlyForeign
    BY DEF KmsInv
  <1>1. KmsTypeOK'
    BY <1>0 DEF KmsTypeOK, CallShape, Busy, Requests
  <1>2. CallShape'
    BY <1>0 DEF KmsTypeOK, CallShape, KekShape, PairShape, PairUsed, Busy, Requests
  <1>3. KekShape'
    BY <1>0 DEF KmsTypeOK, CallShape, Busy, KekShape, Requests
  <1>4. PairShape'
    <2>1. \A k \in KeyIds, m \in Calls : PairUsed(k, m)' => PairUsed(k, m)
      BY <1>0 DEF KmsTypeOK, CallShape, Busy, Requests, PairUsed
    <2>2. \A k \in KeyIds, d \in Calls : PairMaker(k, d)' =>
              \/ PairMaker(k, d) /\ at'[d] = at[d]
              \/ /\ d = c /\ k = r.key /\ at'[d] = "writePriv"
                 /\ pemFiles[k] # {"priv", "pub"}
                 /\ \/ <<"pair", k>> \in overlapped'
                    \/ \A b \in Calls : ~PairMaker(k, b)
      BY <1>0 DEF KmsTypeOK, CallShape, Busy, Requests, PairMaker
    <2>3. \A k \in KeyIds, m \in Calls : PairUsed(k, m)' => pemFiles'[k] = {"priv", "pub"}
      BY <1>0, <2>1 DEF PairShape
    <2>4. ASSUME NEW k \in KeyIds, NEW d \in Calls, PairMaker(k, d)'
          PROVE  /\ at'[d] = "writePub" => "priv" \in pemFiles'[k]
                 /\ at'[d] = "wrotePub" => pemFiles'[k] = {"priv", "pub"}
      BY <1>0, <2>2, <2>4 DEF PairShape
    <2>5. overlapped \subseteq overlapped'
      OBVIOUS
    <2>6. ASSUME NEW k \in KeyIds, <<"pair", k>> \notin overlapped'
          PROVE  /\ \A m, n \in Calls : PairUsed(k, m)' /\ PairUsed(k, n)' => m = n
                 /\ \A d, m \in Calls : PairMaker(k, d)' => ~PairUsed(k, m)'
                 /\ \A d, b \in Calls : PairMaker(k, d)' /\ PairMaker(k, b)' => d = b
      <3>1. /\ \A m, n \in Calls : PairUsed(k, m) /\ PairUsed(k, n) => m = n
            /\ \A d, m \in Calls : PairMaker(k, d) => ~PairUsed(k, m)
            /\ \A d, b \in Calls : PairMaker(k, d) /\ PairMaker(k, b) => d = b
            /\ \A m \in Calls : PairUsed(k, m) => pemFiles[k] = {"priv", "pub"}
        BY <1>0, <2>5, <2>6 DEF PairShape
      <3> QED BY <2>1, <2>2, <2>6, <3>1
    <2> QED BY <2>3, <2>4, <2>6 DEF PairShape
  <1>5. DataKeysSurvive'
    BY <1>0 DEF DataKeysSurvive
  <1>6. RefusesOnlyForeign'
    BY <1>0 DEF KmsTypeOK, CallShape, RefusesOnlyForeign
  <1> QED BY <1>1, <1>2, <1>3, <1>4, <1>5, <1>6 DEF KmsInv

LEMMA PairCallKeeps ==
  ASSUME KmsInv, NEW c \in Calls, NEW r \in Requests, Call(c, r), r.op \in PairOps,
         r.op = "verify" => r.arg \in signatures \cup {Null},
         r.op = "sign" => r.msg \in Messages
  PROVE  KmsInv'
  <1> USE DEF LoadOrCreateSigningKey
  <1> USE DEF Call, GoTo, Hold, NoteOverlap, KekSteps, PairSteps, files, maps, issued
  <1>0. KmsTypeOK /\ CallShape /\ KekShape /\ PairShape /\ DataKeysSurvive
        /\ RefusesOnlyForeign
    BY DEF KmsInv
  <1>1. KmsTypeOK'
    BY <1>0 DEF KmsTypeOK, CallShape, Busy, Requests
  <1>2. CallShape'
    BY <1>0 DEF KmsTypeOK, CallShape, KekShape, PairShape, PairUsed, Busy, Requests
  <1>3. KekShape'
    BY <1>0 DEF KmsTypeOK, CallShape, Busy, KekShape, Requests
  <1>4. PairShape'
    <2>1. \A k \in KeyIds, m \in Calls : PairUsed(k, m)' => PairUsed(k, m)
      BY <1>0 DEF KmsTypeOK, CallShape, Busy, Requests, PairUsed
    <2>2. \A k \in KeyIds, d \in Calls : PairMaker(k, d)' =>
              \/ PairMaker(k, d) /\ at'[d] = at[d]
              \/ /\ d = c /\ k = r.key /\ at'[d] = "writePriv"
                 /\ pemFiles[k] # {"priv", "pub"}
                 /\ \/ <<"pair", k>> \in overlapped'
                    \/ \A b \in Calls : ~PairMaker(k, b)
      BY <1>0 DEF KmsTypeOK, CallShape, Busy, Requests, PairMaker
    <2>3. \A k \in KeyIds, m \in Calls : PairUsed(k, m)' => pemFiles'[k] = {"priv", "pub"}
      BY <1>0, <2>1 DEF PairShape
    <2>4. ASSUME NEW k \in KeyIds, NEW d \in Calls, PairMaker(k, d)'
          PROVE  /\ at'[d] = "writePub" => "priv" \in pemFiles'[k]
                 /\ at'[d] = "wrotePub" => pemFiles'[k] = {"priv", "pub"}
      BY <1>0, <2>2, <2>4 DEF PairShape
    <2>5. overlapped \subseteq overlapped'
      OBVIOUS
    <2>6. ASSUME NEW k \in KeyIds, <<"pair", k>> \notin overlapped'
          PROVE  /\ \A m, n \in Calls : PairUsed(k, m)' /\ PairUsed(k, n)' => m = n
                 /\ \A d, m \in Calls : PairMaker(k, d)' => ~PairUsed(k, m)'
                 /\ \A d, b \in Calls : PairMaker(k, d)' /\ PairMaker(k, b)' => d = b
      <3>1. /\ \A m, n \in Calls : PairUsed(k, m) /\ PairUsed(k, n) => m = n
            /\ \A d, m \in Calls : PairMaker(k, d) => ~PairUsed(k, m)
            /\ \A d, b \in Calls : PairMaker(k, d) /\ PairMaker(k, b) => d = b
            /\ \A m \in Calls : PairUsed(k, m) => pemFiles[k] = {"priv", "pub"}
        BY <1>0, <2>5, <2>6 DEF PairShape
      <3> QED BY <2>1, <2>2, <2>6, <3>1
    <2> QED BY <2>3, <2>4, <2>6 DEF PairShape
  <1>5. DataKeysSurvive'
    BY <1>0 DEF DataKeysSurvive
  <1>6. RefusesOnlyForeign'
    BY <1>0 DEF KmsTypeOK, CallShape, RefusesOnlyForeign
  <1> QED BY <1>1, <1>2, <1>3, <1>4, <1>5, <1>6 DEF KmsInv

LEMMA KmsIdle == KmsInv /\ UNCHANGED kmsVars => KmsInv'
  <1> SUFFICES ASSUME KmsInv, UNCHANGED kmsVars PROVE KmsInv'
    OBVIOUS
  <1> USE DEF kmsVars, files, maps, issued, KmsInv
  <1>1. KmsTypeOK' /\ CallShape' /\ KekShape'
    BY DEF KmsTypeOK, CallShape, Busy, KekShape
  <1>2. PairShape'
    <2>1. \A k \in KeyIds, m \in Calls : PairUsed(k, m)' <=> PairUsed(k, m)
      BY DEF PairUsed
    <2>2. \A k \in KeyIds, c \in Calls : PairMaker(k, c)' <=> PairMaker(k, c)
      BY DEF PairMaker
    <2>3. PairShape
      OBVIOUS
    <2> QED BY <2>1, <2>2, <2>3 DEF PairShape
  <1>3. DataKeysSurvive' /\ RefusesOnlyForeign'
    BY DEF DataKeysSurvive, RefusesOnlyForeign
  <1> QED BY <1>1, <1>2, <1>3

LEMMA KmsStepKeeps == KmsInv /\ KmsStep => KmsInv'
  <1> SUFFICES ASSUME KmsInv, KmsStep PROVE KmsInv'
    OBVIOUS
  <1>1. ASSUME NEW c \in Calls, Reply(c) PROVE KmsInv'
    BY <1>1, SignKeeps, VerifyKeeps, GenerateDekKeeps, DecryptKeeps, PublicKeyKeeps,
          UnreadableKeeps DEF Reply
  <1> QED BY <1>1, OpenFileKeeps, WriteFileKeeps, WritePemKeeps, ReadFileKeeps, RememberKeeps,
             RestartKeeps DEF KmsStep

LEMMA CallKeeps ==
  ASSUME KmsInv, NEW c \in Calls, NEW r \in Requests, Call(c, r),
         r.op = "verify" => r.arg \in signatures \cup {Null},
         r.op = "sign" => r.msg \in Messages
  PROVE  KmsInv'
  <1>1. r.op \in KekOps \/ r.op \in PairOps
    BY DEF Call
  <1> QED BY <1>1, KekCallKeeps, PairCallKeeps

\* The plugin's part of the inductive invariant.
PluginInv == PolicyTypeOK /\ LoadShape /\ BundleShape

LEMMA KeysInvParts ==
  /\ KeysInv <=> KmsInv /\ PluginInv
  /\ KeysInv' <=> KmsInv' /\ PluginInv'
  BY DEF KeysInv, KmsInv, PluginInv

\* A step of the key service touches what the plugin relies on only by what
\* becomes of the call.
LEMMA KmsStepKeepsPlugin == KeysInv /\ KmsStep /\ UNCHANGED policyVars => PluginInv'
  <1> SUFFICES ASSUME KeysInv, KmsStep, UNCHANGED policyVars PROVE PluginInv'
    OBVIOUS
  <1>1. KmsTypeOK /\ CallShape /\ PolicyTypeOK /\ LoadShape /\ BundleShape
    BY DEF KeysInv
  <1>2. /\ signatures \subseteq signatures'
        /\ \A d \in Calls : req'[d] = req[d] \/ req'[d] = Null
        /\ \A d \in Calls : at[d] = "idle" => at'[d] = "idle"
        /\ \A d \in Calls : at'[d] = "idle" => at[d] = "idle"
    <2> USE DEF GoTo, Hold, Put, files, maps, issued, Answers, Ends, Stays, Forget
    <2> DEFINE Monotone ==
          /\ signatures \subseteq signatures'
          /\ \A d \in Calls : req'[d] = req[d] \/ req'[d] = Null
          /\ \A d \in Calls : at[d] = "idle" => at'[d] = "idle"
          /\ \A d \in Calls : at'[d] = "idle" => at[d] = "idle"
    <2>1. ASSUME NEW c \in Calls, OpenFile(c) \/ WriteFile(c) \/ WritePem(c) \/ ReadFile(c)
                                  \/ Remember(c)
          PROVE  Monotone
      BY <1>1, <2>1 DEF OpenFile, WriteFile, WritePem, ReadFile, Remember, KmsTypeOK
    <2>2. ASSUME NEW c \in Calls, Reply(c) PROVE Monotone
      BY <1>1, <2>2 DEF Reply, Sign, Verify, PublicKey, GenerateDek, Decrypt, KmsTypeOK
    <2>3. ASSUME Restart PROVE Monotone
      BY <1>1, <2>3 DEF Restart, KmsTypeOK
    <2> QED BY <2>1, <2>2, <2>3 DEF KmsStep
  <1>3. PolicyTypeOK' /\ BundleShape'
    BY <1>1, <1>2 DEF policyVars, PolicyTypeOK, BundleShape
  <1>4. LoadShape'
    <2> SUFFICES ASSUME NEW c \in Calls
                 PROVE  /\ lpc[c] = "fetching" => at'[c] = "idle" /\ start[c] <= clock
                        /\ lpc[c] = "verifying" =>
                              /\ obj[c] \in Objects /\ obj[c].sig \in signatures' \cup {Null}
                              /\ start[c] <= fetchedAt[c] /\ fetchedAt[c] <= clock
                        /\ lpc[c] = "verifying" /\ req'[c] \in Requests =>
                              req'[c] = VerifyRequest(obj[c].key, obj[c].payload, obj[c].sig)
                        /\ at'[c] = "idle" => req'[c] = Null
      BY DEF policyVars, LoadShape
    <2>1. req'[c] \in Requests => req'[c] = req[c]
      BY <1>2
    <2>2. lpc[c] = "fetching" => at'[c] = "idle" /\ start[c] <= clock
      BY <1>1, <1>2 DEF LoadShape
    <2>3. lpc[c] = "verifying" =>
              /\ obj[c] \in Objects /\ obj[c].sig \in signatures' \cup {Null}
              /\ start[c] <= fetchedAt[c] /\ fetchedAt[c] <= clock
      BY <1>1, <1>2 DEF LoadShape
    <2>4. at'[c] = "idle" => req'[c] = Null
      BY <1>1, <1>2 DEF LoadShape
    <2>5. lpc[c] = "verifying" /\ req'[c] \in Requests =>
              req'[c] = VerifyRequest(obj[c].key, obj[c].payload, obj[c].sig)
      BY <1>1, <2>1 DEF LoadShape
    <2> QED BY <2>2, <2>3, <2>4, <2>5
  <1> QED BY <1>3, <1>4 DEF PluginInv

LEMMA AskVerifyKeeps ==
  ASSUME KeysInv, NEW c \in Calls, AskVerify(c)
  PROVE  KeysInv'
  <1> DEFINE r == VerifyRequest(obj[c].key, obj[c].payload, obj[c].sig)
  <1>1. KmsInv /\ PolicyTypeOK /\ LoadShape /\ BundleShape
    BY KeysInvParts DEF PluginInv
  <1>2. obj[c] \in Objects /\ obj[c].sig \in signatures \cup {Null} /\ signatures \subseteq Signatures
    BY <1>1 DEF AskVerify, LoadShape, KmsInv, KmsTypeOK
  <1>3. r \in Requests /\ r.arg \in signatures \cup {Null} /\ r.op = "verify"
    BY <1>2 DEF VerifyRequest, Requests, Objects
  <1>4. Call(c, r) /\ UNCHANGED policyVars
    BY DEF AskVerify
  <1>5. KmsInv'
    <2> HIDE DEF r
    <2> QED BY <1>1, <1>3, <1>4, CallKeeps
  <1>6. PluginInv'
    <2>1. /\ \A d \in Calls : d # c => at'[d] = at[d] /\ req'[d] = req[d]
          /\ req'[c] = r /\ at'[c] # "idle" /\ signatures' = signatures
          /\ lpc[c] = "verifying"
      BY <1>1, <1>4 DEF AskVerify, Call, LoadOrCreateKek, LoadOrCreateSigningKey, GoTo, KmsInv,
                        KmsTypeOK, issued
    <2>2. PolicyTypeOK' /\ BundleShape'
      BY <1>1, <1>4, <2>1 DEF policyVars, PolicyTypeOK, BundleShape
    <2>3. LoadShape'
      BY <1>1, <1>4, <2>1 DEF policyVars, LoadShape
    <2> QED BY <2>2, <2>3 DEF PluginInv
  <1> QED BY <1>5, <1>6, KeysInvParts

LEMMA ClientCallKeeps ==
  ASSUME KeysInv, NEW c \in Calls, NEW k \in KeyIds, ClientCall(c, k)
  PROVE  KeysInv'
  <1>1. KmsInv /\ PolicyTypeOK /\ LoadShape /\ BundleShape
    BY KeysInvParts DEF PluginInv
  <1>2. PICK r \in Requests : /\ Call(c, r) /\ r.op # "verify"
                              /\ r.op = "sign" => r.msg \in Messages
    <2>1. \A b \in Bundles : /\ SignRequest(k, b) \in Requests
                            /\ SignRequest(k, b).op = "sign" /\ SignRequest(k, b).msg \in Messages
      BY DEF SignRequest, Requests
    <2>2. /\ GenerateRequest(k) \in Requests /\ GenerateRequest(k).op = "generate"
          /\ PublicKeyRequest(k) \in Requests /\ PublicKeyRequest(k).op = "publicKey"
      BY DEF GenerateRequest, PublicKeyRequest, Requests
    <2>3. \A d \in dataKeys : DecryptRequest(d) \in Requests /\ DecryptRequest(d).op = "decrypt"
      BY <1>1 DEF DecryptRequest, Requests, DataKeys, KmsInv, KmsTypeOK
    <2> QED BY <2>1, <2>2, <2>3 DEF ClientCall
  <1>3. UNCHANGED policyVars /\ lpc[c] = "idle"
    BY DEF ClientCall
  <1>4. KmsInv'
    BY <1>1, <1>2, CallKeeps
  <1>5. PluginInv'
    <2>1. /\ \A d \in Calls : d # c => at'[d] = at[d] /\ req'[d] = req[d]
          /\ at'[c] # "idle" /\ signatures' = signatures
      BY <1>1, <1>2 DEF Call, LoadOrCreateKek, LoadOrCreateSigningKey, GoTo, KmsInv,
                        KmsTypeOK, issued
    <2>2. PolicyTypeOK' /\ BundleShape'
      BY <1>1, <1>3, <2>1 DEF policyVars, PolicyTypeOK, BundleShape
    <2>3. LoadShape'
      BY <1>1, <1>3, <2>1 DEF policyVars, LoadShape
    <2> QED BY <2>2, <2>3 DEF PluginInv
  <1> QED BY <1>4, <1>5, KeysInvParts

LEMMA PluginStepKeeps ==
  ASSUME KeysInv, PluginStep, ~(\E c \in Calls : AskVerify(c))
  PROVE  KeysInv'
  <1>1. KmsInv /\ PolicyTypeOK /\ LoadShape /\ BundleShape /\ signatures \subseteq Signatures
        /\ CallShape
    BY KeysInvParts DEF PluginInv, KmsInv, KmsTypeOK
  <1> USE DEF LoadGoTo, LoadForgets, PolicyTypeOK, Loading, Instants, kmsVars, policyVars
  <1>2. ASSUME NEW c \in Calls, Load(c) PROVE PluginInv' /\ UNCHANGED kmsVars
    BY <1>1, <1>2 DEF Load, LoadShape, BundleShape, PluginInv
  <1>3. ASSUME NEW c \in Calls, NEW o \in Objects, o.sig \in signatures \cup {Null}, Fetched(c, o)
        PROVE  PluginInv' /\ UNCHANGED kmsVars
    <2>1. req[c] \notin Requests
      BY <1>1, <1>3 DEF Fetched, LoadShape
    <2> QED BY <1>1, <1>3, <2>1 DEF Fetched, LoadShape, BundleShape, PluginInv
  <1>4. ASSUME NEW c \in Calls, Verified(c) PROVE PluginInv' /\ UNCHANGED kmsVars
    <2>1. /\ req[c] = VerifyRequest(obj[c].key, obj[c].payload, obj[c].sig)
          /\ req[c].arg \in signatures /\ req[c].arg.msg = req[c].msg
          /\ obj[c] \in Objects
      BY <1>1, <1>4 DEF Verified, LoadShape, CallShape
    <2>2. obj[c].sig \in signatures /\ obj[c].sig.msg = obj[c].payload /\ obj[c].payload \in Bundles
      BY <2>1 DEF VerifyRequest, Objects
    <2> QED BY <1>1, <1>4, <2>2 DEF Verified, Install, LoadShape, BundleShape, PluginInv
  <1>5. ASSUME NEW c \in Calls, LoadFails(c) PROVE PluginInv' /\ UNCHANGED kmsVars
    BY <1>1, <1>5 DEF LoadFails, LoadShape, BundleShape, PluginInv
  <1>6. ASSUME ServiceDies PROVE PluginInv' /\ UNCHANGED kmsVars
    BY <1>1, <1>6 DEF ServiceDies, LoadShape, BundleShape, PluginInv
  <1>7. ASSUME Tick PROVE PluginInv' /\ UNCHANGED kmsVars
    BY <1>1, <1>7 DEF Tick, LoadShape, BundleShape, PluginInv
  <1>8. PluginInv' /\ UNCHANGED kmsVars
    <2>1. \A b \in Bundles, k \in KeyIds, s \in signatures \cup {Null} :
              /\ [payload |-> b, key |-> k, sig |-> s] \in Objects
              /\ [payload |-> b, key |-> k, sig |-> s].sig = s
      BY <1>1 DEF Objects
    <2> QED BY <1>2, <1>3, <1>4, <1>5, <1>6, <1>7, <2>1 DEF PluginStep
  <1> QED BY <1>1, <1>8, KmsIdle, KeysInvParts

LEMMA KeysNext == KeysInv /\ [Next]_vars => KeysInv'
  <1> SUFFICES ASSUME KeysInv, [Next]_vars PROVE KeysInv'
    OBVIOUS
  <1>1. CASE KmsStep /\ UNCHANGED policyVars
    BY <1>1, KmsStepKeeps, KmsStepKeepsPlugin, KeysInvParts
  <1>2. CASE PluginStep
    BY <1>2, AskVerifyKeeps, PluginStepKeeps
  <1>3. ASSUME NEW c \in Calls, NEW k \in KeyIds, ClientCall(c, k) PROVE KeysInv'
    BY <1>3, ClientCallKeeps
  <1>4. CASE UNCHANGED vars
    <2>1. PluginInv'
      BY <1>4 DEF vars, kmsVars, policyVars, issued, KeysInv, PluginInv, PolicyTypeOK, LoadShape,
                  BundleShape
    <2> QED BY <1>4, <2>1, KmsIdle, KeysInvParts DEF vars
  <1> QED BY <1>1, <1>2, <1>3, <1>4 DEF Next

-----------------------------------------------------------------------------
\* The inductive invariant of the key service and the plugin.
THEOREM KeysCorrect == Spec => []KeysInv
  BY KeysStart, KeysNext, PTL DEF Spec

\* A request is allowed only by a bundle that the key service has signed
\* (index.ts:92-101, evaluate).
THEOREM AllowsOnlySignedCorrect == Spec => []AllowsOnlySigned
  <1>1. KeysInv => AllowsOnlySigned
    <2> SUFFICES ASSUME KeysInv, NEW r \in RuleIds, NEW ctx \in SUBSET Conditions,
                        Evaluate(r, ctx) = "allow"
                 PROVE  \E s \in signatures : s.msg \in Bundles /\ Grants(s.msg, r, ctx)
      BY DEF AllowsOnlySigned
    <2>1. bundle # Null /\ Grants(bundle, r, ctx)
      BY DEF Evaluate, Grants
    <2>2. bundle \in Bundles /\ \E s \in signatures : s.msg = bundle
      BY <2>1 DEF KeysInv, BundleShape, PolicyTypeOK
    <2> QED BY <2>1, <2>2
  <1> QED BY <1>1, KeysCorrect, PTL

\* A bundle that load() finds fresh enough to keep was in the bucket less than
\* the TTL ago (index.ts:85-86).
THEOREM CachedWithinTtlCorrect == Spec => []CachedWithinTtl
  <1>1. KeysInv => CachedWithinTtl
    BY DEF KeysInv, BundleShape, PolicyTypeOK, CachedWithinTtl, Cached, Instants
  <1> QED BY <1>1, KeysCorrect, PTL

\* Data keys can be decrypted after any crash, unless their KEK was generated
\* twice (server.mjs, loadOrCreateKek).
THEOREM DataKeysCorrect == Spec => []DataKeysSurvive
  <1>1. KeysInv => DataKeysSurvive
    BY DEF KeysInv
  <1> QED BY <1>1, KeysCorrect, PTL

\* No genuine signature is called invalid, unless its pair was generated twice
\* (server.mjs, loadOrCreateSigningKey).
THEOREM RefusalsCorrect == Spec => []RefusesOnlyForeign
  <1>1. KeysInv => RefusesOnlyForeign
    BY DEF KeysInv
  <1> QED BY <1>1, KeysCorrect, PTL

=============================================================================
