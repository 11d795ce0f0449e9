---------------------------- MODULE ContainerProofs -----------------------------
(***************************************************************************)
(* Theorems about the certificate monitor, for any number of renewals and  *)
(* any private keys; and that the parts MCContainer puts together behave   *)
(* in it as each does alone, so that the theorems about each of them hold  *)
(* of it.                                                                  *)
(***************************************************************************)
EXTENDS MCContainer, AuditLogProofs, KeyStoresProofs, ReadinessProofs, TLAPS

\* The directory and everything that was read from it comes from renewals that have begun.
Begun == \A f \in Files : disk[f] <= target /\ loading[f] <= target /\ cert[f] <= target

\* A file that is there is not older than what has been read of it, nor than the part
\* in use; and what has been read is not older than what is in use.
Forward ==
    \A f \in {"crt", "key"} :
        /\ disk[f] # 0 => disk[f] >= cert[f] /\ disk[f] >= loading[f]
        /\ loading[f] # 0 => loading[f] >= cert[f]

\* The monitor serves from the moment it has loaded a pair.
ServesFitting == Serving \/ updater = "loaded" => Fits(cert)

\* The inductive invariant.
CertificatesIInv == Begun /\ Forward /\ ServesFitting

-------------------------------------------------------------------------------
\* Type correctness of the monitor: whatever updateCert reads and whenever it is
\* stopped, its state is one the code can be in.
THEOREM CertificatesTypeCorrect == CertificatesSpec => []CertificatesTypeOK
<1>1. CertificatesInit => CertificatesTypeOK
  BY GenerationAssumption DEF CertificatesInit, CertificatesTypeOK, Pairs, Generations, Files,
       NoPair, UpdaterStates
<1>2. CertificatesTypeOK /\ [CertificatesNext]_certificateVars => CertificatesTypeOK'
  <2> SUFFICES ASSUME CertificatesTypeOK, [CertificatesNext]_certificateVars
               PROVE  CertificatesTypeOK'
    OBVIOUS
  <2> USE GenerationAssumption DEF CertificatesTypeOK, Pairs, Generations, Files,
        UpdaterStates, directoryVars
  <2>1. CASE Renewal
    <3>1. CASE BeginRenewal
      BY <3>1 DEF BeginRenewal
    <3>2. ASSUME NEW f \in Files, WriteFile(f) PROVE CertificatesTypeOK'
      BY <3>2 DEF WriteFile, Notify
    <3>3. ASSUME NEW f \in Files, RemoveFile(f) PROVE CertificatesTypeOK'
      BY <3>3 DEF RemoveFile, Notify
    <3> QED
      BY <2>1, <3>1, <3>2, <3>3 DEF Renewal
  <2>2. CASE StopMonitor
    BY <2>2 DEF StopMonitor
  <2>3. CASE UpdaterStep
    <3>1. CASE ReadCrt
      BY <3>1 DEF ReadCrt, NoPair
    <3>2. CASE ReadCA
      BY <3>2 DEF ReadCA
    <3>3. CASE LoadKey
      BY <3>3 DEF LoadKey, Loaded, NoPair
    <3>4. CASE Watch \/ WatchFails \/ UpdaterEnds
      BY <3>4 DEF Watch, WatchFails, UpdaterEnds
    <3> QED
      BY <2>3, <3>1, <3>2, <3>3, <3>4 DEF UpdaterStep
  <2>4. CASE WatcherStep
    BY <2>4 DEF WatcherStep, OnEvent, OnTick, Trigger, WatcherEnds
  <2>5. CASE UNCHANGED certificateVars
    BY <2>5 DEF certificateVars
  <2> QED
    BY <2>1, <2>2, <2>3, <2>4, <2>5 DEF CertificatesNext
<1> QED
  BY <1>1, <1>2, PTL DEF CertificatesSpec

-------------------------------------------------------------------------------
\* One step of the monitor or of whoever renews the files keeps the invariant.
LEMMA ForwardStep ==
    ASSUME CertificatesTypeOK, CertificatesIInv, [CertificatesNext]_certificateVars
    PROVE  CertificatesIInv'
<1> USE GenerationAssumption DEF CertificatesTypeOK, CertificatesIInv, Pairs, Generations, Files,
      directoryVars, Begun, Forward, ServesFitting, Serving, Starting, Fits
<1>1. CASE BeginRenewal
  BY <1>1 DEF BeginRenewal
<1>2. ASSUME NEW f \in Files, WriteFile(f) PROVE CertificatesIInv'
  BY <1>2 DEF WriteFile
<1>3. ASSUME NEW f \in Files, RemoveFile(f) PROVE CertificatesIInv'
  BY <1>3 DEF RemoveFile
<1>4. CASE StopMonitor
  BY <1>4 DEF StopMonitor
<1>5. CASE ReadCrt
  BY <1>5 DEF ReadCrt, NoPair
<1>6. CASE ReadCA
  BY <1>6 DEF ReadCA
<1>7. CASE LoadKey
  BY <1>7 DEF LoadKey, Loaded, NoPair
<1>8. CASE Watch \/ WatchFails \/ UpdaterEnds
  BY <1>8 DEF Watch, WatchFails, UpdaterEnds
<1>9. CASE WatcherStep
  BY <1>9 DEF WatcherStep, OnEvent, OnTick, Trigger, WatcherEnds
<1>10. CASE UNCHANGED certificateVars
  BY <1>10 DEF certificateVars
<1> QED
  BY <1>1, <1>2, <1>3, <1>4, <1>5, <1>6, <1>7, <1>8, <1>9, <1>10
     DEF CertificatesNext, Renewal, UpdaterStep

\* What the monitor reads and uses only moves forward in the succession of renewals.
THEOREM CertificatesInductive == CertificatesSpec => []CertificatesIInv
<1>1. CertificatesInit => CertificatesIInv
  BY DEF CertificatesInit, CertificatesIInv, Begun, Forward, ServesFitting, Serving, Starting,
     Files, NoPair
<1> QED
  BY <1>1, CertificatesTypeCorrect, ForwardStep, PTL DEF CertificatesSpec

\* For any number of renewals, with or without new private keys, the certificate
\* that latestCert returns fits its key and is never followed by an older one.
THEOREM CertificatesNeverBack == CertificatesSpec => NeverBack
<1>1. ASSUME CertificatesTypeOK, CertificatesIInv, [CertificatesNext]_certificateVars, Serving,
             CertificatesIInv'
      PROVE  /\ Fits(cert')
             /\ cert'["crt"] >= cert["crt"]
             /\ cert'["key"] >= cert["key"]
  <2> USE GenerationAssumption DEF CertificatesTypeOK, Pairs, Generations, Files
  <2>1. CASE LoadKey
    BY <1>1, <2>1 DEF LoadKey, Loaded, Fits, CertificatesIInv, Forward, ServesFitting
  <2>2. CASE UNCHANGED cert
    BY <1>1, <2>2 DEF Fits, CertificatesIInv, ServesFitting
  <2>3. LoadKey \/ UNCHANGED cert
    BY <1>1 DEF CertificatesNext, Renewal, BeginRenewal, WriteFile, RemoveFile, StopMonitor,
       UpdaterStep, ReadCrt, ReadCA, Watch, WatchFails, UpdaterEnds, WatcherStep, OnEvent,
       OnTick, WatcherEnds, certificateVars
  <2> QED
    BY <2>1, <2>2, <2>3
<1>2. CertificatesTypeOK /\ CertificatesIInv /\ [CertificatesNext]_certificateVars
        => [Serving => /\ Fits(cert')
                       /\ cert'["crt"] >= cert["crt"]
                       /\ cert'["key"] >= cert["key"]]_certificateVars
  BY <1>1, ForwardStep
<1> QED
  BY <1>2, CertificatesTypeCorrect, CertificatesInductive, PTL DEF CertificatesSpec, NeverBack

-------------------------------------------------------------------------------
(***************************************************************************)
(* The parts together.                                                     *)
(***************************************************************************)

\* Every behaviour of the composition is a behaviour of each part: a step of one leaves
\* the variables of the others alone.
THEOREM ContainerParts ==
    Spec => CertificatesSpec /\ AuditSpec /\ KeyStoresSpec /\ ReadinessSpec
<1> DEFINE vars == <<certificateVars, auditVars, keyStoreVars, readinessVars>>
<1>1. Init => CertificatesInit /\ AuditInit /\ KeyStoresInit /\ ReadinessInit
  BY DEF Init
<1>2. [Next]_vars => /\ [CertificatesNext]_certificateVars /\ [AuditNext]_auditVars
                     /\ [KeyStoresNext]_keyStoreVars /\ [ReadinessNext]_readinessVars
  BY DEF Next
<1> QED
  BY <1>1, <1>2, PTL DEF Spec, CertificatesSpec, AuditSpec, KeyStoresSpec, ReadinessSpec

\* Type correctness of the certificate monitor, the audit log, the key stores and the
\* readiness files, for every value of their constants.
THEOREM ContainerTypeCorrect == Spec => []ContainerTypeOK
<1>1. CertificatesTypeOK /\ AuditTypeOK /\ KeyStoresTypeOK /\ ReadinessTypeOK => ContainerTypeOK
  BY DEF ContainerTypeOK
<1> QED
  BY <1>1, ContainerParts, CertificatesTypeCorrect, AuditTypeCorrect, KeyStoresTypeCorrect,
     ReadinessTypeCorrect, PTL
===============================================================================
