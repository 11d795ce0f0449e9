-------------------------------- MODULE KeyStores -------------------------------
(***************************************************************************)
(* The key stores that runmqserver assembles from the keys and             *)
(* certificates that are mounted (internal/tls/tls.go, tls_web.go,         *)
(* internal/keystore/keystore.go): a CMS key store and a PKCS#12 trust     *)
(* store for the queue manager and the web server, or a CMS key store from *)
(* two directories for Native HA.                                          *)
(*                                                                         *)
(* The directory they are made in has just been cleared.  A certificate or *)
(* a key is a name.  The stores are kept by commands of MQ, each of which  *)
(* may fail.                                                               *)
(***************************************************************************)
EXTENDS Naturals, Sequences, FiniteSets, FiniteSetsExt, Functions

CONSTANTS
    Supplies,   \* what may be mounted, see SupplyAssumption
    SubjectOf   \* SubjectOf[c]: the subject of certificate c

NoKey == "noKey"
NoLabel == ""
TrustLabel == "trust"   \* p12TruststoreName without its extension

Certs == DOMAIN SubjectOf

\* A key set is a subdirectory with a private key or none and .crt files in the order
\* of their names; a file is the key's own if its name starts like the key's.
IsKeySet(set) == set.label # NoLabel /\ set.files \in Seq([own: BOOLEAN, certs: Seq(Certs)])

IsDirectory(dir) ==
    /\ Len(dir) \in Nat /\ DOMAIN dir = 1..Len(dir)
    /\ \A i \in DOMAIN dir : IsKeySet(dir[i])
    /\ \A i, j \in DOMAIN dir : dir[i].label = dir[j].label => i = j

\* The web server has no store of Native HA.
ASSUME SupplyAssumption ==
    \A s \in Supplies :
        /\ s.ha \in BOOLEAN /\ s.web \in BOOLEAN /\ s.host \in BOOLEAN /\ s.validate \in BOOLEAN
        /\ s.ha => ~s.web
        /\ Len(s.dirs) = (IF s.ha THEN 2 ELSE 1) /\ DOMAIN s.dirs = 1..Len(s.dirs)
        /\ \A d \in DOMAIN s.dirs : IsDirectory(s.dirs[d])
        /\ s.trust \subseteq Certs

VARIABLES
    supply,     \* what is mounted
    kpc,        \* the step that comes next
    at,         \* the directory and the number of the key set that is processed
    kdb,        \* key.kdb: personal certificates with their keys and labels, and signers
    trustP12,   \* the certificates of trust.p12
    p12,        \* the other .p12 files
    cms,        \* tlsStore.Keystore
    truststore, \* tlsStore.Truststore
    keyLabels,  \* keyLabels[d]: the label for directory d
    config,     \* the labels the queue manager uses, the web server's stores
    failure     \* why it has failed

storeVars == <<kdb, trustP12, p12>>
dataVars == <<cms, truststore>>
keyStoreVars == <<supply, kpc, at, storeVars, dataVars, keyLabels, config, failure>>

NoSupply == [ha |-> FALSE, web |-> FALSE, host |-> FALSE, validate |-> TRUE,
             dirs |-> <<<<>>>>, trust |-> {}]
NoData == [known |-> {}, trusted |-> {}, labels |-> {}, lookup |-> <<>>]
Steps == {"unused", "create", "keys", "import", "relabel", "trust", "addTrust", "addCMS", "tls",
          "ha", "web", "webTLS", "done", "failed"}
NoConfig == [ring |-> {}, webStore |-> NoLabel, webTrust |-> NoLabel]

KeyStoresTypeOK ==
    /\ kpc \in Steps
    /\ at \in (DOMAIN supply.dirs) \X (Nat \ {0})
    /\ kdb.signers \cup trustP12 \subseteq Certs
    /\ \A e \in kdb.personal : e.label \in cms.labels \/ kpc \in {"relabel", "failed"}
    /\ DOMAIN keyLabels = DOMAIN supply.dirs
    /\ (failure = "none") = (kpc # "failed")

KeyStoresInit ==
    /\ \/ kpc = "unused" /\ supply = NoSupply
       \/ kpc = "create" /\ supply \in Supplies
    /\ at = <<1, 1>>
    /\ kdb = [personal |-> {}, signers |-> {}] /\ trustP12 = {} /\ p12 = {}
    /\ cms = NoData /\ truststore = NoData
    /\ keyLabels = [d \in DOMAIN supply.dirs |-> NoLabel]
    /\ config = NoConfig /\ failure = "none"

-------------------------------------------------------------------------------
(***************************************************************************)
(* Key sets.                                                               *)
(***************************************************************************)

SetsOf(s) == UNION {Range(s.dirs[d]) : d \in DOMAIN s.dirs}
OwnFiles(set) == {i \in DOMAIN set.files : set.files[i].own}
\* The first certificate of a file of its own is the key's, all others are CAs.
Leaves(set) == {Head(set.files[i].certs) : i \in OwnFiles(set)}
CAs(set) == UNION {IF f.own THEN Range(Tail(f.certs)) ELSE Range(f.certs) : f \in Range(set.files)}
\* publicCertificate, set by each such file in turn.
Public(set) == Head(set.files[Max(OwnFiles(set))].certs)

\* haveKeysAndCerts
HaveKeysAndCerts(s) ==
    \/ \E set \in SetsOf(s) : set.key # NoKey \/ set.files # <<>>
    \/ s.trust # {}

CurrentSet == supply.dirs[at[1]][at[2]]
Previous(key) == IF key \in DOMAIN cms.lookup THEN cms.lookup[key] ELSE NoLabel
FirstLabel(label) ==
    IF keyLabels[at[1]] = NoLabel THEN [keyLabels EXCEPT ![at[1]] = label] ELSE keyLabels

\* addToKnownCertificates for several certificates: those that are not known become
\* known and, if asked for, are to be put into the store.
AddToKnown(data, certs, addToKeystore) ==
    [data EXCEPT !.known = @ \cup certs,
                 !.trusted = IF addToKeystore THEN @ \cup (certs \ data.known) ELSE @]

\* What makes the code refuse a key set, in the order of the checks.  A set without a private
\* key is refused too (its nil key is not a comparablePrivateKey), before the code comes to
\* the place where it would skip it: see KeylessSkipped.
Defect(set) ==
    IF set.label = TrustLabel THEN "trustLabel"
    ELSE IF set.key = NoKey THEN "privateKey"
    ELSE IF \E i \in OwnFiles(set) : set.files[i].certs = <<>> THEN "decode"
    ELSE IF OwnFiles(set) = {} THEN "publicCertificate"
    ELSE IF supply.validate /\ \E ca \in CAs(set) : SubjectOf[ca] = SubjectOf[Public(set)]
      THEN "subject"
    ELSE "none"

-------------------------------------------------------------------------------
(***************************************************************************)
(* configureTLSKeystores                                                   *)
(***************************************************************************)

Fail(reason) ==
    /\ kpc' = "failed" /\ failure' = reason
    /\ UNCHANGED <<supply, at, storeVars, dataVars, keyLabels, config>>

\* A file cannot be read or written, or a command fails.
StepFails ==
    /\ kpc \notin {"unused", "failed", "done"}
    /\ Fail("io")

\* generateAllKeystores
Create ==
    /\ kpc = "create"
    /\ kpc' = IF HaveKeysAndCerts(supply) THEN "keys" ELSE "trust"
    /\ UNCHANGED <<supply, at, storeVars, dataVars, keyLabels, config, failure>>

\* processKeys is through with a directory, or with all.
NextDirectory ==
    /\ kpc = "keys" /\ at[2] > Len(supply.dirs[at[1]])
    /\ IF at[1] < Len(supply.dirs) THEN at' = <<at[1] + 1, 1>> /\ UNCHANGED kpc
                                   ELSE kpc' = "trust" /\ UNCHANGED at
    /\ UNCHANGED <<supply, storeVars, dataVars, keyLabels, config, failure>>

AtKeySet == kpc = "keys" /\ at[2] <= Len(supply.dirs[at[1]])

\* processPrivateKey and processCertificates, for a set with nothing wrong so far.
Remembered(set) ==
    /\ cms' = [AddToKnown(cms, Leaves(set) \cup CAs(set), FALSE) EXCEPT
                 !.lookup = IF set.key \in DOMAIN @ THEN @
                            ELSE [k \in DOMAIN @ \cup {set.key} |->
                                    IF k = set.key THEN set.label ELSE @[k]]]
    /\ truststore' = IF supply.ha THEN truststore ELSE AddToKnown(truststore, CAs(set), TRUE)

\* A fault: a key that is known is not loaded again, whatever comes with it.
NothingNew_KeyOnly(set) == Previous(set.key) # NoLabel

NothingNew(set) ==
    Previous(set.key) # NoLabel /\ Leaves(set) \cup CAs(set) \subseteq cms.known

\* A fault: the label is that of the set that is skipped.
SkippedLabel_Own(set) == set.label

SkippedLabel(set) == Previous(set.key)

\* The set repeats what has been loaded.
SkipKeySet ==
    /\ AtKeySet
    /\ Defect(CurrentSet) \in {"none", "publicCertificate", "subject"}
    /\ NothingNew(CurrentSet)
    /\ Remembered(CurrentSet)
    /\ keyLabels' = FirstLabel(SkippedLabel(CurrentSet))
    /\ at' = <<at[1], at[2] + 1>>
    /\ UNCHANGED <<supply, kpc, storeVars, config, failure>>

RefuseKeySet ==
    /\ AtKeySet
    /\ Defect(CurrentSet) # "none"
    /\ Defect(CurrentSet) \in {"publicCertificate", "subject"} => ~NothingNew(CurrentSet)
    /\ Fail(Defect(CurrentSet))

\* The key, its certificate and the CAs go to a .p12 file of their own, ...
WriteKeySet ==
    /\ AtKeySet
    /\ Defect(CurrentSet) = "none" /\ ~NothingNew(CurrentSet)
    /\ Remembered(CurrentSet)
    /\ p12' = {f \in p12 : f.label # CurrentSet.label} \cup
                {[label |-> CurrentSet.label, key |-> CurrentSet.key,
                  cert |-> Public(CurrentSet), cas |-> CAs(CurrentSet)]}
    /\ kpc' = "import"
    /\ UNCHANGED <<supply, at, kdb, trustP12, keyLabels, config, failure>>

Labels == {e.label : e \in kdb.personal}

StoredCerts == kdb.signers \cup {e.cert : e \in kdb.personal}

\* GSKit does not allow two certificates with one subject.
OneSubject(certs) == \A c, d \in certs : SubjectOf[c] = SubjectOf[d] => c = d

\* What the command does not import: a personal certificate that is there, or one that
\* would make two of one subject.
Refused(f) ==
    \/ \E e \in kdb.personal : e.cert = f.cert
    \/ ~OneSubject(StoredCerts \cup {f.cert} \cup f.cas)

\* ... which is imported under a label of the command's own making.
ImportKeySet ==
    /\ kpc = "import"
    /\ \E f \in p12 :
         /\ f.label = CurrentSet.label
         /\ IF Refused(f) THEN Fail("import")
            ELSE /\ kdb' = [personal |-> kdb.personal \cup
                                           {[label |-> NoLabel, key |-> f.key, cert |-> f.cert]},
                            signers |-> kdb.signers \cup f.cas]
                 /\ kpc' = "relabel"
                 /\ UNCHANGED <<supply, at, trustP12, p12, dataVars, keyLabels, config, failure>>

\* relabelCertificate finds the new one as the first that is not in KeyLabels, ...
Relabelled == CHOOSE e \in kdb.personal : e.label \notin cms.labels

\* ... and gives it the name of the key set, which must not be taken.
Relabel ==
    /\ kpc = "relabel"
    /\ IF CurrentSet.label \in Labels THEN Fail("labelTaken")
       ELSE /\ kdb' = [kdb EXCEPT !.personal = (@ \ {Relabelled}) \cup
                                                {[Relabelled EXCEPT !.label = CurrentSet.label]}]
            /\ cms' = [cms EXCEPT !.labels = @ \cup {CurrentSet.label}]
            /\ keyLabels' = FirstLabel(CurrentSet.label)
            /\ at' = <<at[1], at[2] + 1>>
            /\ kpc' = "keys"
            /\ UNCHANGED <<supply, trustP12, p12, truststore, config, failure>>

-------------------------------------------------------------------------------
(***************************************************************************)
(* processTrustCertificates                                                *)
(***************************************************************************)

\* A fault: certificates are to be added to the store whether or not they are known.
ReadTrust_Known ==
    /\ kpc = "trust"
    /\ cms' = [cms EXCEPT !.trusted = supply.trust]
    /\ truststore' = IF supply.ha THEN truststore ELSE AddToKnown(truststore, supply.trust, TRUE)
    /\ kpc' = "addTrust"
    /\ UNCHANGED <<supply, at, storeVars, keyLabels, config, failure>>

ReadTrust ==
    /\ kpc = "trust"
    /\ cms' = AddToKnown(cms, supply.trust, TRUE)
    /\ truststore' = IF supply.ha THEN truststore ELSE AddToKnown(truststore, supply.trust, TRUE)
    /\ kpc' = "addTrust"
    /\ UNCHANGED <<supply, at, storeVars, keyLabels, config, failure>>

\* addCertificatesToTruststore, with new labels for all.
AddToTruststore ==
    /\ kpc = "addTrust"
    /\ trustP12' = trustP12 \cup truststore.trusted
    /\ kpc' = "addCMS"
    /\ UNCHANGED <<supply, at, kdb, p12, dataVars, keyLabels, config, failure>>

\* addCertificatesToCMSKeystore; the command refuses a certificate that is there, and one
\* with the subject of another.
AddToCMS ==
    /\ kpc = "addCMS"
    /\ IF cms.trusted \cap StoredCerts # {} \/ ~OneSubject(StoredCerts \cup cms.trusted)
         THEN Fail("duplicate")
         ELSE /\ kdb' = [kdb EXCEPT !.signers = @ \cup cms.trusted]
              /\ kpc' = IF supply.ha THEN "ha" ELSE "tls"
              /\ UNCHANGED <<supply, at, trustP12, p12, dataVars, keyLabels, config, failure>>

-------------------------------------------------------------------------------
(***************************************************************************)
(* What the stores are used for.                                           *)
(***************************************************************************)

\* ConfigureTLS: no key ring without a label.  If the certificates cannot be listed it goes
\* on as if there were none.
ConfigureTLS ==
    /\ kpc = "tls"
    /\ \E ring \in {{keyLabels[1]} \ {NoLabel}, {}} : config' = [config EXCEPT !.ring = ring]
    /\ kpc' = IF supply.web THEN "web" ELSE "done"
    /\ UNCHANGED <<supply, at, storeVars, dataVars, keyLabels, failure>>

\* ConfigureNativeHA with updateTLS: a key store stanza if there is a label.
ConfigureNativeHA ==
    /\ kpc = "ha"
    /\ config' = [config EXCEPT !.ring = Range(keyLabels) \ {NoLabel}]
    /\ kpc' = "done"
    /\ UNCHANGED <<supply, at, storeVars, dataVars, keyLabels, failure>>

\* ConfigureWebKeystore: the file of the label, or one with a new certificate ...
WebKeystore ==
    /\ kpc = "web"
    /\ IF keyLabels[1] = NoLabel /\ ~supply.host THEN kpc' = "done" /\ UNCHANGED <<p12, config>>
       ELSE LET store == IF keyLabels[1] = NoLabel THEN "default" ELSE keyLabels[1] IN
            /\ p12' = IF keyLabels[1] = NoLabel
                        THEN p12 \cup {[label |-> store, key |-> "selfSigned",
                                        cert |-> "selfSigned", cas |-> {}]}
                        ELSE p12
            /\ config' = [config EXCEPT !.webStore = store]
            /\ kpc' = "webTLS"
    /\ UNCHANGED <<supply, at, kdb, trustP12, dataVars, keyLabels, failure>>

\* ... and ConfigureWebTLS: without trusted certificates the key store is the trust store.
WebTLS ==
    /\ kpc = "webTLS"
    /\ config' = [config EXCEPT !.webTrust = IF truststore.trusted = {} THEN config.webStore
                                                                        ELSE TrustLabel]
    /\ kpc' = "done"
    /\ UNCHANGED <<supply, at, storeVars, dataVars, keyLabels, failure>>

-------------------------------------------------------------------------------
KeyStoresNext ==
    \/ StepFails \/ Create \/ NextDirectory
    \/ SkipKeySet \/ RefuseKeySet \/ WriteKeySet \/ ImportKeySet \/ Relabel
    \/ ReadTrust \/ AddToTruststore \/ AddToCMS
    \/ ConfigureTLS \/ ConfigureNativeHA \/ WebKeystore \/ WebTLS

KeyStoresSpec == KeyStoresInit /\ [][KeyStoresNext]_keyStoreVars

-------------------------------------------------------------------------------
(***************************************************************************)
(* Properties.                                                             *)
(***************************************************************************)

\* The label a directory gets is in the key store, with the private key of the first key
\* set of that directory, also if that set was skipped for an earlier one; and the web
\* server finds the same key in the file it is told to use.
LabelServes ==
    kpc = "done" => \A d \in DOMAIN supply.dirs :
        LET sets == supply.dirs[d] IN
        /\ keyLabels[d] # NoLabel <=> \E set \in Range(sets) : set.key # NoKey
        /\ keyLabels[d] # NoLabel => \E e \in kdb.personal :
             /\ e.label = keyLabels[d] /\ e.key = sets[1].key
             /\ supply.web => \E f \in p12 :
                                f.label = config.webStore /\ f.key = e.key /\ f.cert = e.cert

\* A leaf that a later file of the same key set takes the place of.
Shadowed(set) ==
    {Head(set.files[i].certs) : i \in {j \in OwnFiles(set) : \E k \in OwnFiles(set) : j < k}}

\* Every certificate that is supplied gets into the key store, if it is not shadowed, and
\* the trust store has the CAs and the trusted certificates and nothing else.
CertificatesKept ==
    kpc = "done" =>
        /\ \A c \in supply.trust \cup UNION {Leaves(set) \cup CAs(set) : set \in SetsOf(supply)} :
             \/ c \in kdb.signers
             \/ \E e \in kdb.personal : e.cert = c
             \/ \E set \in SetsOf(supply) : c \in Shadowed(set)
        /\ ~supply.ha => trustP12 = supply.trust \cup UNION {CAs(set) : set \in SetsOf(supply)}

\* The key sets that have a certificate for their key, and the certificates that the key
\* store is to hold.
Certified(s) ==
    {set \in SetsOf(s) :
       OwnFiles(set) # {} /\ \A i \in OwnFiles(set) : set.files[i].certs # <<>>}
Wanted(s) == s.trust \cup UNION {CAs(set) \cup {Public(set)} : set \in Certified(s)}

\* The configuration fails only for a reason that what is mounted gives, or if a file or a
\* command fails: a key set that the code refuses, for just that reason; two sets of one
\* name; a certificate that two sets have for their own; two certificates of one subject.
\* A certificate that is supplied again, with a key or without, never makes it fail.
GoodSupplyAccepted ==
    kpc = "failed" =>
        \/ failure = "io"
        \/ \E set \in SetsOf(supply) : failure = Defect(set)
        \/ failure = "labelTaken" /\ \E a, b \in SetsOf(supply) : a # b /\ a.label = b.label
        \/ failure = "import" /\ \E a, b \in Certified(supply) : a # b /\ Public(a) = Public(b)
        \/ failure \in {"import", "duplicate"} /\ ~OneSubject(Wanted(supply))

\* The comment in processKeys: "If private key does not exist - skip this set of keys".
KeylessSkipped == kpc = "failed" => failure # "privateKey"
===============================================================================
