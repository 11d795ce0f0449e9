----------------------------- MODULE KeyStoresProofs ----------------------------
(***************************************************************************)
(* Theorems about the key stores, for everything that may be mounted: any  *)
(* number of key sets with any files, and any relation of their keys,      *)
(* labels and certificates.                                                *)
(*                                                                         *)
(* The three properties are about the end of the configuration, and none   *)
(* is inductive.  What the program keeps in its maps (cms, truststore) is  *)
(* related to what the stores hold, and both to the key sets that have     *)
(* been processed (Earlier): LoadInv says how, for the steps in between as *)
(* well, when the current set is in its file but not yet in the store, or  *)
(* in the store under a label of the command's making.                     *)
(***************************************************************************)
EXTENDS KeyStores, WellFoundedInduction, TLAPS

\* What may be mounted.
IsSupply(s) ==
    /\ s.ha \in BOOLEAN /\ s.web \in BOOLEAN
    /\ s.ha => ~s.web
    /\ Len(s.dirs) \in Nat \ {0} /\ DOMAIN s.dirs = 1..Len(s.dirs)
    /\ ~s.ha => Len(s.dirs) = 1
    /\ \A d \in DOMAIN s.dirs : IsDirectory(s.dirs[d])
    /\ s.trust \subseteq Certs

\* A key set has been written, and is to be imported or to be given its label.
Loading == kpc \in {"import", "relabel"}

\* The key sets that have been processed.
Past(d, i) == d < at[1] \/ (d = at[1] /\ i < at[2])
Earlier ==
    UNION {{supply.dirs[d][i] : i \in {j \in DOMAIN supply.dirs[d] : Past(d, j)}} :
              d \in DOMAIN supply.dirs}

\* What the current key set leaves in its file, and in the store under no name.
KeyFile(set) == [label |-> set.label, key |-> set.key, cert |-> Public(set), cas |-> CAs(set)]
NewEntry(set) == [label |-> NoLabel, key |-> set.key, cert |-> Public(set)]

AllCerts(set) == Leaves(set) \cup CAs(set)

\* The records have their fields.
Forms ==
    /\ cms = [known |-> cms.known, trusted |-> cms.trusted,
              labels |-> cms.labels, lookup |-> cms.lookup]
    /\ truststore = [known |-> truststore.known, trusted |-> truststore.trusted,
                     labels |-> truststore.labels, lookup |-> truststore.lookup]
    /\ kdb = [personal |-> kdb.personal, signers |-> kdb.signers]
    /\ config = [ring |-> config.ring, webStore |-> config.webStore, webTrust |-> config.webTrust]

\* Signers and trusted certificates are certificates.
CertTypes ==
    /\ kdb.signers \subseteq Certs /\ trustP12 \subseteq Certs
    /\ cms.trusted \subseteq Certs /\ truststore.trusted \subseteq Certs
    /\ \A f \in p12 : f.cas \subseteq Certs

\* What is mounted, and how far it has been processed.
Places ==
    /\ IsSupply(supply) /\ kpc \in Steps
    /\ at \in (DOMAIN supply.dirs) \X (Nat \ {0})
    /\ Loading => at[2] <= Len(supply.dirs[at[1]])
    /\ keyLabels = [d \in DOMAIN supply.dirs |-> keyLabels[d]]
    /\ (failure = "none") = (kpc # "failed")

Typed == Forms /\ CertTypes /\ Places

\* The program remembers the keys and the certificates of every set it has processed, ...
KeysKnown ==
    \A set \in Earlier :
        set.key # NoKey /\ set.key \in DOMAIN cms.lookup /\ AllCerts(set) \subseteq cms.known

\* ... and the label it remembers for a key is that of a certificate with this key.
LookupServes ==
    \A k \in DOMAIN cms.lookup :
        /\ cms.lookup[k] # NoLabel
        /\ \/ \E e \in kdb.personal : e.label = cms.lookup[k] /\ e.key = k
           \/ Loading /\ k = CurrentSet.key /\ cms.lookup[k] = CurrentSet.label

\* A certificate in the key store is that of a processed set, under the label of the set;
\* the one exception is the certificate that is to be relabelled.
EntriesOfSets ==
    /\ NoLabel \notin cms.labels
    /\ \A e \in kdb.personal :
         \/ kpc = "relabel" /\ e = NewEntry(CurrentSet)
         \/ /\ e.label \in cms.labels
            /\ \E set \in Earlier :
                 e.label = set.label /\ set \in Certified(supply) /\ e.cert = Public(set)
    /\ kpc = "relabel" => NewEntry(CurrentSet) \in kdb.personal

\* What is in the key store is also in the .p12 file of its label, unless that file has
\* just been overwritten: the label is then found to be taken.
FilesMatch ==
    /\ \A e \in kdb.personal :
         \/ e.label = NoLabel
         \/ \E f \in p12 : f.label = e.label /\ f.key = e.key /\ f.cert = e.cert
         \/ Loading /\ e.label = CurrentSet.label
    /\ Loading => /\ KeyFile(CurrentSet) \in p12
                  /\ \A f \in p12 : f.label = CurrentSet.label => f = KeyFile(CurrentSet)

\* A set that is loaded is not one that has been processed, and has a key and a certificate.
CurrentNew ==
    Loading => /\ CurrentSet \notin Earlier
               /\ CurrentSet.key # NoKey /\ CurrentSet.key \in DOMAIN cms.lookup
               /\ AllCerts(CurrentSet) \subseteq cms.known /\ CurrentSet \in Certified(supply)

BeforeTrust == kpc \in {"unused", "create", "keys", "import", "relabel", "trust"}
AddingTrust == kpc \in {"addTrust", "addCMS"}

\* The key store holds only certificates that are known; so none of those that are to be
\* added is there.
StoreKnown ==
    /\ BeforeTrust => StoredCerts \subseteq cms.known /\ cms.trusted = {}
    /\ BeforeTrust \/ kpc = "addTrust" => trustP12 = {}
    /\ AddingTrust => cms.trusted \cap StoredCerts = {}
    /\ kpc = "relabel" => CAs(CurrentSet) \subseteq kdb.signers

\* A certificate that is known is in the key store or on its way there, or shadowed.
KnownStored ==
    /\ \A c \in cms.known :
         \/ c \in StoredCerts
         \/ \E set \in SetsOf(supply) : c \in Shadowed(set)
         \/ Loading /\ c \in AllCerts(CurrentSet)
         \/ AddingTrust /\ c \in cms.trusted
    /\ ~BeforeTrust => supply.trust \subseteq cms.known

\* Signers are CAs of key sets that have a certificate, or trusted certificates.
StoreWanted == kdb.signers \cup cms.trusted \subseteq Wanted(supply)

\* Truststore has the CAs of the sets so far, and the trusted certificates once they have
\* been read.
TrustKept ==
    ~supply.ha =>
        /\ truststore.known = truststore.trusted
        /\ truststore.trusted = (UNION {CAs(set) : set \in Earlier})
                                  \cup (IF Loading THEN CAs(CurrentSet) ELSE {})
                                  \cup (IF BeforeTrust THEN {} ELSE supply.trust)
        /\ ~BeforeTrust /\ kpc # "addTrust" => trustP12 = truststore.trusted

\* A directory has a label as soon as its first set has been processed, and it is the label
\* of a certificate with the key of that set.
First(d) == 1 \in DOMAIN supply.dirs[d] /\ Past(d, 1)
LabelsFirst ==
    \A d \in DOMAIN supply.dirs :
        IF First(d)
          THEN /\ keyLabels[d] # NoLabel
               /\ \E e \in kdb.personal :
                    e.label = keyLabels[d] /\ e.key = supply.dirs[d][1].key
          ELSE keyLabels[d] = NoLabel

\* After the key sets, only empty ones are left: if there is nothing at all.
AllProcessed ==
    kpc \notin {"unused", "create", "keys", "import", "relabel"} =>
        \A d \in DOMAIN supply.dirs : \A i \in DOMAIN supply.dirs[d] :
            \/ Past(d, i)
            \/ supply.dirs[d][i].key = NoKey /\ supply.dirs[d][i].files = <<>>

\* The web server uses the file of the label.
WebStore ==
    /\ kpc = "ha" => supply.ha
    /\ kpc \in {"webTLS", "done"} /\ supply.web /\ keyLabels[1] # NoLabel =>
         config.webStore = keyLabels[1]

\* Holds until something fails.
LoadInv ==
    /\ KeysKnown /\ LookupServes /\ EntriesOfSets /\ FilesMatch /\ CurrentNew
    /\ StoreKnown /\ KnownStored /\ StoreWanted /\ TrustKept /\ LabelsFirst /\ AllProcessed /\ WebStore

-------------------------------------------------------------------------------
(***************************************************************************)
(* Key sets.                                                               *)
(***************************************************************************)

\* A set of numbers up to n has a greatest one.
LEMMA Greatest ==
    ASSUME NEW n \in Nat, NEW T \in SUBSET (1..n), T # {}
    PROVE  Max(T) \in T /\ \A i \in T : Max(T) >= i
<1> DEFINE R == {p \in Nat \X Nat : p[1] < p[2]}
           U == {n - i : i \in T}
<1>1. IsWellFoundedOn(R, Nat)
  BY NatLessThanWellFounded DEF OpToRel
<1>2. U \in SUBSET Nat /\ U # {}
  <2>1. \A i \in T : n - i \in Nat
    OBVIOUS
  <2> QED
    BY <2>1
<1>3. PICK k \in U : \A j \in U : ~(<<j, k>> \in R)
  <2> HIDE DEF R, U
  <2> QED
    BY <1>1, <1>2, WFMin
<1>4. PICK m \in T : k = n - m
  BY <1>3
<1>5. ASSUME NEW i \in T PROVE m >= i
  <2>1. n - i \in U /\ n - i \in Nat /\ k \in Nat
    BY <1>2, <1>3
  <2>2. ~(<<n - i, k>> \in R)
    BY <1>3, <2>1
  <2>3. ~(n - i < k)
    BY <2>1, <2>2
  <2> QED
    BY <1>4, <2>3
<1>6. \E x \in T : \A y \in T : x >= y
  BY <1>5
<1> QED
  BY <1>6 DEF Max

\* The files of a key set that are the key's own.
LEMMA OwnFilesBounded ==
    ASSUME NEW set, IsKeySet(set)
    PROVE  Len(set.files) \in Nat /\ OwnFiles(set) \in SUBSET (1..Len(set.files))
BY DEF IsKeySet, OwnFiles

\* The certificate of the key is one of its leaves, and every other leaf is shadowed.
LEMMA LeavesOf ==
    ASSUME NEW set, IsKeySet(set), OwnFiles(set) # {}
    PROVE  /\ Public(set) \in Leaves(set)
           /\ \A c \in Leaves(set) : c = Public(set) \/ c \in Shadowed(set)
<1> DEFINE m == Max(OwnFiles(set))
<1>1. m \in OwnFiles(set) /\ \A i \in OwnFiles(set) : m >= i
  BY OwnFilesBounded, Greatest
<1>2. \A i \in OwnFiles(set) : i \in Int
  BY OwnFilesBounded
<1> HIDE DEF m
<1>3. Public(set) = Head(set.files[m].certs)
  BY DEF Public, m
<1>4. Public(set) \in Leaves(set)
  BY <1>1, <1>3 DEF Leaves
<1>5. ASSUME NEW i \in OwnFiles(set), i # m PROVE Head(set.files[i].certs) \in Shadowed(set)
  <2>1. i < m
    BY <1>1, <1>2, <1>5
  <2> QED
    BY <1>1, <2>1 DEF Shadowed
<1> QED
  BY <1>3, <1>4, <1>5 DEF Leaves

\* CAs are certificates.
LEMMA CAsAreCerts ==
    ASSUME NEW set, IsKeySet(set), \A i \in OwnFiles(set) : set.files[i].certs # <<>>
    PROVE  CAs(set) \subseteq Certs
<1>1. ASSUME NEW f \in Range(set.files)
      PROVE  Range(f.certs) \subseteq Certs /\ (f.own => Range(Tail(f.certs)) \subseteq Certs)
  <2>1. PICK i \in DOMAIN set.files : f = set.files[i]
    BY DEF Range
  <2>2. set.files \in Seq([own: BOOLEAN, certs: Seq(Certs)])
    BY DEF IsKeySet
  <2>3. f \in [own: BOOLEAN, certs: Seq(Certs)]
    <3> DEFINE S == [own: BOOLEAN, certs: Seq(Certs)]
    <3> HIDE DEF S
    <3>1. set.files \in Seq(S)
      BY <2>2 DEF S
    <3>2. f \in S
      BY <2>1, <3>1
    <3> QED
      BY <3>2 DEF S
  <2>4. f.certs \in Seq(Certs) /\ (f.own => f.certs # <<>>)
    BY <2>1, <2>3 DEF OwnFiles
  <2> QED
    BY <2>4 DEF Range
<1> QED
  BY <1>1 DEF CAs

-------------------------------------------------------------------------------
(***************************************************************************)
(* The places in the directories.                                          *)
(***************************************************************************)

\* Where the key sets are read from.
LEMMA Placed ==
    ASSUME Places
    PROVE  /\ at = <<at[1], at[2]>> /\ at[1] \in DOMAIN supply.dirs /\ at[1] \in Nat
           /\ at[2] \in Nat \ {0} /\ Len(supply.dirs) \in Nat /\ 1 \in DOMAIN supply.dirs
           /\ DOMAIN supply.dirs = 1..Len(supply.dirs)
           /\ \A d \in DOMAIN supply.dirs : /\ d \in Nat /\ Len(supply.dirs[d]) \in Nat
                                            /\ DOMAIN supply.dirs[d] = 1..Len(supply.dirs[d])
                                            /\ DOMAIN supply.dirs[d] \subseteq Nat \ {0}
<1>1. /\ at = <<at[1], at[2]>> /\ at[1] \in DOMAIN supply.dirs
      /\ at[2] \in Nat \ {0} /\ Len(supply.dirs) \in Nat \ {0}
      /\ DOMAIN supply.dirs = 1..Len(supply.dirs)
  BY DEF Places, IsSupply
<1>2. ASSUME NEW d \in DOMAIN supply.dirs
      PROVE  /\ Len(supply.dirs[d]) \in Nat
             /\ DOMAIN supply.dirs[d] = 1..Len(supply.dirs[d])
  BY DEF Places, IsSupply, IsDirectory
<1>3. ASSUME NEW d \in DOMAIN supply.dirs PROVE DOMAIN supply.dirs[d] \subseteq Nat \ {0}
  BY <1>2
<1> QED
  BY <1>1, <1>2, <1>3

\* The key set that is processed.
LEMMA CurrentPlaced ==
    ASSUME Places, AtKeySet \/ Loading
    PROVE  /\ at[2] \in DOMAIN supply.dirs[at[1]] /\ CurrentSet \in SetsOf(supply)
           /\ IsKeySet(CurrentSet) /\ CurrentSet.label # NoLabel
<1>1. at[2] \in DOMAIN supply.dirs[at[1]] /\ at[1] \in DOMAIN supply.dirs
  <2>1. at[2] <= Len(supply.dirs[at[1]])
    BY DEF Places, AtKeySet
  <2>2. at[1] \in DOMAIN supply.dirs /\ at[2] \in Nat \ {0} /\ Len(supply.dirs[at[1]]) \in Nat
    BY Placed
  <2>3. at[2] \in 1..Len(supply.dirs[at[1]])
    BY <2>1, <2>2
  <2> QED
    BY <2>2, <2>3, Placed
<1>2. IsKeySet(CurrentSet)
  BY <1>1 DEF Places, IsSupply, IsDirectory, CurrentSet
<1> QED
  BY <1>1, <1>2 DEF SetsOf, Range, CurrentSet, IsKeySet

\* What has been processed is part of what is mounted.
LEMMA EarlierMounted ==
    ASSUME Places
    PROVE  Earlier \subseteq SetsOf(supply) /\ \A set \in SetsOf(supply) : IsKeySet(set)
<1>1. Earlier \subseteq SetsOf(supply)
  <2>1. ASSUME NEW set \in Earlier PROVE set \in SetsOf(supply)
    <3>1. PICK d \in DOMAIN supply.dirs : \E i \in DOMAIN supply.dirs[d] : set = supply.dirs[d][i]
      BY DEF Earlier
    <3> QED
      BY <3>1 DEF SetsOf, Range
  <2> QED
    BY <2>1
<1>2. ASSUME NEW set \in SetsOf(supply) PROVE IsKeySet(set)
  <2>1. PICK d \in DOMAIN supply.dirs : \E i \in DOMAIN supply.dirs[d] : set = supply.dirs[d][i]
    BY DEF SetsOf, Range
  <2> QED
    BY <2>1 DEF Places, IsSupply, IsDirectory
<1> QED
  BY <1>1, <1>2

\* On to the next key set.
LEMMA Advances ==
    ASSUME Places, AtKeySet \/ Loading, supply' = supply, at' = <<at[1], at[2] + 1>>
    PROVE  /\ at' \in (DOMAIN supply.dirs) \X (Nat \ {0})
           /\ Earlier' = Earlier \cup {CurrentSet}
           /\ \A d \in DOMAIN supply.dirs : First(d)' <=> First(d) \/ d = at[1]
           /\ First(at[1]) \/ at[2] = 1
<1>1. at'[1] = at[1] /\ at'[2] = at[2] + 1
  OBVIOUS
<1>2. at[2] \in DOMAIN supply.dirs[at[1]]
  BY CurrentPlaced
<1>3. /\ at[1] \in DOMAIN supply.dirs /\ at[1] \in Nat /\ at[2] \in Nat \ {0}
      /\ \A d \in DOMAIN supply.dirs : d \in Nat /\ DOMAIN supply.dirs[d] \subseteq Nat \ {0}
      /\ \A d \in DOMAIN supply.dirs : DOMAIN supply.dirs[d] = 1..Len(supply.dirs[d])
  BY Placed
<1>4. ASSUME NEW d \in Nat, NEW i \in Nat
      PROVE  Past(d, i)' <=> Past(d, i) \/ (d = at[1] /\ i = at[2])
  BY <1>1, <1>3 DEF Past
<1>5. Earlier' = Earlier \cup {CurrentSet}
  <2>1. ASSUME NEW set \in Earlier' PROVE set \in Earlier \cup {CurrentSet}
    <3>1. PICK d \in DOMAIN supply.dirs : \E i \in DOMAIN supply.dirs[d] :
                 Past(d, i)' /\ set = supply.dirs[d][i]
      BY <2>1 DEF Earlier
    <3>2. PICK i \in DOMAIN supply.dirs[d] : Past(d, i)' /\ set = supply.dirs[d][i]
      BY <3>1
    <3> QED
      BY <1>3, <1>4, <3>1, <3>2 DEF Earlier, CurrentSet
  <2>2. ASSUME NEW set \in Earlier PROVE set \in Earlier'
    <3>1. PICK d \in DOMAIN supply.dirs : \E i \in DOMAIN supply.dirs[d] :
                 Past(d, i) /\ set = supply.dirs[d][i]
      BY <2>2 DEF Earlier
    <3>2. PICK i \in DOMAIN supply.dirs[d] : Past(d, i) /\ set = supply.dirs[d][i]
      BY <3>1
    <3>3. Past(d, i)'
      BY <1>3, <1>4, <3>2
    <3> QED
      BY <3>2, <3>3 DEF Earlier
  <2>3. CurrentSet \in Earlier'
    <3>1. PICK d \in DOMAIN supply.dirs, i \in DOMAIN supply.dirs[at[1]] : d = at[1] /\ i = at[2]
      BY <1>2, <1>3
    <3>2. Past(d, i)'
      BY <1>3, <1>4, <3>1
    <3> QED
      BY <3>1, <3>2 DEF Earlier, CurrentSet
  <2> QED
    BY <2>1, <2>2, <2>3
<1>6. ASSUME NEW d \in DOMAIN supply.dirs PROVE First(d)' <=> First(d) \/ d = at[1]
  <2>1. 1 \in DOMAIN supply.dirs[at[1]]
    BY <1>2, <1>3
  <2>2. Past(d, 1)' <=> Past(d, 1) \/ (d = at[1] /\ 1 = at[2])
    BY <1>3, <1>4
  <2> QED
    BY <1>3, <2>1, <2>2 DEF First, Past
<1>7. First(at[1]) \/ at[2] = 1
  BY <1>2, <1>3 DEF First, Past
<1>8. at' \in (DOMAIN supply.dirs) \X (Nat \ {0})
  BY <1>3
<1> QED
  BY <1>5, <1>6, <1>7, <1>8

\* The places stay.
LEMMA PlacesStay ==
    ASSUME UNCHANGED <<supply, at>>
    PROVE  /\ Earlier' = Earlier /\ CurrentSet' = CurrentSet
           /\ \A d : First(d)' <=> First(d)
           /\ \A d, i : Past(d, i)' <=> Past(d, i)
BY DEF Earlier, CurrentSet, First, Past

\* On to the next directory.
LEMMA DirectoryDone ==
    ASSUME Places, kpc = "keys", at[2] > Len(supply.dirs[at[1]]), supply' = supply,
           at' = <<at[1] + 1, 1>>
    PROVE  /\ Earlier' = Earlier
           /\ \A d \in DOMAIN supply.dirs : First(d)' <=> First(d)
<1>1. at'[1] = at[1] + 1 /\ at'[2] = 1
  OBVIOUS
<1>2. /\ at[1] \in DOMAIN supply.dirs /\ at[1] \in Nat /\ at[2] \in Nat \ {0}
      /\ \A d \in DOMAIN supply.dirs : d \in Nat /\ DOMAIN supply.dirs[d] \subseteq Nat \ {0}
      /\ \A d \in DOMAIN supply.dirs : /\ DOMAIN supply.dirs[d] = 1..Len(supply.dirs[d])
                                       /\ Len(supply.dirs[d]) \in Nat
  BY Placed
<1>3. ASSUME NEW d \in DOMAIN supply.dirs, NEW i \in DOMAIN supply.dirs[d]
      PROVE  Past(d, i)' <=> Past(d, i)
  BY <1>1, <1>2 DEF Past
<1>4. Earlier' = Earlier
  BY <1>3 DEF Earlier
<1>5. ASSUME NEW d \in DOMAIN supply.dirs PROVE First(d)' <=> First(d)
  BY <1>3 DEF First
<1> QED
  BY <1>4, <1>5

-------------------------------------------------------------------------------
(***************************************************************************)
(* Types.                                                                  *)
(***************************************************************************)

\* What is right with a key set that is not refused at once.
LEMMA NotRefused ==
    ASSUME NEW set, Defect(set) \in {"none", "publicCertificate", "subject"}
    PROVE  /\ set.key # NoKey /\ set.label # TrustLabel
           /\ \A i \in OwnFiles(set) : set.files[i].certs # <<>>
           /\ Defect(set) = "none" => OwnFiles(set) # {}
BY DEF Defect

\* Two fields of a record of that form.
LEMMA DataUpdated ==
    ASSUME NEW data, NEW x, NEW y,
           data = [known |-> data.known, trusted |-> data.trusted,
                   labels |-> data.labels, lookup |-> data.lookup]
    PROVE  [data EXCEPT !.known = x, !.trusted = y] =
             [known |-> x, trusted |-> y, labels |-> data.labels, lookup |-> data.lookup]
<1> DEFINE c == data.labels
           d == data.lookup
           new == [data EXCEPT !.known = x, !.trusted = y]
<1>1. new \in [known : {x}, trusted : {y}, labels : {c}, lookup : {d}]
  OBVIOUS
<1> HIDE DEF new, c, d
<1>2. new = [known |-> x, trusted |-> y, labels |-> c, lookup |-> d]
  BY <1>1
<1> QED
  BY <1>2 DEF new, c, d

\* processPrivateKey and processCertificates.
LEMMA RememberedIs ==
    ASSUME Forms, NEW set, Remembered(set)
    PROVE  /\ cms' = [known |-> cms.known \cup AllCerts(set), trusted |-> cms.trusted,
                      labels |-> cms.labels, lookup |-> cms'.lookup]
           /\ DOMAIN cms'.lookup = DOMAIN cms.lookup \cup {set.key}
           /\ \A k \in DOMAIN cms.lookup : cms'.lookup[k] = cms.lookup[k]
           /\ set.key \notin DOMAIN cms.lookup => cms'.lookup[set.key] = set.label
           /\ supply.ha => truststore' = truststore
           /\ ~supply.ha => truststore' =
                [known |-> truststore.known \cup CAs(set),
                 trusted |-> truststore.trusted \cup (CAs(set) \ truststore.known),
                 labels |-> truststore.labels, lookup |-> truststore.lookup]
<1> DEFINE L == IF set.key \in DOMAIN cms.lookup THEN cms.lookup
                ELSE [k \in DOMAIN cms.lookup \cup {set.key} |->
                        IF k = set.key THEN set.label ELSE cms.lookup[k]]
           A == AddToKnown(cms, AllCerts(set), FALSE)
<1>1. A = [known |-> cms.known \cup AllCerts(set), trusted |-> cms.trusted,
           labels |-> cms.labels, lookup |-> cms.lookup]
  <2>1. A = [cms EXCEPT !.known = cms.known \cup AllCerts(set), !.trusted = cms.trusted]
    BY DEF AddToKnown, Forms
  <2> QED
    BY <2>1, DataUpdated DEF Forms
<1>2. cms' = [A EXCEPT !.lookup = IF set.key \in DOMAIN @ THEN @
                            ELSE [k \in DOMAIN @ \cup {set.key} |->
                                    IF k = set.key THEN set.label ELSE @[k]]]
  BY DEF Remembered, AllCerts
<1>3. cms' = [known |-> cms.known \cup AllCerts(set), trusted |-> cms.trusted,
              labels |-> cms.labels, lookup |-> L]
  <2> HIDE DEF A
  <2> QED
    BY <1>1, <1>2
<1>4. cms'.lookup = L
  BY <1>3
<1>5. ASSUME ~supply.ha
      PROVE  truststore' = [known |-> truststore.known \cup CAs(set),
                 trusted |-> truststore.trusted \cup (CAs(set) \ truststore.known),
                 labels |-> truststore.labels, lookup |-> truststore.lookup]
  <2>1. truststore' = [truststore EXCEPT !.known = truststore.known \cup CAs(set),
                  !.trusted = truststore.trusted \cup (CAs(set) \ truststore.known)]
    BY <1>5 DEF Remembered, AddToKnown, Forms
  <2> QED
    BY <2>1, DataUpdated DEF Forms
<1>6. supply.ha => truststore' = truststore
  BY DEF Remembered
<1> QED
  BY <1>3, <1>4, <1>5, <1>6

\* A configuration that fails leaves everything as it is.
LEMMA FailTyped ==
    ASSUME Typed, NEW reason, reason # "none", Fail(reason)
    PROVE  Typed'
<1>1. Forms' /\ CertTypes'
  BY DEF Typed, Forms, CertTypes, Fail, storeVars, dataVars
<1>2. Places'
  BY DEF Typed, Places, Fail, Loading, Steps
<1> QED
  BY <1>1, <1>2 DEF Typed

\* The steps that leave the stores alone.
LEMMA ConfigTyped ==
    ASSUME Typed,
           Create \/ NextDirectory \/ ConfigureTLS \/ ConfigureNativeHA \/ WebKeystore \/ WebTLS
    PROVE  Typed'
<1> USE DEF storeVars, dataVars
<1>1. UNCHANGED <<supply, kdb, trustP12, cms, truststore, keyLabels, failure>>
  BY DEF Create, NextDirectory, ConfigureTLS, ConfigureNativeHA, WebKeystore, WebTLS
<1>2. config' = [ring |-> config'.ring, webStore |-> config'.webStore,
                 webTrust |-> config'.webTrust]
  <2>1. \A x : [config EXCEPT !.ring = x] = [ring |-> x, webStore |-> config.webStore,
                                             webTrust |-> config.webTrust]
    BY DEF Typed, Forms
  <2>2. \A x : [config EXCEPT !.webStore = x] = [ring |-> config.ring, webStore |-> x,
                                                 webTrust |-> config.webTrust]
    BY DEF Typed, Forms
  <2>3. \A x : [config EXCEPT !.webTrust = x] = [ring |-> config.ring,
                                                 webStore |-> config.webStore, webTrust |-> x]
    BY DEF Typed, Forms
  <2>4. CASE Create \/ NextDirectory
    BY <2>4 DEF Create, NextDirectory, Typed, Forms
  <2>5. CASE ConfigureTLS
    BY <2>1, <2>5 DEF ConfigureTLS
  <2>6. CASE ConfigureNativeHA
    BY <2>1, <2>6 DEF ConfigureNativeHA
  <2>7. CASE WebKeystore
    BY <2>2, <2>7 DEF WebKeystore, Typed, Forms
  <2>8. CASE WebTLS
    BY <2>3, <2>8 DEF WebTLS
  <2> QED
    BY <2>4, <2>5, <2>6, <2>7, <2>8
<1>3. Forms'
  BY <1>1, <1>2 DEF Typed, Forms
<1>4. CertTypes'
  <2>1. \A f \in p12' : f.cas \subseteq Certs
    <3>1. CASE p12' = p12
      BY <3>1 DEF Typed, CertTypes
    <3>2. CASE p12' # p12
      <4>1. PICK store : p12' = p12 \cup {[label |-> store, key |-> "selfSigned",
                                          cert |-> "selfSigned", cas |-> {}]}
        BY <3>2 DEF Create, NextDirectory, ConfigureTLS, ConfigureNativeHA, WebKeystore, WebTLS
      <4> QED
        BY <4>1 DEF Typed, CertTypes
    <3> QED
      BY <3>1, <3>2
  <2> QED
    BY <1>1, <2>1 DEF Typed, CertTypes
<1>5. Places'
  <2>1. kpc' \in Steps \ {"failed", "import", "relabel"} /\ kpc # "failed"
    BY DEF Create, NextDirectory, ConfigureTLS, ConfigureNativeHA, WebKeystore, WebTLS, Steps
  <2>2. at' \in (DOMAIN supply.dirs) \X (Nat \ {0})
    <3>1. CASE NextDirectory
      <4>1. at[1] \in Nat /\ Len(supply.dirs) \in Nat /\ DOMAIN supply.dirs = 1..Len(supply.dirs)
        BY Placed DEF Typed
      <4> QED
        BY <3>1, <4>1 DEF NextDirectory, Typed, Places
    <3>2. CASE ~NextDirectory
      BY <3>2 DEF Create, ConfigureTLS, ConfigureNativeHA, WebKeystore, WebTLS, Typed, Places
    <3> QED
      BY <3>1, <3>2
  <2> QED
    BY <1>1, <2>1, <2>2 DEF Typed, Places, Loading
<1> QED
  BY <1>3, <1>4, <1>5 DEF Typed

\* The label of a directory.
LEMMA FirstLabelIs ==
    ASSUME Typed, NEW label, keyLabels' = FirstLabel(label), supply' = supply
    PROVE  /\ keyLabels' = [d \in DOMAIN supply.dirs |-> keyLabels'[d]]
           /\ keyLabels'[at[1]] = IF keyLabels[at[1]] = NoLabel THEN label ELSE keyLabels[at[1]]
           /\ \A d \in DOMAIN supply.dirs : d # at[1] => keyLabels'[d] = keyLabels[d]
<1>1. keyLabels = [d \in DOMAIN supply.dirs |-> keyLabels[d]] /\ at[1] \in DOMAIN supply.dirs
  BY Placed DEF Typed, Places
<1>2. CASE keyLabels[at[1]] = NoLabel
  BY <1>1, <1>2 DEF FirstLabel
<1>3. CASE keyLabels[at[1]] # NoLabel
  BY <1>1, <1>3 DEF FirstLabel
<1> QED
  BY <1>2, <1>3

\* A key set is remembered, and there is nothing but certificates.
LEMMA RememberedTyped ==
    ASSUME Typed, AtKeySet, Remembered(CurrentSet), UNCHANGED <<kdb, config, trustP12>>,
           Defect(CurrentSet) \in {"none", "publicCertificate", "subject"}
    PROVE  /\ Forms' /\ CAs(CurrentSet) \subseteq Certs
           /\ kdb'.signers \subseteq Certs /\ trustP12' \subseteq Certs
           /\ cms'.trusted \subseteq Certs /\ truststore'.trusted \subseteq Certs
<1>0. PICK set : set = CurrentSet
  OBVIOUS
<1>1. Forms /\ Remembered(set)
  BY <1>0 DEF Typed
<1>2. cms' = [known |-> cms.known \cup AllCerts(set), trusted |-> cms.trusted,
              labels |-> cms.labels, lookup |-> cms'.lookup]
  BY <1>1, RememberedIs
<1>3. \/ truststore' = truststore
      \/ truststore' = [known |-> truststore.known \cup CAs(set),
                 trusted |-> truststore.trusted \cup (CAs(set) \ truststore.known),
                 labels |-> truststore.labels, lookup |-> truststore.lookup]
  BY <1>1, RememberedIs
<1>4. CAs(set) \subseteq Certs
  BY <1>0, CurrentPlaced, NotRefused, CAsAreCerts DEF Typed
<1>5. cms' = [known |-> cms'.known, trusted |-> cms'.trusted,
              labels |-> cms'.labels, lookup |-> cms'.lookup]
  BY <1>2
<1>6. truststore' = [known |-> truststore'.known, trusted |-> truststore'.trusted,
                     labels |-> truststore'.labels, lookup |-> truststore'.lookup]
  BY <1>3 DEF Typed, Forms
<1>7. Forms'
  BY <1>5, <1>6 DEF Typed, Forms
<1>8. cms'.trusted = cms.trusted
  BY <1>2
<1>9. truststore'.trusted \subseteq truststore.trusted \cup CAs(set)
  BY <1>3
<1> QED
  BY <1>0, <1>4, <1>7, <1>8, <1>9 DEF Typed, CertTypes

\* The steps that load key sets.
LEMMA LoadTyped ==
    ASSUME Typed, SkipKeySet \/ WriteKeySet \/ ImportKeySet \/ Relabel
    PROVE  Typed'
<1> USE DEF storeVars, dataVars
<1>1. CASE SkipKeySet
  <2>1. /\ AtKeySet /\ Remembered(CurrentSet) /\ UNCHANGED <<kdb, config, trustP12, p12, supply, kpc, failure>>
        /\ Defect(CurrentSet) \in {"none", "publicCertificate", "subject"}
        /\ keyLabels' = FirstLabel(SkippedLabel(CurrentSet)) /\ at' = <<at[1], at[2] + 1>>
    BY <1>1 DEF SkipKeySet
  <2>2. Forms' /\ CertTypes'
    BY <2>1, RememberedTyped DEF CertTypes, Typed
  <2>3. at' \in (DOMAIN supply.dirs) \X (Nat \ {0})
    BY <2>1, Advances DEF Typed
  <2>4. PICK label : label = SkippedLabel(CurrentSet)
    OBVIOUS
  <2>5. keyLabels' = [d \in DOMAIN supply.dirs |-> keyLabels'[d]]
    BY <2>1, <2>4, FirstLabelIs
  <2>6. Places'
    BY <2>1, <2>3, <2>5 DEF Typed, Places, Loading, AtKeySet
  <2> QED
    BY <2>2, <2>6 DEF Typed
<1>2. CASE WriteKeySet
  <2>1. /\ AtKeySet /\ Remembered(CurrentSet) /\ UNCHANGED <<kdb, config, trustP12, supply, at, keyLabels, failure>>
        /\ Defect(CurrentSet) = "none" /\ kpc' = "import"
        /\ p12' = {f \in p12 : f.label # CurrentSet.label} \cup
                {[label |-> CurrentSet.label, key |-> CurrentSet.key,
                  cert |-> Public(CurrentSet), cas |-> CAs(CurrentSet)]}
    BY <1>2 DEF WriteKeySet
  <2>2. /\ Forms' /\ CAs(CurrentSet) \subseteq Certs
        /\ kdb'.signers \subseteq Certs /\ trustP12' \subseteq Certs
        /\ cms'.trusted \subseteq Certs /\ truststore'.trusted \subseteq Certs
    BY <2>1, RememberedTyped
  <2>3. CertTypes'
    BY <2>1, <2>2 DEF CertTypes, Typed
  <2>4. Places'
    BY <2>1 DEF Typed, Places, Loading, AtKeySet, Steps
  <2> QED
    BY <2>2, <2>3, <2>4 DEF Typed
<1>3. CASE ImportKeySet
  <2>1. PICK f \in p12 :
         /\ f.label = CurrentSet.label
         /\ IF Refused(f) THEN Fail("import")
            ELSE /\ kdb' = [personal |-> kdb.personal \cup
                                           {[label |-> NoLabel, key |-> f.key, cert |-> f.cert]},
                            signers |-> kdb.signers \cup f.cas]
                 /\ kpc' = "relabel"
                 /\ UNCHANGED <<supply, at, trustP12, p12, dataVars, keyLabels, config, failure>>
    BY <1>3 DEF ImportKeySet
  <2>2. CASE Refused(f)
    BY <2>1, <2>2, FailTyped
  <2>3. CASE ~Refused(f)
    <3>1. /\ kdb' = [personal |-> kdb'.personal, signers |-> kdb'.signers]
          /\ kdb'.signers = kdb.signers \cup f.cas
      BY <2>1, <2>3
    <3>2. Forms' /\ CertTypes'
      BY <2>1, <2>3, <3>1 DEF Typed, Forms, CertTypes
    <3>3. Places'
      BY <1>3, <2>1, <2>3 DEF ImportKeySet, Typed, Places, Loading, Steps
    <3> QED
      BY <3>2, <3>3 DEF Typed
  <2> QED
    BY <2>2, <2>3
<1>4. CASE Relabel
  <2>1. CASE CurrentSet.label \in Labels
    BY <1>4, <2>1, FailTyped DEF Relabel
  <2>2. CASE CurrentSet.label \notin Labels
    <3>1. /\ kpc = "relabel" /\ kpc' = "keys" /\ at' = <<at[1], at[2] + 1>>
          /\ kdb' = [kdb EXCEPT !.personal = (@ \ {Relabelled}) \cup
                                               {[Relabelled EXCEPT !.label = CurrentSet.label]}]
          /\ cms' = [cms EXCEPT !.labels = @ \cup {CurrentSet.label}]
          /\ keyLabels' = FirstLabel(CurrentSet.label)
          /\ UNCHANGED <<supply, trustP12, p12, truststore, config, failure>>
      BY <1>4, <2>2 DEF Relabel
    <3>2. /\ kdb' = [personal |-> kdb'.personal, signers |-> kdb'.signers]
          /\ kdb'.signers = kdb.signers
      BY <3>1 DEF Typed, Forms
    <3>3. /\ cms' = [known |-> cms'.known, trusted |-> cms'.trusted,
                     labels |-> cms'.labels, lookup |-> cms'.lookup]
          /\ cms'.trusted = cms.trusted
      BY <3>1 DEF Typed, Forms
    <3>4. Forms' /\ CertTypes'
      BY <3>1, <3>2, <3>3 DEF Typed, Forms, CertTypes
    <3>5. at' \in (DOMAIN supply.dirs) \X (Nat \ {0})
      BY <3>1, Advances DEF Typed, Loading
    <3>6. PICK label : label = CurrentSet.label
      OBVIOUS
    <3>7. keyLabels' = [d \in DOMAIN supply.dirs |-> keyLabels'[d]]
      BY <3>1, <3>6, FirstLabelIs
    <3>8. Places'
      BY <3>1, <3>5, <3>7 DEF Typed, Places, Loading, Steps
    <3> QED
      BY <3>4, <3>8 DEF Typed
  <2> QED
    BY <2>1, <2>2
<1> QED
  BY <1>1, <1>2, <1>3, <1>4

\* What ReadTrust makes of what is known.
LEMMA TrustRead ==
    ASSUME Typed, ReadTrust
    PROVE  /\ cms' = [known |-> cms.known \cup supply.trust,
                      trusted |-> cms.trusted \cup (supply.trust \ cms.known),
                      labels |-> cms.labels, lookup |-> cms.lookup]
           /\ supply.ha => truststore' = truststore
           /\ ~supply.ha => truststore' =
                [known |-> truststore.known \cup supply.trust,
                 trusted |-> truststore.trusted \cup (supply.trust \ truststore.known),
                 labels |-> truststore.labels, lookup |-> truststore.lookup]
<1>1. cms' = [cms EXCEPT !.known = cms.known \cup supply.trust,
                         !.trusted = cms.trusted \cup (supply.trust \ cms.known)]
  BY DEF ReadTrust, AddToKnown, Typed, Forms
<1>2. ~supply.ha => truststore' = [truststore EXCEPT
          !.known = truststore.known \cup supply.trust,
          !.trusted = truststore.trusted \cup (supply.trust \ truststore.known)]
  BY DEF ReadTrust, AddToKnown, Typed, Forms
<1>3. supply.ha => truststore' = truststore
  BY DEF ReadTrust
<1> QED
  BY <1>1, <1>2, <1>3, DataUpdated DEF Typed, Forms

\* The steps that add trusted certificates.
LEMMA TrustTyped ==
    ASSUME Typed, ReadTrust \/ AddToTruststore \/ AddToCMS
    PROVE  Typed'
<1> USE DEF storeVars, dataVars
<1>1. CASE ReadTrust
  <2>1. /\ cms' = [known |-> cms'.known, trusted |-> cms'.trusted,
                   labels |-> cms'.labels, lookup |-> cms'.lookup]
        /\ cms'.trusted = cms.trusted \cup (supply.trust \ cms.known)
    BY <1>1, TrustRead
  <2>2. /\ truststore' = [known |-> truststore'.known, trusted |-> truststore'.trusted,
                          labels |-> truststore'.labels, lookup |-> truststore'.lookup]
        /\ truststore'.trusted \subseteq truststore.trusted \cup supply.trust
    <3>1. CASE supply.ha
      BY <1>1, <3>1, TrustRead DEF Typed, Forms
    <3>2. CASE ~supply.ha
      BY <1>1, <3>2, TrustRead
    <3> QED
      BY <3>1, <3>2
  <2>3. /\ UNCHANGED <<supply, at, kdb, trustP12, p12, keyLabels, config, failure>>
        /\ kpc = "trust" /\ kpc' = "addTrust"
    BY <1>1 DEF ReadTrust
  <2>4. Forms'
    BY <2>1, <2>2, <2>3 DEF Typed, Forms
  <2>5. supply.trust \subseteq Certs
    BY DEF Typed, Places, IsSupply
  <2>6. CertTypes'
    BY <2>1, <2>2, <2>3, <2>5 DEF Typed, CertTypes
  <2>7. Places'
    BY <2>3 DEF Typed, Places, Loading, Steps
  <2> QED
    BY <2>4, <2>6, <2>7 DEF Typed
<1>2. CASE AddToTruststore
  <2>1. Forms' /\ CertTypes'
    BY <1>2 DEF AddToTruststore, Typed, Forms, CertTypes
  <2>2. Places'
    BY <1>2 DEF AddToTruststore, Typed, Places, Loading, Steps
  <2> QED
    BY <2>1, <2>2 DEF Typed
<1>3. CASE AddToCMS
  <2>1. CASE kpc' = "failed"
    BY <1>3, <2>1, FailTyped DEF AddToCMS, Fail
  <2>2. CASE kpc' # "failed"
    <3>1. /\ kdb' = [kdb EXCEPT !.signers = @ \cup cms.trusted]
          /\ kpc = "addCMS" /\ kpc' \in {"ha", "tls"}
          /\ UNCHANGED <<supply, at, trustP12, p12, dataVars, keyLabels, config, failure>>
      BY <1>3, <2>2 DEF AddToCMS, Fail
    <3>2. /\ kdb' = [personal |-> kdb'.personal, signers |-> kdb'.signers]
          /\ kdb'.signers = kdb.signers \cup cms.trusted
      BY <3>1 DEF Typed, Forms
    <3>3. Forms' /\ CertTypes'
      BY <3>1, <3>2 DEF Typed, Forms, CertTypes
    <3>4. Places'
      BY <3>1 DEF Typed, Places, Loading, Steps
    <3> QED
      BY <3>3, <3>4 DEF Typed
  <2> QED
    BY <2>1, <2>2
<1> QED
  BY <1>1, <1>2, <1>3

\* At the start.
LEMMA InitTyped ==
    ASSUME KeyStoresInit
    PROVE  Typed
<1>1. Forms /\ CertTypes
  BY DEF KeyStoresInit, Forms, CertTypes, NoData, NoConfig
<1>2. IsSupply(supply)
  <2>1. CASE supply = NoSupply
    <3>1. /\ supply.ha = FALSE /\ supply.web = FALSE /\ supply.trust = {}
          /\ supply.dirs = <<<<>>>>
      BY <2>1 DEF NoSupply
    <3>2. Len(supply.dirs) = 1 /\ DOMAIN supply.dirs = 1..1 /\ supply.dirs[1] = <<>>
      BY <3>1
    <3>3. IsDirectory(<<>>)
      BY DEF IsDirectory
    <3>4. \A d \in DOMAIN supply.dirs : supply.dirs[d] = <<>>
      BY <3>2
    <3>5. supply.ha \in BOOLEAN /\ supply.web \in BOOLEAN /\ ~supply.ha
      BY <3>1, Zenon
    <3>6. \A d \in DOMAIN supply.dirs : IsDirectory(supply.dirs[d])
      BY <3>3, <3>4
    <3>7. Len(supply.dirs) \in Nat \ {0} /\ DOMAIN supply.dirs = 1..Len(supply.dirs)
      BY <3>2
    <3>8. supply.trust \subseteq Certs
      BY <3>1
    <3> QED
      BY <3>2, <3>5, <3>6, <3>7, <3>8, Zenon DEF IsSupply
  <2>2. CASE supply \in Supplies
    <3>1. /\ supply.ha \in BOOLEAN /\ supply.web \in BOOLEAN
          /\ supply.ha => ~supply.web
          /\ Len(supply.dirs) = (IF supply.ha THEN 2 ELSE 1)
          /\ DOMAIN supply.dirs = 1..Len(supply.dirs)
          /\ \A d \in DOMAIN supply.dirs : IsDirectory(supply.dirs[d])
          /\ supply.trust \subseteq Certs
      BY <2>2, SupplyAssumption
    <3> QED
      BY <3>1 DEF IsSupply
  <2> QED
    BY <2>1, <2>2 DEF KeyStoresInit
<1>3. at \in (DOMAIN supply.dirs) \X (Nat \ {0})
  BY <1>2 DEF IsSupply, KeyStoresInit
<1>4. Places
  BY <1>2, <1>3 DEF KeyStoresInit, Places, Loading, Steps
<1> QED
  BY <1>1, <1>4 DEF Typed

\* Every step.
LEMMA StepTyped ==
    ASSUME Typed, [KeyStoresNext]_keyStoreVars
    PROVE  Typed'
<1>1. CASE StepFails \/ RefuseKeySet
  <2>1. PICK reason : reason # "none" /\ Fail(reason)
    BY <1>1 DEF StepFails, RefuseKeySet
  <2> QED
    BY <2>1, FailTyped
<1>2. CASE UNCHANGED keyStoreVars
  <2>1. Forms' /\ CertTypes'
    BY <1>2 DEF Typed, Forms, CertTypes, keyStoreVars, storeVars, dataVars
  <2>2. Places'
    BY <1>2 DEF Typed, Places, Loading, keyStoreVars, storeVars, dataVars
  <2> QED
    BY <2>1, <2>2 DEF Typed
<1> QED
  BY <1>1, <1>2, ConfigTyped, LoadTyped, TrustTyped DEF KeyStoresNext

-------------------------------------------------------------------------------
(***************************************************************************)
(* The inductive invariant, step by step.                                  *)
(***************************************************************************)

\* The CAs of one set more.
LEMMA OneSetMore ==
    ASSUME NEW Sets, NEW set
    PROVE  UNION {CAs(t) : t \in Sets \cup {set}} = (UNION {CAs(t) : t \in Sets}) \cup CAs(set)
<1> DEFINE A == UNION {CAs(t) : t \in Sets \cup {set}}
           B == UNION {CAs(t) : t \in Sets}
<1>1. \A c : c \in A <=> \E t \in Sets \cup {set} : c \in CAs(t)
  OBVIOUS
<1>2. \A c : c \in B <=> \E t \in Sets : c \in CAs(t)
  OBVIOUS
<1> HIDE DEF A, B
<1>3. \A c : c \in A <=> c \in B \/ c \in CAs(set)
  BY <1>1, <1>2, Zenon
<1>4. A = B \cup CAs(set)
  BY <1>3
<1> QED
  BY <1>4, Zenon DEF A, B

\* A key set that is skipped brings nothing new, and its directory gets the label of the
\* set that had the key first.
LEMMA SkipKeeps ==
    ASSUME Typed, LoadInv, SkipKeySet
    PROVE  LoadInv'
<1> USE DEF storeVars, dataVars
<1>0. PICK set : set = CurrentSet
  OBVIOUS
<1>1. /\ AtKeySet /\ Remembered(set) /\ NothingNew(set)
      /\ UNCHANGED <<kdb, config, trustP12, p12, supply, kpc, failure>>
      /\ Defect(set) \in {"none", "publicCertificate", "subject"}
      /\ keyLabels' = FirstLabel(Previous(set.key)) /\ at' = <<at[1], at[2] + 1>>
  BY <1>0 DEF SkipKeySet, SkippedLabel
<1>2. kpc = "keys" /\ kpc' = "keys" /\ ~Loading /\ ~Loading'
  BY <1>1 DEF AtKeySet, Loading
<1>3. /\ set.key \in DOMAIN cms.lookup /\ Previous(set.key) = cms.lookup[set.key]
      /\ AllCerts(set) \subseteq cms.known /\ set.key # NoKey
  BY <1>1, NotRefused DEF NothingNew, Previous, AllCerts
<1>4. /\ cms' = [known |-> cms.known \cup AllCerts(set), trusted |-> cms.trusted,
                 labels |-> cms.labels, lookup |-> cms'.lookup]
      /\ DOMAIN cms'.lookup = DOMAIN cms.lookup \cup {set.key}
      /\ \A k \in DOMAIN cms.lookup : cms'.lookup[k] = cms.lookup[k]
  BY <1>1, RememberedIs DEF Typed
<1>5. /\ cms'.known = cms.known /\ cms'.trusted = cms.trusted /\ cms'.labels = cms.labels
      /\ DOMAIN cms'.lookup = DOMAIN cms.lookup
  <2>1. cms'.known = cms.known \cup AllCerts(set) /\ cms'.trusted = cms.trusted
        /\ cms'.labels = cms.labels
    BY <1>4
  <2> QED
    BY <1>3, <1>4, <2>1
<1>6. /\ Earlier' = Earlier \cup {set}
      /\ \A d \in DOMAIN supply.dirs : First(d)' <=> First(d) \/ d = at[1]
      /\ First(at[1]) \/ at[2] = 1
  BY <1>0, <1>1, Advances DEF Typed
<1>7. KeysKnown'
  BY <1>3, <1>5, <1>6 DEF LoadInv, KeysKnown
<1>8. LookupServes'
  BY <1>1, <1>2, <1>4, <1>5 DEF LoadInv, LookupServes
<1>9. EntriesOfSets'
  BY <1>1, <1>2, <1>5, <1>6 DEF LoadInv, EntriesOfSets
<1>10. FilesMatch' /\ CurrentNew'
  BY <1>1, <1>2 DEF LoadInv, FilesMatch, CurrentNew
<1>11. StoreKnown' /\ KnownStored'
  BY <1>1, <1>2, <1>5 DEF LoadInv, StoreKnown, KnownStored, StoredCerts, BeforeTrust, AddingTrust
<1>12. TrustKept'
  <2> SUFFICES ASSUME ~supply.ha PROVE TrustKept'
    BY <1>1 DEF TrustKept
  <2>1. truststore' = [known |-> truststore.known \cup CAs(set),
                 trusted |-> truststore.trusted \cup (CAs(set) \ truststore.known),
                 labels |-> truststore.labels, lookup |-> truststore.lookup]
    BY <1>1, RememberedIs DEF Typed
  <2>2. /\ truststore'.known = truststore.known \cup CAs(set)
        /\ truststore'.trusted = truststore.trusted \cup (CAs(set) \ truststore.known)
    BY <2>1
  <2>3. /\ truststore.known = truststore.trusted
        /\ truststore.trusted = UNION {CAs(t) : t \in Earlier}
    BY <1>2 DEF LoadInv, TrustKept, BeforeTrust
  <2>4. UNION {CAs(t) : t \in Earlier \cup {set}} = (UNION {CAs(t) : t \in Earlier}) \cup CAs(set)
    BY OneSetMore
  <2>5. /\ truststore'.known = truststore'.trusted
        /\ truststore'.trusted = UNION {CAs(t) : t \in Earlier'}
    BY <1>6, <2>2, <2>3, <2>4
  <2> QED
    BY <1>1, <1>2, <2>5 DEF TrustKept, BeforeTrust
<1>13. LabelsFirst'
  <2>1. PICK label : label = Previous(set.key)
    OBVIOUS
  <2>2. /\ keyLabels'[at[1]] = IF keyLabels[at[1]] = NoLabel THEN label ELSE keyLabels[at[1]]
        /\ \A d \in DOMAIN supply.dirs : d # at[1] => keyLabels'[d] = keyLabels[d]
    BY <1>1, <2>1, FirstLabelIs
  <2>3. label # NoLabel /\ \E e \in kdb.personal : e.label = label /\ e.key = set.key
    BY <1>2, <1>3, <2>1 DEF LoadInv, LookupServes
  <2>4. ASSUME NEW d \in DOMAIN supply.dirs
        PROVE  IF First(d)'
                 THEN /\ keyLabels'[d] # NoLabel
                      /\ \E e \in kdb.personal :
                           e.label = keyLabels'[d] /\ e.key = supply.dirs[d][1].key
                 ELSE keyLabels'[d] = NoLabel
    <3>1. CASE d # at[1]
      BY <1>6, <2>2, <3>1 DEF LoadInv, LabelsFirst
    <3>2. CASE d = at[1] /\ First(d)
      BY <1>6, <2>2, <3>2 DEF LoadInv, LabelsFirst
    <3>3. CASE d = at[1] /\ ~First(d)
      <4>1. at[2] = 1 /\ keyLabels[d] = NoLabel /\ First(d)'
        BY <1>6, <3>3 DEF LoadInv, LabelsFirst
      <4>2. set = supply.dirs[d][1] /\ keyLabels'[d] = label
        BY <1>0, <2>2, <3>3, <4>1 DEF CurrentSet
      <4> QED
        BY <2>3, <4>1, <4>2
    <3> QED
      BY <3>1, <3>2, <3>3
  <2> QED
    BY <1>1, <2>4 DEF LabelsFirst
<1>14. AllProcessed' /\ WebStore'
  BY <1>2 DEF AllProcessed, WebStore
<1>15. StoreWanted'
  BY <1>1, <1>5 DEF LoadInv, StoreWanted
<1> QED
  BY <1>7, <1>8, <1>9, <1>10, <1>11, <1>12, <1>13, <1>14, <1>15 DEF LoadInv

\* A key set that is written is not one of the earlier ones, and its file takes the place
\* of one with its label.
LEMMA WriteKeeps ==
    ASSUME Typed, LoadInv, WriteKeySet
    PROVE  LoadInv'
<1> USE DEF storeVars, dataVars
<1>0. PICK set : set = CurrentSet
  OBVIOUS
<1>1. /\ AtKeySet /\ Remembered(set) /\ ~NothingNew(set)
      /\ UNCHANGED <<kdb, config, trustP12, supply, at, keyLabels, failure>>
      /\ Defect(set) = "none" /\ kpc' = "import"
      /\ p12' = {f \in p12 : f.label # set.label} \cup {KeyFile(set)}
  BY <1>0 DEF WriteKeySet, KeyFile
<1>2. kpc = "keys" /\ ~Loading /\ Loading'
  BY <1>1 DEF AtKeySet, Loading
<1>3. set.key # NoKey /\ set \in Certified(supply) /\ set.label # NoLabel
  BY <1>0, <1>1, NotRefused, CurrentPlaced DEF Typed, Certified
<1>4. /\ cms' = [known |-> cms.known \cup AllCerts(set), trusted |-> cms.trusted,
                 labels |-> cms.labels, lookup |-> cms'.lookup]
      /\ DOMAIN cms'.lookup = DOMAIN cms.lookup \cup {set.key}
      /\ \A k \in DOMAIN cms.lookup : cms'.lookup[k] = cms.lookup[k]
      /\ set.key \notin DOMAIN cms.lookup => cms'.lookup[set.key] = set.label
  BY <1>1, RememberedIs DEF Typed
<1>5. /\ cms'.known = cms.known \cup AllCerts(set) /\ cms'.trusted = cms.trusted
      /\ cms'.labels = cms.labels
  BY <1>4
<1>6. /\ Earlier' = Earlier /\ CurrentSet' = set
      /\ \A d : First(d)' <=> First(d)
  BY <1>0, <1>1, PlacesStay
<1>7. KeysKnown'
  BY <1>4, <1>5, <1>6 DEF LoadInv, KeysKnown
<1>8. LookupServes'
  <2>1. ASSUME NEW k \in DOMAIN cms'.lookup
        PROVE  /\ cms'.lookup[k] # NoLabel
               /\ \/ \E e \in kdb.personal : e.label = cms'.lookup[k] /\ e.key = k
                  \/ k = set.key /\ cms'.lookup[k] = set.label
    <3>1. CASE k \in DOMAIN cms.lookup
      BY <1>2, <1>4, <3>1 DEF LoadInv, LookupServes
    <3>2. CASE k \notin DOMAIN cms.lookup
      BY <1>3, <1>4, <3>2
    <3> QED
      BY <3>1, <3>2
  <2> QED
    BY <1>1, <1>2, <1>6, <2>1 DEF LookupServes
<1>9. EntriesOfSets'
  BY <1>1, <1>2, <1>5, <1>6 DEF LoadInv, EntriesOfSets
<1>10. FilesMatch'
  <2>1. ASSUME NEW e \in kdb.personal
        PROVE  \/ e.label = NoLabel
               \/ \E f \in p12' : f.label = e.label /\ f.key = e.key /\ f.cert = e.cert
               \/ e.label = set.label
    BY <1>1, <1>2 DEF LoadInv, FilesMatch
  <2>2. KeyFile(set) \in p12' /\ \A f \in p12' : f.label = set.label => f = KeyFile(set)
    BY <1>1
  <2> QED
    BY <1>1, <1>2, <1>6, <2>1, <2>2 DEF FilesMatch
<1>11. CurrentNew'
  <2>1. set \notin Earlier
    <3> SUFFICES ASSUME set \in Earlier PROVE FALSE
      OBVIOUS
    <3>1. set.key \in DOMAIN cms.lookup /\ AllCerts(set) \subseteq cms.known
      BY DEF LoadInv, KeysKnown
    <3>2. Previous(set.key) # NoLabel
      BY <3>1 DEF Previous, LoadInv, LookupServes
    <3> QED
      BY <1>1, <3>1, <3>2 DEF NothingNew, AllCerts
  <2> QED
    BY <1>1, <1>3, <1>4, <1>5, <1>6, <2>1 DEF CurrentNew
<1>12. StoreKnown' /\ KnownStored'
  <2>1. StoredCerts' = StoredCerts
    BY <1>1 DEF StoredCerts
  <2>2. StoreKnown'
    BY <1>1, <1>2, <1>5, <2>1 DEF LoadInv, StoreKnown, BeforeTrust, AddingTrust
  <2>3. ASSUME NEW c \in cms'.known
        PROVE  \/ c \in StoredCerts
               \/ \E t \in SetsOf(supply) : c \in Shadowed(t)
               \/ c \in AllCerts(set)
    BY <1>2, <1>5 DEF LoadInv, KnownStored, AddingTrust
  <2> QED
    BY <1>1, <1>2, <1>6, <2>1, <2>2, <2>3 DEF KnownStored, BeforeTrust
<1>13. TrustKept'
  <2> SUFFICES ASSUME ~supply.ha PROVE TrustKept'
    BY <1>1 DEF TrustKept
  <2>1. truststore' = [known |-> truststore.known \cup CAs(set),
                 trusted |-> truststore.trusted \cup (CAs(set) \ truststore.known),
                 labels |-> truststore.labels, lookup |-> truststore.lookup]
    BY <1>1, RememberedIs DEF Typed
  <2>2. /\ truststore'.known = truststore.known \cup CAs(set)
        /\ truststore'.trusted = truststore.trusted \cup (CAs(set) \ truststore.known)
    BY <2>1
  <2>3. /\ truststore.known = truststore.trusted
        /\ truststore.trusted = UNION {CAs(t) : t \in Earlier}
    BY <1>2 DEF LoadInv, TrustKept, BeforeTrust
  <2>4. /\ truststore'.known = truststore'.trusted
        /\ truststore'.trusted = (UNION {CAs(t) : t \in Earlier}) \cup CAs(set)
    <3> DEFINE U == UNION {CAs(t) : t \in Earlier}
    <3>1. truststore.known = truststore.trusted /\ truststore.trusted = U
      BY <2>3
    <3> HIDE DEF U
    <3>2. truststore'.known = truststore'.trusted /\ truststore'.trusted = U \cup CAs(set)
      BY <2>2, <3>1
    <3> QED
      BY <3>2, Zenon DEF U
  <2> QED
    BY <1>1, <1>2, <1>6, <2>4 DEF TrustKept, BeforeTrust
<1>14. LabelsFirst'
  BY <1>1, <1>6 DEF LoadInv, LabelsFirst
<1>15. AllProcessed' /\ WebStore'
  BY <1>1 DEF AllProcessed, WebStore
<1>16. StoreWanted'
  BY <1>1, <1>5 DEF LoadInv, StoreWanted
<1> QED
  BY <1>7, <1>8, <1>9, <1>10, <1>11, <1>12, <1>13, <1>14, <1>15, <1>16 DEF LoadInv

\* The file that is imported is that of the key set.
LEMMA ImportKeeps ==
    ASSUME Typed, LoadInv, ImportKeySet, kpc' # "failed"
    PROVE  LoadInv'
<1> USE DEF storeVars, dataVars
<1>0. PICK set : set = CurrentSet
  OBVIOUS
<1>1. kpc = "import" /\ Loading
  BY DEF ImportKeySet, Loading
<1>2. /\ kdb' = [personal |-> kdb.personal \cup {NewEntry(set)},
                 signers |-> kdb.signers \cup CAs(set)]
      /\ kpc' = "relabel"
      /\ UNCHANGED <<supply, at, trustP12, p12, cms, truststore, keyLabels, config, failure>>
  <2>1. PICK f \in p12 :
         /\ f.label = set.label
         /\ IF Refused(f) THEN Fail("import")
            ELSE /\ kdb' = [personal |-> kdb.personal \cup
                                           {[label |-> NoLabel, key |-> f.key, cert |-> f.cert]},
                            signers |-> kdb.signers \cup f.cas]
                 /\ kpc' = "relabel"
                 /\ UNCHANGED <<supply, at, trustP12, p12, dataVars, keyLabels, config, failure>>
    BY <1>0 DEF ImportKeySet
  <2>2. f = KeyFile(set)
    BY <1>0, <1>1, <2>1 DEF LoadInv, FilesMatch
  <2>3. f.key = set.key /\ f.cert = Public(set) /\ f.cas = CAs(set)
    BY <2>2 DEF KeyFile
  <2> QED
    BY <2>1, <2>3 DEF Fail, NewEntry
<1>3. kdb'.personal = kdb.personal \cup {NewEntry(set)} /\ kdb'.signers = kdb.signers \cup CAs(set)
  BY <1>2
<1>4. Loading' /\ NewEntry(set).label = NoLabel /\ NewEntry(set).cert = Public(set)
  BY <1>2 DEF Loading, NewEntry
<1>5. /\ Earlier' = Earlier /\ CurrentSet' = set
      /\ \A d : First(d)' <=> First(d)
  BY <1>0, <1>2, PlacesStay
<1>6. /\ IsKeySet(set) /\ OwnFiles(set) # {} /\ AllCerts(set) \subseteq cms.known
      /\ set \in Certified(supply)
  BY <1>0, <1>1, CurrentPlaced DEF Typed, LoadInv, CurrentNew, Certified
<1>7. KeysKnown' /\ CurrentNew'
  BY <1>0, <1>1, <1>2, <1>5 DEF LoadInv, KeysKnown, CurrentNew
<1>8. LookupServes'
  BY <1>0, <1>1, <1>2, <1>3, <1>4, <1>5 DEF LoadInv, LookupServes
<1>9. EntriesOfSets'
  BY <1>0, <1>1, <1>2, <1>3, <1>5 DEF LoadInv, EntriesOfSets
<1>10. FilesMatch'
  BY <1>0, <1>1, <1>2, <1>3, <1>4, <1>5 DEF LoadInv, FilesMatch
<1>11. StoredCerts' = StoredCerts \cup CAs(set) \cup {Public(set)}
  BY <1>3, <1>4 DEF StoredCerts
<1>12. StoreKnown'
  <2>1. Public(set) \in AllCerts(set) /\ CAs(set) \subseteq AllCerts(set)
    BY <1>6, LeavesOf DEF AllCerts
  <2>2. StoredCerts' \subseteq cms.known
    BY <1>1, <1>6, <1>11, <2>1 DEF LoadInv, StoreKnown, BeforeTrust
  <2> QED
    BY <1>1, <1>2, <1>3, <1>5, <2>2 DEF LoadInv, StoreKnown, BeforeTrust, AddingTrust
<1>13. KnownStored'
  BY <1>0, <1>1, <1>2, <1>4, <1>5, <1>11 DEF LoadInv, KnownStored, BeforeTrust, AddingTrust
<1>14. TrustKept'
  BY <1>0, <1>1, <1>2, <1>4, <1>5 DEF LoadInv, TrustKept, BeforeTrust
<1>15. LabelsFirst'
  BY <1>2, <1>3, <1>5 DEF LoadInv, LabelsFirst
<1>16. AllProcessed' /\ WebStore'
  BY <1>2 DEF AllProcessed, WebStore
<1>17. StoreWanted'
  <2>1. CAs(set) \subseteq Wanted(supply)
    BY <1>6 DEF Wanted
  <2> QED
    BY <1>2, <1>3, <2>1 DEF LoadInv, StoreWanted
<1> QED
  BY <1>7, <1>8, <1>9, <1>10, <1>12, <1>13, <1>14, <1>15, <1>16, <1>17 DEF LoadInv

\* The certificate that gets the label of the key set is the one just imported.
LEMMA RelabelKeeps ==
    ASSUME Typed, LoadInv, Relabel, kpc' # "failed"
    PROVE  LoadInv'
<1> USE DEF storeVars, dataVars
<1>0. PICK set : set = CurrentSet
  OBVIOUS
<1> DEFINE new == [label |-> set.label, key |-> set.key, cert |-> Public(set)]
<1>1. kpc = "relabel" /\ Loading
  BY DEF Relabel, Loading
<1>2. /\ set.label \notin Labels /\ kpc' = "keys" /\ at' = <<at[1], at[2] + 1>>
      /\ kdb' = [kdb EXCEPT !.personal = (@ \ {Relabelled}) \cup
                                           {[Relabelled EXCEPT !.label = set.label]}]
      /\ cms' = [cms EXCEPT !.labels = @ \cup {set.label}]
      /\ keyLabels' = FirstLabel(set.label)
      /\ UNCHANGED <<supply, trustP12, p12, truststore, config, failure>>
  BY <1>0 DEF Relabel, Fail
<1>3. Relabelled = NewEntry(set)
  <2>1. NewEntry(set) \in kdb.personal /\ NewEntry(set).label \notin cms.labels
    BY <1>0, <1>1 DEF LoadInv, EntriesOfSets, NewEntry
  <2>2. \A e \in kdb.personal : e.label \notin cms.labels => e = NewEntry(set)
    BY <1>0 DEF LoadInv, EntriesOfSets
  <2> QED
    BY <2>1, <2>2, Zenon DEF Relabelled
<1>4. [NewEntry(set) EXCEPT !.label = set.label] = new
  BY DEF NewEntry
<1>5. /\ kdb'.personal = (kdb.personal \ {NewEntry(set)}) \cup {new}
      /\ kdb'.signers = kdb.signers
  BY <1>2, <1>3, <1>4 DEF Typed, Forms
<1>6. /\ cms'.known = cms.known /\ cms'.trusted = cms.trusted
      /\ cms'.labels = cms.labels \cup {set.label} /\ cms'.lookup = cms.lookup
  BY <1>2 DEF Typed, Forms
<1>7. /\ Earlier' = Earlier \cup {set}
      /\ \A d \in DOMAIN supply.dirs : First(d)' <=> First(d) \/ d = at[1]
      /\ First(at[1]) \/ at[2] = 1
  BY <1>0, <1>1, <1>2, Advances DEF Typed
<1>8. /\ IsKeySet(set) /\ set \in SetsOf(supply) /\ set.label # NoLabel
      /\ OwnFiles(set) # {} /\ set.key # NoKey /\ set.key \in DOMAIN cms.lookup
      /\ AllCerts(set) \subseteq cms.known /\ set \in Certified(supply)
  BY <1>0, <1>1, CurrentPlaced DEF Typed, LoadInv, CurrentNew, Certified
<1>9. ~Loading' /\ NewEntry(set).label = NoLabel /\ NewEntry(set).cert = Public(set)
      /\ NewEntry(set) \in kdb.personal
  BY <1>0, <1>1, <1>2 DEF Loading, NewEntry, LoadInv, EntriesOfSets
<1>10. new.label = set.label /\ new.key = set.key /\ new.cert = Public(set)
  OBVIOUS
<1> HIDE DEF new
<1>11. \A e \in kdb.personal : e.label # NoLabel => e \in kdb'.personal
  BY <1>5, <1>9
<1>12. \A e \in kdb'.personal : e = new \/ (e \in kdb.personal /\ e # NewEntry(set))
  BY <1>5
<1>13. KeysKnown' /\ CurrentNew'
  BY <1>6, <1>7, <1>8, <1>9 DEF LoadInv, KeysKnown, CurrentNew
<1>14. LookupServes'
  <2>1. ASSUME NEW k \in DOMAIN cms.lookup
        PROVE  /\ cms.lookup[k] # NoLabel
               /\ \E e \in kdb'.personal : e.label = cms.lookup[k] /\ e.key = k
    <3>1. /\ cms.lookup[k] # NoLabel
          /\ \/ \E e \in kdb.personal : e.label = cms.lookup[k] /\ e.key = k
             \/ k = set.key /\ cms.lookup[k] = set.label
      BY <1>0 DEF LoadInv, LookupServes
    <3> QED
      BY <1>5, <1>10, <1>11, <3>1
  <2> QED
    BY <1>6, <2>1 DEF LookupServes
<1>15. EntriesOfSets'
  <2>1. ASSUME NEW e \in kdb'.personal
        PROVE  /\ e.label \in cms'.labels
               /\ \E t \in Earlier' :
                    e.label = t.label /\ t \in Certified(supply) /\ e.cert = Public(t)
    <3>1. CASE e = new
      BY <1>6, <1>7, <1>8, <1>10, <3>1
    <3>2. CASE e \in kdb.personal /\ e # NewEntry(set)
      BY <1>0, <1>6, <1>7, <3>2 DEF LoadInv, EntriesOfSets
    <3> QED
      BY <1>12, <3>1, <3>2
  <2>2. NoLabel \notin cms'.labels
    BY <1>6, <1>8 DEF LoadInv, EntriesOfSets
  <2> QED
    BY <1>2, <2>1, <2>2 DEF EntriesOfSets
<1>16. FilesMatch'
  <2>1. ASSUME NEW e \in kdb'.personal
        PROVE  \/ e.label = NoLabel
               \/ \E f \in p12 : f.label = e.label /\ f.key = e.key /\ f.cert = e.cert
    <3>1. CASE e = new
      <4>1. KeyFile(set) \in p12
        BY <1>0, <1>1 DEF LoadInv, FilesMatch
      <4>2. /\ KeyFile(set).label = set.label /\ KeyFile(set).key = set.key
            /\ KeyFile(set).cert = Public(set)
        BY DEF KeyFile
      <4> QED
        BY <1>10, <3>1, <4>1, <4>2
    <3>2. CASE e \in kdb.personal
      <4>1. e.label # set.label
        BY <1>2, <3>2 DEF Labels
      <4> QED
        BY <1>0, <3>2, <4>1 DEF LoadInv, FilesMatch
    <3> QED
      BY <1>12, <3>1, <3>2
  <2> QED
    BY <1>2, <1>9, <2>1 DEF FilesMatch
<1>17. StoredCerts' = StoredCerts
  BY <1>5, <1>9, <1>10 DEF StoredCerts
<1>18. StoreKnown'
  BY <1>1, <1>2, <1>6, <1>17 DEF LoadInv, StoreKnown, BeforeTrust, AddingTrust
<1>19. KnownStored'
  <2>1. ASSUME NEW c \in AllCerts(set)
        PROVE  c \in StoredCerts \/ c \in Shadowed(set)
    <3>1. CASE c \in CAs(set)
      BY <1>0, <1>1, <3>1 DEF LoadInv, StoreKnown, StoredCerts
    <3>2. CASE c = Public(set)
      BY <1>9, <3>2 DEF StoredCerts
    <3> QED
      BY <1>8, <3>1, <3>2, LeavesOf DEF AllCerts
  <2>2. ASSUME NEW c \in cms.known
        PROVE  \/ c \in StoredCerts
               \/ \E t \in SetsOf(supply) : c \in Shadowed(t)
    <3>1. \/ c \in StoredCerts
          \/ \E t \in SetsOf(supply) : c \in Shadowed(t)
          \/ c \in AllCerts(set)
      BY <1>0, <1>1 DEF LoadInv, KnownStored, AddingTrust
    <3> QED
      BY <1>8, <2>1, <3>1
  <2> QED
    BY <1>2, <1>6, <1>17, <2>2 DEF KnownStored, BeforeTrust
<1>20. TrustKept'
  <2> SUFFICES ASSUME ~supply.ha PROVE TrustKept'
    BY <1>2 DEF TrustKept
  <2>1. /\ truststore.known = truststore.trusted
        /\ truststore.trusted = (UNION {CAs(t) : t \in Earlier}) \cup CAs(set)
    BY <1>0, <1>1 DEF LoadInv, TrustKept, BeforeTrust
  <2>2. UNION {CAs(t) : t \in Earlier \cup {set}} = (UNION {CAs(t) : t \in Earlier}) \cup CAs(set)
    BY OneSetMore
  <2>3. truststore.trusted = UNION {CAs(t) : t \in Earlier'}
    BY <1>7, <2>1, <2>2
  <2> QED
    BY <1>2, <1>9, <2>1, <2>3 DEF TrustKept, BeforeTrust
<1>21. LabelsFirst'
  <2>1. PICK label : label = set.label
    OBVIOUS
  <2>2. /\ keyLabels'[at[1]] = IF keyLabels[at[1]] = NoLabel THEN label ELSE keyLabels[at[1]]
        /\ \A d \in DOMAIN supply.dirs : d # at[1] => keyLabels'[d] = keyLabels[d]
    BY <1>2, <2>1, FirstLabelIs
  <2>3. label # NoLabel /\ \E e \in kdb'.personal : e.label = label /\ e.key = set.key
    BY <1>5, <1>8, <1>10, <2>1
  <2>4. ASSUME NEW d \in DOMAIN supply.dirs, First(d)
        PROVE  /\ keyLabels[d] # NoLabel
               /\ \E e \in kdb'.personal :
                    e.label = keyLabels[d] /\ e.key = supply.dirs[d][1].key
    BY <1>11, <2>4 DEF LoadInv, LabelsFirst
  <2>5. ASSUME NEW d \in DOMAIN supply.dirs, ~First(d) PROVE keyLabels[d] = NoLabel
    BY <2>5 DEF LoadInv, LabelsFirst
  <2>6. ASSUME NEW d \in DOMAIN supply.dirs
        PROVE  IF First(d)'
                 THEN /\ keyLabels'[d] # NoLabel
                      /\ \E e \in kdb'.personal :
                           e.label = keyLabels'[d] /\ e.key = supply.dirs[d][1].key
                 ELSE keyLabels'[d] = NoLabel
    <3>1. CASE d # at[1]
      BY <1>7, <2>2, <2>4, <2>5, <3>1
    <3>2. CASE d = at[1] /\ First(d)
      BY <1>7, <2>2, <2>4, <3>2
    <3>3. CASE d = at[1] /\ ~First(d)
      <4>1. at[2] = 1 /\ keyLabels[d] = NoLabel /\ First(d)'
        BY <1>7, <2>5, <3>3
      <4>2. set = supply.dirs[d][1] /\ keyLabels'[d] = label
        BY <1>0, <2>2, <3>3, <4>1 DEF CurrentSet
      <4> QED
        BY <2>3, <4>1, <4>2
    <3> QED
      BY <3>1, <3>2, <3>3
  <2> QED
    BY <1>2, <2>6 DEF LabelsFirst
<1>22. AllProcessed' /\ WebStore'
  BY <1>2 DEF AllProcessed, WebStore
<1>23. StoreWanted'
  BY <1>2, <1>5, <1>6 DEF LoadInv, StoreWanted
<1> QED
  BY <1>13, <1>14, <1>15, <1>16, <1>18, <1>19, <1>20, <1>21, <1>22, <1>23 DEF LoadInv

\* The trusted certificates that are to be added are those the key store does not have.
LEMMA ReadTrustKeeps ==
    ASSUME Typed, LoadInv, ReadTrust
    PROVE  LoadInv'
<1> USE DEF storeVars, dataVars
<1>1. /\ kpc = "trust" /\ kpc' = "addTrust"
      /\ UNCHANGED <<supply, at, kdb, trustP12, p12, keyLabels, config, failure>>
  BY DEF ReadTrust
<1>2. ~Loading /\ ~Loading' /\ BeforeTrust /\ ~BeforeTrust' /\ ~AddingTrust /\ AddingTrust'
  BY <1>1 DEF Loading, BeforeTrust, AddingTrust
<1>3. /\ cms'.known = cms.known \cup supply.trust
      /\ cms'.trusted = cms.trusted \cup (supply.trust \ cms.known)
      /\ cms'.labels = cms.labels /\ cms'.lookup = cms.lookup
  BY TrustRead
<1>4. /\ Earlier' = Earlier
      /\ \A d : First(d)' <=> First(d)
      /\ \A d, i : Past(d, i)' <=> Past(d, i)
  BY <1>1, PlacesStay
<1>5. StoredCerts' = StoredCerts
  BY <1>1 DEF StoredCerts
<1>6. StoredCerts \subseteq cms.known /\ cms.trusted = {} /\ trustP12 = {}
  BY <1>2 DEF LoadInv, StoreKnown
<1>7. KeysKnown' /\ CurrentNew' /\ LookupServes'
  BY <1>1, <1>2, <1>3, <1>4 DEF LoadInv, KeysKnown, CurrentNew, LookupServes
<1>8. EntriesOfSets' /\ FilesMatch'
  BY <1>1, <1>2, <1>3, <1>4 DEF LoadInv, EntriesOfSets, FilesMatch
<1>9. StoreKnown'
  BY <1>1, <1>2, <1>3, <1>5, <1>6 DEF StoreKnown
<1>10. KnownStored'
  <2>1. ASSUME NEW c \in cms'.known
        PROVE  \/ c \in StoredCerts
               \/ \E set \in SetsOf(supply) : c \in Shadowed(set)
               \/ c \in cms'.trusted
    BY <1>2, <1>3 DEF LoadInv, KnownStored
  <2> QED
    BY <1>1, <1>2, <1>3, <1>5, <2>1 DEF KnownStored
<1>11. TrustKept'
  <2> SUFFICES ASSUME ~supply.ha PROVE TrustKept'
    BY <1>1 DEF TrustKept
  <2> DEFINE U == UNION {CAs(set) : set \in Earlier}
  <2>1. /\ truststore'.known = truststore.known \cup supply.trust
        /\ truststore'.trusted = truststore.trusted \cup (supply.trust \ truststore.known)
    BY TrustRead
  <2>2. truststore.known = truststore.trusted /\ truststore.trusted = U
    BY <1>2 DEF LoadInv, TrustKept
  <2> HIDE DEF U
  <2>3. truststore'.known = truststore'.trusted /\ truststore'.trusted = U \cup supply.trust
    BY <2>1, <2>2
  <2>4. U' = U
    BY <1>4 DEF U
  <2> QED
    BY <1>1, <1>2, <2>3, <2>4 DEF TrustKept, U
<1>12. LabelsFirst'
  BY <1>1, <1>4 DEF LoadInv, LabelsFirst
<1>13. AllProcessed' /\ WebStore'
  BY <1>1, <1>4 DEF LoadInv, AllProcessed, WebStore
<1>14. StoreWanted'
  <2>1. supply.trust \subseteq Wanted(supply)
    BY DEF Wanted
  <2> QED
    BY <1>1, <1>3, <2>1 DEF LoadInv, StoreWanted
<1> QED
  BY <1>7, <1>8, <1>9, <1>10, <1>11, <1>12, <1>13, <1>14 DEF LoadInv

\* The trust store gets what truststore has collected, and nothing was in it.
LEMMA TruststoreKeeps ==
    ASSUME Typed, LoadInv, AddToTruststore
    PROVE  LoadInv'
<1> USE DEF storeVars, dataVars
<1>1. /\ kpc = "addTrust" /\ kpc' = "addCMS" /\ trustP12' = trustP12 \cup truststore.trusted
      /\ UNCHANGED <<supply, at, kdb, p12, cms, truststore, keyLabels, config, failure>>
  BY DEF AddToTruststore
<1>2. ~Loading /\ ~Loading' /\ ~BeforeTrust /\ ~BeforeTrust' /\ AddingTrust /\ AddingTrust'
  BY <1>1 DEF Loading, BeforeTrust, AddingTrust
<1>3. /\ Earlier' = Earlier
      /\ \A d : First(d)' <=> First(d)
      /\ \A d, i : Past(d, i)' <=> Past(d, i)
  BY <1>1, PlacesStay
<1>4. StoredCerts' = StoredCerts /\ trustP12' = truststore.trusted
  BY <1>1 DEF StoredCerts, LoadInv, StoreKnown
<1>5. KeysKnown' /\ CurrentNew' /\ LookupServes'
  BY <1>1, <1>2, <1>3 DEF LoadInv, KeysKnown, CurrentNew, LookupServes
<1>6. EntriesOfSets' /\ FilesMatch'
  BY <1>1, <1>2, <1>3 DEF LoadInv, EntriesOfSets, FilesMatch
<1>7. StoreKnown' /\ KnownStored'
  BY <1>1, <1>2, <1>4 DEF LoadInv, StoreKnown, KnownStored
<1>8. TrustKept'
  BY <1>1, <1>2, <1>3, <1>4 DEF LoadInv, TrustKept
<1>9. LabelsFirst'
  BY <1>1, <1>3 DEF LoadInv, LabelsFirst
<1>10. AllProcessed' /\ WebStore'
  BY <1>1, <1>3 DEF LoadInv, AllProcessed, WebStore
<1>11. StoreWanted'
  BY <1>1 DEF LoadInv, StoreWanted
<1> QED
  BY <1>5, <1>6, <1>7, <1>8, <1>9, <1>10, <1>11 DEF LoadInv

\* What is to be added to the key store is added.
LEMMA CMSKeeps ==
    ASSUME Typed, LoadInv, AddToCMS, kpc' # "failed"
    PROVE  LoadInv'
<1> USE DEF storeVars, dataVars
<1>1. /\ kpc = "addCMS" /\ kpc' = (IF supply.ha THEN "ha" ELSE "tls")
      /\ kdb' = [kdb EXCEPT !.signers = @ \cup cms.trusted]
      /\ UNCHANGED <<supply, at, trustP12, p12, cms, truststore, keyLabels, config, failure>>
  BY DEF AddToCMS, Fail
<1>2. ~Loading /\ ~Loading' /\ ~BeforeTrust /\ ~BeforeTrust' /\ AddingTrust /\ ~AddingTrust'
  BY <1>1 DEF Loading, BeforeTrust, AddingTrust
<1>3. /\ Earlier' = Earlier
      /\ \A d : First(d)' <=> First(d)
      /\ \A d, i : Past(d, i)' <=> Past(d, i)
  BY <1>1, PlacesStay
<1>4. kdb'.personal = kdb.personal /\ kdb'.signers = kdb.signers \cup cms.trusted
  BY <1>1 DEF Typed, Forms
<1>5. StoredCerts' = StoredCerts \cup cms.trusted
  BY <1>4 DEF StoredCerts
<1>6. KeysKnown' /\ CurrentNew' /\ LookupServes'
  BY <1>1, <1>2, <1>3, <1>4 DEF LoadInv, KeysKnown, CurrentNew, LookupServes
<1>7. EntriesOfSets' /\ FilesMatch'
  BY <1>1, <1>2, <1>3, <1>4 DEF LoadInv, EntriesOfSets, FilesMatch
<1>8. StoreKnown' /\ KnownStored'
  BY <1>1, <1>2, <1>5 DEF LoadInv, StoreKnown, KnownStored
<1>9. TrustKept'
  BY <1>1, <1>2, <1>3 DEF LoadInv, TrustKept
<1>10. LabelsFirst'
  BY <1>1, <1>3, <1>4 DEF LoadInv, LabelsFirst
<1>11. AllProcessed' /\ WebStore'
  BY <1>1, <1>3 DEF LoadInv, AllProcessed, WebStore
<1>12. StoreWanted'
  BY <1>1, <1>4 DEF LoadInv, StoreWanted
<1> QED
  BY <1>6, <1>7, <1>8, <1>9, <1>10, <1>11, <1>12 DEF LoadInv

\* A step that changes none of the stores, except for another .p12 file.
LEMMA StoresStay ==
    ASSUME Typed, LoadInv, p12 \subseteq p12',
           UNCHANGED <<supply, kdb, trustP12, cms, truststore, keyLabels>>,
           ~Loading, ~Loading', ~AddingTrust, ~AddingTrust', BeforeTrust' <=> BeforeTrust,
           Earlier' = Earlier, \A d \in DOMAIN supply.dirs : First(d)' <=> First(d)
    PROVE  /\ KeysKnown' /\ LookupServes' /\ EntriesOfSets' /\ FilesMatch' /\ CurrentNew'
           /\ StoreKnown' /\ KnownStored' /\ StoreWanted' /\ TrustKept' /\ LabelsFirst'
<1>1. KeysKnown' /\ CurrentNew' /\ LookupServes'
  BY DEF LoadInv, KeysKnown, CurrentNew, LookupServes
<1>2. kpc # "relabel" /\ kpc' # "relabel" /\ kpc # "addTrust" /\ kpc' # "addTrust"
  BY DEF Loading, AddingTrust
<1>3. EntriesOfSets' /\ FilesMatch'
  BY <1>2 DEF LoadInv, EntriesOfSets, FilesMatch
<1>4. StoredCerts' = StoredCerts
  BY DEF StoredCerts
<1>5. StoreKnown' /\ KnownStored' /\ StoreWanted'
  BY <1>2, <1>4 DEF LoadInv, StoreKnown, KnownStored, StoreWanted
<1>6. TrustKept'
  BY <1>2 DEF LoadInv, TrustKept
<1>7. LabelsFirst'
  BY DEF LoadInv, LabelsFirst
<1> QED
  BY <1>1, <1>3, <1>5, <1>6, <1>7

\* The steps before and after the stores are filled.
LEMMA ConfigKeeps ==
    ASSUME Typed, LoadInv,
           Create \/ NextDirectory \/ ConfigureTLS \/ ConfigureNativeHA \/ WebKeystore \/ WebTLS
    PROVE  LoadInv'
<1> USE DEF storeVars, dataVars
<1>1. UNCHANGED <<supply, kdb, trustP12, cms, truststore, keyLabels>> /\ p12 \subseteq p12'
  <2>1. UNCHANGED <<supply, kdb, trustP12, cms, truststore, keyLabels>>
    BY DEF Create, NextDirectory, ConfigureTLS, ConfigureNativeHA, WebKeystore, WebTLS
  <2>2. CASE WebKeystore
    BY <2>2 DEF WebKeystore
  <2>3. CASE Create \/ NextDirectory \/ ConfigureTLS \/ ConfigureNativeHA \/ WebTLS
    BY <2>3 DEF Create, NextDirectory, ConfigureTLS, ConfigureNativeHA, WebTLS
  <2> QED
    BY <2>1, <2>2, <2>3
<1>2. ~Loading /\ ~Loading' /\ ~AddingTrust /\ ~AddingTrust' /\ (BeforeTrust' <=> BeforeTrust)
  BY DEF Create, NextDirectory, ConfigureTLS, ConfigureNativeHA, WebKeystore, WebTLS, Loading,
         AddingTrust, BeforeTrust
<1>3. UNCHANGED at \/ (NextDirectory /\ at' = <<at[1] + 1, 1>>)
  BY DEF Create, NextDirectory, ConfigureTLS, ConfigureNativeHA, WebKeystore, WebTLS
<1>4. Earlier' = Earlier /\ \A d \in DOMAIN supply.dirs : First(d)' <=> First(d)
  <2>1. CASE UNCHANGED at
    BY <1>1, <2>1, PlacesStay
  <2>2. CASE NextDirectory /\ at' = <<at[1] + 1, 1>>
    BY <1>1, <2>2, DirectoryDone DEF Typed, NextDirectory
  <2> QED
    BY <1>3, <2>1, <2>2
<1>5. /\ KeysKnown' /\ LookupServes' /\ EntriesOfSets' /\ FilesMatch' /\ CurrentNew'
      /\ StoreKnown' /\ KnownStored' /\ StoreWanted' /\ TrustKept' /\ LabelsFirst'
  BY <1>1, <1>2, <1>4, StoresStay
<1>6. AllProcessed'
  <2>1. CASE Create
    <3> SUFFICES ASSUME kpc' = "trust",
                        NEW d \in DOMAIN supply.dirs, NEW i \in DOMAIN supply.dirs[d]
                 PROVE  supply.dirs[d][i].key = NoKey /\ supply.dirs[d][i].files = <<>>
      BY <1>1, <2>1 DEF Create, AllProcessed
    <3>1. supply.dirs[d][i] \in SetsOf(supply)
      BY DEF SetsOf, Range
    <3>2. ~HaveKeysAndCerts(supply)
      BY <2>1 DEF Create
    <3> QED
      BY <3>1, <3>2 DEF HaveKeysAndCerts
  <2>2. CASE NextDirectory
    <3> SUFFICES ASSUME kpc' # "keys", UNCHANGED at,
                        NEW d \in DOMAIN supply.dirs, NEW i \in DOMAIN supply.dirs[d]
                 PROVE  Past(d, i)
      <4>1. UNCHANGED at => \A d, i : Past(d, i)' <=> Past(d, i)
        BY <1>1, PlacesStay
      <4> QED
        BY <1>1, <2>2, <4>1 DEF NextDirectory, AllProcessed
    <3>1. at[1] >= Len(supply.dirs) /\ at[2] > Len(supply.dirs[at[1]])
      BY <2>2, Placed DEF NextDirectory, Typed
    <3>2. /\ at[1] \in Nat /\ at[2] \in Nat /\ Len(supply.dirs) \in Nat
          /\ DOMAIN supply.dirs = 1..Len(supply.dirs) /\ Len(supply.dirs[d]) \in Nat
          /\ DOMAIN supply.dirs[d] = 1..Len(supply.dirs[d]) /\ d \in Nat
      BY Placed DEF Typed
    <3>3. d \in 1..Len(supply.dirs) /\ i \in 1..Len(supply.dirs[d])
      BY <3>2
    <3> QED
      BY <3>1, <3>2, <3>3 DEF Past
  <2>3. CASE ConfigureTLS \/ ConfigureNativeHA \/ WebKeystore \/ WebTLS
    <3>1. kpc \in {"tls", "ha", "web", "webTLS"} /\ UNCHANGED at
      BY <2>3 DEF ConfigureTLS, ConfigureNativeHA, WebKeystore, WebTLS
    <3>2. \A d, i : Past(d, i)' <=> Past(d, i)
      BY <1>1, <3>1, PlacesStay
    <3> QED
      BY <1>1, <3>1, <3>2 DEF LoadInv, AllProcessed
  <2> QED
    BY <2>1, <2>2, <2>3
<1>7. WebStore'
  <2>1. CASE Create \/ NextDirectory
    BY <2>1 DEF Create, NextDirectory, WebStore
  <2>2. CASE ConfigureTLS
    BY <1>1, <2>2 DEF ConfigureTLS, WebStore
  <2>3. CASE ConfigureNativeHA
    <3>1. ~supply.web
      BY <2>3 DEF ConfigureNativeHA, LoadInv, WebStore, Typed, Places, IsSupply
    <3> QED
      BY <1>1, <2>3, <3>1 DEF ConfigureNativeHA, WebStore
  <2>4. CASE WebKeystore
    <3>1. keyLabels[1] = NoLabel \/ config'.webStore = keyLabels[1]
      BY <2>4 DEF WebKeystore, Typed, Forms
    <3>2. kpc' \in {"done", "webTLS"}
      BY <2>4 DEF WebKeystore
    <3> QED
      BY <1>1, <3>1, <3>2 DEF WebStore
  <2>5. CASE WebTLS
    <3>1. kpc = "webTLS" /\ kpc' = "done" /\ config'.webStore = config.webStore
      BY <2>5 DEF WebTLS, Typed, Forms
    <3> QED
      BY <1>1, <3>1 DEF LoadInv, WebStore
  <2> QED
    BY <2>1, <2>2, <2>3, <2>4, <2>5
<1> QED
  BY <1>5, <1>6, <1>7 DEF LoadInv

\* At the start nothing has been processed.
LEMMA InitLoad ==
    ASSUME KeyStoresInit
    PROVE  LoadInv
<1>1. Typed
  BY InitTyped
<1>2. /\ kpc \in {"unused", "create"} /\ at = <<1, 1>> /\ trustP12 = {} /\ p12 = {}
      /\ kdb.personal = {} /\ kdb.signers = {}
      /\ cms.known = {} /\ cms.trusted = {} /\ cms.labels = {} /\ cms.lookup = <<>>
      /\ truststore.known = {} /\ truststore.trusted = {}
      /\ \A d \in DOMAIN supply.dirs : keyLabels[d] = NoLabel
  BY DEF KeyStoresInit, NoData
<1>3. /\ ~Loading /\ ~AddingTrust /\ BeforeTrust
  BY <1>2 DEF Loading, AddingTrust, BeforeTrust
<1>4. ASSUME NEW d \in DOMAIN supply.dirs, NEW i \in DOMAIN supply.dirs[d] PROVE ~Past(d, i)
  <2>1. at[1] = 1 /\ at[2] = 1
    BY <1>2
  <2>2. d \in 1..Len(supply.dirs) /\ i \in Nat \ {0} /\ Len(supply.dirs) \in Nat
    BY <1>1, Placed DEF Typed
  <2> QED
    BY <2>1, <2>2 DEF Past
<1>5. Earlier = {} /\ \A d \in DOMAIN supply.dirs : ~First(d)
  BY <1>4 DEF Earlier, First
<1>6. DOMAIN cms.lookup = {} /\ StoredCerts = {}
  BY <1>2 DEF StoredCerts
<1>7. KeysKnown /\ LookupServes /\ CurrentNew
  BY <1>3, <1>5, <1>6 DEF KeysKnown, LookupServes, CurrentNew
<1>8. EntriesOfSets /\ FilesMatch
  BY <1>2, <1>3 DEF EntriesOfSets, FilesMatch
<1>9. StoreKnown /\ KnownStored /\ StoreWanted
  BY <1>2, <1>3, <1>6 DEF StoreKnown, KnownStored, StoreWanted
<1>10. TrustKept
  <2>1. UNION {CAs(set) : set \in Earlier} = {}
    BY <1>5
  <2> QED
    BY <1>2, <1>3, <2>1 DEF TrustKept
<1>11. LabelsFirst /\ AllProcessed /\ WebStore
  BY <1>2, <1>5 DEF LabelsFirst, AllProcessed, WebStore
<1> QED
  BY <1>7, <1>8, <1>9, <1>10, <1>11 DEF LoadInv

-------------------------------------------------------------------------------
(***************************************************************************)
(* The theorems.                                                           *)
(***************************************************************************)

\* Certificates of different subjects, and those in the key store.
LEMMA OneSubjectOfPart ==
    ASSUME NEW whole, NEW part, part \subseteq whole, OneSubject(whole)
    PROVE  OneSubject(part)
BY DEF OneSubject

LEMMA StoredWanted ==
    ASSUME LoadInv, kpc # "relabel"
    PROVE  StoredCerts \subseteq Wanted(supply)
<1>1. ASSUME NEW e \in kdb.personal PROVE e.cert \in Wanted(supply)
  <2>1. PICK set \in Certified(supply) : e.cert = Public(set)
    BY <1>1 DEF LoadInv, EntriesOfSets
  <2> QED
    BY <2>1 DEF Wanted
<1> QED
  BY <1>1 DEF StoredCerts, LoadInv, StoreWanted

\* A configuration fails for a reason: the certificate or the label that is taken
\* belongs to an earlier key set, which is another one; no trusted certificate is added
\* twice; and certificates of one subject come together only if they are both supplied.
LEMMA FailuresHaveReasons ==
    ASSUME Typed, LoadInv, KeyStoresNext, kpc # "failed", kpc' = "failed"
    PROVE  GoodSupplyAccepted'
<1> USE DEF storeVars, dataVars
<1>0. PICK set : set = CurrentSet
  OBVIOUS
<1>1. CASE StepFails
  BY <1>1 DEF StepFails, Fail, GoodSupplyAccepted
<1>2. CASE RefuseKeySet
  <2>1. AtKeySet /\ failure' = Defect(set) /\ supply' = supply
    BY <1>0, <1>2 DEF RefuseKeySet, Fail
  <2>2. set \in SetsOf(supply)
    BY <1>0, <2>1, CurrentPlaced DEF Typed
  <2>3. Defect(set)' = Defect(set)
    BY <2>1 DEF Defect
  <2> QED
    BY <2>1, <2>2, <2>3 DEF GoodSupplyAccepted
<1>3. CASE ImportKeySet
  <2>1. kpc = "import" /\ Loading
    BY <1>3 DEF ImportKeySet, Loading
  <2>2. PICK f \in p12 :
          /\ f.label = set.label /\ supply' = supply /\ failure' = "import"
          /\ Refused(f)
    BY <1>0, <1>3 DEF ImportKeySet, Fail
  <2>3. f = KeyFile(set)
    BY <1>0, <2>1, <2>2 DEF LoadInv, FilesMatch
  <2>4. f.cert = Public(set) /\ f.cas = CAs(set)
    BY <2>3 DEF KeyFile
  <2>5. set \in Certified(supply) /\ set \notin Earlier
    BY <1>0, <2>1 DEF LoadInv, CurrentNew
  <2>6. CASE \E e \in kdb.personal : e.cert = f.cert
    <3>1. PICK t \in Earlier : t \in Certified(supply) /\ Public(t) = Public(set)
      BY <2>1, <2>4, <2>6 DEF LoadInv, EntriesOfSets
    <3> QED
      BY <2>2, <2>5, <3>1 DEF GoodSupplyAccepted
  <2>7. CASE ~OneSubject(StoredCerts \cup {f.cert} \cup f.cas)
    <3>1. CAs(set) \subseteq Wanted(supply) /\ Public(set) \in Wanted(supply)
      BY <2>5 DEF Wanted
    <3>2. ~OneSubject(Wanted(supply))
      BY <2>1, <2>4, <2>7, <3>1, StoredWanted, OneSubjectOfPart DEF Loading
    <3> QED
      BY <2>2, <3>2 DEF GoodSupplyAccepted
  <2> QED
    BY <2>2, <2>6, <2>7 DEF Refused
<1>4. CASE Relabel
  <2>1. /\ kpc = "relabel" /\ Loading /\ set.label \in Labels
        /\ supply' = supply /\ failure' = "labelTaken"
    BY <1>0, <1>4 DEF Relabel, Loading, Fail
  <2>2. set.label # NoLabel /\ set \in SetsOf(supply)
    BY <1>0, <2>1, CurrentPlaced DEF Typed
  <2>3. PICK e \in kdb.personal : e.label = set.label
    BY <2>1 DEF Labels
  <2>4. e # NewEntry(set)
    BY <2>2, <2>3 DEF NewEntry
  <2>5. PICK t \in Earlier : t.label = set.label
    BY <1>0, <2>3, <2>4 DEF LoadInv, EntriesOfSets
  <2>6. t # set /\ t \in SetsOf(supply)
    BY <1>0, <2>1, <2>5, EarlierMounted DEF Typed, LoadInv, CurrentNew
  <2> QED
    BY <2>1, <2>2, <2>5, <2>6 DEF GoodSupplyAccepted
<1>5. CASE AddToCMS
  <2>1. /\ AddingTrust /\ supply' = supply /\ failure' = "duplicate"
        /\ cms.trusted \cap StoredCerts # {} \/ ~OneSubject(StoredCerts \cup cms.trusted)
    BY <1>5 DEF AddToCMS, AddingTrust, Fail
  <2>2. ~OneSubject(StoredCerts \cup cms.trusted)
    BY <2>1 DEF LoadInv, StoreKnown
  <2>3. cms.trusted \subseteq Wanted(supply)
    BY DEF LoadInv, StoreWanted
  <2>4. kpc # "relabel"
    BY <2>1 DEF AddingTrust
  <2>5. ~OneSubject(Wanted(supply))
    BY <2>2, <2>3, <2>4, StoredWanted, OneSubjectOfPart
  <2> QED
    BY <2>1, <2>5 DEF GoodSupplyAccepted
<1>6. CASE SkipKeySet \/ WriteKeySet \/ ReadTrust \/ AddToTruststore
  BY <1>6 DEF SkipKeySet, AtKeySet, WriteKeySet, ReadTrust, AddToTruststore
<1>7. CASE Create \/ NextDirectory \/ ConfigureTLS \/ ConfigureNativeHA \/ WebKeystore \/ WebTLS
  BY <1>7 DEF Create, NextDirectory, ConfigureTLS, ConfigureNativeHA, WebKeystore, WebTLS
<1> QED
  BY <1>1, <1>2, <1>3, <1>4, <1>5, <1>6, <1>7 DEF KeyStoresNext

\* Every step that does not fail.
LEMMA StepLoad ==
    ASSUME Typed, LoadInv, KeyStoresNext, kpc' # "failed"
    PROVE  LoadInv'
<1>1. ~StepFails /\ ~RefuseKeySet
  BY DEF StepFails, RefuseKeySet, Fail
<1> QED
  BY <1>1, SkipKeeps, WriteKeeps, ImportKeeps, RelabelKeeps, ReadTrustKeeps, TruststoreKeeps,
     CMSKeeps, ConfigKeeps DEF KeyStoresNext

\* The inductive invariant of the key stores: while nothing has failed, LoadInv.
KeyStoresInv == Typed /\ (kpc # "failed" => LoadInv) /\ GoodSupplyAccepted

\* From what is mounted to the stores that are used, KeyStoresInv is kept by every step
\* of configureTLSKeystores and of the configuration that follows.
THEOREM KeyStoresInductive == KeyStoresSpec => []KeyStoresInv
<1>1. ASSUME KeyStoresInit PROVE KeyStoresInv
  <2>1. Typed /\ LoadInv
    BY <1>1, InitTyped, InitLoad
  <2>2. kpc # "failed"
    BY <1>1 DEF KeyStoresInit
  <2> QED
    BY <2>1, <2>2 DEF KeyStoresInv, GoodSupplyAccepted
<1>2. ASSUME KeyStoresInv, [KeyStoresNext]_keyStoreVars PROVE KeyStoresInv'
  <2>1. Typed /\ Typed'
    BY <1>2, StepTyped DEF KeyStoresInv
  <2>2. CASE UNCHANGED keyStoreVars
    <3>1. LoadInv => LoadInv'
      BY <2>2 DEF keyStoreVars, storeVars, dataVars, LoadInv, KeysKnown, LookupServes,
         EntriesOfSets, FilesMatch, CurrentNew, StoreKnown, KnownStored, StoreWanted, TrustKept,
         LabelsFirst, AllProcessed, WebStore, Earlier, Past, First, Loading, CurrentSet, BeforeTrust,
         AddingTrust, StoredCerts
    <3>2. GoodSupplyAccepted'
      <4>1. UNCHANGED <<kpc, failure, supply>>
        BY <2>2 DEF keyStoreVars
      <4> QED
        BY <1>2, <4>1 DEF KeyStoresInv, GoodSupplyAccepted, Defect
    <3> QED
      BY <1>2, <2>1, <2>2, <3>1, <3>2 DEF KeyStoresInv, keyStoreVars
  <2>3. CASE KeyStoresNext
    <3>1. kpc # "failed"
      BY <2>3 DEF KeyStoresNext, StepFails, Create, NextDirectory, SkipKeySet, RefuseKeySet,
         WriteKeySet, AtKeySet, ImportKeySet, Relabel, ReadTrust, AddToTruststore, AddToCMS,
         ConfigureTLS, ConfigureNativeHA, WebKeystore, WebTLS
    <3>2. CASE kpc' = "failed"
      BY <1>2, <2>1, <2>3, <3>1, <3>2, FailuresHaveReasons DEF KeyStoresInv
    <3>3. CASE kpc' # "failed"
      BY <1>2, <2>1, <2>3, <3>1, <3>3, StepLoad DEF KeyStoresInv, GoodSupplyAccepted
    <3> QED
      BY <3>2, <3>3
  <2> QED
    BY <1>2, <2>2, <2>3
<1> QED
  BY <1>1, <1>2, PTL DEF KeyStoresSpec

\* The stores hold certificates, the place is one in the directories, and every
\* certificate with a key has a label the program knows of, unless it has just been
\* imported or the configuration has failed.
THEOREM KeyStoresTypeCorrect == KeyStoresSpec => []KeyStoresTypeOK
<1>1. ASSUME KeyStoresInv PROVE KeyStoresTypeOK
  <2>1. DOMAIN keyLabels = DOMAIN supply.dirs
    BY <1>1 DEF KeyStoresInv, Typed, Places
  <2>2. \A e \in kdb.personal : e.label \in cms.labels \/ kpc \in {"relabel", "failed"}
    BY <1>1 DEF KeyStoresInv, LoadInv, EntriesOfSets
  <2>3. kdb.signers \cup trustP12 \subseteq Certs
    BY <1>1 DEF KeyStoresInv, Typed, CertTypes
  <2> QED
    BY <1>1, <2>1, <2>2, <2>3 DEF KeyStoresInv, Typed, Places, KeyStoresTypeOK
<1> QED
  BY <1>1, KeyStoresInductive, PTL

\* Whatever is mounted, configureTLSKeystores fails only for a reason of its own kind: an
\* error of a file or a command, a key set that the code refuses (one without a private key
\* too), two key sets of one name or with one certificate, two certificates of one subject.
\* It never adds a certificate to a store that has it.
THEOREM GoodSupplySafe == KeyStoresSpec => []GoodSupplyAccepted
<1>1. KeyStoresInv => GoodSupplyAccepted
  BY DEF KeyStoresInv
<1> QED
  BY <1>1, KeyStoresInductive, PTL

\* When the configuration is done, the stores have all certificates that are mounted,
\* but for those that a later file of the same key set takes the place of.
THEOREM CertificatesSafe == KeyStoresSpec => []CertificatesKept
<1>1. ASSUME KeyStoresInv PROVE CertificatesKept
  <2> SUFFICES ASSUME kpc = "done" PROVE CertificatesKept
    BY DEF CertificatesKept
  <2>1. LoadInv /\ Typed /\ ~Loading /\ ~AddingTrust /\ ~BeforeTrust
    BY <1>1 DEF KeyStoresInv, Loading, AddingTrust, BeforeTrust
  <2>2. ASSUME NEW set \in SetsOf(supply)
        PROVE  set \in Earlier \/ (Leaves(set) = {} /\ CAs(set) = {})
    <3>1. PICK d \in DOMAIN supply.dirs : \E j \in DOMAIN supply.dirs[d] : set = supply.dirs[d][j]
      BY DEF SetsOf, Range
    <3>2. PICK i \in DOMAIN supply.dirs[d] : set = supply.dirs[d][i]
      BY <3>1
    <3>3. Past(d, i) \/ set.files = <<>>
      BY <2>1, <3>2 DEF LoadInv, AllProcessed
    <3>4. CASE Past(d, i)
      BY <3>2, <3>4 DEF Earlier
    <3>5. CASE set.files = <<>>
      <4>1. DOMAIN set.files = {}
        BY <3>5
      <4>2. OwnFiles(set) = {} /\ Range(set.files) = {}
        BY <4>1 DEF OwnFiles, Range
      <4> QED
        BY <4>2 DEF Leaves, CAs
    <3> QED
      BY <3>3, <3>4, <3>5
  <2>3. \A c \in cms.known : \/ c \in StoredCerts
                             \/ \E set \in SetsOf(supply) : c \in Shadowed(set)
    BY <2>1 DEF LoadInv, KnownStored
  <2>4. supply.trust \subseteq cms.known
    BY <2>1 DEF LoadInv, KnownStored
  <2>5. ASSUME NEW set \in SetsOf(supply) PROVE Leaves(set) \cup CAs(set) \subseteq cms.known
    BY <2>1, <2>2 DEF LoadInv, KeysKnown, AllCerts
  <2>6. ASSUME NEW c \in supply.trust \cup UNION {Leaves(set) \cup CAs(set) : set \in SetsOf(supply)}
        PROVE  c \in cms.known
    <3>1. c \in supply.trust \/ \E set \in SetsOf(supply) : c \in Leaves(set) \cup CAs(set)
      OBVIOUS
    <3> QED
      BY <2>4, <2>5, <3>1
  <2>7. ASSUME NEW c \in StoredCerts
        PROVE  c \in kdb.signers \/ \E e \in kdb.personal : e.cert = c
    BY DEF StoredCerts
  <2>8. ASSUME ~supply.ha
        PROVE  trustP12 = supply.trust \cup UNION {CAs(set) : set \in SetsOf(supply)}
    <3> DEFINE U == UNION {CAs(set) : set \in Earlier}
               W == UNION {CAs(set) : set \in SetsOf(supply)}
    <3>1. \A c : c \in U <=> \E set \in Earlier : c \in CAs(set)
      OBVIOUS
    <3>2. \A c : c \in W <=> \E set \in SetsOf(supply) : c \in CAs(set)
      OBVIOUS
    <3>3. trustP12 = U \cup supply.trust
      BY <2>1, <2>8 DEF LoadInv, TrustKept
    <3> HIDE DEF U, W
    <3>4. Earlier \subseteq SetsOf(supply)
      BY <2>1, EarlierMounted DEF Typed
    <3>5. U = W
      BY <2>2, <3>1, <3>2, <3>4
    <3>6. trustP12 = supply.trust \cup W
      BY <3>3, <3>5
    <3> QED
      BY <3>6, Zenon DEF W
  <2> QED
    BY <2>3, <2>6, <2>7, <2>8 DEF CertificatesKept
<1> QED
  BY <1>1, KeyStoresInductive, PTL

\* The label that the queue manager, Native HA or the web server is configured with is
\* one of the key store, with the key of the first key set of its directory.
THEOREM LabelSafe == KeyStoresSpec => []LabelServes
<1>1. ASSUME KeyStoresInv PROVE LabelServes
  <2> SUFFICES ASSUME kpc = "done", NEW d \in DOMAIN supply.dirs
               PROVE  /\ keyLabels[d] # NoLabel <=> \E set \in Range(supply.dirs[d]) : set.key # NoKey
                      /\ keyLabels[d] # NoLabel => \E e \in kdb.personal :
                           /\ e.label = keyLabels[d] /\ e.key = supply.dirs[d][1].key
                           /\ supply.web => \E f \in p12 :
                                f.label = config.webStore /\ f.key = e.key /\ f.cert = e.cert
    BY DEF LabelServes
  <2>1. LoadInv /\ Typed /\ ~Loading
    BY <1>1 DEF KeyStoresInv, Loading
  <2>2. /\ DOMAIN supply.dirs[d] = 1..Len(supply.dirs[d]) /\ Len(supply.dirs[d]) \in Nat
        /\ DOMAIN supply.dirs[d] \subseteq Nat \ {0} /\ at[1] \in Nat /\ at[2] \in Nat /\ d \in Nat
    BY <2>1, Placed DEF Typed
  <2>3. ASSUME First(d)
        PROVE  keyLabels[d] # NoLabel /\ \E set \in Range(supply.dirs[d]) : set.key # NoKey
    <3>1. supply.dirs[d][1] \in Earlier /\ supply.dirs[d][1] \in Range(supply.dirs[d])
      BY <2>3 DEF First, Earlier, Range
    <3> QED
      BY <2>1, <2>3, <3>1 DEF LoadInv, KeysKnown, LabelsFirst
  <2>4. ASSUME ~First(d)
        PROVE  keyLabels[d] = NoLabel /\ ~\E set \in Range(supply.dirs[d]) : set.key # NoKey
    <3>1. keyLabels[d] = NoLabel
      BY <2>1, <2>4 DEF LoadInv, LabelsFirst
    <3>2. ASSUME NEW i \in DOMAIN supply.dirs[d] PROVE supply.dirs[d][i].key = NoKey
      <4>1. ~Past(d, i)
        BY <2>2, <2>4 DEF First, Past
      <4> QED
        BY <2>1, <4>1 DEF LoadInv, AllProcessed
    <3> QED
      BY <3>1, <3>2 DEF Range
  <2>5. ASSUME keyLabels[d] # NoLabel
        PROVE  \E e \in kdb.personal :
                 /\ e.label = keyLabels[d] /\ e.key = supply.dirs[d][1].key
                 /\ supply.web => \E f \in p12 :
                      f.label = config.webStore /\ f.key = e.key /\ f.cert = e.cert
    <3>1. PICK e \in kdb.personal : e.label = keyLabels[d] /\ e.key = supply.dirs[d][1].key
      BY <2>1, <2>4, <2>5 DEF LoadInv, LabelsFirst
    <3>2. \E f \in p12 : f.label = e.label /\ f.key = e.key /\ f.cert = e.cert
      BY <2>1, <2>5, <3>1 DEF LoadInv, FilesMatch
    <3>3. supply.web => config.webStore = keyLabels[d]
      <4> SUFFICES ASSUME supply.web PROVE config.webStore = keyLabels[d]
        OBVIOUS
      <4>1. Len(supply.dirs) = 1 /\ d \in 1..Len(supply.dirs)
        BY <2>1 DEF Typed, Places, IsSupply
      <4>2. d = 1
        BY <4>1
      <4> QED
        BY <2>1, <2>5, <4>2 DEF LoadInv, WebStore
    <3> QED
      BY <3>1, <3>2, <3>3
  <2> QED
    BY <2>3, <2>4, <2>5
<1> QED
  BY <1>1, KeyStoresInductive, PTL
===============================================================================
