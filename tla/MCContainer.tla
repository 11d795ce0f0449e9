------------------------------- MODULE MCContainer ------------------------------
(***************************************************************************)
(* The parts of the container that share no state with each other: the     *)
(* certificate monitor, the audit log, the key stores and the readiness    *)
(* files.  One of them is in use; the others rest as they do in a          *)
(* container that does not need them.                                      *)
(***************************************************************************)
EXTENDS Certificates, AuditLog, KeyStores, Readiness, TLC

\* The second generation keeps the private key of the first.
Keys == 1 :> 1 @@ 2 :> 1 @@ 3 :> 2

-------------------------------------------------------------------------------
(***************************************************************************)
(* What may be mounted.  l1 and its successor n1, under another subject,   *)
(* belong to key k1, l2 and l3 to k2; l3 and ca3 have the subject of l1.   *)
(***************************************************************************)

Subjects == "l1" :> "q1" @@ "n1" :> "q3" @@ "l2" :> "q2" @@ "l3" :> "q1"
              @@ "ca1" :> "c1" @@ "ca2" :> "c2" @@ "ca3" :> "q1"

Own(certs) == [own |-> TRUE, certs |-> certs]
Other(certs) == [own |-> FALSE, certs |-> certs]

\* The key and the .crt files of a key set; the first seven can be part of a good supply.
Sound ==
    { <<"k1", <<Own(<<"l1", "ca1">>)>>>>,
      <<"k1", <<Own(<<"n1">>)>>>>,
      <<"k1", <<Own(<<"l1">>), Other(<<"ca2">>)>>>>,
      <<"k1", <<Own(<<"n1">>), Own(<<"l1">>)>>>>,
      <<"k2", <<Other(<<"ca1">>), Own(<<"l2">>)>>>>,
      <<"k2", <<Own(<<"l3">>)>>>>,
      <<"k2", <<Other(<<"ca1">>)>>>> }
Contents == Sound \cup
    { <<"k1", <<Own(<<"l1">>), Other(<<"ca3">>)>>>>,
      <<"k2", <<Own(<<>>)>>>>,
      <<NoKey, <<Other(<<"ca1">>)>>>>,
      <<NoKey, <<>>>> }

KeySet(label, content) == [label |-> label, key |-> content[1], files |-> content[2]]

Singles ==
    {<<>>} \cup {<<KeySet(label, c)>> : label \in {"a", "b"}, c \in Contents}
           \cup {<<KeySet(TrustLabel, c)>> : c \in {d \in Sound : d[1] = "k2"}}
Directories == Singles \cup {<<KeySet("a", c), KeySet("b", d)>> : c, d \in Sound}

\* web, host and validate
Settings == {<<FALSE, FALSE, FALSE>>, <<FALSE, FALSE, TRUE>>, <<TRUE, FALSE, TRUE>>, <<TRUE, TRUE, TRUE>>}

Mounted ==
    { [ha |-> FALSE, web |-> s[1], host |-> s[2], validate |-> s[3], dirs |-> <<d>>, trust |-> t] :
        s \in Settings, d \in Directories, t \in {{}, {"ca2", "l1"}} }
    \cup
    { [ha |-> TRUE, web |-> FALSE, host |-> FALSE, validate |-> TRUE, dirs |-> <<d, e>>,
       trust |-> {"ca2", "l1"}] : d \in Directories, e \in Singles }

-------------------------------------------------------------------------------
Unused == <<updater = "unused", server = "unused", kpc = "unused", process1 = "unused">>

Init ==
    /\ CertificatesInit /\ AuditInit /\ KeyStoresInit /\ ReadinessInit
    /\ \E i \in 1..4 : \A j \in 1..4 : j # i => Unused[j]

Next ==
    \/ CertificatesNext /\ UNCHANGED <<auditVars, keyStoreVars, readinessVars>>
    \/ AuditNext /\ UNCHANGED <<certificateVars, keyStoreVars, readinessVars>>
    \/ KeyStoresNext /\ UNCHANGED <<certificateVars, auditVars, readinessVars>>
    \/ ReadinessNext /\ UNCHANGED <<certificateVars, auditVars, keyStoreVars>>

Spec ==
    /\ Init /\ [][Next]_<<certificateVars, auditVars, keyStoreVars, readinessVars>>
    /\ CertificatesFairness /\ AuditFairness /\ ReadinessFairness

\* Every variable of the four parts has its type.
ContainerTypeOK ==
    CertificatesTypeOK /\ AuditTypeOK /\ KeyStoresTypeOK /\ ReadinessTypeOK
===============================================================================
