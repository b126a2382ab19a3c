---------------------------- MODULE MCCertStatus -----------------------------
(* TLC instance of CertStatus. *)
EXTENDS CertStatus

Nobody == [orgId |-> "", edrpou |-> "", organization |-> ""]
Own    == [orgId |-> "NTRUA-1", edrpou |-> "1", organization |-> "o"]
OwnOld == [orgId |-> "", edrpou |-> "1", organization |-> "o"]
Other  == [orgId |-> "NTRUA-2", edrpou |-> "2", organization |-> "p"]

CertOf(id, keyId, authorityKeyId) ==
  [id |-> id, keyId |-> keyId, authorityKeyId |-> authorityKeyId, selfSigned |-> keyId = authorityKeyId,
   notBefore |-> 0, notAfter |-> 9, sound |-> TRUE, ca |-> FALSE, trusted |-> FALSE,
   digitalSignature |-> FALSE, ocspSigning |-> FALSE, crlSign |-> FALSE, uri |-> FALSE, provider |-> Nobody]
Ca(id, keyId, authorityKeyId, provider) ==
  [CertOf(id, keyId, authorityKeyId) EXCEPT !.ca = TRUE, !.crlSign = TRUE, !.provider = provider]
Ocsp(id, keyId, authorityKeyId) == [CertOf(id, keyId, authorityKeyId) EXCEPT !.ocspSigning = TRUE]

Root   == Ca("root", "r", "r", Nobody)
Issuing == [Ca("ca", "c", "r", Own) EXCEPT !.uri = TRUE]
OldCa  == Ca("oldca", "o", "r", OwnOld)         (* The provider's CA before its new key. *)
FarCa  == Ca("farca", "f", "r", Other)
Signer == [CertOf("signer", "s", "c") EXCEPT !.digitalSignature = TRUE, !.uri = TRUE, !.notAfter = 2]

RootOcsp == Ocsp("rootocsp", "ro", "r")
CaOcsp   == [Ocsp("caocsp", "co", "c") EXCEPT !.uri = TRUE]
OldOcsp  == Ocsp("oldocsp", "oo", "o")
FarOcsp  == Ocsp("farocsp", "fo", "f")
NotOcsp  == CertOf("notocsp", "no", "c")

Item(c) == [cert |-> c, unique |-> TRUE, permanent |-> TRUE]
StoreOf(s) == FoldLeft(LAMBDA its, c : addItem(its, Item(c)), <<>>, s)

Brings(c) == [cert |-> c, brings |-> TRUE]
Silent(c) == [cert |-> c, brings |-> FALSE]
Names == {"root", "ca", "oldca", "farca", "signer", "rootocsp", "caocsp", "oldocsp", "farocsp", "notocsp"}
Scenario(certs, service) ==
  [store |-> StoreOf(certs),
   services |-> [c \in Names |-> IF c = "signer" THEN {service}
                                 ELSE IF c \in {"ca", "caocsp"} THEN {Brings(RootOcsp)} ELSE {}]]

(* The responder is the CA's own, with and without its certificate in the  *)
(* store; of the provider's earlier CA; of another provider; none at all.  *)
(* A CA whose signature is damaged; a root or a CA that is missing.        *)
MCScenarios ==
  {Scenario(<<Signer, Issuing, Root, CaOcsp>>, Silent(CaOcsp)),
   Scenario(<<Signer, Issuing, Root>>, Silent(CaOcsp)),
   Scenario(<<Signer, Issuing, Root, OldCa>>, Brings(OldOcsp)),
   Scenario(<<Signer, Issuing, Root, FarCa>>, Brings(FarOcsp)),
   Scenario(<<Signer, Issuing, Root>>, Brings(NotOcsp)),
   Scenario(<<Signer, [Issuing EXCEPT !.sound = FALSE], Root>>, Brings(CaOcsp)),
   Scenario(<<Signer, Issuing>>, Brings(CaOcsp)),
   Scenario(<<Signer, Root>>, Brings(CaOcsp))}
MCCrlSigners == [signer |-> {"c", "o", "f", "missing"}, ca |-> {"r"}]

Never == MaxTime + 9
MCRevocations == {[c \in Names |-> IF c = "signer" THEN t ELSE Never] : t \in {1, Never}}
=============================================================================
