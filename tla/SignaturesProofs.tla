-------------------------- MODULE SignaturesProofs --------------------------
(***************************************************************************)
(* What a yes of the verifiers of Signatures means, for any identity, any  *)
(* certificate and any evidence: CertificateVerifier.Verify counts the     *)
(* fields it has found, and never looks which ones are missing.            *)
(***************************************************************************)
EXTENDS Signatures, FunctionTheorems, FiniteSetTheorems, WellFoundedInduction, TLAPS

-----------------------------------------------------------------------------
(* The least and the greatest.                                             *)

LEMMA Least ==
  ASSUME NEW T \in SUBSET Nat, T # {}
  PROVE  \E x \in T : \A y \in T : x <= y
<1> DEFINE R == OpToRel(<, Nat)
<1>1. IsWellFoundedOn(R, Nat)
  BY NatLessThanWellFounded
<1>2. PICK x \in T : \A y \in T : ~(<<y, x>> \in R)
  <2> HIDE DEF R
  <2> QED BY <1>1, WFMin
<1>3. ASSUME NEW y \in T, y < x PROVE <<y, x>> \in R
  <2>1. y \in Nat /\ x \in Nat
    OBVIOUS
  <2> QED BY <1>3, <2>1 DEF OpToRel
<1>4. \A y \in T : x \in Nat /\ y \in Nat /\ ~(y < x)
  BY <1>2, <1>3
<1> QED BY <1>4

LEMMA Greatest ==
  ASSUME NEW n \in Nat, NEW T \in SUBSET (1..n), T # {}
  PROVE  \E x \in T : \A y \in T : y <= x
<1> DEFINE U == {n - x : x \in T}
<1>1. \A x \in T : x \in Nat /\ n - x \in Nat
  OBVIOUS
<1>2. U \in SUBSET Nat /\ U # {}
  BY <1>1
<1>3. PICK u \in U : \A w \in U : u <= w
  <2> HIDE DEF U
  <2> QED BY <1>2, Least
<1>4. PICK x \in T : u = n - x
  OBVIOUS
<1>5. \A y \in T : y <= x
  <2> TAKE y \in T
  <2>1. n - y \in U
    OBVIOUS
  <2> QED BY <1>3, <1>4, <2>1
<1> QED BY <1>5

-----------------------------------------------------------------------------
(* Counting.                                                               *)

\* As many places as there are fields to find, each with a field to find and no field
\* twice: every field is found.
LEMMA CountedAreFound ==
    ASSUME NEW cert, NEW D, IsFiniteSet(D), NEW J,
           \A j \in J : cert[j].field \in D,
           \A j, k \in J : cert[j].field = cert[k].field => j = k,
           Cardinality(J) = Cardinality(D)
    PROVE  \A f \in D : \E j \in J : cert[j].field = f
<1> DEFINE g == [j \in J |-> cert[j].field]
<1>1. g \in Injection(J, D)
  BY DEF Injection, IsInjective
<1>2. g \in Surjection(J, D)
  BY <1>1, FS_Injection
<1> QED BY <1>2 DEF Surjection

\* One place fewer: one field at most is not found.
LEMMA OneIsNotFound ==
    ASSUME NEW cert, NEW D, IsFiniteSet(D), NEW J,
           \A j \in J : cert[j].field \in D,
           \A j, k \in J : cert[j].field = cert[k].field => j = k,
           Cardinality(J) = Cardinality(D) - 1,
           NEW f \in D, NEW g \in D,
           \A j \in J : cert[j].field # f /\ cert[j].field # g
    PROVE  f = g
<1> SUFFICES ASSUME f # g PROVE FALSE
  OBVIOUS
<1> DEFINE E == (D \ {f}) \ {g}
           h == [j \in J |-> cert[j].field]
<1>1. /\ IsFiniteSet(E)
      /\ Cardinality(E) = Cardinality(D) - 2
      /\ Cardinality(D) \in Nat
  <2>1. IsFiniteSet(D \ {f}) /\ Cardinality(D \ {f}) = Cardinality(D) - 1
    BY FS_RemoveElement
  <2>2. g \in D \ {f}
    OBVIOUS
  <2>3. IsFiniteSet(E) /\ Cardinality(E) = Cardinality(D \ {f}) - 1
    BY <2>1, <2>2, FS_RemoveElement
  <2>4. Cardinality(D) \in Nat
    BY FS_CardinalityType
  <2> HIDE DEF E
  <2> QED BY <2>1, <2>3, <2>4
<1>2. h \in Injection(J, E)
  BY DEF Injection, IsInjective
<1>3. Cardinality(J) <= Cardinality(E)
  <2> HIDE DEF h, E
  <2> QED BY <1>1, <1>2, FS_Injection
<1> HIDE DEF E
<1> QED BY <1>1, <1>3

\* The other way round.
LEMMA FoundAreCounted ==
    ASSUME NEW cert, NEW D, NEW J, IsFiniteSet(J),
           \A j \in J : cert[j].field \in D,
           \A j, k \in J : cert[j].field = cert[k].field => j = k,
           \A f \in D : \E j \in J : cert[j].field = f
    PROVE  Cardinality(J) = Cardinality(D)
<1> DEFINE g == [j \in J |-> cert[j].field]
<1>1. g \in Bijection(J, D)
  BY Fun_IsBij
<1>2. ExistsBijection(J, D)
  BY <1>1 DEF ExistsBijection
<1> QED BY <1>2, FS_Bijection

LEMMA AskedFieldsFinite ==
    ASSUME NEW id
    PROVE  IsFiniteSet(DOMAIN values(id)) /\ IsFiniteSet(DOMAIN regexps(id))
<1>1. DOMAIN values(id) \in SUBSET FieldId /\ DOMAIN regexps(id) \in SUBSET FieldId
  BY DEF values, regexps
<1> QED BY <1>1, FieldAssumption, FS_Subset

LEMMA Fields == ASSUME NEW cert \in Certificate PROVE cert \in Seq(Extension) /\ OncePerField(cert)
  BY DEF Certificate

\* Up to the i-th extension, the two counters have reached zero: every match has been
\* found, and every value, but for one of them if the name was counted twice.
LEMMA CompleteFindsAll ==
    ASSUME NEW id, NEW cert \in Certificate, NEW i \in DOMAIN cert, Complete(id, cert, i)
    PROVE  LET found(f, wanted) == \E j \in 1..i : cert[j].field = f /\ Relevant(cert[j], wanted)
           IN /\ \A f \in DOMAIN regexps(id) : found(f, regexps(id))
              /\ \A f, g \in DOMAIN values(id) \ {"SAN"} :
                   ~found(f, values(id)) /\ ~found(g, values(id)) => CountedTwice(id, cert) /\ f = g
<1> DEFINE V == {j \in 1..i : Relevant(cert[j], values(id))}
           P == {j \in 1..i : Relevant(cert[j], regexps(id))}
           D == DOMAIN values(id) \ {"SAN"}
           found(f, wanted) == \E j \in 1..i : cert[j].field = f /\ Relevant(cert[j], wanted)
<1>0. cert \in Seq(Extension) /\ OncePerField(cert)
  BY Fields
<1>1. i \in Nat /\ 1..i \subseteq DOMAIN cert
  BY <1>0
<1>2. DOMAIN values(id) \subseteq FieldId /\ DOMAIN regexps(id) \subseteq FieldId
  BY DEF values, regexps
<1>3. V \in SUBSET (1..i) /\ IsFiniteSet(1..i)
  BY <1>1, FS_Interval
<1>4. Cardinality(V) \in Nat /\ Cardinality(DOMAIN values(id)) \in Nat
  BY <1>3, FS_Subset, FS_CardinalityType, AskedFieldsFinite
<1>5. /\ IsFiniteSet(D)
      /\ Cardinality(D) = IF "SAN" \in DOMAIN values(id) THEN Cardinality(DOMAIN values(id)) - 1
                                                         ELSE Cardinality(DOMAIN values(id))
  BY AskedFieldsFinite, FS_RemoveElement
<1>6. Cardinality(V) = Cardinality(D)
  BY <1>4, <1>5 DEF Complete, ValueHits
<1>7. \A j \in V : cert[j].field \in DOMAIN values(id)
  BY DEF Relevant
<1>8. \A j, k \in V : cert[j].field = cert[k].field => j = k
  BY <1>0, <1>1, <1>2 DEF OncePerField, Relevant
<1>9. \A f \in DOMAIN regexps(id) : found(f, regexps(id))
  <2>1. \A j \in P : cert[j].field \in DOMAIN regexps(id)
    BY DEF Relevant
  <2>2. \A j, k \in P : cert[j].field = cert[k].field => j = k
    BY <1>0, <1>1, <1>2 DEF OncePerField, Relevant
  <2>3. Cardinality(P) = Cardinality(DOMAIN regexps(id))
    BY DEF Complete, PatternHits
  <2>4. \A f \in DOMAIN regexps(id) : \E j \in P : cert[j].field = f
    <3> HIDE DEF P
    <3> QED BY <2>1, <2>2, <2>3, CountedAreFound, AskedFieldsFinite
  <2> QED BY <2>4
<1>10. ASSUME NEW f \in D, NEW g \in D, ~found(f, values(id)), ~found(g, values(id))
       PROVE  CountedTwice(id, cert) /\ f = g
  <2>1. \A j \in V : cert[j].field # f /\ cert[j].field # g
    BY <1>10
  <2>2. CountedTwice(id, cert)
    <3> SUFFICES ASSUME ~CountedTwice(id, cert) PROVE FALSE
      OBVIOUS
    <3>1. \A j \in V : cert[j].field \in D
      BY <1>1, <1>7 DEF CountedTwice, Relevant
    <3>2. \A x \in D : \E j \in V : cert[j].field = x
      <4> HIDE DEF V, D
      <4> QED BY <1>5, <1>6, <1>8, <3>1, CountedAreFound
    <3> QED BY <2>1, <3>2
  <2>3. Cardinality(V) = Cardinality(DOMAIN values(id)) - 1
    BY <1>5, <1>6, <2>2 DEF CountedTwice
  <2>4. f \in DOMAIN values(id) /\ g \in DOMAIN values(id)
    OBVIOUS
  <2>5. f = g
    <3> HIDE DEF V
    <3> QED BY <1>7, <1>8, <2>1, <2>3, <2>4, AskedFieldsFinite, OneIsNotFound
  <2> QED BY <2>2, <2>5
<1> HIDE DEF found
<1>11. \A f, g \in D : ~found(f, values(id)) /\ ~found(g, values(id))
                         => CountedTwice(id, cert) /\ f = g
  BY <1>10
<1> QED BY <1>9, <1>11 DEF found

-----------------------------------------------------------------------------
(* Certificates.                                                           *)

\* For any identity and any certificate x509 accepts: CertificateVerifier.Verify says yes
\* only if the certificate has the name and the matches the identity asks for, and the
\* values but for one, which it may lack if the name is counted twice (certificate.go:68
\* and :86); if no name is counted twice, it has all that is asked for.
THEOREM AcceptedMeets ==
    ASSUME NEW id, NEW version, NEW cert \in Certificate,
           VerifyCertificate(id, version, cert) = "yes"
    PROVE  /\ MeetsAsCounted(id, version, cert)
           /\ ~CountedTwice(id, cert) => Meets(id, version, cert)
<1> DEFINE found(i, f, wanted) == \E j \in 1..i : cert[j].field = f /\ Relevant(cert[j], wanted)
<1>1. Accepts(id, version, cert)
  BY DEF VerifyCertificate
<1>2. PICK i \in DOMAIN cert : /\ ReturnsAt(id, version, cert, i)
                              /\ ~Malformed(cert, i)
                              /\ ~Differs(id, version, cert[i])
  BY <1>1 DEF Accepts
<1>3. Complete(id, cert, i)
  BY <1>2 DEF ReturnsAt, Stops
<1>4. i \in Nat /\ 1..i \subseteq DOMAIN cert
  BY Fields
<1>5. \A j \in 1..i : ~Differs(id, version, cert[j])
  <2>1. \A j \in 1..(i - 1) : ~Differs(id, version, cert[j])
    BY <1>2 DEF ReturnsAt, Stops
  <2>2. \A j \in 1..i : j = i \/ j \in 1..(i - 1)
    BY <1>4
  <2> QED BY <1>2, <2>1, <2>2
<1>6. /\ \A f \in DOMAIN regexps(id) : found(i, f, regexps(id))
      /\ \A f, g \in DOMAIN values(id) \ {"SAN"} :
           ~found(i, f, values(id)) /\ ~found(i, g, values(id)) => CountedTwice(id, cert) /\ f = g
  BY <1>3, CompleteFindsAll
<1>7. \A f \in Lacking(id, version, cert) : ~found(i, f, values(id))
  BY <1>4, <1>5 DEF Lacking, HoldsValue, Differs, Relevant
<1>8. \A f \in DOMAIN regexps(id) : HoldsMatch(id, cert, f)
  BY <1>4, <1>5, <1>6 DEF HoldsMatch, Differs, Relevant
<1>9. NamedAndMatched(id, cert)
  BY <1>1, <1>8 DEF NamedAndMatched, Accepts
<1>10. \A f, g \in Lacking(id, version, cert) : CountedTwice(id, cert) /\ f = g
  <2>1. Lacking(id, version, cert) \subseteq DOMAIN values(id) \ {"SAN"}
    BY DEF Lacking
  <2> HIDE DEF found
  <2> QED BY <1>6, <1>7, <2>1
<1> QED BY <1>9, <1>10 DEF MeetsAsCounted, Meets

\* If it holds them all, nothing in it differs from what is asked for ...
LEMMA MeetsNeverDiffers ==
    ASSUME NEW id, NEW version, NEW cert \in Certificate, ~CountedTwice(id, cert),
           Meets(id, version, cert), NEW i \in DOMAIN cert
    PROVE  ~Differs(id, version, cert[i])
<1>1. DOMAIN values(id) \subseteq FieldId /\ DOMAIN regexps(id) \subseteq FieldId
  BY DEF values, regexps
<1>2. ASSUME Relevant(cert[i], values(id))
      PROVE  cert[i].value = Instantiate(values(id)[cert[i].field], version)
  <2>1. cert[i].field \in DOMAIN values(id) \ {"SAN"}
    BY <1>2 DEF CountedTwice, Relevant
  <2>2. PICK j \in DOMAIN cert :
          /\ cert[j].field = cert[i].field
          /\ cert[j].value = Instantiate(values(id)[cert[i].field], version)
    BY <2>1 DEF Meets, Lacking, NamedAndMatched, HoldsValue, HoldsMatch
  <2>3. j = i
    BY <1>1, <2>1, <2>2, Fields DEF OncePerField
  <2> QED BY <2>2, <2>3
<1>3. ASSUME Relevant(cert[i], regexps(id))
      PROVE  cert[i].value \in regexps(id)[cert[i].field]
  <2>1. cert[i].field \in DOMAIN regexps(id)
    BY <1>3 DEF Relevant
  <2>2. PICK j \in DOMAIN cert : /\ cert[j].field = cert[i].field
                                /\ cert[j].value \in regexps(id)[cert[i].field]
    BY <2>1 DEF Meets, Lacking, NamedAndMatched, HoldsValue, HoldsMatch
  <2>3. j = i
    BY <1>1, <2>1, <2>2, Fields DEF OncePerField
  <2> QED BY <2>2, <2>3
<1> QED BY <1>2, <1>3 DEF Differs

\* ... and the last field of it that is asked for brings both counters to zero.
LEMMA MeetsCompletes ==
    ASSUME NEW id, NEW version, NEW cert \in Certificate, ~CountedTwice(id, cert),
           Meets(id, version, cert)
    PROVE  \E i \in DOMAIN cert : Complete(id, cert, i)
<1> DEFINE n == Len(cert)
           InV(j) == Relevant(cert[j], values(id))
           InP(j) == Relevant(cert[j], regexps(id))
           R == {j \in 1..n : InV(j) \/ InP(j)}
           D == DOMAIN values(id) \ {"SAN"}
<1>1. n \in Nat /\ DOMAIN cert = 1..n
  BY Fields
<1>2. DOMAIN values(id) \subseteq FieldId /\ DOMAIN regexps(id) \subseteq FieldId
  BY DEF values, regexps
<1>3. \A f \in D : \E j \in 1..n : cert[j].field = f /\ InV(j)
  BY <1>1 DEF Meets, Lacking, NamedAndMatched, HoldsValue, HoldsMatch, Relevant
<1>4. \A f \in DOMAIN regexps(id) : \E j \in 1..n : cert[j].field = f /\ InP(j)
  BY <1>1 DEF Meets, Lacking, NamedAndMatched, HoldsValue, HoldsMatch, Relevant
<1>5. R # {}
  <2>1. "Issuer" \in D
    BY FieldAssumption DEF values, AskedFor
  <2> QED BY <1>3, <2>1
<1>6. PICK i \in R : \A j \in R : j <= i
  <2>1. R \in SUBSET (1..n)
    OBVIOUS
  <2> HIDE DEF R, n
  <2> QED BY <1>1, <1>5, <2>1, Greatest
<1> DEFINE V == {j \in 1..i : InV(j)}
           P == {j \in 1..i : InP(j)}
<1>7. i \in 1..n /\ (\A j \in 1..n : InV(j) \/ InP(j) => j \in 1..i)
  BY <1>1, <1>6
<1>8. 1..i \subseteq DOMAIN cert /\ i \in Nat
  BY <1>1, <1>7
<1>9. \A j \in V : cert[j].field \in D
  BY <1>8 DEF CountedTwice, Relevant
<1>10. \A j, k \in V : cert[j].field = cert[k].field => j = k
  BY <1>2, <1>8, Fields DEF OncePerField, Relevant
<1>11. \A f \in D : \E j \in V : cert[j].field = f
  BY <1>3, <1>7
<1>12. \A j \in P : cert[j].field \in DOMAIN regexps(id)
  BY DEF Relevant
<1>13. \A j, k \in P : cert[j].field = cert[k].field => j = k
  BY <1>2, <1>8, Fields DEF OncePerField, Relevant
<1>14. \A f \in DOMAIN regexps(id) : \E j \in P : cert[j].field = f
  BY <1>4, <1>7
<1>15. IsFiniteSet(V) /\ IsFiniteSet(P)
  <2>1. IsFiniteSet(1..i)
    BY <1>8, FS_Interval
  <2>2. V \in SUBSET (1..i) /\ P \in SUBSET (1..i)
    OBVIOUS
  <2> QED BY <2>1, <2>2, FS_Subset
<1>16. Cardinality(V) = Cardinality(D) /\ Cardinality(P) = Cardinality(DOMAIN regexps(id))
  <2> HIDE DEF V, P, D
  <2> QED BY <1>9, <1>10, <1>11, <1>12, <1>13, <1>14, <1>15, FoundAreCounted
<1>17. ValueHits(id, cert, i) = Cardinality(DOMAIN values(id))
  <2>1. Cardinality(DOMAIN values(id)) \in Nat
    BY AskedFieldsFinite, FS_CardinalityType
  <2>2. Cardinality(D) = IF "SAN" \in DOMAIN values(id) THEN Cardinality(DOMAIN values(id)) - 1
                                                       ELSE Cardinality(DOMAIN values(id))
    BY AskedFieldsFinite, FS_RemoveElement
  <2> QED BY <1>16, <2>1, <2>2 DEF ValueHits
<1>18. PatternHits(id, cert, i) = Cardinality(DOMAIN regexps(id))
  BY <1>16 DEF PatternHits
<1>19. HasValue(cert[i])
  BY <1>6 DEF Relevant
<1> QED BY <1>1, <1>7, <1>17, <1>18, <1>19 DEF Complete

\* If no name is counted twice, it says no only if the certificate lacks something the
\* identity asks for.
THEOREM RefusedLacks ==
    ASSUME NEW id, NEW version, NEW cert \in Certificate, ~CountedTwice(id, cert),
           VerifyCertificate(id, version, cert) = "no"
    PROVE  ~Meets(id, version, cert)
<1> SUFFICES ASSUME Meets(id, version, cert) PROVE FALSE
  OBVIOUS
<1>1. ~Errs(id, version, cert) /\ ~Accepts(id, version, cert)
  BY DEF VerifyCertificate
<1>2. "SAN" \in DOMAIN values(id) => NamesSubject(cert, values(id)["SAN"])
  BY DEF Meets, NamedAndMatched
<1>3. \A i \in DOMAIN cert : ~Differs(id, version, cert[i])
  BY MeetsNeverDiffers
<1> DEFINE T == {i \in DOMAIN cert : Stops(id, version, cert, i)}
<1>4. T \in SUBSET Nat
  BY Fields
<1>5. T # {}
  BY MeetsCompletes DEF Stops
<1>6. PICK i \in T : \A j \in T : i <= j
  <2> HIDE DEF T
  <2> QED BY <1>4, <1>5, Least
<1>7. ReturnsAt(id, version, cert, i)
  <2>1. i \in Nat /\ 1..(i - 1) \subseteq DOMAIN cert /\ \A j \in 1..(i - 1) : ~(i <= j)
    BY Fields
  <2> QED BY <1>6, <2>1 DEF ReturnsAt
<1> QED BY <1>1, <1>2, <1>3, <1>6, <1>7 DEF Errs, Accepts

-----------------------------------------------------------------------------
(* Verifiers.                                                              *)

LEMMA CertificateOfEvidence ==
    ASSUME NEW evidence \in Seq(Evidence), NEW i \in DOMAIN evidence
    PROVE  evidence[i].cert \in Certificate
<1>1. evidence[i] \in Evidence
  OBVIOUS
<1> QED BY <1>1 DEF Evidence

\* A yes of a verifier rests on a piece of evidence that holds, with a certificate it
\* said yes to.
LEMMA YesOfOne ==
    ASSUME NEW signer, NEW version, NEW evidence, signer.kind \in {"rekor", "github"},
           Verify(signer, version, evidence) = "yes"
    PROVE  \E i \in DOMAIN evidence :
             /\ evidence[i].readable /\ evidence[i].signed
             /\ VerifyCertificate(signer.id, version, evidence[i].cert) = "yes"
<1>1. CASE signer.kind = "rekor"
  <2>1. VerifyLoop([i \in DOMAIN evidence |-> VerifyEntry(signer.id, version, evidence[i])]) = "yes"
    BY <1>1 DEF Verify
  <2>2. PICK i \in DOMAIN evidence : VerifyEntry(signer.id, version, evidence[i]) = "yes"
    BY <2>1 DEF VerifyLoop
  <2> QED BY <2>2 DEF VerifyEntry
<1>2. CASE signer.kind = "github"
  <2>1. VerifyLoop([i \in DOMAIN evidence |-> VerifyAttestation(signer.id, version, evidence[i])]) = "yes"
    BY <1>2 DEF Verify
  <2>2. PICK i \in DOMAIN evidence : VerifyAttestation(signer.id, version, evidence[i]) = "yes"
    BY <2>1 DEF VerifyLoop
  <2> QED BY <2>2 DEF VerifyAttestation
<1> QED BY <1>1, <1>2

\* A verifier says yes only if there is evidence that holds, with a certificate that
\* meets the identity, short of one value if its name is counted twice: evidence that is
\* unsigned or unreadable never counts, in whatever order it comes.
THEOREM VerifiedIsVouched ==
    ASSUME NEW signer, NEW version, NEW evidence \in Seq(Evidence),
           signer.kind \in {"fixed", "rekor", "github"},
           Verify(signer, version, evidence) = "yes"
    PROVE  /\ VouchedAsCounted(signer, version, evidence)
           /\ (\A i \in DOMAIN evidence : ~CountedTwice(signer.id, evidence[i].cert))
                => Vouched(signer, version, evidence)
<1>1. CASE signer.kind = "fixed"
  BY <1>1 DEF Vouched, VouchedAsCounted
<1>2. CASE signer.kind \in {"rekor", "github"}
  <2>1. PICK i \in DOMAIN evidence :
          /\ evidence[i].readable /\ evidence[i].signed
          /\ VerifyCertificate(signer.id, version, evidence[i].cert) = "yes"
    BY <1>2, YesOfOne
  <2>2. evidence[i].cert \in Certificate
    BY CertificateOfEvidence
  <2>3. /\ MeetsAsCounted(signer.id, version, evidence[i].cert)
        /\ ~CountedTwice(signer.id, evidence[i].cert)
             => Meets(signer.id, version, evidence[i].cert)
    BY <2>1, <2>2, AcceptedMeets
  <2> QED BY <2>1, <2>3 DEF Vouched, VouchedAsCounted
<1> QED BY <1>1, <1>2

\* A loop over answers ends with no only if all of them are.
LEMMA AllAreNo ==
    ASSUME NEW evidence \in Seq(Evidence), NEW answers, DOMAIN answers = DOMAIN evidence,
           \A i \in DOMAIN answers : answers[i] \in {"yes", "no", "error"},
           VerifyLoop(answers) = "no"
    PROVE  \A i \in DOMAIN answers : answers[i] = "no"
<1> DEFINE T == {i \in DOMAIN answers : answers[i] # "no"}
<1> SUFFICES ASSUME T # {} PROVE FALSE
  OBVIOUS
<1>1. T \in SUBSET Nat
  OBVIOUS
<1>2. PICK i \in T : \A j \in T : i <= j
  <2> HIDE DEF T
  <2> QED BY <1>1, Least
<1>3. i \in Nat /\ 1..(i - 1) \subseteq DOMAIN answers /\ \A j \in 1..(i - 1) : ~(i <= j)
  OBVIOUS
<1>4. \A j \in 1..(i - 1) : answers[j] = "no"
  BY <1>2, <1>3
<1> QED BY <1>2, <1>4 DEF VerifyLoop

\* A verifier says no only if there is no evidence that holds, with a certificate that
\* meets the identity and whose name is not counted twice: what comes first never hides
\* what comes later.
THEOREM UnverifiedIsNotVouched ==
    ASSUME NEW signer, NEW version, NEW evidence \in Seq(Evidence),
           signer.kind \in {"fixed", "rekor", "github"},
           Verify(signer, version, evidence) = "no"
    PROVE  \A i \in DOMAIN evidence :
             /\ evidence[i].readable /\ evidence[i].signed
             /\ Meets(signer.id, version, evidence[i].cert)
             => CountedTwice(signer.id, evidence[i].cert)
<1>1. signer.kind \in {"rekor", "github"}
  BY DEF Verify
<1>2. \A i \in DOMAIN evidence : evidence[i].cert \in Certificate
  BY CertificateOfEvidence
<1>3. \A i \in DOMAIN evidence :
        VerifyCertificate(signer.id, version, evidence[i].cert) \in {"yes", "no", "error"}
  BY DEF VerifyCertificate
<1>4. ASSUME NEW i \in DOMAIN evidence, evidence[i].readable, evidence[i].signed,
             VerifyCertificate(signer.id, version, evidence[i].cert) = "no",
             Meets(signer.id, version, evidence[i].cert)
      PROVE  CountedTwice(signer.id, evidence[i].cert)
  BY <1>2, <1>4, RefusedLacks
<1>5. CASE signer.kind = "rekor"
  <2> DEFINE answers == [i \in DOMAIN evidence |-> VerifyEntry(signer.id, version, evidence[i])]
  <2>1. VerifyLoop(answers) = "no"
    BY <1>5 DEF Verify
  <2>2. \A i \in DOMAIN answers : answers[i] \in {"yes", "no", "error"}
    BY <1>3 DEF VerifyEntry
  <2>3. \A i \in DOMAIN answers : answers[i] = "no"
    <3>1. DOMAIN answers = DOMAIN evidence
      OBVIOUS
    <3> HIDE DEF answers
    <3> QED BY <2>1, <2>2, <3>1, AllAreNo
  <2>4. \A i \in DOMAIN evidence : VerifyEntry(signer.id, version, evidence[i]) = "no"
    BY <2>3
  <2> QED BY <1>4, <1>5, <2>4 DEF VerifyEntry
<1>6. CASE signer.kind = "github"
  <2> DEFINE answers == [i \in DOMAIN evidence |-> VerifyAttestation(signer.id, version, evidence[i])]
  <2>1. VerifyLoop(answers) = "no"
    BY <1>6 DEF Verify
  <2>2. \A i \in DOMAIN answers : answers[i] \in {"yes", "no", "error"}
    BY <1>3 DEF VerifyAttestation
  <2>3. \A i \in DOMAIN answers : answers[i] = "no"
    <3>1. DOMAIN answers = DOMAIN evidence
      OBVIOUS
    <3> HIDE DEF answers
    <3> QED BY <2>1, <2>2, <3>1, AllAreNo
  <2>4. \A i \in DOMAIN evidence : VerifyAttestation(signer.id, version, evidence[i]) = "no"
    BY <2>3
  <2> QED BY <1>3, <1>4, <1>6, <2>4 DEF VerifyAttestation
<1> QED BY <1>1, <1>5, <1>6

=============================================================================
