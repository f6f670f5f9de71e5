----------------------------- MODULE Signatures -----------------------------
(***************************************************************************)
(* Provenance (pkg/signature): what an identity asks of a certificate, how *)
(* CertificateVerifier decides it, and how the verifiers go through the    *)
(* evidence that Rekor or GitHub has for an artifact.                      *)
(*                                                                         *)
(* A field is the OID of a certificate extension.  An extension has the    *)
(* value decodeExtension finds in it, and a kind: "plain"; "email" or      *)
(* "uri", the two forms of a subject alternative name; "opaque", which is  *)
(* ignored; "malformed".  Fulcio writes one alternative name.              *)
(*                                                                         *)
(* An operator named Action_Fault is that action with a plausible bug.     *)
(***************************************************************************)
EXTENDS Naturals, Sequences, FiniteSets

CONSTANTS
    FieldId,        \* the OIDs an identity can ask for, "Issuer" and "SAN" included
    FieldValue,     \* what they may hold, versions included
    GitHubActions,  \* the issuer that is asked for if none is configured
    Template,       \* the value {{VERSION}}
    Unset           \* an empty value or pattern of an identity, asked of no certificate

ASSUME FieldAssumption == {"Issuer", "SAN"} \subseteq FieldId /\ IsFiniteSet(FieldId)
ASSUME ValueAssumption == GitHubActions \in FieldValue /\ Unset \notin FieldValue

Extension == [field : FieldId \cup {"other"},
              kind : {"plain", "email", "uri", "opaque", "malformed"},
              value : FieldValue]

\* A FulcioIdentity: per field a value, a pattern (the set of values it matches), or
\* neither.
Identity == [value : [FieldId -> FieldValue \cup {Unset}],
             pattern : [FieldId -> SUBSET FieldValue \cup {Unset}]]

-----------------------------------------------------------------------------
(* FulcioIdentity and decodeExtension.                                     *)

\* The issuer is always asked for.
AskedFor(id, f) == id.value[f] # Unset \/ f = "Issuer"

values(id) ==
    [f \in {f \in FieldId : AskedFor(id, f)} |->
        IF id.value[f] = Unset THEN GitHubActions ELSE id.value[f]]

regexps(id) ==
    [f \in {f \in FieldId : id.pattern[f] # Unset} |-> id.pattern[f]]

\* decodeExtension returns a value, or the empty string: of a subject alternative name
\* it knows the email form (tag 1) only.
HasValue(e) == e.kind \in {"plain", "email"}

\* strings.ReplaceAll(expected, "{{VERSION}}", version).
Instantiate(value, version) == IF value = Template THEN version ELSE value

-----------------------------------------------------------------------------
(* CertificateVerifier.Verify.                                             *)

\* The names the certificate is for: cert.URIs, cert.EmailAddresses and the decoded
\* extension.  {{VERSION}} is not replaced in the name asked for.
NamesSubject(cert, name) ==
    \E i \in DOMAIN cert :
        cert[i].field = "SAN" /\ cert[i].kind \in {"email", "uri"} /\ cert[i].value = name

Relevant(e, wanted) == HasValue(e) /\ e.field \in DOMAIN wanted

Differs(id, version, e) ==
    \/ Relevant(e, values(id)) /\ e.value # Instantiate(values(id)[e.field], version)
    \/ Relevant(e, regexps(id)) /\ e.value \notin regexps(id)[e.field]

\* How often vCount and reCount were decremented up to the i-th extension.  A name
\* that was asked for was counted before the loop.
ValueHits(id, cert, i) ==
    Cardinality({j \in 1..i : Relevant(cert[j], values(id))})
        + IF "SAN" \in DOMAIN values(id) THEN 1 ELSE 0

PatternHits(id, cert, i) == Cardinality({j \in 1..i : Relevant(cert[j], regexps(id))})

\* vCount == 0 && reCount == 0 after the i-th extension.
Complete(id, cert, i) ==
    /\ HasValue(cert[i])
    /\ ValueHits(id, cert, i) = Cardinality(DOMAIN values(id))
    /\ PatternHits(id, cert, i) = Cardinality(DOMAIN regexps(id))

Malformed(cert, i) == cert[i].kind = "malformed"

Stops(id, version, cert, i) ==
    Malformed(cert, i) \/ Differs(id, version, cert[i]) \/ Complete(id, cert, i)

\* Where the loop over the extensions returns.
ReturnsAt(id, version, cert, i) ==
    /\ i \in DOMAIN cert
    /\ Stops(id, version, cert, i)
    /\ \A j \in 1..(i - 1) : ~Stops(id, version, cert, j)

Accepts(id, version, cert) ==
    /\ "SAN" \in DOMAIN values(id) => NamesSubject(cert, values(id)["SAN"])
    /\ \E i \in DOMAIN cert :
         /\ ReturnsAt(id, version, cert, i)
         /\ ~Malformed(cert, i)
         /\ ~Differs(id, version, cert[i])

\* A malformed extension is an error: in the search for the name, or in the loop.
Errs(id, version, cert) ==
    \/ /\ "SAN" \in DOMAIN values(id)
       /\ \E i \in DOMAIN cert : cert[i].field = "SAN" /\ Malformed(cert, i)
    \/ /\ "SAN" \in DOMAIN values(id) => NamesSubject(cert, values(id)["SAN"])
       /\ \E i \in DOMAIN cert : ReturnsAt(id, version, cert, i) /\ Malformed(cert, i)

VerifyCertificate(id, version, cert) ==
    IF Errs(id, version, cert) THEN "error"
    ELSE IF Accepts(id, version, cert) THEN "yes" ELSE "no"

-----------------------------------------------------------------------------
(* The verifiers.                                                          *)

\* x509.ParseCertificate refuses a certificate with an extension twice.
OncePerField(cert) ==
    \A i, j \in DOMAIN cert :
        cert[i].field \in FieldId /\ cert[i].field = cert[j].field => i = j

Certificate == {cert \in Seq(Extension) : OncePerField(cert)}

\* What Rekor or GitHub has for an artifact: log entries or attestations, each with
\* the certificate in it.  signed: its place in the log, or its signature, holds.
Evidence == [readable : BOOLEAN, signed : BOOLEAN, cert : Certificate]

\* RekorVerifier.verifyEntry: an entry that cannot be used is an error.
VerifyEntry(id, version, entry) ==
    IF entry.readable /\ entry.signed THEN VerifyCertificate(id, version, entry.cert)
    ELSE "error"

\* Fault: a certificate is enough.
VerifyAttestation_CertificateOnly(id, version, entry) ==
    IF ~entry.readable THEN "error" ELSE VerifyCertificate(id, version, entry.cert)

\* The body of GitHubVerifier.Verify's loop: the signature is looked at last, and one
\* that does not hold is passed over.
VerifyAttestation(id, version, entry) ==
    IF ~entry.readable THEN "error"
    ELSE IF VerifyCertificate(id, version, entry.cert) = "yes" /\ ~entry.signed THEN "no"
    ELSE VerifyCertificate(id, version, entry.cert)

\* The first entry that is not passed over decides, an error as much as a yes.
VerifyLoop(answers) ==
    LET ends(answer) == \E i \in DOMAIN answers :
                            /\ answers[i] = answer
                            /\ \A j \in 1..(i - 1) : answers[j] = "no"
    IN CASE ends("yes") -> "yes" [] ends("error") -> "error" [] OTHER -> "no"

\* Verifier.Verify of a configured signer: fixed is AlwaysPass, of a repository without
\* one.
Verify(signer, version, evidence) ==
    CASE signer.kind = "fixed" -> "yes"
      [] signer.kind = "rekor" ->
            VerifyLoop([i \in DOMAIN evidence |->
                VerifyEntry(signer.id, version, evidence[i])])
      [] signer.kind = "github" ->
            VerifyLoop([i \in DOMAIN evidence |->
                VerifyAttestation(signer.id, version, evidence[i])])

-----------------------------------------------------------------------------
(* What a yes means.                                                       *)

HoldsValue(id, version, cert, f) ==
    \E i \in DOMAIN cert : /\ cert[i].field = f
                          /\ HasValue(cert[i])
                          /\ cert[i].value = Instantiate(values(id)[f], version)

HoldsMatch(id, cert, f) ==
    \E i \in DOMAIN cert : /\ cert[i].field = f
                          /\ HasValue(cert[i])
                          /\ cert[i].value \in regexps(id)[f]

\* The fields, but for the name, whose value the certificate does not hold.
Lacking(id, version, cert) ==
    {f \in DOMAIN values(id) \ {"SAN"} : ~HoldsValue(id, version, cert, f)}

NamedAndMatched(id, cert) ==
    /\ "SAN" \in DOMAIN values(id) => NamesSubject(cert, values(id)["SAN"])
    /\ \A f \in DOMAIN regexps(id) : HoldsMatch(id, cert, f)

\* The certificate holds all the identity asks for.
Meets(id, version, cert) ==
    NamedAndMatched(id, cert) /\ Lacking(id, version, cert) = {}

\* A name that is asked for is counted before the loop, and a second time in it if the
\* decoder knows its form: that of an email, not the URI of a workflow.
CountedTwice(id, cert) ==
    /\ "SAN" \in DOMAIN values(id)
    /\ \E i \in DOMAIN cert : cert[i].field = "SAN" /\ HasValue(cert[i])

\* What the counters make sure of: a name counted twice stands in for one other field.
MeetsAsCounted(id, version, cert) ==
    /\ NamedAndMatched(id, cert)
    /\ \A f, g \in Lacking(id, version, cert) : CountedTwice(id, cert) /\ f = g

\* Evidence that holds, with a certificate that meets the identity ...
Vouched(signer, version, evidence) ==
    \/ signer.kind = "fixed"
    \/ \E i \in DOMAIN evidence :
         evidence[i].readable /\ evidence[i].signed /\ Meets(signer.id, version, evidence[i].cert)

\* ... or that the counters take for one that does.
VouchedAsCounted(signer, version, evidence) ==
    \/ signer.kind = "fixed"
    \/ \E i \in DOMAIN evidence :
         /\ evidence[i].readable /\ evidence[i].signed
         /\ MeetsAsCounted(signer.id, version, evidence[i].cert)

=============================================================================
