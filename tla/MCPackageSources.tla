-------------------------- MODULE MCPackageSources --------------------------
(***************************************************************************)
(* PackageSources for TLC.  Two repositories: r, whose newer and older     *)
(* release have packages of one name, with a checksum file, a signer, or   *)
(* both, and whose newest has none and may push the oldest off the page;   *)
(* and q, whose signer has an email address.  A directory of two .debs.    *)
(***************************************************************************)
EXTENDS PackageSources

MCAlphabet == <<"Architecture", "Description", "Filename", "MD5sum", "Package",
                "SHA256", "Signed-By", "Size">>

-----------------------------------------------------------------------------
(* What archives hold.                                                     *)

Item(kind, lines) == [kind |-> kind, lines |-> lines]

Control(name) ==
    << Field("Package", <<Space, name, Space>>), Field("Architecture", <<Space, "amd64">>) >>

\* A field over two lines, and a field of several lines.
Folded(name) ==
    <<BlankLine>> \o Control(name) \o
    << Field("Description", <<Space, "short">>), More(<<Space, "long">>),
       Field("Signed-By", <<>>), More(<<Space, "one">>), More(<<Space, "two">>), BlankLine >>

Stray(name) == <<More(<<Space, "stray">>), Junk(<<"junk">>)>> \o Control(name)

DebWith(lines) == <<Item("skip", <<>>), Item("control", lines)>>

TornDeb == <<Item("skip", <<>>), Item("broken", <<>>)>>
EmptyDeb == <<>>
TwiceDeb == DebWith(Control("twice") \o <<BlankLine>> \o Control("twice"))

-----------------------------------------------------------------------------
(* GitHub.                                                                 *)

MCRepo == {"r", "q"}
MCRelease == {"r2", "r1", "r0", "q0"}
MCCatalog == [r |-> <<"r2", "r1", "r0">>, q |-> <<"q0">>]
MCAssets == [r2 |-> <<>>, r1 |-> <<"deb1", "sums1", "arm1">>, r0 |-> <<"sums0", "deb0">>, q0 |-> <<"debq">>]
MCAsset == UNION {ToSet(MCAssets[rel]) : rel \in MCRelease}
MCWorlds ==
    {[r2 |-> "absent", r1 |-> "absent", r0 |-> "published", q0 |-> "published"],
     [r2 |-> "absent", r1 |-> "published", r0 |-> "published", q0 |-> "absent"]}
MCSumsName == [rel \in MCRelease |-> "sums"]

DebAsset(arch, deb) ==
    [name |-> arch, ext |-> ".deb", arch |-> arch, deb |-> deb, sums |-> <<>>]
SumsAsset(lines) ==
    [name |-> "sums", ext |-> "", arch |-> "", deb |-> EmptyDeb, sums |-> lines]
Sum(file, digest) == [algorithm |-> "sha256", file |-> file, digest |-> digest]

MCFile ==
    [deb1 |-> DebAsset("amd64", DebWith(Folded("deb1"))),
     arm1 |-> DebAsset("arm64", DebWith(Control("arm1"))),
     sums1 |-> SumsAsset(<<Sum("arm64", "arm1"), Sum("amd64", "deb1")>>),
     deb0 |-> DebAsset("amd64", DebWith(Stray("deb0"))),
     sums0 |-> SumsAsset(<<Sum("amd64", "deb0")>>),
     debq |-> DebAsset("Linux-64bit", DebWith(Control("debq")))]

-----------------------------------------------------------------------------
(* Evidence and identities.                                                *)

MCFieldId == {"Issuer", "SAN", "Repository", "Ref"}
MCFieldValue == {"actions", "template", "accounts", "keyless"} \cup MCRepo \cup MCRelease

Ext(field, kind, value) == [field |-> field, kind |-> kind, value |-> value]

\* A certificate of a GitHub workflow, for a version.
Workflow(issuer, repo, ref) ==
    << Ext("SAN", "uri", repo), Ext("Issuer", "plain", issuer),
       Ext("Repository", "plain", repo), Ext("Ref", "plain", ref) >>

Entry(cert) == [readable |-> TRUE, signed |-> TRUE, cert |-> cert]

Good(ref) == Entry(Workflow("actions", "r", ref))
Wrong(ref) == Entry(Workflow("actions", "q", ref))

\* A certificate of a person or a service, by an issuer.
Keyless(issuer) == Entry(<< Ext("SAN", "email", "keyless"), Ext("Issuer", "plain", issuer) >>)

Unreadable == [Good("r1") EXCEPT !.readable = FALSE]
Unsigned == [Good("r1") EXCEPT !.signed = FALSE]

MCTestimony ==
    [deb1 |-> << <<Wrong("r1"), Good("r1")>>, <<Unsigned, Unreadable>> >>,
     sums1 |-> << <<Good("r1")>> >>, arm1 |-> <<>>,
     deb0 |-> << <<Good("r0")>> >>, sums0 |-> << <<Good("r0")>> >>,
     debq |-> << <<Good("q0"), Keyless("actions")>> >>]
MCEarly == {"sums1", "deb0", "sums0", "debq"}

Nothing == [f \in MCFieldId |-> Unset]
OfVersion == [value |-> [Nothing EXCEPT !["Ref"] = "template"], pattern |-> Nothing]

\* The identity of cosign_test.go:73-74: an issuer, and a name that is an email address.
Named == [value |-> [Nothing EXCEPT !["Issuer"] = "accounts", !["SAN"] = "keyless"],
          pattern |-> Nothing]

RepoConfig(signed, id, checksums) == [signer |-> signed, id |-> id, checksums |-> checksums]

Configuration(storage, signed, checksums) ==
    [architectures |-> {}, storage |-> storage,
     repos |-> [r |-> RepoConfig(signed, OfVersion, checksums),
                q |-> RepoConfig("rekor", Named, FALSE)]]

MCConfig == <<Configuration("file", "github", FALSE), Configuration("memory", "rekor", TRUE)>>

-----------------------------------------------------------------------------
(* The directory.                                                          *)

MCNames == <<"f.deb", "g.deb">>
MCDebOf == [whole |-> DebWith(Folded("whole")), torn |-> TornDeb, twice |-> TwiceDeb]
MCText == DOMAIN MCDebOf
MCDirectories == {("f.deb" :> f) @@ ("g.deb" :> "whole") : f \in {Gone, "twice", "whole"}}

=============================================================================
