----------------------------- MODULE MCServing -----------------------------
(***************************************************************************)
(* Serving for TLC: two clients, two versions of what is behind the        *)
(* caches, and one or two URLs for each route; two of them have a blank,   *)
(* and one key.                                                            *)
(***************************************************************************)
EXTENDS Serving, TLC

CONSTANTS c1, c2

MCClient == {c1, c2}
Symmetry == Permutations(MCClient)

MCSetups == {<<"upstream">>, <<"file-cache", "upstream">>, <<"dynamic">>,
             <<"memory-cache", "dynamic">>, <<"dynamic", "upstream">>}

-----------------------------------------------------------------------------
(* What is behind: the list of main/amd64 changes, contrib/all comes.      *)

MCListings ==
    << [main |-> [amd64 |-> "old"]],
       [main |-> [amd64 |-> "new"], contrib |-> [all |-> "all"]] >>

File(list, as) == [list |-> list, as |-> as]

PackagesPath(suffix) == Path("binary", "stable", "main", "amd64", "Packages", suffix, Nil)
EmptyPath == Path("binary", "stable", "main", "all", "Packages", "-", Nil)
TranslationPath(suffix) == Path("i18n", "stable", "main", "en", "Translation", suffix, Nil)
InReleasePath == Path("dists", "stable", "-", "-", "InRelease", "-", Nil)
ByHashPath(dir, architecture, algorithm, digest) ==
    Path(dir, "stable", "main", architecture, "by-hash-" \o algorithm, "-", digest)
RepoSourcePath == Path("-", "-", "-", "-", "repo.source", "-", Nil)
DebPath == Path("pool", "-", "-", "a.deb", "deb", "-", Nil)

Entry(suffix, digest) ==
    [component |-> "main", architecture |-> "amd64", suffix |-> suffix, digest |-> digest]

\* The translations are empty at first.
Snapshot(list, words) ==
    (InReleasePath :> [codename |-> "stable",
                       entries |-> {Entry("-", File(list, "-")), Entry(".gz", File(list, "gz"))}])
    @@ (PackagesPath("-") :> File(list, "-")) @@ (PackagesPath(".gz") :> File(list, "gz"))
    @@ (TranslationPath(".bz2") :> File("words", "bz2"))
    @@ (TranslationPath("-") :> words)
    @@ (EmptyPath :> Nil)
    @@ (DebPath :> "a.deb")

MCArchive == << Snapshot("old", Nil), Snapshot("new", File("words", "-")) >>

-----------------------------------------------------------------------------
\* The directories of two suites that have a blank in them somewhere.
BlankPath(dist, component) == Path("binary", dist, component, "amd64", "Packages", "-", Nil)

MCWords(part) ==
    CASE part = "stable updates" -> <<"stable", "updates">>
      [] part = "updates main" -> <<"updates", "main">>
      [] OTHER -> <<part>>

MCUrl ==
    {[repo |-> "debian", path |-> p] :
        p \in {InReleasePath, PackagesPath("-"), PackagesPath(".gz"), PackagesPath(".bz2"),
               PackagesPath("-gz"), EmptyPath,
               BlankPath("stable updates", "main"), BlankPath("stable", "updates main"),
               TranslationPath("-"), TranslationPath(".bz2"), TranslationPath(".lzma"),
               DebPath, RepoSourcePath,
               ByHashPath("binary", "amd64", "SHA256", File("old", "gz")),
               ByHashPath("binary", "amd64", "MD5Sum", File("old", "gz")),
               ByHashPath("i18n", "-", "SHA256", File("words", "bz2"))}}
    \cup {[repo |-> "unknown", path |-> InReleasePath]}

=============================================================================
