---------------------------- MODULE LocalSource ----------------------------
(***************************************************************************)
(* The package source that lists the .debs of a directory                  *)
(* (pkg/dynamic/local.go), over the file system it does not own.  Walk     *)
(* reads the names once and then visits them one by one; a file is looked  *)
(* at three times, for its size and mtime, its control data and its        *)
(* digests, and may have changed or gone each time.  LocalDeb reads the    *)
(* file once more, when the package is asked for.                          *)
(*                                                                         *)
(* A content is what a file holds at one time; a size, a digest and a      *)
(* paragraph are the content they were taken of.                           *)
(*                                                                         *)
(* An operator named Action_Fault is that action with a plausible bug.     *)
(***************************************************************************)
EXTENDS Rendering, ControlFile

CONSTANTS
    Names,      \* the names ending in .deb that files may have, in lexical order
    Text,       \* what a file may hold: whole packages, torn ones, others
    DebOf,      \* how the archive readers see each of them
    Directories, \* what the directory may hold at the start: a text of each name, or Gone
    Gone        \* no such file

DebFile == ToSet(Names)

ASSUME LocalAssumption ==
    /\ Gone \notin Text \cup DebFile \cup [content : Text, mtime : Nat]
    /\ Directories \subseteq [DebFile -> Text \cup {Gone}]
    /\ Len(Names) \in Nat /\ DOMAIN Names = 1..Len(Names)
    /\ \A i, j \in DOMAIN Names : Names[i] = Names[j] => i = j

VARIABLES
    files,      \* what each .deb holds, and its mtime
    walk,       \* the names still to visit, and the file being looked at
    dirty,      \* history: the files changed since the walk behind the index began
    touched     \* history: those changed since the running walk began

localVars == <<files, walk, dirty, touched>>

\* Package, as in GitHubReleases: name, size, control data and digests.
LocalPackage(file, size, control, digest) ==
    [filename |-> file, size |-> size, control |-> control, digest |-> digest]

-----------------------------------------------------------------------------
(* The directory.                                                          *)

\* A change to f shows if the file it leaves has an mtime not older than the index.
Touch(f, content, mtime) ==
    /\ files' = [files EXCEPT ![f] = IF content = Gone THEN Gone
                                     ELSE [content |-> content, mtime |-> mtime]]
    /\ dirty' = dirty \cup {f}
    /\ touched' = touched \cup {f}
    /\ Changes(content # Gone /\ mtime >= renderTime)
    /\ UNCHANGED walk

\* A file is written, in part or whole.
WriteFile(f) == \E c \in Text : Touch(f, c, now)

\* A file is moved into the directory, or copied with its mtime.
MoveIn(f) == \E c \in Text : \E t \in 0..(now - 1) : Touch(f, c, t)

RemoveFile(f) == files[f] # Gone /\ Touch(f, Gone, now)

\* LocalSource.Deb: the file, as it is when it is asked for.
LocalDeb(f) == IF files[f] = Gone THEN Gone ELSE files[f].content

-----------------------------------------------------------------------------
(* Packages: filepath.Walk and its callback.                               *)

NoWalk == [names |-> <<>>, file |-> Gone, info |-> Gone, control |-> Gone]

\* The names are read; those that do not end in .deb are passed over.
BeginWalk ==
    /\ BeginListing
    /\ walk' = [NoWalk EXCEPT !.names =
                    [i \in {i \in DOMAIN Names : files[Names[i]] # Gone} |-> Names[i]]]
    /\ touched' = {}
    /\ UNCHANGED <<files, dirty>>

Visiting(f) ==
    /\ listing
    /\ walk.file = Gone
    /\ ~Done(walk.names)
    /\ f = First(walk.names)

\* On with the names that are left.
NextName == walk' = [NoWalk EXCEPT !.names = Rest(walk.names)]

LookingAt(f) == walk' = [walk EXCEPT !.file = f, !.info = files[f].content]

\* Fault: a file that is not newer than the ones before is passed over.
Lstat_OnlyNewer(f) ==
    /\ Visiting(f)
    /\ files[f] # Gone
    /\ latest' = Later(latest, files[f].mtime)
    /\ IF files[f].mtime > latest
       THEN LookingAt(f)
       ELSE NextName
    /\ UNCHANGED <<now, renderTime, rendered, listing, began, list, incidents, quiet,
                   raced, files, dirty, touched>>

\* lstat: the size, and the mtime, which counts whether or not a package is found.
Lstat(f) ==
    /\ Visiting(f)
    /\ files[f] # Gone
    /\ latest' = Later(latest, files[f].mtime)
    /\ LookingAt(f)
    /\ UNCHANGED <<now, renderTime, rendered, listing, began, list, incidents, quiet,
                   raced, files, dirty, touched>>

Parsing == listing /\ walk.file # Gone /\ walk.control = Gone
Hashing == listing /\ walk.file # Gone /\ walk.control # Gone

There == files[walk.file] # Gone

\* What ParagraphFromDebFile makes of each content.
Readings == [c \in Text |-> ParagraphFromDeb(DebOf[c])]

Parsed == Readings[files[walk.file].content]

\* ParagraphFromDebFile: a file without a control file is passed over.
ReadControl ==
    /\ Parsing
    /\ There
    /\ \/ /\ Parsed.status = "ok"
          /\ walk' = [walk EXCEPT !.control = files[walk.file].content]
       \/ Parsed.status = "nothing" /\ NextName
    /\ UNCHANGED <<renderingVars, files, dirty, touched>>

\* addFileData, with the size lstat found.
AddFileData ==
    /\ Hashing
    /\ There
    /\ Found(LocalPackage(walk.file, walk.info, walk.control, files[walk.file].content), 0)
    /\ NextName
    /\ UNCHANGED <<files, dirty, touched>>

\* What is sure to fail the walk: a file that is gone when it is looked at, and one that
\* cannot be read as an archive.
WalkFails ==
    \/ \E f \in DebFile : Visiting(f) /\ files[f] = Gone
    \/ (Parsing \/ Hashing) /\ ~There
    \/ Parsing /\ There /\ Parsed.status = "error"

\* Any error of reading fails it, too.
FailWalk ==
    /\ FailListing
    /\ IF WalkFails THEN UNCHANGED incidents ELSE Incident
    /\ walk' = NoWalk
    /\ touched' = {}
    /\ UNCHANGED <<files, dirty>>

EndWalk ==
    /\ listing
    /\ walk.file = Gone
    /\ Done(walk.names)
    /\ EndListing
    /\ walk' = NoWalk
    /\ dirty' = IF TakenForUnchanged THEN dirty ELSE touched
    /\ touched' = {}
    /\ UNCHANGED files

=============================================================================
