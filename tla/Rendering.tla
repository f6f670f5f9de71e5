----------------------------- MODULE Rendering -----------------------------
(***************************************************************************)
(* render (pkg/dynamic/repo.go) as its package source meets it: listings   *)
(* that do not overlap and are maxAge or more apart, each of which ends in *)
(* an index, in a skip, or in nothing.  How requests get there, and what   *)
(* happens when a rendering fails, is in DynamicRepo.  Here a listing      *)
(* takes time and is no snapshot: the source modules that extend this one  *)
(* say how it comes about.                                                 *)
(*                                                                         *)
(* An operator named Action_Fault is that action with a plausible bug.     *)
(***************************************************************************)
EXTENDS Naturals, FiniteSetsExt

CONSTANTS
    MaxAge,     \* Repo.maxAge
    Patience,   \* how long a listing may take (no timeout is set: an assumption)
    MaxTime,    \* bound: the last instant of the clock
    MaxIncidents \* bound: how often the source changes, a server fails or a cache forgets

ASSUME RenderingAssumption ==
    MaxAge \in Nat \ {0} /\ {Patience, MaxTime, MaxIncidents} \subseteq Nat

VARIABLES
    now,        \* the wall clock, MaxAge or more from Go's zero time 0
    renderTime, \* Repo.renderTime
    rendered,   \* Repo.rendered: the packages in it; nothing is read before the first
    listing,    \* is src.Packages running?
    began,      \* when it, or the one before, began
    list,       \* the packages it has found so far
    latest,     \* the latest timestamp it has come across
    incidents,  \* how much of that has happened
    quiet,      \* history: has the source changed, since the listing behind the index
                \* began, in a way that need not show in its timestamps?
    raced       \* history: has it changed since the running listing began?

renderingVars == <<now, renderTime, rendered, listing, began, list, latest,
                   incidents, quiet, raced>>
listingVars == <<listing, began, list, latest>>

Later(s, t) == IF s > t THEN s ELSE t

\* What a loop has still to go through: a function from positions, the least of them next.
Done(todo) == DOMAIN todo = {}

First(todo) == todo[Min(DOMAIN todo)]

Rest(todo) == [i \in DOMAIN todo \ {Min(DOMAIN todo)} |-> todo[i]]

RenderingInit ==
    /\ now = MaxAge
    /\ renderTime = 0
    /\ rendered = {}
    /\ listing = FALSE
    /\ began = 0
    /\ list = {}
    /\ latest = 0
    /\ incidents = 0
    /\ quiet = FALSE
    /\ raced = FALSE

Incident ==
    /\ incidents < MaxIncidents
    /\ incidents' = incidents + 1

\* Time passes, but not beyond the patience of a listing.
Tick ==
    /\ now < MaxTime
    /\ listing => now < began + Patience
    /\ now' = now + 1
    /\ UNCHANGED <<renderTime, rendered, listingVars, incidents, quiet, raced>>

\* The source changes in one go.  The change shows if it leaves a timestamp that the next
\* listing will find not older than renderTime: not if the listing is already under way.
Changes(shows) ==
    /\ Incident
    /\ quiet' = (quiet \/ ~shows \/ listing)
    /\ raced' = listing
    /\ UNCHANGED <<now, renderTime, rendered, listingVars>>

\* A request finds the index fresh.
UseIndex ==
    /\ ~listing
    /\ now < renderTime + MaxAge
    /\ UNCHANGED renderingVars

\* A request finds the index old, and has the lock.
BeginListing ==
    /\ ~listing
    /\ now >= renderTime + MaxAge
    /\ listing' = TRUE
    /\ began' = now
    /\ list' = {}
    /\ latest' = 0
    /\ raced' = FALSE
    /\ UNCHANGED <<now, renderTime, rendered, incidents, quiet>>

Return ==
    /\ listing' = FALSE
    /\ list' = {}
    /\ latest' = 0
    /\ raced' = FALSE

\* src.Packages returns an error: what was found is forgotten.
FailListing ==
    /\ listing
    /\ Return
    /\ UNCHANGED <<now, renderTime, rendered, began, quiet>>

\* Fault: a package as old as the index is taken for known.
TakenForUnchanged_NotAfter == latest <= renderTime

\* pkgTime.Before(r.renderTime).
TakenForUnchanged == latest < renderTime

\* src.Packages returns: the index is kept, or made anew from the list.
EndListing ==
    /\ listing
    /\ Return
    /\ renderTime' = now
    /\ IF TakenForUnchanged
       THEN UNCHANGED <<rendered, quiet>>
       ELSE rendered' = list /\ quiet' = raced
    /\ UNCHANGED <<now, began, incidents>>

\* PackageList.Add, and the timestamp of what was added.
Found(pkg, stamp) ==
    /\ list' = list \cup {pkg}
    /\ latest' = Later(latest, stamp)
    /\ UNCHANGED <<now, renderTime, rendered, listing, began, incidents, quiet, raced>>

-----------------------------------------------------------------------------
\* "If packages have not changed since the last render, we can skip": a list that
\* differs from the index is thrown away only after a change that need not show in a
\* timestamp: a removal, a file or a release older than the index, a draft published or
\* an attestation made after the asset was uploaded, a change during a listing.
SkipsLoseOnlyQuietChanges ==
    [][listing /\ renderTime' # renderTime /\ rendered' # list => quiet]_renderingVars

=============================================================================
