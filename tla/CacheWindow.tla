---------------------------- MODULE CacheWindow ----------------------------
(***************************************************************************)
(* The credential window of a cutover (scripts/cutover-cache-window.py):   *)
(* before an installation `capture` binds the one fresh credential, the    *)
(* candidate and the acceptance session in a file, and after the restart   *)
(* `verify` tells whether a request with it may still be started.          *)
(*                                                                         *)
(* A world is what a command finds: the clock, the credential listing, the *)
(* acceptance record and the binary at the path it is given.               *)
(***************************************************************************)
EXTENDS Integers, FiniteSets

CONSTANTS
  Floor,    \* the least that may remain for the restart: 300 seconds
  NoLimit,  \* the use limit of a credential that has none
  World,    \* what a capture may find
  Ask,      \* what the operator may ask a capture for
  Later(_)  \* what may have become of a world when the verification runs

\* Listings are finite, times and counts are integers, and a listing has no
\* negative count (they are u64 in state/cache.rs).
IsWorld(w) ==
  /\ w.now \in Int /\ IsFiniteSet(w.listing)
  /\ \A c \in w.listing : /\ c.created \in Int /\ c.expires \in Int
                            /\ c.uses \in Nat /\ c.max \in Nat \cup {NoLimit}

ASSUME WindowAssumption ==
  /\ Floor \in Nat /\ NoLimit \notin Nat
  /\ \A w \in World : IsWorld(w) /\ \A x \in Later(w) : IsWorld(x)
  /\ \A ask \in Ask : ask.since \in Int /\ ask.minimum \in Int

UsesLeft(c) == c.max = NoLimit \/ c.uses < c.max
-----------------------------------------------------------------------------
(* capture                                                                 *)

\* Issued since the operator's request, alive, not used up and not rejected,
\* and kept for this request in this profile.
Fresh(c, ask, now) ==
  /\ c.created >= ask.since /\ c.expires > now
  /\ c.uses >= 0 /\ UsesLeft(c) /\ ~c.rejected
  /\ c.scope.request = ask.request

Matching(world, ask) == {c \in world.listing : Fresh(c, ask, world.now)}

\* MUTANT of Deadline: the margin is not kept.
LastSecond(expires, minimum) == expires

Deadline(expires, minimum) == expires - minimum

\* Every gate up to the approval of the live request is recorded, and no other.
ReadyToBind(acceptance) ==
  acceptance.phase = "preinstall-recording" /\ acceptance.gate = "request-approved"

Captures(world, ask) ==
  /\ ask.minimum >= Floor
  /\ Cardinality(Matching(world, ask)) = 1
  /\ \A c \in Matching(world, ask) : world.now < Deadline(c.expires, ask.minimum)
  /\ ReadyToBind(world.acceptance)

\* What is written: the credential, the session and the candidate.
Bound(world, ask) ==
  LET c == CHOOSE c \in Matching(world, ask) : TRUE
  IN  [id |-> c.id, scope |-> c.scope, created |-> c.created, expires |-> c.expires,
       minimum |-> ask.minimum, session |-> world.acceptance.session,
       binary |-> world.binary, deadline |-> Deadline(c.expires, ask.minimum)]

\* MUTANT of Written: a file that is there is overwritten.
WrittenOver(before, window, step) ==
  CASE step = "none" -> before
    [] step = "created" -> [mode |-> "0600", whole |-> FALSE]
    [] step = "synced" -> [mode |-> "0600", whole |-> TRUE, content |-> window]
    [] OTHER -> [mode |-> "0400", whole |-> TRUE, content |-> window]

\* No capture was made yet.
Absent == [mode |-> "absent"]

\* The file after a capture whose last step was the given one: it is created for
\* its first writer only, filled, synced, and made read-only at the end.
Written(before, window, step) ==
  IF before.mode # "absent" THEN before
  ELSE CASE step = "none" -> Absent
         [] step = "created" -> [mode |-> "0600", whole |-> FALSE]
         [] step = "synced" ->
              [mode |-> "0600", whole |-> TRUE, content |-> window]
         [] OTHER -> [mode |-> "0400", whole |-> TRUE, content |-> window]
-----------------------------------------------------------------------------
(* verify                                                                  *)

Readable(file) == file.mode = "0400" /\ file.whole

\* MUTANT of SameCutover: an accepted installation no longer verifies.
SameCutoverInstalled(window, world) ==
  /\ world.binary = window.binary
  /\ world.acceptance.session = window.session
  /\ world.acceptance.phase = "installed"

\* The installed launcher leads to the candidate, in the session of the capture.
SameCutover(window, world) ==
  /\ world.binary = window.binary
  /\ world.acceptance.session = window.session
  /\ world.acceptance.phase \in {"installed", "postinstall-accepted"}

\* The bound credential is listed as it was, and may be presented.
Retrieved(window, world) ==
  {c \in world.listing :
     /\ c.id = window.id /\ c.scope = window.scope
     /\ c.created = window.created /\ c.expires = window.expires
     /\ ~c.rejected /\ UsesLeft(c)}

Verifies(file, world) ==
  /\ Readable(file)
  /\ LET window == file.content
     IN  /\ window.deadline = Deadline(window.expires, window.minimum)
         /\ world.now < window.deadline
         /\ SameCutover(window, world)
         /\ Cardinality(Retrieved(window, world)) = 1
-----------------------------------------------------------------------------
(* What the window is for.                                                 *)

\* A verification that succeeds after a capture, however the world changed in
\* between, means that a request started now has the whole of the operator's
\* margin left, that the fresh credential of the capture is still there to
\* present, and that the cutover and its candidate are the same.
WindowIsHonest ==
  \A w \in World, ask \in Ask : Captures(w, ask) =>
    \A x \in Later(w) : Verifies(Written(Absent, Bound(w, ask), "sealed"), x) =>
      /\ \E c \in x.listing :
           /\ c.scope.request = ask.request /\ c.created >= ask.since
           /\ x.now + ask.minimum < c.expires
           /\ ~c.rejected /\ (c.max = NoLimit \/ c.uses + 1 <= c.max)
      /\ ask.minimum >= Floor
      /\ x.acceptance.session = w.acceptance.session
      /\ x.acceptance.phase # "preinstall-recording"
      /\ x.binary = w.binary

\* A capture is not in vain: as long as the margin is whole, the credential is
\* untouched and the cutover went on with the same candidate, the verification
\* succeeds, before and after the acceptance of the installation.
WindowSurvives ==
  \A w \in World, ask \in Ask : Captures(w, ask) =>
    \A x \in Later(w) :
      (/\ x.listing = w.listing /\ x.binary = w.binary
       /\ x.acceptance.session = w.acceptance.session
       /\ x.acceptance.phase \in {"installed", "postinstall-accepted"}
       /\ \E c \in Matching(w, ask) : x.now + ask.minimum < c.expires)
      => Verifies(Written(Absent, Bound(w, ask), "sealed"), x)

\* A capture that was interrupted is never taken for one that was completed, and
\* no later capture changes what a completed one has bound.
WindowIsWrittenOnce ==
  \A w \in World, ask \in Ask : Captures(w, ask) =>
    \A step \in {"none", "created", "synced"} :
      /\ \A x \in Later(w) : ~Verifies(Written(Absent, Bound(w, ask), step), x)
      /\ \A v \in World, other \in Ask : Captures(v, other) =>
           LET whole == Written(Absent, Bound(w, ask), "sealed")
           IN  Written(whole, Bound(v, other), step) = whole

\* The window of a cutover is verified exactly as long as what was captured holds
\* with the operator's margin, and is that of one completed capture.
WindowIsSound == WindowIsHonest /\ WindowSurvives /\ WindowIsWrittenOnce
=============================================================================
