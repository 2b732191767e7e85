-------------------------- MODULE MCQualification --------------------------
(* An instance of Canary for TLC, with a clock, and the bounded inputs over *)
(* which the window of CacheWindow is checked in the first state.           *)
EXTENDS Canary, CacheWindow, TLC

CONSTANTS r1, r2, k1, k2, b1, b2

\* One approval binds both attempts for the first binary, one binds a single
\* attempt for the second; both end when the clock does.
MCClaims == {[binary |-> b1, attempts |-> {k1, k2}, expires |-> LastMoment],
             [binary |-> b2, attempts |-> {k1}, expires |-> LastMoment]}

Tick == now < LastMoment /\ now' = now + 1 /\ UNCHANGED canaryVars

MCInit == now = 0 /\ CanaryInit

\* Bound: where the ledger file was lost, which the properties except, no other
\* runner is started.
MCNext == Tick \/ (CanaryNext /\ UNCHANGED now /\ (forgot => starts' = starts))

\* A runner goes on: the candidate and the adapter have 30 seconds each, and
\* the lock of a file is not kept from a process that waits for it.
MCSpec ==
  MCInit /\ [][MCNext]_<<now, canaryVars>>
  /\ \A r \in Runner : WF_<<now, canaryVars>>(RunnerStep(r) /\ UNCHANGED now)

AtStart == now = 0 /\ starts = 0
-----------------------------------------------------------------------------
Credential ==
  [id : {"a", "b"}, scope : [request : {"x", "y"}], created : {1, 3},
   expires : {6, 8}, uses : {0, 1}, max : {1, NoLimit}, rejected : BOOLEAN]

MCAsk == [since : {2}, request : {"x"}, minimum : {Floor - 1, Floor, Floor + 1}]

Listings == {{c} : c \in Credential}
  \cup {{c, d} : c \in {e \in Credential : e.id = "a" /\ e.created = 3},
                 d \in {e \in Credential : e.id = "b" /\ e.uses = 0 /\ e.expires = 8}}

MCWorld ==
  [now : {4}, listing : Listings, binary : {b1},
   acceptance : {[session |-> 1, phase |-> "preinstall-recording", gate |-> g] :
                   g \in {"invoice-pass", "request-approved"}}]

\* What may have become of a listing: a use, a rejection, a deletion, another
\* credential under the same id, or nothing.
LaterListings(listing) ==
  {listing, {}}
  \cup {{[c EXCEPT !.uses = @ + 1] : c \in listing},
        {[c EXCEPT !.rejected = TRUE] : c \in listing},
        {[c EXCEPT !.expires = @ + 1] : c \in listing},
        {[c EXCEPT !.scope.request = "y"] : c \in listing}}

MCLater(world) ==
  [now : world.now..9, listing : LaterListings(world.listing), binary : {b1, b2},
   acceptance : [session : {1, 2}, gate : {"restart-cache-pass"},
                 phase : {"preinstall-recording", "installed", "postinstall-accepted"}]]

\* The window is checked once, in the first state.
WindowHolds == AtStart => WindowIsSound
=============================================================================
