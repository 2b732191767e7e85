------------------------- MODULE CacheWindowProofs -------------------------
(***************************************************************************)
(* Theorems about CacheWindow, for any listings, clocks, margins and       *)
(* binaries, whatever happens between a capture and its verification.      *)
(***************************************************************************)
EXTENDS MCQualification, FiniteSetTheorems, TLAPS

\* A capture finds one fresh credential, and binds that one.
LEMMA OneIsBound ==
  ASSUME NEW w \in World, NEW ask \in Ask, Captures(w, ask)
  PROVE  \E c \in w.listing :
           /\ Matching(w, ask) = {c} /\ Fresh(c, ask, w.now)
           /\ Bound(w, ask) =
                [id |-> c.id, scope |-> c.scope, created |-> c.created,
                 expires |-> c.expires, minimum |-> ask.minimum,
                 session |-> w.acceptance.session, binary |-> w.binary,
                 deadline |-> c.expires - ask.minimum]
<1>1. IsFiniteSet(Matching(w, ask))
  BY FS_Subset, WindowAssumption DEF IsWorld, Matching
<1>2. PICK c : Matching(w, ask) = {c}
  BY <1>1, FS_Singleton DEF Captures
<1>3. c \in w.listing /\ Fresh(c, ask, w.now)
  BY <1>2 DEF Matching
<1>4. (CHOOSE e \in Matching(w, ask) : TRUE) = c
  BY <1>2
<1> QED
  BY <1>2, <1>3, <1>4 DEF Bound, Deadline

\* A capture that was not interrupted leaves what it binds.
LEMMA SealedIsRead ==
  ASSUME NEW window
  PROVE  /\ Readable(Written(Absent, window, "sealed"))
         /\ Written(Absent, window, "sealed").content = window
         /\ Written(Absent, window, "sealed").mode # "absent"
<1>1. Written(Absent, window, "sealed")
        = [mode |-> "0400", whole |-> TRUE, content |-> window]
  BY DEF Written, Absent
<1> QED
  BY <1>1 DEF Readable

\* What a successful verification has found (validate_state).
LEMMA VerifiedIsHonest == WindowIsHonest
<1> SUFFICES ASSUME NEW w \in World, NEW ask \in Ask, Captures(w, ask), NEW x \in Later(w),
                    Verifies(Written(Absent, Bound(w, ask), "sealed"), x)
             PROVE  /\ \E c \in x.listing :
                         /\ c.scope.request = ask.request /\ c.created >= ask.since
                         /\ x.now + ask.minimum < c.expires
                         /\ ~c.rejected /\ (c.max = NoLimit \/ c.uses + 1 <= c.max)
                    /\ ask.minimum >= Floor
                    /\ x.acceptance.session = w.acceptance.session
                    /\ x.acceptance.phase # "preinstall-recording"
                    /\ x.binary = w.binary
  BY DEF WindowIsHonest
<1> DEFINE window == Bound(w, ask)
<1>1. PICK c \in w.listing :
        /\ Fresh(c, ask, w.now)
        /\ window = [id |-> c.id, scope |-> c.scope, created |-> c.created,
                     expires |-> c.expires, minimum |-> ask.minimum,
                     session |-> w.acceptance.session, binary |-> w.binary,
                     deadline |-> c.expires - ask.minimum]
  BY OneIsBound
<1>2. /\ x.now < window.deadline /\ SameCutover(window, x)
      /\ Cardinality(Retrieved(window, x)) = 1
  BY SealedIsRead DEF Verifies
<1>3. IsFiniteSet(Retrieved(window, x))
  BY FS_Subset, WindowAssumption DEF IsWorld, Retrieved
<1>4. PICK d : Retrieved(window, x) = {d}
  BY <1>2, <1>3, FS_Singleton
<1> HIDE DEF window
<1>5. /\ d \in x.listing /\ d.scope = c.scope /\ d.created = c.created
      /\ d.expires = c.expires /\ ~d.rejected /\ UsesLeft(d)
  BY <1>1, <1>4 DEF Retrieved
<1>6. /\ d.scope.request = ask.request /\ d.created >= ask.since
      /\ d.max = NoLimit \/ d.uses + 1 <= d.max
  BY <1>1, <1>5, WindowAssumption DEF Fresh, UsesLeft, IsWorld
<1>7. x.now + ask.minimum < d.expires
  <2>1. x.now < c.expires - ask.minimum
    BY <1>1, <1>2
  <2> QED
    BY <2>1, <1>1, <1>5, WindowAssumption DEF IsWorld
<1>8. /\ x.acceptance.session = w.acceptance.session
      /\ x.acceptance.phase # "preinstall-recording" /\ x.binary = w.binary
  BY <1>1, <1>2 DEF SameCutover
<1> QED
  BY <1>5, <1>6, <1>7, <1>8 DEF Captures

\* What lasts is verified: over an unchanged listing the credential that is
\* retrieved is the one that was bound, for any other would have been fresh too.
LEMMA WindowLasts == WindowSurvives
<1> SUFFICES ASSUME NEW w \in World, NEW ask \in Ask, Captures(w, ask), NEW x \in Later(w),
                    x.listing = w.listing, x.binary = w.binary,
                    x.acceptance.session = w.acceptance.session,
                    x.acceptance.phase \in {"installed", "postinstall-accepted"},
                    \E c \in Matching(w, ask) : x.now + ask.minimum < c.expires
             PROVE  Verifies(Written(Absent, Bound(w, ask), "sealed"), x)
  BY DEF WindowSurvives
<1> DEFINE window == Bound(w, ask)
<1>1. PICK c \in w.listing :
        /\ Matching(w, ask) = {c} /\ Fresh(c, ask, w.now)
        /\ window = [id |-> c.id, scope |-> c.scope, created |-> c.created,
                     expires |-> c.expires, minimum |-> ask.minimum,
                     session |-> w.acceptance.session, binary |-> w.binary,
                     deadline |-> c.expires - ask.minimum]
  BY OneIsBound
<1> HIDE DEF window
<1>2. x.now < window.deadline
  BY <1>1, WindowAssumption DEF IsWorld
<1>3. window.deadline = Deadline(window.expires, window.minimum)
  BY <1>1 DEF Deadline
<1>4. SameCutover(window, x)
  BY <1>1 DEF SameCutover
<1>5. Retrieved(window, x) = {c}
  <2>1. c \in Retrieved(window, x)
    BY <1>1 DEF Retrieved, Fresh
  <2>2. ASSUME NEW d \in Retrieved(window, x)
        PROVE  d = c
    <3>1. /\ d \in w.listing /\ d.scope = c.scope /\ d.created = c.created
          /\ d.expires = c.expires /\ ~d.rejected /\ UsesLeft(d)
      BY <1>1, <2>2 DEF Retrieved
    <3>2. d.uses >= 0
      BY <3>1, WindowAssumption DEF IsWorld
    <3>3. Fresh(d, ask, w.now)
      BY <1>1, <3>1, <3>2 DEF Fresh
    <3> QED
      BY <1>1, <3>1, <3>3 DEF Matching
  <2> QED
    BY <2>1, <2>2
<1>6. Cardinality(Retrieved(window, x)) = 1
  BY <1>5, FS_Singleton
<1> QED
  BY <1>2, <1>3, <1>4, <1>6, SealedIsRead DEF Verifies, window

\* An interrupted capture left no read-only file, and a completed one a file that
\* the next cannot create (write_state).
LEMMA WindowIsKept == WindowIsWrittenOnce
<1>1. ASSUME NEW window, NEW step \in {"none", "created", "synced"}
      PROVE  ~Readable(Written(Absent, window, step))
  <2>1. Written(Absent, window, step).mode \in {"absent", "0600"}
    BY DEF Written, Absent
  <2> QED
    BY <2>1 DEF Readable
<1>2. ASSUME NEW window, NEW other, NEW step
      PROVE  Written(Written(Absent, window, "sealed"), other, step)
               = Written(Absent, window, "sealed")
  <2>1. Written(Absent, window, "sealed").mode # "absent"
    BY SealedIsRead
  <2> DEFINE whole == Written(Absent, window, "sealed")
  <2> HIDE DEF whole
  <2>2. whole.mode # "absent" => Written(whole, other, step) = whole
    BY DEF Written
  <2> QED
    BY <2>1, <2>2 DEF whole
<1> QED
  BY <1>1, <1>2 DEF WindowIsWrittenOnce, Verifies

\* The window tells the truth, lasts and is written once (cutover-cache-window.py
\* capture and verify).
THEOREM WindowIsTrusted == WindowIsSound
BY VerifiedIsHonest, WindowLasts, WindowIsKept DEF WindowIsSound

\* The same as the run states it.
THEOREM WindowAlwaysHolds == MCSpec => []WindowHolds
<1>1. WindowHolds
  BY WindowIsTrusted DEF WindowHolds
<1> QED
  BY <1>1, PTL
=============================================================================
