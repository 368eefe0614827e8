----------------------------- MODULE RelayWalk ------------------------------
(***************************************************************************)
(* The scripts that walk all videos of the relay, newest first, to have    *)
(* each moderated (scripts/backfill-moderation.mjs) or classified          *)
(* (scripts/backfill-classification.mjs): pages end at a cursor, which a   *)
(* checkpoint file keeps for the next run.                                 *)
(*                                                                         *)
(* The two scripts differ in what they ask of the service, and in that the *)
(* first treats the videos of a page one by one and the second in chunks   *)
(* whose calls overlap.  Each has a checkpoint of its own: a behaviour is  *)
(* one of one script.  Runs may die at any await, and --dry-run and        *)
(* --count-only write the same checkpoint as the others.                   *)
(*                                                                         *)
(* Left out are --since and --until, which bound the walk to a window (a   *)
(* checkpoint goes before --until), and the replacement of an addressable  *)
(* event by its author during the walk: events do not move.                *)
(***************************************************************************)
EXTENDS Integers, FiniteSets, FiniteSetsExt

CONSTANTS
  Clip,          \* kind 34236 events
  ClipTime,      \* [Clip -> created_at]
  Shaless,       \* those without a sha256
  ClipsPerPage,  \* --batch-size
  Concurrency,   \* --concurrency, of the classification
  NoUntil,       \* no cursor: from the newest on
  MaxWalkFaults  \* bound on faults (model checking)

ASSUME RelayWalkAssumption ==
  /\ ClipTime \in [Clip -> Nat] /\ Shaless \subseteq Clip /\ IsFiniteSet(Clip)
  /\ ClipsPerPage \in Nat \ {0} /\ Concurrency \in Nat \ {0} /\ NoUntil \notin Int /\ MaxWalkFaults \in Nat

VARIABLES
  script,    \* which of the two
  published, \* events on the relay
  treated,   \* videos that are moderated or queued for it; classified
  bookmark,  \* the checkpoint file's currentUntil
  pass,      \* the state of the script
  intended,  \* history: the videos on the relay when the walk began, that is, when
             \* a run last began without a checkpoint file
  leftOut,   \* history: videos whose treatment failed, or was only counted, or that
             \* have the time of the last video of a page they were not in
  walkFaults

walkVars == <<script, published, treated, bookmark, pass, intended, leftOut, walkFaults>>

NoPass == [pc |-> "none", real |-> FALSE, until |-> NoUntil, page |-> {}, todo |-> {},
           chunk |-> {}, needing |-> {}]

RelayWalkInit ==
  /\ script \in {"moderation", "classification"}
  /\ published \in SUBSET Clip
  /\ treated = {} /\ bookmark = NoUntil /\ pass = NoPass
  /\ intended = {} /\ leftOut = {}
  /\ walkFaults = 0

WalkFault == walkFaults < MaxWalkFaults /\ walkFaults' = walkFaults + 1

\* External: a creator publishes a video, or the service treats one.
Publish(c) ==
  /\ c \notin published /\ published' = published \cup {c}
  /\ UNCHANGED <<script, treated, bookmark, pass, intended, leftOut, walkFaults>>

Treat(c) ==
  /\ c \in published \ (treated \cup Shaless) /\ treated' = treated \cup {c}
  /\ UNCHANGED <<script, published, bookmark, pass, intended, leftOut, walkFaults>>

-----------------------------------------------------------------------------
\* A run resumes a walk if there is a checkpoint, whichever mode left it there,
\* unless it is told not to (--no-resume).
Begun ==
  /\ pass.pc \in {"none", "completed", "limited"}
  /\ \E real \in BOOLEAN, until \in {bookmark, NoUntil} :
       /\ pass' = [NoPass EXCEPT !.pc = "fetch", !.real = real, !.until = until]
       /\ intended' = IF bookmark = NoUntil THEN published \ Shaless ELSE intended
       /\ leftOut' = IF bookmark = NoUntil THEN {} ELSE leftOut
  /\ UNCHANGED <<script, published, treated, bookmark, walkFaults>>

StartModeration == script = "moderation" /\ Begun
StartClassification == script = "classification" /\ Begun

InReach == {c \in published : pass.until # NoUntil => ClipTime[c] <= pass.until}

\* The answers a relay may give: the newest ones, up to the limit.
Newest(page) ==
  /\ page \subseteq InReach /\ Cardinality(page) <= ClipsPerPage
  /\ page # InReach => Cardinality(page) = ClipsPerPage
  /\ \A c \in page, d \in InReach \ page : ClipTime[c] >= ClipTime[d]

\* The end of a walk removes the checkpoint.
End(how) == pass' = [NoPass EXCEPT !.pc = how] /\ bookmark' = NoUntil

\* One below the oldest video of the page; a page without any leaves it.
NextUntil(page) ==
  IF page \subseteq Shaless THEN pass.until
  ELSE Min({ClipTime[c] : c \in page \ Shaless}) - 1

Turned(page) == [pass EXCEPT !.pc = "treat", !.page = page, !.todo = page \ Shaless]

\* Mutant: the cursor is saved before the page is treated.
TakePageSaving(page) ==
  /\ Newest(page)
  /\ IF page = {} THEN End("completed")
     ELSE pass' = Turned(page) /\ bookmark' = NextUntil(page)
  /\ UNCHANGED <<script, published, treated, intended, leftOut, walkFaults>>

TakePage(page) ==
  /\ Newest(page)
  /\ IF page = {} THEN End("completed")
     ELSE pass' = Turned(page) /\ UNCHANGED bookmark
  /\ UNCHANGED <<script, published, treated, intended, leftOut, walkFaults>>

FetchVideos ==
  pass.pc = "fetch" /\ script = "moderation" /\ \E page \in SUBSET published : TakePage(page)

FetchUnique ==
  pass.pc = "fetch" /\ script = "classification" /\ \E page \in SUBSET published : TakePage(page)

\* The next videos of the page: one, or a chunk once the one before has settled.
NextChunk(chunk) ==
  /\ pass.pc = "treat" /\ pass.chunk = {} /\ pass.needing = {} /\ chunk \subseteq pass.todo
  /\ pass' = [pass EXCEPT !.todo = @ \ chunk, !.chunk = chunk]
  /\ UNCHANGED <<script, published, treated, bookmark, intended, leftOut, walkFaults>>

NextVideo == script = "moderation" /\ \E c \in pass.todo : NextChunk({c})

NextVideos ==
  /\ script = "classification"
  /\ \E chunk \in (SUBSET pass.todo) \ {{}} :
       /\ Cardinality(chunk) <= Concurrency
       /\ chunk # pass.todo => Cardinality(chunk) = Concurrency
       /\ NextChunk(chunk)

\* What the service already has is passed over.  What it has not is asked for, unless
\* the videos are only counted; what fails is counted and passed over.
Looked(c) ==
  /\ c \in pass.chunk
  /\ \/ /\ c \in treated
        /\ pass' = [pass EXCEPT !.chunk = @ \ {c}] /\ UNCHANGED leftOut
     \/ /\ c \notin treated /\ pass.real
        /\ pass' = [pass EXCEPT !.chunk = @ \ {c}, !.needing = @ \cup {c}]
        /\ UNCHANGED leftOut
     \/ /\ pass' = [pass EXCEPT !.chunk = @ \ {c}] /\ leftOut' = leftOut \cup {c}
  /\ UNCHANGED <<script, published, treated, bookmark, intended, walkFaults>>

Asked(c) ==
  /\ c \in pass.needing
  /\ pass' = [pass EXCEPT !.needing = @ \ {c}]
  /\ \/ treated' = treated \cup {c} /\ UNCHANGED leftOut
     \/ leftOut' = leftOut \cup {c} /\ UNCHANGED treated
  /\ UNCHANGED <<script, published, bookmark, intended, walkFaults>>

CheckModerated(c) == script = "moderation" /\ Looked(c)
CheckClassified(c) == script = "classification" /\ Looked(c)
QueueModeration(c) == script = "moderation" /\ Asked(c)
ClassifyVideo(c) == script = "classification" /\ Asked(c)

SameSecond(page) ==
  {c \in InReach \ page : ~(page \subseteq Shaless) /\ ClipTime[c] > NextUntil(page)}

\* The end of a page: --max may be reached; or the cursor moves and is saved,
\* and a short page is the last.
PageDone ==
  /\ pass.pc = "treat" /\ pass.todo = {} /\ pass.chunk = {} /\ pass.needing = {}
  /\ \/ End("limited") /\ UNCHANGED leftOut
     \/ /\ leftOut' = leftOut \cup SameSecond(pass.page)
        /\ IF Cardinality(pass.page) < ClipsPerPage
           THEN End("completed")
           ELSE /\ pass' = [NoPass EXCEPT !.pc = "fetch", !.real = pass.real,
                                          !.until = NextUntil(pass.page)]
                /\ bookmark' = IF pass.page \subseteq Shaless THEN bookmark
                               ELSE NextUntil(pass.page)
  /\ UNCHANGED <<script, published, treated, intended, walkFaults>>

TurnVideos == script = "moderation" /\ PageDone
TurnUnique == script = "classification" /\ PageDone

\* The relay does not answer, or the script is stopped.
StopWalk ==
  /\ pass.pc \in {"fetch", "treat"} /\ WalkFault /\ pass' = NoPass
  /\ UNCHANGED <<script, published, treated, bookmark, intended, leftOut>>

RelayWalkNext ==
  \/ \E c \in Clip : \/ Publish(c) \/ Treat(c)
                     \/ CheckModerated(c) \/ QueueModeration(c)
                     \/ CheckClassified(c) \/ ClassifyVideo(c)
  \/ StartModeration \/ FetchVideos \/ NextVideo \/ TurnVideos
  \/ StartClassification \/ FetchUnique \/ NextVideos \/ TurnUnique
  \/ StopWalk

RelayWalkSpec == RelayWalkInit /\ [][RelayWalkNext]_walkVars

-----------------------------------------------------------------------------
(* Properties *)

\* A walk that came to its end has seen to every video that was there when it
\* began, wherever its runs died and however videos were published and treated
\* meanwhile (backfill-moderation.mjs 222-341, backfill-classification.mjs
\* 204-310).  Left out are those that failed, which no later run retries unless
\* it starts anew; those that a dry run only counted, since a run of the other
\* mode resumes its checkpoint; and those of the second at which a page ends.
WalkSeesAll == pass.pc = "completed" => intended \subseteq treated \cup leftOut
=============================================================================
