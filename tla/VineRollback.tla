---------------------------- MODULE VineRollback -----------------------------
(***************************************************************************)
(* The rollback of the enforcement against classic Vines                   *)
(* (src/moderation/classic-vine-rollback.mjs): an operator sends a list of *)
(* hashes page by page; what the relay has of them decides which are       *)
(* classic Vines, and these are made SAFE in the row, in the keys of KV    *)
(* and at Blossom.                                                         *)
(*                                                                         *)
(* Lookups come back short, calls fail, invocations end early, and answers *)
(* get lost: the operator repeats a page while its first invocation may    *)
(* still be at work.  The other writers of a decision are in Moderation.   *)
(***************************************************************************)
EXTENDS Integers, Sequences, FiniteSets

CONSTANTS
  NotAHash,         \* an entry of the list that is no sha256
  List,             \* the operator's list
  Pictured,         \* positions of the list that come with their nostrContext
  ListSource,       \* where the list is from, as the request says
  Signals,          \* [hashes -> what the video's event tells]
  TagsOf,           \* [hashes -> which of x and d the relay finds the video's event by]
  Enforced,         \* what may be recorded and enforced of a video at first
  PageSize,         \* limit of a request
  MaxInvocations,   \* bound on requests (model checking)
  MaxRollbackFaults \* bound on faults (model checking)

Position == DOMAIN List
Hash == {List[p] : p \in Position} \ {NotAHash}

Record == [row : {"none", "SAFE", "QUARANTINE"},
           keys : SUBSET {"review", "quarantine", "age-restricted", "permanent-ban"},
           blob : {"active", "restricted"}]
Restored == [row |-> "SAFE", keys |-> {}, blob |-> "active"]
Untraced == [Restored EXCEPT !.blob = "restricted"]

ASSUME VineRollbackAssumption ==
  /\ List \in Seq({List[p] : p \in Position}) /\ List # <<>> /\ Pictured \subseteq Position
  /\ TagsOf \in [Hash -> SUBSET {"x", "d"}]
  /\ Signals \in [Hash -> {"vine", "before 2018", "since 2018", "undated"}]
  /\ Enforced \subseteq Record \ {Untraced}
  /\ PageSize \in Nat \ {0} /\ MaxInvocations \in Nat /\ MaxRollbackFaults \in Nat

VARIABLES
  enforced,      \* [Hash -> what is recorded and enforced]
  operator,      \* the mode, the cursor, and the invocation whose answer is awaited
  invocation,    \* [1..MaxInvocations -> an invocation of the endpoint]
  answered,      \* [Position -> the last answer on it that the operator has seen]
  unresolved,    \* history: hashes that the relay had and a lookup did not bring
  untold,        \* history: hashes of which a failure left Blossom alone restricted
  rollbackFaults

rollbackVars ==
  <<enforced, operator, invocation, answered, unresolved, untold, rollbackFaults>>

NoAnswers == [p \in Position |-> "none"]
Idle == [pc |-> "idle", preview |-> FALSE, at |-> 0, upto |-> 0, known |-> {}, saw |-> "none",
         stale |-> {}, answers |-> NoAnswers]

VineRollbackInit ==
  /\ enforced \in [Hash -> Enforced]
  /\ operator \in {[mode |-> m, cursor |-> 0, waits |-> 0] : m \in {"preview", "execute"}}
  /\ invocation = [i \in 1..MaxInvocations |-> Idle]
  /\ answered = NoAnswers
  /\ unresolved = {} /\ untold = {} /\ rollbackFaults = 0

RollbackFault == rollbackFaults < MaxRollbackFaults /\ rollbackFaults' = rollbackFaults + 1

Done == -1
Reached(i, pc) == invocation[i].pc = pc
Proceeds(i, pc) == invocation' = [invocation EXCEPT ![i].pc = pc]
ItemOf(i) == List[invocation[i].at]

\* The item is answered, and the next one of the page is looked at.
AnswerItem(i, reason) ==
  LET at == invocation[i].at
  IN  invocation' = [invocation EXCEPT ![i].pc = "item", ![i].at = at + 1,
                                       ![i].answers[at] = reason]

\* Blossom is left restricted where neither the row nor a key shows it any more.
Breaks(h) == untold' = IF enforced'[h] = Untraced THEN untold \cup {h} ELSE untold

\* Any error is the item's answer.
FailItem(i) == RollbackFault /\ AnswerItem(i, "rollback-failed") /\ Breaks(ItemOf(i))

-----------------------------------------------------------------------------
(* The operator *)

\* next_cursor after a page: null at the end of the list.
NextCursor(upto) == IF upto < Len(List) THEN upto ELSE Done

Request ==
  /\ operator.waits = 0 /\ operator.cursor # Done
  /\ \E i \in 1..MaxInvocations :
       /\ Reached(i, "idle") /\ \A j \in 1..(i - 1) : ~Reached(j, "idle")
       /\ operator' = [operator EXCEPT !.waits = i]
       /\ invocation' = [invocation EXCEPT ![i] =
            [Idle EXCEPT !.pc = "lookup", !.preview = operator.mode = "preview",
                         !.at = operator.cursor + 1,
                         !.upto = IF operator.cursor + PageSize < Len(List)
                                  THEN operator.cursor + PageSize ELSE Len(List)]]
  /\ UNCHANGED <<enforced, answered, unresolved, untold, rollbackFaults>>

HearSummary ==
  /\ operator.waits # 0 /\ Reached(operator.waits, "answered")
  /\ LET a == invocation[operator.waits]
     IN  /\ answered' = [p \in Position |->
                           IF a.answers[p] = "none" THEN answered[p] ELSE a.answers[p]]
         /\ operator' = [operator EXCEPT !.cursor = NextCursor(a.upto), !.waits = 0]
  /\ UNCHANGED <<enforced, invocation, unresolved, untold, rollbackFaults>>

\* The answer is lost or too late; the page will be asked for once more.
RepeatPage ==
  /\ operator.waits # 0 /\ RollbackFault
  /\ operator' = [operator EXCEPT !.waits = 0]
  /\ UNCHANGED <<enforced, invocation, answered, unresolved, untold>>

\* After a preview the list is executed; what failed is taken up again.
StartOver ==
  /\ operator.cursor = Done
  /\ \/ operator.mode = "preview" /\ operator' = [operator EXCEPT !.mode = "execute", !.cursor = 0]
     \/ /\ operator.mode # "preview"
        /\ \E p \in Position : answered[p] \in {"rollback-failed", "blossom-notification-failed"}
        /\ operator' = [operator EXCEPT !.mode = "resume", !.cursor = 0]
  /\ UNCHANGED <<enforced, invocation, answered, unresolved, untold, rollbackFaults>>

-----------------------------------------------------------------------------
(* An invocation: metadata *)

Page(i) == invocation[i].at..invocation[i].upto

\* Metadata that came with an earlier item of the page spares a later one its
\* lookup; an item that comes first without any is looked up.
Wanted(page) ==
  {h \in Hash : \E p \in page \ Pictured :
                  List[p] = h /\ \A q \in page : List[q] = h => p <= q}

\* A query that fails finds nothing, and one that is cut off or limited less than there
\* is.  What the first query left is asked for by the other tag.
QueryRelay(hashes, tag) == SUBSET {h \in hashes : tag \in TagsOf[h]}

FetchBatch(hashes) ==
  UNION {{found \cup more : more \in QueryRelay(hashes \ found, "d")} :
         found \in QueryRelay(hashes, "x")}

Findable == {h \in Hash : TagsOf[h] # {}}

\* An error of the relay is not told apart from videos that it does not have.
ResolveRollbackNostrContexts(i) ==
  /\ Reached(i, "lookup")
  /\ LET wanted == Wanted(Page(i))
         there == wanted \cap Findable
         given == {List[p] : p \in Page(i) \cap Pictured} \ wanted
     IN  \E found \in FetchBatch(wanted) :
           /\ (found = there /\ UNCHANGED rollbackFaults) \/ (found # there /\ RollbackFault)
           /\ invocation' = [invocation EXCEPT ![i].pc = "item", ![i].known = given \cup found]
           /\ unresolved' = unresolved \cup (there \ found)
  /\ UNCHANGED <<enforced, operator, answered, untold>>

\* Number(null), of an event without published_at, is 0, which is before 2018.
IsClassicVineRollbackCandidate(h) ==
  \/ Signals[h] = "vine"
  \/ /\ ListSource \in {"archive-export", "incident-backfill", "sha-list"}
     /\ Signals[h] \in {"before 2018", "undated"}

HasContext(i) == invocation[i].at \in Pictured \/ ItemOf(i) \in invocation[i].known

-----------------------------------------------------------------------------
(* An invocation: the items *)

AtItem(i) == Reached(i, "item") /\ invocation[i].at <= invocation[i].upto

PassOver(i) ==
  /\ AtItem(i)
  /\ \/ ItemOf(i) = NotAHash /\ AnswerItem(i, "invalid-sha256")
     \/ ItemOf(i) # NotAHash /\ ~HasContext(i) /\ AnswerItem(i, "missing-vine-metadata")
     \/ /\ ItemOf(i) # NotAHash /\ HasContext(i)
        /\ ~IsClassicVineRollbackCandidate(ItemOf(i)) /\ AnswerItem(i, "not-classic-vine")
  /\ UNCHANGED <<enforced, operator, answered, unresolved, untold, rollbackFaults>>

Confirmed(i) ==
  AtItem(i) /\ ItemOf(i) # NotAHash /\ HasContext(i) /\ IsClassicVineRollbackCandidate(ItemOf(i))

Preview(i) ==
  /\ Confirmed(i) /\ invocation[i].preview /\ AnswerItem(i, "would-restore")
  /\ UNCHANGED <<enforced, operator, answered, unresolved, untold, rollbackFaults>>

ReadRow(i) ==
  /\ Confirmed(i) /\ ~invocation[i].preview
  /\ \/ invocation' = [invocation EXCEPT ![i].pc = "keys", ![i].saw = enforced[ItemOf(i)].row]
        /\ UNCHANGED <<untold, rollbackFaults>>
     \/ UNCHANGED enforced /\ FailItem(i)
  /\ UNCHANGED <<enforced, operator, answered, unresolved>>

\* A SAFE row without keys is left as it is, and Blossom is not told.
ReadKeys(i) ==
  /\ Reached(i, "keys")
  /\ LET stale == enforced[ItemOf(i)].keys
     IN  \/ /\ invocation[i].saw # "SAFE" \/ stale # {}
            /\ invocation' = [invocation EXCEPT ![i].stale = stale,
                 ![i].pc = IF invocation[i].saw # "SAFE" THEN "restore" ELSE "clear"]
            /\ UNCHANGED <<untold, rollbackFaults>>
         \/ /\ invocation[i].saw = "SAFE" /\ stale = {} /\ AnswerItem(i, "already-safe")
            /\ UNCHANGED <<untold, rollbackFaults>>
         \/ UNCHANGED enforced /\ FailItem(i)
  /\ UNCHANGED <<enforced, operator, answered, unresolved>>

RestoreRow(i) ==
  /\ Reached(i, "restore")
  /\ \/ /\ enforced' = [enforced EXCEPT ![ItemOf(i)].row = "SAFE"]
        /\ \/ Proceeds(i, IF invocation[i].stale = {} THEN "tell" ELSE "clear")
              /\ UNCHANGED <<untold, rollbackFaults>>
           \/ FailItem(i)
     \/ UNCHANGED enforced /\ FailItem(i)
  /\ UNCHANGED <<operator, answered, unresolved>>

\* Mutant: a row that was SAFE has only its keys cleared.
ClearKeysQuietly(i) ==
  /\ Reached(i, "clear")
  /\ enforced' = [enforced EXCEPT ![ItemOf(i)].keys = @ \ invocation[i].stale]
  /\ IF invocation[i].saw = "SAFE" THEN AnswerItem(i, "already-safe") ELSE Proceeds(i, "tell")
  /\ UNCHANGED <<operator, answered, unresolved, untold, rollbackFaults>>

\* All keys that were set are deleted at once; when one deletion fails, others are done.
ClearKeys(i) ==
  /\ Reached(i, "clear")
  /\ \E gone \in SUBSET invocation[i].stale :
       /\ enforced' = [enforced EXCEPT ![ItemOf(i)].keys = @ \ gone]
       /\ \/ /\ gone = invocation[i].stale /\ Proceeds(i, "tell")
             /\ UNCHANGED <<untold, rollbackFaults>>
          \/ FailItem(i)
  /\ UNCHANGED <<operator, answered, unresolved>>

\* A call that fails may have been carried out.
TellBlossom(i) ==
  /\ Reached(i, "tell")
  /\ \/ /\ enforced' = [enforced EXCEPT ![ItemOf(i)].blob = "active"]
        /\ AnswerItem(i, IF invocation[i].saw = "SAFE" THEN "already-safe" ELSE "confirmed-classic-vine")
        /\ UNCHANGED <<untold, rollbackFaults>>
     \/ /\ \/ UNCHANGED enforced
           \/ enforced' = [enforced EXCEPT ![ItemOf(i)].blob = "active"]
        /\ RollbackFault /\ AnswerItem(i, "blossom-notification-failed") /\ Breaks(ItemOf(i))
  /\ UNCHANGED <<operator, answered, unresolved>>

Summarise(i) ==
  /\ Reached(i, "item") /\ invocation[i].at > invocation[i].upto /\ Proceeds(i, "answered")
  /\ UNCHANGED <<enforced, operator, answered, unresolved, untold, rollbackFaults>>

\* The invocation ends early; the operator sees an error.
BreakOff(i) ==
  /\ invocation[i].pc \notin {"idle", "answered", "ended"} /\ RollbackFault
  /\ Proceeds(i, "ended") /\ UNCHANGED enforced
  /\ IF invocation[i].pc \in {"keys", "restore", "clear", "tell"}
     THEN Breaks(ItemOf(i)) ELSE UNCHANGED untold
  /\ operator' = IF operator.waits = i THEN [operator EXCEPT !.waits = 0] ELSE operator
  /\ UNCHANGED <<answered, unresolved>>

VineRollbackNext ==
  \/ Request \/ HearSummary \/ RepeatPage \/ StartOver
  \/ \E i \in 1..MaxInvocations :
       \/ ResolveRollbackNostrContexts(i) \/ PassOver(i) \/ Preview(i)
       \/ ReadRow(i) \/ ReadKeys(i) \/ RestoreRow(i) \/ ClearKeys(i) \/ TellBlossom(i)
       \/ Summarise(i) \/ BreakOff(i)

VineRollbackSpec == VineRollbackInit /\ [][VineRollbackNext]_rollbackVars

-----------------------------------------------------------------------------
(* Properties *)

AboutToTell(h) ==
  \E i \in 1..MaxInvocations : invocation[i].pc \in {"clear", "tell"} /\ ItemOf(i) = h

\* "Make the rollback idempotent so it can be resumed safely" (docs/superpowers/
\* specs/2026-03-31-classic-vine-enforcement-rollback-design.md:31).  Whatever
\* failed, was lost or overlapped: a list that has been gone through has an answer
\* for every item; an item is a classic Vine or it is not, unless its lookup came
\* back short; and one that is answered as safe is SAFE in the row, in KV and at
\* Blossom (classic-vine-rollback.mjs 262-327).  Left out are videos of which an
\* attempt broke off after it had removed what a later attempt goes by.
RollbackReaches ==
  operator.cursor = Done /\ operator.mode # "preview" =>
    \A p \in Position :
      /\ answered[p] # "none"
      /\ List[p] \in (Hash \cap Findable) \ unresolved =>
           (answered[p] = "not-classic-vine" <=> ~IsClassicVineRollbackCandidate(List[p]))
           /\ answered[p] # "missing-vine-metadata"
      /\ (/\ answered[p] \in {"confirmed-classic-vine", "already-safe"}
          /\ List[p] \notin untold /\ ~AboutToTell(List[p]))
         => enforced[List[p]] = Restored
=============================================================================
