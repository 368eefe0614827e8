---------------------------- MODULE Enforcement ----------------------------
(***************************************************************************)
(* What is in force for an uploader (src/uploader-enforcement.mjs and the  *)
(* enforcement and event endpoints of src/index.mjs): the row in D1, which *)
(* is read and written as a whole, and the ban that the relay holds, which *)
(* is changed by a call whose answer may be a refusal, may come late or    *)
(* not at all. A call that was given up may still be carried out.          *)
(***************************************************************************)
EXTENDS Naturals, FiniteSets

CONSTANTS
  Moderator,       \* invocations that can run at the same time
  Version,         \* events of one video, one per version of it
  MaxEnforcements, \* bound on invocations (model checking)
  MaxLapses,       \* bound on failures (model checking)
  Unset            \* no value

Standing == [approval : BOOLEAN, banned : BOOLEAN]

ASSUME EnforcementAssumption ==
  /\ MaxEnforcements \in Nat /\ MaxLapses \in Nat
  /\ Unset \notin BOOLEAN \cup Version \cup Standing

VARIABLES
  enforcement,  \* the row of the uploader, or Unset
  relayBan,     \* external: the relay refuses the uploader
  served,       \* external: the events that the relay serves
  belated,      \* external: calls given up that may still be carried out
  demand,       \* the state of each invocation
  enforcements, \* invocations so far
  lapses,       \* failures so far
  doubt         \* history: the row and the relay may have come apart

enforcementVars ==
  <<enforcement, relayBan, served, belated, demand, enforcements, lapses, doubt>>
relayState == <<relayBan, served, belated>>

Update == BOOLEAN \cup {Unset}
Rpc == [ban : BOOLEAN] \cup [event : Version]

\* ids: the events still to delete; answer: TRUE once the request has succeeded.
Demand ==
  [at : {"idle", "current", "ask", "asked", "applied", "refused", "existing",
         "write", "find", "delete", "deleted"},
   approval : Update, ban : Update, rpc : Rpc \cup {Unset},
   saw : Standing \cup {Unset}, ids : SUBSET Version, found : SUBSET Version,
   failed : BOOLEAN, called : BOOLEAN, alone : BOOLEAN]

NoDemand ==
  [at |-> "idle", approval |-> Unset, ban |-> Unset, rpc |-> Unset, saw |-> Unset,
   ids |-> {}, found |-> {}, failed |-> FALSE, called |-> FALSE, alone |-> TRUE]

EnforcementInit ==
  /\ enforcement = Unset /\ relayBan = FALSE /\ served = Version /\ belated = {}
  /\ demand = [w \in Moderator |-> NoDemand]
  /\ enforcements = 0 /\ lapses = 0 /\ doubt = FALSE

AtWork(w) == demand[w].at \notin {"idle", "deleted"}
Quiet == \A w \in Moderator : ~AtWork(w)
LateBans == {rpc \in belated : "ban" \in DOMAIN rpc}
InForce == IF enforcement = Unset THEN [approval |-> FALSE, banned |-> FALSE] ELSE enforcement
Turn(w, d) == demand' = [demand EXCEPT ![w] = d]
Stage(w, at) == demand[w].at = at
Move(w, at) == Turn(w, [demand[w] EXCEPT !.at = at])
Spend == lapses < MaxLapses /\ lapses' = lapses + 1

-----------------------------------------------------------------------------
(* Requests.                                                               *)

Admitted(w, d) ==
  /\ ~AtWork(w) /\ enforcements < MaxEnforcements
  /\ enforcements' = enforcements + 1
  /\ demand' = [v \in Moderator |->
                  IF v = w THEN [d EXCEPT !.alone = Quiet /\ LateBans = {}]
                  ELSE [demand[v] EXCEPT !.alone = @ /\ ~AtWork(v)]]
  /\ UNCHANGED <<enforcement, relayState, lapses>>

\* POST /admin/api/uploader/<pubkey>/enforcement: an approval, a ban, both, or
\* the notes alone.
Enforce(w) ==
  \E approval, ban \in Update :
    /\ Admitted(w, [NoDemand EXCEPT !.at = "current", !.approval = approval, !.ban = ban])
    /\ doubt' = (doubt \/ ~Quiet)

\* POST /admin/api/event/<id>/delete: one event, or all that carry the video.
DeleteEvent(w) ==
  /\ \/ \E id \in Version :
          Admitted(w, [NoDemand EXCEPT !.at = "delete", !.ids = {id}, !.found = {id}])
     \/ Admitted(w, [NoDemand EXCEPT !.at = "find"])
  /\ UNCHANGED doubt

\* The relay is only called for a ban that differs from the recorded one.
ReadCurrent(w) ==
  /\ Stage(w, "current")
  /\ LET d == demand[w] IN
     IF d.ban \notin {Unset, InForce.banned}
     THEN Turn(w, [d EXCEPT !.at = "asked", !.rpc = [ban |-> d.ban]])
     ELSE Move(w, "existing")
  /\ UNCHANGED <<enforcement, relayState, enforcements, lapses, doubt>>

-----------------------------------------------------------------------------
(* The call to relay-admin.                                                *)

Carried(rpc) ==
  /\ relayBan' = IF "ban" \in DOMAIN rpc THEN rpc.ban ELSE relayBan
  /\ served' = IF "event" \in DOMAIN rpc THEN served \ {rpc.event} ELSE served

RelayCarriesOut(w) ==
  /\ Stage(w, "asked") /\ Carried(demand[w].rpc)
  /\ Move(w, "applied")
  /\ UNCHANGED <<enforcement, belated, enforcements, lapses, doubt>>

\* An account under age review is not un-banned; any call may fail.
RelayRefuses(w) ==
  /\ Stage(w, "asked") /\ Spend
  /\ Move(w, "refused")
  /\ UNCHANGED <<enforcement, relayState, enforcements, doubt>>

\* No answer within RELAY_ADMIN_TIMEOUT_MS, whether it was carried out or not.
TimeOut(w) ==
  /\ demand[w].at \in {"asked", "applied"} /\ Spend
  /\ belated' = IF Stage(w, "asked") THEN belated \cup {demand[w].rpc} ELSE belated
  /\ doubt' = (doubt \/ "ban" \in DOMAIN demand[w].rpc)
  /\ Move(w, "refused")
  /\ UNCHANGED <<enforcement, relayBan, served, enforcements>>

RelayIsLate(rpc) ==
  /\ rpc \in belated /\ belated' = belated \ {rpc}
  /\ \/ Carried(rpc)
     \/ UNCHANGED <<relayBan, served>>
  /\ UNCHANGED <<enforcement, demand, enforcements, lapses, doubt>>

\* Mutant: the answer is not looked at, and a refused ban is recorded.
HearBanUnread(w) ==
  /\ demand[w].at \in {"applied", "refused"} /\ "ban" \in DOMAIN demand[w].rpc
  /\ Turn(w, [demand[w] EXCEPT !.at = "existing", !.called = TRUE])
  /\ UNCHANGED <<enforcement, relayState, enforcements, lapses, doubt>>

\* The answer to a ban: a ban that the relay did not confirm is not recorded.
HearBan(w) ==
  /\ demand[w].at \in {"applied", "refused"} /\ "ban" \in DOMAIN demand[w].rpc
  /\ Turn(w, IF Stage(w, "applied")
             THEN [demand[w] EXCEPT !.at = "existing", !.called = TRUE] ELSE NoDemand)
  /\ UNCHANGED <<enforcement, relayState, enforcements, lapses, doubt>>

-----------------------------------------------------------------------------
(* setUploaderEnforcement.                                                 *)

ReadExisting(w) ==
  /\ Stage(w, "existing")
  /\ Turn(w, [demand[w] EXCEPT !.at = "write", !.saw = InForce])
  /\ UNCHANGED <<enforcement, relayState, enforcements, lapses, doubt>>

Given(update, old) == IF update = Unset THEN old ELSE update

\* A ban confirmed and recorded with nobody in between, and no earlier call on
\* its way, settles the doubt.
WriteRow(w) ==
  /\ Stage(w, "write")
  /\ LET d == demand[w] IN
     /\ enforcement' = [approval |-> Given(d.approval, d.saw.approval),
                        banned |-> Given(d.ban, d.saw.banned)]
     /\ doubt' = (doubt /\ ~(d.alone /\ d.called))
  /\ Turn(w, NoDemand)
  /\ UNCHANGED <<relayState, enforcements, lapses>>

\* D1 fails, or the invocation ends: a ban may be in force and not recorded.
Break(w) ==
  /\ demand[w].at \in {"current", "existing", "write"} /\ Spend
  /\ Turn(w, NoDemand) /\ doubt' = (doubt \/ demand[w].called)
  /\ UNCHANGED <<enforcement, relayState, enforcements>>

-----------------------------------------------------------------------------
(* deleteEventFromRelayBySha256 and deleteRelayEventIds.                   *)

\* The versions are looked up on the relay; with none there is nothing to do.
FindEvents(w) ==
  /\ Stage(w, "find")
  /\ \/ Turn(w, IF served = {} THEN NoDemand
                ELSE [demand[w] EXCEPT !.at = "delete", !.ids = served, !.found = served])
        /\ UNCHANGED lapses
     \/ Turn(w, NoDemand) /\ Spend
  /\ UNCHANGED <<enforcement, relayState, enforcements, doubt>>

AskDelete(w) ==
  /\ Stage(w, "delete")
  /\ \E id \in demand[w].ids :
       Turn(w, [demand[w] EXCEPT !.at = "asked", !.rpc = [event |-> id], !.ids = @ \ {id}])
  /\ UNCHANGED <<enforcement, relayState, enforcements, lapses, doubt>>

\* Every event is tried; the request succeeds when none of them failed.
HearDelete(w) ==
  /\ demand[w].at \in {"applied", "refused"} /\ "event" \in DOMAIN demand[w].rpc
  /\ LET d == [demand[w] EXCEPT !.failed = @ \/ Stage(w, "refused"), !.rpc = Unset] IN
     Turn(w, IF d.ids # {} THEN [d EXCEPT !.at = "delete"]
             ELSE IF d.failed THEN NoDemand ELSE [d EXCEPT !.at = "deleted"])
  /\ UNCHANGED <<enforcement, relayState, enforcements, lapses, doubt>>

EnforcementNext ==
  \/ \E w \in Moderator :
       \/ Enforce(w) \/ DeleteEvent(w) \/ ReadCurrent(w) \/ RelayCarriesOut(w)
       \/ RelayRefuses(w) \/ TimeOut(w) \/ HearBan(w) \/ ReadExisting(w)
       \/ WriteRow(w) \/ Break(w) \/ FindEvents(w) \/ AskDelete(w) \/ HearDelete(w)
  \/ \E rpc \in belated : RelayIsLate(rpc)

EnforcementSpec == EnforcementInit /\ [][EnforcementNext]_enforcementVars

-----------------------------------------------------------------------------
(* What a moderator is told is in force (src/index.mjs:2236: "do not record *)
(* an enforcement the relay never applied"). Unless requests overlapped, or *)
(* an answer or a write was lost and no ban has been confirmed since, the   *)
(* recorded ban is the relay's: refusals change neither, a repeated request *)
(* makes up for a failure. And of a delete that succeeded, no version that  *)
(* it found is served, however its calls were ordered.                      *)
EnforcementIsInForce ==
  /\ Quiet /\ ~doubt => InForce.banned = relayBan
  /\ \A w \in Moderator : Stage(w, "deleted") => demand[w].found \cap served = {}
=============================================================================
