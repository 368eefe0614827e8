--------------------------- MODULE GiftWrapFetch ----------------------------
(***************************************************************************)
(* One read of the inbox relay (fetchGiftWraps of nostr/dm-reader.mjs): a  *)
(* subscription that the relay may refuse until the reader has answered    *)
(* its NIP-42 challenge, after which the reader asks once more.            *)
(*                                                                         *)
(* The relay answers what it has received in any order, and each answer in *)
(* two steps, so that the end of the refused subscription and the verdict  *)
(* on the answer to the challenge arrive in either order.                  *)
(***************************************************************************)
EXTENDS Naturals, FiniteSets, Sequences

VARIABLES
  gated,     \* external: the relay wants authentication for these events
  accepting, \* external: it accepts the key, and closes nothing for another reason
  authed,    \* external: the relay has accepted the reader's key
  received,  \* external: frames the relay has yet to answer
  deciding,  \* external: answers the relay is about to send
  frames,    \* external: frames on their way to the reader, in order
  reader     \* settled, and the handshake state of fetchGiftWraps

fetchVars == <<gated, accepting, authed, received, deciding, frames, reader>>

\* REQ 1 is the first request, REQ 2 the one after the authentication.
Requests == {"REQ 1", "REQ 2", "AUTH"}
Frames == {"AUTH", "OK", "NOT OK", "EVENTS", "EOSE", "CLOSED auth-required", "CLOSED"}
Outcomes == {"open", "complete", "incomplete", "error"}

Reader == [outcome : Outcomes, answered : BOOLEAN, authConfirmed : BOOLEAN,
           subClosedForAuth : BOOLEAN, reqResent : BOOLEAN]

FetchTypeOK ==
  /\ gated \in BOOLEAN /\ accepting \in BOOLEAN /\ authed \in BOOLEAN
  /\ received \subseteq Requests
  /\ deciding \subseteq Frames
  /\ frames \in Seq(Frames)
  /\ reader \in Reader

FetchInit ==
  /\ gated \in BOOLEAN /\ accepting \in BOOLEAN /\ authed = FALSE
  /\ received = {"REQ 1"} /\ deciding = {}
  /\ frames = IF gated THEN <<"AUTH">> ELSE <<>>
  /\ reader = [outcome |-> "open", answered |-> FALSE, authConfirmed |-> FALSE,
               subClosedForAuth |-> FALSE, reqResent |-> FALSE]

-----------------------------------------------------------------------------
(* External: the relay *)

Verdict(r) ==
  IF r = "AUTH" THEN IF accepting THEN {"OK"} ELSE {"OK", "NOT OK"}
  ELSE (IF gated /\ ~authed THEN {"CLOSED auth-required"} ELSE {"EVENTS"})
       \cup (IF accepting THEN {} ELSE {"CLOSED"})

Decide ==
  /\ \E r \in received : \E f \in Verdict(r) :
       /\ received' = received \ {r}
       /\ deciding' = deciding \cup {f}
       /\ authed' = (authed \/ f = "OK")
  /\ UNCHANGED <<gated, accepting, frames, reader>>

Send(f) ==
  /\ f \in deciding /\ deciding' = deciding \ {f}
  /\ frames' = frames \o (IF f = "EVENTS" THEN <<"EVENTS", "EOSE">> ELSE <<f>>)
  /\ UNCHANGED <<gated, accepting, authed, received, reader>>

-----------------------------------------------------------------------------
(* The reader *)

\* finish: the first outcome stays.
Finish(outcome) ==
  /\ reader' = IF reader.outcome = "open" THEN [reader EXCEPT !.outcome = outcome] ELSE reader
  /\ UNCHANGED received

\* maybeResendReq: once, when the subscription was closed and the key accepted.
ResendWith(new) ==
  IF new.authConfirmed /\ new.subClosedForAuth /\ ~new.reqResent
  THEN reader' = [new EXCEPT !.reqResent = TRUE] /\ received' = received \cup {"REQ 2"}
  ELSE reader' = new /\ UNCHANGED received

\* What each frame does to the reader and to the relay.
OnEose == Finish("complete")
OnChallenge == reader' = [reader EXCEPT !.answered = TRUE]
               /\ received' = received \cup {"AUTH"}
OnOk == ResendWith([reader EXCEPT !.authConfirmed = TRUE])

\* Mutant: the closed subscription is only noted, the verdict expected after it.
NotesClosedForAuth ==
  IF reader.reqResent THEN Finish("error")
  ELSE reader' = [reader EXCEPT !.subClosedForAuth = TRUE] /\ UNCHANGED received

\* The first subscription closed for want of a key; the second one must not be.
OnClosedForAuth ==
  IF reader.reqResent THEN Finish("error")
  ELSE ResendWith([reader EXCEPT !.subClosedForAuth = TRUE])

Hear ==
  /\ reader.outcome = "open" /\ frames # <<>>
  /\ frames' = Tail(frames)
  /\ LET f == Head(frames) IN
       CASE f = "EVENTS" -> UNCHANGED <<reader, received>>
         [] f = "EOSE" -> OnEose
         [] f = "AUTH" -> OnChallenge
         [] f = "OK" -> OnOk
         [] f = "CLOSED auth-required" -> OnClosedForAuth
         [] f \in {"NOT OK", "CLOSED"} -> Finish("error")
  /\ UNCHANGED <<gated, accepting, authed, deciding>>

\* Fifteen seconds pass, or the socket closes; or it fails.
GiveUp ==
  /\ reader.outcome = "open"
  /\ Finish("incomplete") \/ Finish("error")
  /\ UNCHANGED <<gated, accepting, authed, deciding, frames>>

FetchNext == Decide \/ (\E f \in Frames : Send(f)) \/ Hear \/ GiveUp

FetchSpec == FetchInit /\ [][FetchNext]_fetchVars

-----------------------------------------------------------------------------
(* Properties *)

\* While the relay accepts the key, the reader is never left waiting for the
\* timeout: as long as it has no outcome, something is on its way or about to
\* be sent, whichever of the verdict and of the closed subscription comes
\* first (dm-reader.mjs 566-608, 640-705).
NeverWaitsInVain ==
  accepting /\ reader.outcome = "open" => received # {} \/ deciding # {} \/ frames # <<>>
=============================================================================
