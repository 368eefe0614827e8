----------------------------- MODULE Classifier ------------------------------
(***************************************************************************)
(* What becomes of a video's scores and of its transcript: the verdict     *)
(* (moderation/classifier.mjs), the scores of a text                       *)
(* (moderation/text-classifier.mjs), the thresholds that the deployment    *)
(* sets and moderators override, and the row of one video, which a scan    *)
(* (moderation/pipeline.mjs) writes and the cron judges anew when its      *)
(* transcript is there (reprocessPendingTranscripts in index.mjs).         *)
(*                                                                         *)
(* Scores and thresholds are whole numbers of 240ths, of which the         *)
(* thresholds and the quotients of text scores are multiples.  What a text *)
(* says is the weight of what it matches, in halves.  Who else writes the  *)
(* row, and that a decision of a person's stays, is in Moderation.         *)
(***************************************************************************)
EXTENDS Integers, Sequences, FiniteSets, FiniteSetsExt, SequencesExt

\* 1.0, and n / 100.
One == 240
Pct(n) == (n * One) \div 100

\* In the order of the code, which decides between equal scores.
CategoryOrder ==
  <<"nudity", "sexual", "porn", "violence", "ai_generated", "gore", "offensive", "weapon",
    "recreational_drug", "alcohol", "tobacco", "medical", "gambling", "money", "self_harm",
    "destruction", "military", "text_profanity", "qr_unsafe", "deepfake">>
Category == ToSet(CategoryOrder)

Scores == [Category -> 0..One]
NoScores == [c \in Category |-> 0]

\* A score of 1.0 takes this weight of matches.
TextThreshold ==
  [hate_speech |-> 3, threats |-> 3, harassment |-> 4, self_harm |-> 3, grooming |-> 4,
   profanity |-> 6]

CONSTANTS
  Scorings, \* scores that the providers gave, of rows of the time when they were asked
  Text,     \* texts of transcripts
  Weight,   \* [Text -> the weight, in halves, of what matches each list of patterns]
  Offers    \* thresholds that a moderator may submit: categories to some of high and medium

ASSUME ClassifierAssumption ==
  /\ Scorings \subseteq Scores /\ Weight \in [Text -> [DOMAIN TextThreshold -> Nat]]
  /\ \A o \in Offers : \A c \in DOMAIN o :
       DOMAIN o[c] \subseteq {"high", "medium"} /\ \A k \in DOMAIN o[c] : o[c][k] \in Int

VARIABLES
  settings,   \* the key admin:thresholds
  transcript, \* what the media server answers of the transcript: at most one text
  judgment,   \* the video's row, if there is one
  reading,    \* the cron's run, if one is under way: the thresholds it works with
  grounds     \* history: what the last verdict of the cron was made of

classifierVars == <<settings, transcript, judgment, reading, grounds>>

NoSettings == [c \in {} |-> {}]
Answers == {"pending", "absent", "failed"} \cup Text

\* The providers are no longer asked: a person is to review every upload.
ManualReview(pending) ==
  [action |-> "REVIEW", scores |-> NoScores, categories |-> {}, pending |-> pending]

ClassifierInit ==
  /\ settings = NoSettings
  /\ transcript \in Answers
  /\ judgment \in {{}} \cup
       {{[ManualReview(TRUE) EXCEPT !.scores = s]} : s \in Scorings}
  /\ reading = {} /\ grounds = {}

-----------------------------------------------------------------------------
(* Thresholds *)

Defaults ==
  [c \in Category |->
     CASE c = "ai_generated" -> [high |-> Pct(90), medium |-> Pct(70)]
       [] c = "deepfake"     -> [high |-> Pct(95), medium |-> Pct(80)]
       [] c = "self_harm"    -> [high |-> Pct(70), medium |-> Pct(50)]
       [] OTHER              -> [high |-> Pct(80), medium |-> Pct(60)]]

\* The variables of the deployment differ from the defaults for one category.
Deployed == [Defaults EXCEPT !["ai_generated"] = [high |-> Pct(80), medium |-> Pct(60)]]

Adjustable == {"nudity", "violence", "ai_generated", "deepfake", "gore", "offensive", "weapon",
               "recreational_drug", "self_harm"}

SettingOf(c) == IF c \in {"sexual", "porn"} THEN "nudity" ELSE c

\* kvThresholdsToEnv and the merge with the variables of the deployment; an
\* override of 0 counts, being a non-empty string.
Effective(kv) ==
  [c \in Category |->
     [k \in {"high", "medium"} |->
        LET p == SettingOf(c)
        IN IF p \in Adjustable \cap DOMAIN kv /\ k \in DOMAIN kv[p] THEN kv[p][k]
           ELSE Deployed[c][k]]]

Valid(offer) ==
  \A c \in DOMAIN offer :
    /\ \A k \in DOMAIN offer[c] : offer[c][k] \in 0..One
    /\ DOMAIN offer[c] = {"high", "medium"} => offer[c].medium < offer[c].high

UpdateThresholds(offer) ==
  /\ Valid(offer) /\ settings' = offer
  /\ UNCHANGED <<transcript, judgment, reading, grounds>>

ResetThresholds ==
  settings' = NoSettings /\ UNCHANGED <<transcript, judgment, reading, grounds>>

-----------------------------------------------------------------------------
(* The verdict *)

\* classifyText
TextScore(text) ==
  [k \in DOMAIN TextThreshold |-> Min({One, (Weight[text][k] * One) \div (2 * TextThreshold[k])})]

AgeRestricted == {"violence", "gore", "weapon", "recreational_drug", "alcohol", "tobacco",
                  "gambling", "destruction"}

\* `threshold || DEFAULT`: a high of 0 is no threshold.
BanAt(env, c) == IF env[c].high = 0 THEN Defaults[c].high ELSE env[c].high

QuarantineAt == Pct(70)

\* Mutant: a score of just 0.7 is left to the review, which begins below it.
QuarantinedAbove(s, env) == \E c \in Category : s[c] > QuarantineAt /\ s[c] < env[c].high

Quarantined(s, env) == \E c \in Category : s[c] >= QuarantineAt /\ s[c] < env[c].high
Reviewed(s, env) == \E c \in Category : s[c] >= env[c].medium /\ s[c] < QuarantineAt

\* primaryConcern: the first of the highest scores.
Concern(s) ==
  CategoryOrder[Min({i \in DOMAIN CategoryOrder :
                       \A c \in Category : s[CategoryOrder[i]] >= s[c]})]

\* The branches of classifyModerationResult in their order; the first that holds
\* gives the action and the category.
Branches(s, t, env) ==
  LET rule(holds, action, category) == [holds |-> holds, action |-> action, category |-> category]
  IN << rule(s["self_harm"] >= BanAt(env, "self_harm"), "PERMANENT_BAN", "self_harm"),
        rule(s["offensive"] >= BanAt(env, "offensive"), "PERMANENT_BAN", "hate_speech"),
        rule(s["gore"] >= Pct(95), "PERMANENT_BAN", "extreme_gore"),
        rule(s["porn"] >= BanAt(env, "porn"), "PERMANENT_BAN", "porn"),
        rule(s["ai_generated"] >= BanAt(env, "ai_generated"), "QUARANTINE", "ai_generated"),
        rule(s["deepfake"] >= BanAt(env, "deepfake"), "QUARANTINE", "deepfake"),
        rule(t["hate_speech"] > Pct(70), "PERMANENT_BAN", "hate_speech"),
        rule(t["threats"] > Pct(70), "PERMANENT_BAN", "threats"),
        rule(s["sexual"] >= BanAt(env, "sexual"), "AGE_RESTRICTED", "sexual"),
        rule(\E c \in AgeRestricted : s[c] >= env[c].high, "AGE_RESTRICTED", Concern(s)),
        rule(Quarantined(s, env), "QUARANTINE", Concern(s)),
        rule(Reviewed(s, env), "REVIEW", Concern(s)),
        rule(t["profanity"] > Pct(50), "REVIEW", "text_profanity"),
        rule(TRUE, "SAFE", "none") >>

Classified(s, t, env) ==
  LET branches == Branches(s, t, env)
  IN branches[Min({i \in DOMAIN branches : branches[i].holds})]

\* deriveCategoriesFromClassification
CategoriesOf(s, verdict) ==
  {c \in Category : s[c] >= Pct(50)} \cup ({verdict.category} \ {"none"})

-----------------------------------------------------------------------------
(* The row *)

\* A new upload, or one whose analysis is forced anew.  What a text says that is there
\* already decides nothing.
ModerateVideo ==
  /\ judgment' = {ManualReview(transcript = "pending")} /\ grounds' = {}
  /\ UNCHANGED <<settings, transcript, reading>>

\* External: the media server transcribes the video, and it may fail to answer.
Transcribe(answer) ==
  /\ transcript \in {"pending", "failed"} /\ transcript' = answer
  /\ UNCHANGED <<settings, judgment, reading, grounds>>

\* getEffectiveModerationEnv, once for all rows of a run; if KV does not answer the
\* overrides are left out.
BeginReprocess ==
  /\ reading = {} /\ \E row \in judgment : row.pending
  /\ \E kv \in {settings, NoSettings} : reading' = {Effective(kv)}
  /\ UNCHANGED <<settings, transcript, judgment, grounds>>

Resolved(row) == [row EXCEPT !.pending = FALSE]

\* Given up after the days of TRANSCRIPT_REPROCESS_MAX_AGE_DAYS, or no transcript
\* comes, or it says nothing: the row keeps its action.
ResolveUnheard ==
  /\ reading # {} /\ judgment' = {Resolved(row) : row \in judgment} /\ reading' = {}
  /\ UNCHANGED <<settings, transcript, grounds>>

\* Not there yet, or the fetch fails.
LeavePending ==
  /\ reading # {} /\ transcript \in {"pending", "failed"} /\ reading' = {}
  /\ UNCHANGED <<settings, transcript, judgment, grounds>>

Judge ==
  /\ transcript \in Text
  /\ \E env \in reading, row \in judgment :
       LET verdict == Classified(row.scores, TextScore(transcript), env)
       IN /\ judgment' = {[Resolved(row) EXCEPT !.action = verdict.action,
                             !.categories = CategoriesOf(row.scores, verdict)]}
          /\ grounds' = {[scores |-> row.scores, text |-> transcript, env |-> env]}
  /\ reading' = {}
  /\ UNCHANGED <<settings, transcript>>

ClassifierNext ==
  \/ \E offer \in Offers : UpdateThresholds(offer)
  \/ ResetThresholds
  \/ \E answer \in Answers : Transcribe(answer)
  \/ ModerateVideo \/ BeginReprocess \/ ResolveUnheard \/ LeavePending \/ Judge

ClassifierSpec == ClassifierInit /\ [][ClassifierNext]_classifierVars

-----------------------------------------------------------------------------
(* Properties *)

\* The categories that no branch above the quarantine threshold is about.
Unguarded == {"nudity", "medical", "money", "military", "text_profanity", "qr_unsafe"}
Silent(c, score, env) == c \in Unguarded /\ score >= QuarantineAt /\ score >= env[c].high

\* A moderator has set the high threshold of a category to 0: the default then bans or
\* quarantines from its own height on, and below it the comparison with 0 never holds.
Muted(c, score, env) ==
  /\ c \notin Unguarded \cup AgeRestricted /\ env[c].high = 0
  /\ score >= QuarantineAt /\ score < Defaults[c].high

BelowAll(g) ==
  /\ \A c \in Category :
       \/ g.scores[c] < g.env[c].medium
       \/ Silent(c, g.scores[c], g.env) \/ Muted(c, g.scores[c], g.env)
  /\ 10 * Weight[g.text]["hate_speech"] <= 14 * TextThreshold["hate_speech"]
  /\ 10 * Weight[g.text]["threats"] <= 14 * TextThreshold["threats"]
  /\ Weight[g.text]["profanity"] <= TextThreshold["profanity"]

\* A video that the cron has called SAFE has no score at or above the medium threshold
\* in force when its run began, whatever was configured for other categories and
\* whatever branches come first, and its transcript stays below the limits
\* (classifier.mjs 239-344).  Two gaps are stated as they are: categories that only
\* inform, which are SAFE again from their high threshold on, and those that a high
\* threshold of 0 mutes (`|| DEFAULT`, classifier.mjs:240, against `<` in line 313).
SafeMeansQuiet ==
  \A g \in grounds, row \in judgment : row.action = "SAFE" => BelowAll(g)
=============================================================================
