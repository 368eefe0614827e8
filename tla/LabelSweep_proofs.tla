-------------------------- MODULE LabelSweep_proofs --------------------------
(***************************************************************************)
(* Theorems about LabelSweep, for every finite set of votes, videos and    *)
(* labels, every set of sweeps, and every value of the settings.           *)
(***************************************************************************)
EXTENDS LabelSweep, FiniteSetTheorems, SequenceTheorems, WellFoundedInduction, TLAPS

-----------------------------------------------------------------------------
(* Numbers and sets.                                                       *)

LEMMA DivBounds ==
  ASSUME NEW a \in Nat, NEW w \in Nat \ {0}
  PROVE  /\ a \div w \in Nat
         /\ (a \div w) * w <= a
         /\ a < (a \div w) * w + w
  OBVIOUS

LEMMA DivMonotone ==
  ASSUME NEW a \in Nat, NEW b \in Nat, NEW w \in Nat \ {0}, a <= b
  PROVE  a \div w <= b \div w
<1> DEFINE p == a \div w
           q == b \div w
<1>1. p \in Nat /\ q \in Nat /\ p * w <= a /\ b < q * w + w
  BY DivBounds
<1> HIDE DEF p, q
<1>2. p * w < (q + 1) * w
  BY <1>1
<1>3. p < q + 1
  BY <1>1, <1>2
<1> QED
  BY <1>1, <1>3 DEF p, q

LEMMA MinNat ==
  ASSUME NEW S, S \subseteq Nat, S # {}
  PROVE  /\ Min(S) \in S
         /\ \A y \in S : Min(S) <= y
<1> DEFINE R == {p \in Nat \X Nat : p[1] < p[2]}
<1>1. IsWellFoundedOn(R, Nat)
  BY NatLessThanWellFounded, Zenon DEF OpToRel
<1> HIDE DEF R
<1>2. PICK x \in S : \A y \in S : ~ <<y, x>> \in R
  BY <1>1, WFMin
<1>3. ASSUME NEW y \in S PROVE x <= y
  <2>1. x \in Nat /\ y \in Nat /\ <<y, x>> \notin R
    BY <1>2
  <2> QED
    BY <2>1 DEF R
<1> QED
  BY <1>3 DEF Min

LEMMA MinPair ==
  ASSUME NEW a \in Int, NEW b \in Int
  PROVE  Min({a, b}) = IF a <= b THEN a ELSE b
  BY DEF Min

LEMMA MaxPair ==
  ASSUME NEW a \in Int, NEW b \in Int
  PROVE  Max({a, b}) = IF a >= b THEN a ELSE b
  BY DEF Max

-----------------------------------------------------------------------------
(* Well-formed states: typed, and the videos a sweep still has to do are   *)
(* touched by the votes of its page.                                       *)

Touched(page) == {VideoOf[x] : x \in page}

\* What a sweep knows about its own state.
JobOK(s) ==
  /\ job[s] \in Job
  /\ job[s].started <= now /\ job[s].since <= now /\ job[s].page \subseteq arrived
  /\ job[s].pc \in {"poll"} \cup Polled => job[s].since >= 1
  /\ job[s].pc # "idle" => job[s].started >= 1
  /\ job[s].todo \in Seq(Touched(job[s].page))
  /\ job[s].pc \in OnVideo => job[s].todo # <<>>
  /\ job[s].pc \in OnCrossing => job[s].crossing \in Crossing
  /\ job[s].pc \in {"publish", "confirm"} =>
       job[s].event \in Event /\ decision[KeyOf(s)] \in Decision
  /\ job[s].pc \in OnWarning => job[s].level \in Level

SharedOK ==
  /\ now \in 1..(MaxTime + 1)
  /\ at \in [Vote -> 0..now]
  /\ arrived \subseteq {x \in Vote : at[x] > 0} /\ late \subseteq arrived
  /\ gone \subseteq Video
  /\ cursor \in 1..now
  /\ decision \in [Key -> Decision \cup {Nothing}]
  /\ labels \subseteq Key \X Event
  /\ strikes \subseteq Key
  /\ warning \in [Creators \X Level -> {"none", "pending", "sent"}]
  /\ delivered \in [Creators \X Level -> Nat]

WellFormed == SharedOK /\ job \in [Sweep -> Job] /\ \A s \in Sweep : JobOK(s)

LEMMA WellFormedType == WellFormed => TypeOK
  BY DEF WellFormed, SharedOK, JobOK, TypeOK

\* Sweep s goes on with r, the others stay where they are.
Becomes(s, r) ==
  /\ job' \in [Sweep -> Job] /\ job'[s] = r
  /\ \A t \in Sweep \ {s} : job'[t] = job[t]

LEMMA BecomesRule ==
  ASSUME job \in [Sweep -> Job], NEW s \in Sweep, NEW r \in Job,
         job' = [job EXCEPT ![s] = r]
  PROVE  Becomes(s, r)
  BY DEF Becomes

\* What the other sweeps know survives: clocks, votes and decisions only grow.
LEMMA FrameOK ==
  ASSUME WellFormed, SharedOK', NEW t \in Sweep, job'[t] = job[t], now <= now',
         arrived \subseteq arrived',
         \A k \in Key : decision[k] \in Decision => decision'[k] \in Decision
  PROVE  JobOK(t)'
<1>1. JobOK(t) /\ job[t] \in Job
  BY DEF WellFormed, JobOK
<1>2. KeyOf(t)' = KeyOf(t)
  BY DEF KeyOf, Current
<1>3. job[t].todo \in Seq(Video)
  BY <1>1 DEF Job
<1>4. job[t].pc \in {"publish", "confirm"} => KeyOf(t) \in Key
  <2> SUFFICES ASSUME job[t].pc \in {"publish", "confirm"} PROVE KeyOf(t) \in Key
    OBVIOUS
  <2>1. job[t].todo # <<>> /\ job[t].crossing \in Crossing
    BY <1>1 DEF JobOK, OnVideo, OnCrossing
  <2>2. Head(job[t].todo) \in Video
    BY <1>3, <2>1, HeadTailProperties
  <2> QED
    BY <2>1, <2>2 DEF KeyOf, Current, Crossing, Key
<1>5. job[t].started \in Nat /\ job[t].since \in Nat /\ now \in Nat /\ now' \in Nat
  BY <1>1, SweepAssumption DEF Job, WellFormed, SharedOK
<1> QED
  BY <1>1, <1>2, <1>4, <1>5 DEF JobOK

LEMMA ImageFinite ==
  ASSUME NEW S, IsFiniteSet(S), NEW f, S \subseteq DOMAIN f
  PROVE  /\ IsFiniteSet({f[x] : x \in S})
         /\ Cardinality({f[x] : x \in S}) \in Nat
<1> DEFINE T == {f[x] : x \in S}
           g == [x \in S |-> f[x]]
<1>1. g \in Surjection(S, T)
  BY DEF Surjection
<1>2. IsFiniteSet(T)
  BY <1>1, FS_Surjection
<1> QED
  BY <1>2, FS_CardinalityType

\* The permutations of a finite set are sequences with all of its elements.
LEMMA Permutation ==
  ASSUME NEW S, IsFiniteSet(S), NEW q \in SetToSeqs(S)
  PROVE  /\ q \in Seq(S) /\ Len(q) = Cardinality(S)
         /\ \A e \in S : \E i \in 1..Len(q) : q[i] = e
<1> DEFINE n == Cardinality(S)
<1>1. n \in Nat
  BY FS_CardinalityType
<1>2. q \in [1..n -> S] /\ \A i, j \in 1..n : i # j => q[i] # q[j]
  BY DEF SetToSeqs
<1>3. q \in Seq(S) /\ Len(q) = n
  BY <1>1, <1>2
<1>4. ASSUME NEW e \in S, \A i \in 1..n : q[i] # e PROVE FALSE
  <2>1. IsFiniteSet(S \ {e}) /\ Cardinality(S \ {e}) = n - 1
    BY FS_RemoveElement
  <2>2. IsFiniteSet(1..n) /\ Cardinality(1..n) = n
    BY <1>1, FS_Interval
  <2>3. q \in [1..n -> S \ {e}]
    BY <1>2, <1>4
  <2>4. \E i, j \in 1..n : i # j /\ q[i] = q[j]
    BY <1>1, <2>1, <2>2, <2>3, FS_PigeonHole
  <2> QED
    BY <1>2, <2>4
<1> QED
  BY <1>3, <1>4

LEMMA Prefix ==
  ASSUME NEW S, NEW q, NEW n \in Nat, \A i \in 1..n : q[i] \in S
  PROVE  /\ SubSeq(q, 1, n) \in Seq(S) /\ Len(SubSeq(q, 1, n)) = n
         /\ \A i \in 1..n : SubSeq(q, 1, n)[i] = q[i]
<1>1. /\ SubSeq(q, 1, n) \in Seq(S)
      /\ Len(SubSeq(q, 1, n)) = IF 1 <= n THEN n - 1 + 1 ELSE 0
      /\ \A i \in 1..(n - 1 + 1) : SubSeq(q, 1, n)[i] = q[1 + i - 1]
  BY SubSeqProperties
<1> DEFINE b == SubSeq(q, 1, n)
<1> HIDE DEF b
<1>2. b \in Seq(S) /\ Len(b) = n
  BY <1>1 DEF b
<1>3. ASSUME NEW i \in 1..n PROVE b[i] = q[i]
  <2>1. i \in 1..(n - 1 + 1) /\ 1 + i - 1 = i
    OBVIOUS
  <2> QED
    BY <1>1, <2>1 DEF b
<1> QED
  BY <1>2, <1>3 DEF b

LEMMA EarliestVote ==
  ASSUME SharedOK, NEW page, page \subseteq Vote, NEW v \in Touched(page)
  PROVE  /\ EarliestIn(page, v) \in Nat
         /\ EarliestIn(page, v) <= now
         /\ \A x \in page : VideoOf[x] = v => EarliestIn(page, v) <= at[x]
<1> DEFINE times == {at[x] : x \in {y \in page : VideoOf[y] = v}}
<1>1. now \in Nat /\ \A x \in Vote : at[x] \in 0..now
  BY SweepAssumption DEF SharedOK
<1>2. times \subseteq Nat /\ times # {}
  BY <1>1 DEF Touched
<1>3. Min(times) \in times /\ \A y \in times : Min(times) <= y
  BY <1>2, MinNat
<1> QED
  BY <1>1, <1>3 DEF EarliestIn

LEMMA TallyType ==
  ASSUME NEW votes \in SUBSET Vote, NEW v, NEW l
  PROVE  Tally(votes, v, l) \in Nat
<1> DEFINE S == {y \in votes : VideoOf[y] = v /\ LabelOf[y] = l}
           voters == {Author[x] : x \in S}
<1>1. S \in SUBSET Vote /\ S \subseteq DOMAIN Author
  BY SweepAssumption
<1>2. IsFiniteSet(voters)
  <2>1. IsFiniteSet(S)
    BY <1>1, FinitenessAssumption, FS_Subset
  <2> HIDE DEF S
  <2> QED
    BY <1>1, <2>1, ImageFinite, Zenon
<1>3. IsFiniteSet(voters \cap (Divine \ {Creator[v]}))
  BY <1>2, FS_Subset
<1> QED
  BY <1>3, FS_CardinalityType DEF Tally

\* More votes never lower a count.
LEMMA TallyMonotone ==
  ASSUME NEW votes \in SUBSET Vote, NEW more \in SUBSET Vote, NEW v, NEW l,
         \A x \in votes : VideoOf[x] = v => x \in more
  PROVE  Tally(votes, v, l) <= Tally(more, v, l)
<1> DEFINE S(w) == {y \in w : VideoOf[y] = v /\ LabelOf[y] = l}
           Voters(w) == {Author[x] : x \in S(w)} \cap (Divine \ {Creator[v]})
<1>1. S(more) \in SUBSET Vote /\ S(more) \subseteq DOMAIN Author
  BY SweepAssumption
<1>2. IsFiniteSet({Author[x] : x \in S(more)})
  <2>1. IsFiniteSet(S(more))
    BY <1>1, FinitenessAssumption, FS_Subset
  <2> HIDE DEF S
  <2> QED
    BY <1>1, <2>1, ImageFinite, Zenon
<1>3. IsFiniteSet(Voters(more)) /\ Voters(votes) \in SUBSET Voters(more)
  BY <1>2, FS_Subset
<1>4. Cardinality(Voters(votes)) <= Cardinality(Voters(more))
  BY <1>3, FS_Subset
<1> QED
  BY <1>4 DEF Tally

LEMMA CrossingsType ==
  ASSUME SharedOK, NEW v
  PROVE  Crossings(v) \in SUBSET Crossing
<1>1. arrived \in SUBSET Vote
  BY DEF SharedOK
<1> QED
  BY <1>1, TallyType DEF Crossings, Crossing

LEMMA CurrentOK ==
  ASSUME WellFormed, NEW s \in Sweep, job[s].pc \in OnVideo
  PROVE  /\ job[s] \in Job /\ job[s].page \in SUBSET Vote
         /\ job[s].todo \in Seq(Touched(job[s].page)) /\ job[s].todo # <<>>
         /\ Current(s) \in Touched(job[s].page) /\ Current(s) \in Video
         /\ Tail(job[s].todo) \in Seq(Touched(job[s].page))
         /\ Tail(job[s].todo) \in Seq(Video)
         /\ EarliestIn(job[s].page, Current(s)) \in Nat
<1>1. JobOK(s) /\ job[s] \in Job /\ SharedOK
  BY DEF WellFormed
<1>2. job[s].page \in SUBSET Vote /\ job[s].todo \in Seq(Video)
  BY <1>1 DEF Job
<1>3. job[s].todo \in Seq(Touched(job[s].page)) /\ job[s].todo # <<>>
  BY <1>1 DEF JobOK
<1> QED
  BY <1>1, <1>2, <1>3, HeadTailProperties, EarliestVote DEF Current

LEMMA KeyOK ==
  ASSUME WellFormed, NEW s \in Sweep, job[s].pc \in OnCrossing
  PROVE  /\ KeyOf(s) \in Key /\ KeyOf(s)[1] = Current(s)
         /\ KeyOf(s)[2] = job[s].crossing[1]
         /\ job[s].crossing \in Crossing /\ job[s].crossing[2] \in Nat
<1>1. job[s].pc \in OnVideo
  BY DEF OnVideo
<1>2. Current(s) \in Video
  BY <1>1, CurrentOK
<1>3. job[s].crossing \in Crossing
  BY DEF WellFormed, JobOK
<1> QED
  BY <1>2, <1>3 DEF KeyOf, Key, Crossing

\* The sweep after the current video.
LEMMA AfterVideoType ==
  ASSUME WellFormed, NEW s \in Sweep, job[s].pc \in OnVideo, NEW clean \in BOOLEAN,
         NEW r, r = AfterVideo(job[s], clean)
  PROVE  /\ r \in Job
         /\ r.pc = IF Tail(job[s].todo) = <<>> THEN "finish" ELSE "fetch"
         /\ r.todo = Tail(job[s].todo)
         /\ r.held = IF clean THEN job[s].held
                     ELSE job[s].held \cup {EarliestIn(job[s].page, Current(s))}
         /\ r.started = job[s].started /\ r.since = job[s].since
         /\ r.page = job[s].page /\ r.full = job[s].full
<1>1. job[s] \in Job /\ Tail(job[s].todo) \in Seq(Video)
      /\ EarliestIn(job[s].page, Current(s)) \in Nat
  BY CurrentOK
<1> DEFINE p == IF Tail(job[s].todo) = <<>> THEN "finish" ELSE "fetch"
           h == IF clean THEN job[s].held
                ELSE job[s].held \cup {EarliestIn(job[s].page, Current(s))}
           rest == Tail(job[s].todo)
<1>2. p \in Polled /\ h \in SUBSET Nat /\ rest \in Seq(Video) /\ 0 \in Level \cup {0}
  BY <1>1 DEF Polled, OnVideo, Job
<1>3. r = [job[s] EXCEPT !.pc = p, !.todo = rest, !.held = h, !.clean = TRUE,
             !.crossings = {}, !.crossing = Nothing, !.event = Nothing,
             !.level = 0, !.dm = Nothing]
  BY DEF AfterVideo, Current
<1> HIDE DEF p, h, rest
<1>4. r = [pc |-> p, started |-> job[s].started, since |-> job[s].since,
           full |-> job[s].full, page |-> job[s].page, todo |-> rest, held |-> h,
           clean |-> TRUE, crossings |-> {}, crossing |-> Nothing, event |-> Nothing,
           level |-> 0, dm |-> Nothing]
  BY <1>1, <1>3, ZenonT(60) DEF Job
<1>5. r \in Job
  BY <1>1, <1>2, <1>4 DEF Job
<1> QED
  BY <1>4, <1>5 DEF p, h, rest

LEMMA IdleType == Idle \in Job
<1>1. <<>> \in Seq(Video)
  BY EmptySeq
<1> QED
  BY <1>1 DEF Idle, Job

-----------------------------------------------------------------------------
(* What each step does to the sweep that takes it.                         *)

LEMMA LeaveEffect ==
  ASSUME WellFormed, NEW s \in Sweep, job[s].pc \in OnVideo, NEW clean \in BOOLEAN,
         SharedOK', now' = now, arrived' = arrived,
         job' = [job EXCEPT ![s] = AfterVideo(@, clean)]
  PROVE  Becomes(s, AfterVideo(job[s], clean)) /\ JobOK(s)'
<1> DEFINE r == AfterVideo(job[s], clean)
<1>1. /\ r \in Job /\ r.pc = IF Tail(job[s].todo) = <<>> THEN "finish" ELSE "fetch"
      /\ r.todo = Tail(job[s].todo)
      /\ r.started = job[s].started /\ r.since = job[s].since /\ r.page = job[s].page
  BY AfterVideoType
<1> HIDE DEF r
<1>2. Becomes(s, r)
  BY <1>1, BecomesRule DEF WellFormed, r
<1>3. JobOK(s)
  BY DEF WellFormed
<1>4. Tail(job[s].todo) \in Seq(Touched(job[s].page))
  BY CurrentOK
<1>5. job'[s] = r
  BY <1>2 DEF Becomes
<1>6. Touched(job[s].page)' = Touched(job[s].page)
  BY <1>1, <1>5 DEF Touched
<1>7. job[s].pc # "idle" /\ job[s].pc \in Polled
  BY DEF OnVideo, OnCrossing, OnWarning, Polled
<1>8. r.pc \in {"finish", "fetch"} /\ r.pc \notin OnCrossing /\ r.pc \notin OnWarning
      /\ (r.pc \in OnVideo => r.todo # <<>>)
  BY <1>1 DEF OnVideo, OnCrossing, OnWarning
<1>9. JobOK(s)'
  BY <1>1, <1>3, <1>4, <1>5, <1>6, <1>7, <1>8 DEF JobOK
<1> QED
  BY <1>2, <1>9 DEF r

\* What every step on a video but the last one leaves alone.
Keeps(s) ==
  /\ job' \in [Sweep -> Job] /\ \A t \in Sweep \ {s} : job'[t] = job[t]
  /\ job'[s].started = job[s].started /\ job'[s].since = job[s].since
  /\ job'[s].full = job[s].full /\ job'[s].page = job[s].page
  /\ job'[s].todo = job[s].todo /\ job'[s].held = job[s].held

LEMMA JobFacts ==
  ASSUME WellFormed, NEW s \in Sweep
  PROVE  /\ job \in [Sweep -> Job] /\ job[s] \in Job
         /\ job[s].pc \in OnVideo => job[s].pc \in Polled
         /\ job[s].crossings \subseteq Crossing /\ job[s].clean \in BOOLEAN
         /\ job[s].started \in Nat /\ job[s].since \in Nat
  BY DEF WellFormed, JobOK, Job, Polled

LEMMA CheckEffect ==
  ASSUME WellFormed, NEW s \in Sweep, Check(s)
  PROVE  /\ Keeps(s)
         /\ \E c \in job[s].crossings :
              /\ job'[s].crossings = job[s].crossings \ {c} /\ job'[s].crossing = c
              /\ job'[s].pc = IF Confirmed(<<Current(s), c[1]>>) THEN "strike" ELSE "claim"
              /\ job'[s].clean = job[s].clean
<1>1. PICK c \in job[s].crossings :
        job' = [job EXCEPT ![s].crossings = @ \ {c}, ![s].crossing = c,
                           ![s].pc = IF Confirmed(<<Current(s), c[1]>>)
                                     THEN "strike" ELSE "claim"]
  BY DEF Check
<1> DEFINE p == IF Confirmed(<<Current(s), c[1]>>) THEN "strike" ELSE "claim"
           r == [job[s] EXCEPT !.crossings = @ \ {c}, !.crossing = c, !.pc = p]
<1>2. p \in Polled
  BY DEF Polled, OnVideo, OnCrossing
<1> HIDE DEF p
<1>3. r \in Job
  BY <1>2, JobFacts, ZenonT(60) DEF Job
<1>4. job' = [job EXCEPT ![s] = r]
  BY <1>1, JobFacts DEF p, Job
<1>5. Keeps(s) /\ job'[s].crossings = job[s].crossings \ {c} /\ job'[s].crossing = c
      /\ job'[s].pc = p /\ job'[s].clean = job[s].clean
  BY <1>3, <1>4, JobFacts DEF Keeps, Job
<1> QED
  BY <1>5 DEF p

LEMMA ClaimEffect ==
  ASSUME WellFormed, NEW s \in Sweep, Claim(s)
  PROVE  /\ Keeps(s) /\ job'[s].pc = "publish"
         /\ job'[s].crossing = job[s].crossing /\ job'[s].crossings = job[s].crossings
         /\ job'[s].clean = job[s].clean
         /\ decision' \in [Key -> Decision \cup {Nothing}]
         /\ decision'[KeyOf(s)] \in Decision
         /\ job'[s].event = decision'[KeyOf(s)].event
         /\ decision[KeyOf(s)] # Nothing => decision' = decision
         /\ decision[KeyOf(s)] = Nothing => decision'[KeyOf(s)].status = "pending"
         /\ \A k \in Key \ {KeyOf(s)} : decision'[k] = decision[k]
<1> DEFINE k == KeyOf(s)
           fresh == [at |-> job[s].started, votes |-> job[s].crossing[2]]
           made == [status |-> "pending", event |-> fresh]
<1>1. job[s].pc = "claim" /\ "claim" \in OnCrossing /\ "publish" \in Polled
  BY DEF Claim, OnCrossing, OnVideo, Polled
<1>2. k \in Key /\ fresh \in Event
  BY <1>1, KeyOK, JobFacts DEF Event
<1>3. made \in Decision
  BY <1>2 DEF Decision
<1>4. decision \in [Key -> Decision \cup {Nothing}]
  BY DEF WellFormed, SharedOK
<1>5. decision' = [decision EXCEPT ![k] = IF @ = Nothing THEN made ELSE @]
      /\ job' = [job EXCEPT ![s].pc = "publish", ![s].event = decision'[k].event]
  BY DEF Claim
<1> HIDE DEF k, fresh
<1>6. /\ decision' \in [Key -> Decision \cup {Nothing}] /\ decision'[k] \in Decision
      /\ decision[k] # Nothing => decision' = decision
      /\ decision[k] = Nothing => decision'[k] = made
      /\ \A j \in Key \ {k} : decision'[j] = decision[j]
  BY <1>2, <1>3, <1>4, <1>5
<1> DEFINE r == [job[s] EXCEPT !.pc = "publish", !.event = decision'[k].event]
<1>7. decision'[k].event \in Event
  BY <1>6 DEF Decision
<1>8. r \in Job
  BY <1>1, <1>7, JobFacts, ZenonT(60) DEF Job
<1>9. job' = [job EXCEPT ![s] = r]
  <2>1. PICK e : e = decision'[k].event
    OBVIOUS
  <2>2. job' = [job EXCEPT ![s].pc = "publish", ![s].event = e] /\ r = [job[s] EXCEPT !.pc = "publish", !.event = e]
    BY <1>5, <2>1
  <2> HIDE DEF r
  <2>3. job' = [job EXCEPT ![s] = r]
    BY <2>2, JobFacts DEF Job
  <2> QED
    BY <2>3
<1>10. Keeps(s) /\ job'[s].pc = "publish"
       /\ job'[s].crossing = job[s].crossing /\ job'[s].crossings = job[s].crossings
       /\ job'[s].clean = job[s].clean /\ job'[s].event = decision'[k].event
  BY <1>8, <1>9, JobFacts DEF Keeps, Job
<1> QED
  BY <1>6, <1>10 DEF k

\* A step to label l that may find that the video is not clean.
LEMMA GoEffect ==
  ASSUME WellFormed, NEW s \in Sweep, NEW l \in Polled, NEW clean \in BOOLEAN,
         job' = [job EXCEPT ![s].pc = l, ![s].clean = clean]
  PROVE  /\ Keeps(s) /\ job'[s].pc = l /\ job'[s].clean = clean
         /\ job'[s].crossing = job[s].crossing /\ job'[s].crossings = job[s].crossings
         /\ job'[s].event = job[s].event /\ job'[s].level = job[s].level
         /\ job'[s].dm = job[s].dm
<1> DEFINE r == [job[s] EXCEPT !.pc = l, !.clean = clean]
<1>1. r \in Job
  BY JobFacts, ZenonT(60) DEF Job
<1>2. job' = [job EXCEPT ![s] = r]
  BY JobFacts DEF Job
<1>3. job' \in [Sweep -> Job] /\ job'[s] = r
      /\ \A t \in Sweep \ {s} : job'[t] = job[t]
  BY <1>1, <1>2, JobFacts
<1> QED
  BY <1>3, JobFacts DEF Keeps, Job

LEMMA StayEffect ==
  ASSUME WellFormed, NEW s \in Sweep, NEW l \in Polled, job' = [job EXCEPT ![s].pc = l]
  PROVE  /\ Keeps(s) /\ job'[s].pc = l /\ job'[s].clean = job[s].clean
         /\ job'[s].crossing = job[s].crossing /\ job'[s].crossings = job[s].crossings
         /\ job'[s].event = job[s].event /\ job'[s].level = job[s].level
         /\ job'[s].dm = job[s].dm
<1> DEFINE r == [job[s] EXCEPT !.pc = l]
<1>1. r \in Job
  BY JobFacts, ZenonT(60) DEF Job
<1>2. job' = [job EXCEPT ![s] = r]
  BY JobFacts DEF Job
<1>3. job' \in [Sweep -> Job] /\ job'[s] = r
      /\ \A t \in Sweep \ {s} : job'[t] = job[t]
  BY <1>1, <1>2, JobFacts
<1> QED
  BY <1>3, JobFacts, ZenonT(60) DEF Keeps, Job

LEMMA StepOK ==
  ASSUME WellFormed, SharedOK', NEW s \in Sweep, JobOK(s)', job' \in [Sweep -> Job],
         \A t \in Sweep \ {s} : job'[t] = job[t], now <= now', arrived \subseteq arrived',
         \A k \in Key : decision[k] \in Decision => decision'[k] \in Decision
  PROVE  WellFormed'
<1>1. \A t \in Sweep \ {s} : JobOK(t)'
  BY FrameOK
<1> QED
  BY <1>1 DEF WellFormed

LEMMA KeepsOK ==
  ASSUME WellFormed, SharedOK', now' = now, arrived' = arrived, NEW s \in Sweep, Keeps(s),
         job[s].pc \in OnVideo, job'[s].pc \in OnVideo,
         job'[s].pc \in OnCrossing => job'[s].crossing \in Crossing,
         job'[s].pc \in {"publish", "confirm"} =>
           job'[s].event \in Event /\ decision'[KeyOf(s)'] \in Decision,
         job'[s].pc \in OnWarning => job'[s].level \in Level,
         \A k \in Key : decision[k] \in Decision => decision'[k] \in Decision
  PROVE  WellFormed'
<1>1. JobOK(s) /\ job[s].pc \in Polled /\ job[s].pc # "idle"
  BY DEF WellFormed, OnVideo, OnCrossing, OnWarning, Polled
<1>2. job'[s] \in Job /\ Touched(job[s].page)' = Touched(job[s].page)
  BY DEF Keeps, Touched
<1>3. JobOK(s)'
  BY <1>1, <1>2 DEF JobOK, Keeps
<1>4. now <= now'
  BY SweepAssumption DEF WellFormed, SharedOK
<1> QED
  BY <1>3, <1>4, StepOK DEF Keeps

\* A step on a video that touches neither clocks nor votes.
LEMMA SharedStep ==
  ASSUME WellFormed, UNCHANGED <<now, relay, cursor>>,
         decision' \in [Key -> Decision \cup {Nothing}], labels' \subseteq Key \X Event,
         strikes' \subseteq Key,
         warning' \in [Creators \X Level -> {"none", "pending", "sent"}],
         delivered' \in [Creators \X Level -> Nat]
  PROVE  SharedOK'
  BY DEF WellFormed, SharedOK, relay

LEMMA SharedSame ==
  ASSUME WellFormed, UNCHANGED <<now, relay, cursor, db, sent>>
  PROVE  /\ SharedOK' /\ now' = now /\ arrived' = arrived /\ decision' = decision
         /\ \A k \in Key : decision[k] \in Decision => decision'[k] \in Decision
  BY DEF WellFormed, SharedOK, relay, db, sent

LEMMA CheckType ==
  ASSUME WellFormed, NEW s \in Sweep, Check(s)
  PROVE  WellFormed'
<1>1. SharedOK' /\ now' = now /\ arrived' = arrived /\ decision' = decision
  BY SharedSame DEF Check
<1>2. job[s].pc \in OnVideo
  BY DEF Check, OnVideo
<1>3. Keeps(s) /\ job'[s].crossing \in Crossing /\ job'[s].pc \in {"strike", "claim"}
  BY CheckEffect, JobFacts
<1> QED
  BY <1>1, <1>2, <1>3, KeepsOK DEF OnVideo, OnCrossing, OnWarning

LEMMA ClaimType ==
  ASSUME WellFormed, NEW s \in Sweep, Claim(s)
  PROVE  WellFormed'
<1>1. job[s].pc \in OnCrossing /\ job[s].pc \in OnVideo
  BY DEF Claim, OnVideo, OnCrossing
<1>2. /\ Keeps(s) /\ job'[s].pc = "publish" /\ job'[s].crossing = job[s].crossing
      /\ decision' \in [Key -> Decision \cup {Nothing}]
      /\ decision'[KeyOf(s)] \in Decision /\ job'[s].event = decision'[KeyOf(s)].event
      /\ \A k \in Key \ {KeyOf(s)} : decision'[k] = decision[k]
  BY ClaimEffect
<1>3. KeyOf(s)' = KeyOf(s) /\ job[s].crossing \in Crossing
  BY <1>1, <1>2, KeyOK DEF KeyOf, Current, Keeps
<1>4. SharedOK' /\ now' = now /\ arrived' = arrived
  <2>1. UNCHANGED <<now, relay, cursor, strikes, warning, sent>>
    BY DEF Claim
  <2> QED
    BY <1>2, <2>1, SharedStep DEF WellFormed, SharedOK, relay, sent
<1>5. \A k \in Key : decision[k] \in Decision => decision'[k] \in Decision
  BY <1>2
<1>6. job'[s].event \in Event
  BY <1>2 DEF Decision
<1> QED
  BY <1>1, <1>2, <1>3, <1>4, <1>5, <1>6, KeepsOK DEF OnVideo, OnCrossing, OnWarning

\* Steps that leave the decisions alone and go on to a label that needs no
\* new facts.
LEMMA OnwardType ==
  ASSUME WellFormed, NEW s \in Sweep, job[s].pc \in OnVideo, SharedOK', now' = now,
         arrived' = arrived, Keeps(s), decision' = decision,
         job'[s].crossing = job[s].crossing, job'[s].event = job[s].event,
         \/ job'[s].pc = "label"
         \/ job[s].pc = "publish" /\ job'[s].pc = "confirm"
         \/ job[s].pc = "warn" /\ job'[s].pc = "send" /\ job'[s].level = job[s].level
         \/ job[s].pc = "send" /\ job'[s].pc = "settle" /\ job'[s].level = job[s].level
         \/ job'[s].pc = "warn" /\ job'[s].level \in Level
  PROVE  WellFormed'
<1>1. JobOK(s)
  BY DEF WellFormed
<1>2. KeyOf(s)' = KeyOf(s)
  BY DEF KeyOf, Current, Keeps
<1>3. \A k \in Key : decision[k] \in Decision => decision'[k] \in Decision
  OBVIOUS
<1> QED
  BY <1>1, <1>2, <1>3, KeepsOK DEF JobOK, OnVideo, OnCrossing, OnWarning

LEMMA BuildFailsType ==
  ASSUME WellFormed, NEW s \in Sweep, BuildFails(s)
  PROVE  WellFormed' /\ Keeps(s) /\ job'[s].pc = "label" /\ job'[s].clean = FALSE
         /\ job'[s].crossings = job[s].crossings
<1>1. SharedOK' /\ now' = now /\ arrived' = arrived /\ decision' = decision
  BY SharedSame DEF BuildFails
<1>2. job[s].pc \in OnVideo /\ "label" \in Polled
  BY DEF BuildFails, OnVideo, OnCrossing, Polled
<1>3. Keeps(s) /\ job'[s].pc = "label" /\ job'[s].clean = FALSE
      /\ job'[s].crossing = job[s].crossing /\ job'[s].crossings = job[s].crossings
      /\ job'[s].event = job[s].event
  BY <1>2, GoEffect DEF BuildFails
<1> QED
  BY <1>1, <1>2, <1>3, OnwardType

LEMMA PublishType ==
  ASSUME WellFormed, NEW s \in Sweep, Publish(s)
  PROVE  /\ WellFormed' /\ Keeps(s) /\ KeyOf(s) \in Key
         /\ job'[s].crossing = job[s].crossing /\ job'[s].crossings = job[s].crossings
         /\ job'[s].event = job[s].event
         /\ labels' \in {labels, labels \cup {<<KeyOf(s), job[s].event>>}}
         /\ \/ /\ job'[s].pc = "confirm" /\ job'[s].clean = job[s].clean
               /\ labels' = labels \cup {<<KeyOf(s), job[s].event>>}
            \/ job'[s].pc = "label" /\ job'[s].clean = FALSE
<1>1. job[s].pc = "publish" /\ job[s].pc \in OnVideo /\ job[s].pc \in OnCrossing
      /\ "label" \in Polled /\ "confirm" \in Polled
  BY DEF Publish, OnVideo, OnCrossing, Polled
<1>2. KeyOf(s) \in Key /\ job[s].event \in Event
  BY <1>1, KeyOK DEF WellFormed, JobOK
<1>3. labels' \in {labels, labels \cup {<<KeyOf(s), job[s].event>>}}
      /\ UNCHANGED <<now, relay, cursor, db, delivered>>
  BY DEF Publish
<1>4. SharedOK' /\ now' = now /\ arrived' = arrived /\ decision' = decision
  BY <1>2, <1>3 DEF WellFormed, SharedOK, relay, db
<1>5. CASE job' = [job EXCEPT ![s].pc = "confirm"]
           /\ labels' = labels \cup {<<KeyOf(s), job[s].event>>}
  <2>1. Keeps(s) /\ job'[s].pc = "confirm" /\ job'[s].clean = job[s].clean
        /\ job'[s].crossing = job[s].crossing /\ job'[s].crossings = job[s].crossings
        /\ job'[s].event = job[s].event
    BY <1>1, <1>5, StayEffect
  <2> QED
    BY <1>1, <1>2, <1>3, <1>4, <1>5, <2>1, OnwardType
<1>6. CASE job' = [job EXCEPT ![s].pc = "label", ![s].clean = FALSE]
  <2>1. Keeps(s) /\ job'[s].pc = "label" /\ job'[s].clean = FALSE
        /\ job'[s].crossing = job[s].crossing /\ job'[s].crossings = job[s].crossings
        /\ job'[s].event = job[s].event
    BY <1>1, <1>6, GoEffect
  <2> QED
    BY <1>1, <1>2, <1>3, <1>4, <2>1, OnwardType
<1> QED
  BY <1>5, <1>6 DEF Publish

LEMMA ConfirmType ==
  ASSUME WellFormed, NEW s \in Sweep, Confirm(s)
  PROVE  /\ WellFormed' /\ Keeps(s) /\ job'[s].pc = "strike"
         /\ job'[s].crossing = job[s].crossing /\ job'[s].crossings = job[s].crossings
         /\ job'[s].clean = job[s].clean
         /\ KeyOf(s) \in Key /\ decision[KeyOf(s)] \in Decision
         /\ decision'[KeyOf(s)] \in Decision
         /\ decision'[KeyOf(s)].status = "confirmed"
         /\ decision'[KeyOf(s)].event = decision[KeyOf(s)].event
         /\ \A k \in Key \ {KeyOf(s)} : decision'[k] = decision[k]
<1> DEFINE k == KeyOf(s)
<1>1. job[s].pc = "confirm" /\ job[s].pc \in OnVideo /\ job[s].pc \in OnCrossing
      /\ "strike" \in Polled
  BY DEF Confirm, OnVideo, OnCrossing, Polled
<1>2. k \in Key /\ decision[k] \in Decision /\ job[s].crossing \in Crossing
  BY <1>1, KeyOK DEF WellFormed, JobOK
<1>3. Keeps(s) /\ job'[s].pc = "strike" /\ job'[s].clean = job[s].clean
      /\ job'[s].crossing = job[s].crossing /\ job'[s].crossings = job[s].crossings
  BY <1>1, StayEffect DEF Confirm
<1>4. UNCHANGED <<now, relay, cursor, strikes, warning, sent>>
      /\ decision' = [decision EXCEPT ![k].status = "confirmed"]
  BY DEF Confirm
<1> HIDE DEF k
<1>5. decision \in [Key -> Decision \cup {Nothing}]
  BY DEF WellFormed, SharedOK
<1>6. [decision[k] EXCEPT !.status = "confirmed"] \in Decision
  BY <1>2 DEF Decision
<1>7. /\ decision' \in [Key -> Decision \cup {Nothing}]
      /\ decision'[k] = [decision[k] EXCEPT !.status = "confirmed"]
      /\ \A j \in Key \ {k} : decision'[j] = decision[j]
  BY <1>2, <1>4, <1>5, <1>6
<1>8. decision'[k] \in Decision /\ decision'[k].status = "confirmed"
      /\ decision'[k].event = decision[k].event
  BY <1>2, <1>6, <1>7 DEF Decision
<1>9. SharedOK' /\ now' = now /\ arrived' = arrived
  BY <1>4, <1>7 DEF WellFormed, SharedOK, relay, sent
<1>10. \A j \in Key : decision[j] \in Decision => decision'[j] \in Decision
  BY <1>7, <1>8
<1>11. WellFormed'
  BY <1>1, <1>2, <1>3, <1>9, <1>10, KeepsOK DEF OnVideo, OnCrossing, OnWarning
<1> QED
  BY <1>2, <1>3, <1>7, <1>8, <1>11 DEF k

LEMMA StrikeType ==
  ASSUME WellFormed, NEW s \in Sweep, Strike(s) \/ StrikeThrows(s)
  PROVE  /\ WellFormed' /\ Keeps(s) /\ job'[s].pc = "label" /\ KeyOf(s) \in Key
         /\ job'[s].crossings = job[s].crossings
         /\ strikes \subseteq strikes' /\ strikes' \subseteq strikes \cup {KeyOf(s)}
         /\ KeyOf(s)[2] \in SelfLabels[KeyOf(s)[1]] => strikes' = strikes
         /\ \/ job'[s].clean = FALSE
            \/ /\ job'[s].clean = job[s].clean
               /\ KeyOf(s)[2] \notin SelfLabels[KeyOf(s)[1]] => KeyOf(s) \in strikes'
<1>1. job[s].pc = "strike" /\ job[s].pc \in OnVideo /\ job[s].pc \in OnCrossing
      /\ "label" \in Polled
  BY DEF Strike, StrikeThrows, OnVideo, OnCrossing, Polled
<1>2. KeyOf(s) \in Key /\ KeyOf(s)[1] = Current(s) /\ KeyOf(s)[2] = job[s].crossing[1]
  BY <1>1, KeyOK
<1>3. UNCHANGED <<now, relay, cursor, decision, warning, sent>>
      /\ strikes' \in {strikes, strikes \cup {KeyOf(s)}}
  BY DEF Strike, StrikeThrows
<1>4. SharedOK' /\ now' = now /\ arrived' = arrived /\ decision' = decision
  BY <1>2, <1>3 DEF WellFormed, SharedOK, relay, sent
<1>5. CASE Strike(s)
  <2>1. Keeps(s) /\ job'[s].pc = "label" /\ job'[s].clean = job[s].clean
        /\ job'[s].crossing = job[s].crossing /\ job'[s].crossings = job[s].crossings
        /\ job'[s].event = job[s].event
    BY <1>1, <1>5, StayEffect DEF Strike
  <2>2. WellFormed'
    BY <1>1, <1>4, <2>1, OnwardType
  <2> QED
    BY <1>2, <1>5, <2>1, <2>2 DEF Strike
<1>6. CASE StrikeThrows(s)
  <2>1. Keeps(s) /\ job'[s].pc = "label" /\ job'[s].clean = FALSE
        /\ job'[s].crossing = job[s].crossing /\ job'[s].crossings = job[s].crossings
        /\ job'[s].event = job[s].event
    BY <1>1, <1>6, GoEffect DEF StrikeThrows
  <2>2. WellFormed'
    BY <1>1, <1>4, <2>1, OnwardType
  <2> QED
    BY <1>2, <1>3, <1>6, <2>1, <2>2 DEF StrikeThrows
<1> QED
  BY <1>5, <1>6

\* The strikes against a creator: a number, and one that only grows.
LEMMA StrikesCount ==
  ASSUME NEW S \in SUBSET Key, NEW p
  PROVE  /\ IsFiniteSet({k \in S : Creator[k[1]] = p})
         /\ Cardinality({k \in S : Creator[k[1]] = p}) \in Nat
         /\ Cardinality({k \in S : Creator[k[1]] = p}) <= Cardinality(Key)
         /\ Cardinality(Key) \in Nat
<1>1. IsFiniteSet(Key)
  BY FinitenessAssumption, FS_Product DEF Key
<1>2. {k \in S : Creator[k[1]] = p} \in SUBSET Key
  OBVIOUS
<1> QED
  BY <1>1, <1>2, FS_Subset, FS_CardinalityType

LEMMA StrikesMonotone ==
  ASSUME WellFormed, strikes \subseteq strikes', strikes' \subseteq Key, NEW p
  PROVE  /\ StrikesAgainst(p) \in Nat /\ StrikesAgainst(p)' \in Nat
         /\ StrikesAgainst(p) <= StrikesAgainst(p)'
<1> DEFINE S == {k \in strikes : Creator[k[1]] = p}
           T == {k \in strikes' : Creator[k[1]] = p}
<1>1. strikes \in SUBSET Key /\ strikes' \in SUBSET Key
  BY DEF WellFormed, SharedOK
<1>2. IsFiniteSet(T) /\ Cardinality(T) \in Nat /\ Cardinality(S) \in Nat
  BY <1>1, StrikesCount
<1>3. S \in SUBSET T
  OBVIOUS
<1>4. Cardinality(S) <= Cardinality(T)
  BY <1>2, <1>3, FS_Subset
<1> QED
  BY <1>2, <1>4 DEF StrikesAgainst

LEMMA WarningKey ==
  ASSUME WellFormed, NEW s \in Sweep, job[s].pc \in OnWarning
  PROVE  WarningOf(s) \in Creators \X Level
<1>1. Current(s) \in Video
  BY CurrentOK DEF OnVideo
<1>2. job[s].level \in Level
  BY DEF WellFormed, JobOK
<1> QED
  BY <1>1, <1>2 DEF WarningOf, Creators

LEMMA LeaveType ==
  ASSUME WellFormed, NEW s \in Sweep, job[s].pc \in OnVideo, NEW clean \in BOOLEAN,
         SharedOK', now' = now, arrived' = arrived, decision' = decision,
         job' = [job EXCEPT ![s] = AfterVideo(@, clean)]
  PROVE  WellFormed' /\ Becomes(s, AfterVideo(job[s], clean))
<1>1. Becomes(s, AfterVideo(job[s], clean)) /\ JobOK(s)'
  BY LeaveEffect
<1>2. now <= now'
  BY SweepAssumption DEF WellFormed, SharedOK
<1>3. \A k \in Key : decision[k] \in Decision => decision'[k] \in Decision
  OBVIOUS
<1> QED
  BY <1>1, <1>2, <1>3, StepOK DEF Becomes

LEMMA FetchType ==
  ASSUME WellFormed, NEW s \in Sweep, Fetch(s)
  PROVE  /\ WellFormed'
         /\ Current(s) \in gone => Becomes(s, AfterVideo(job[s], TRUE))
         /\ Current(s) \notin gone =>
              /\ Keeps(s) /\ job'[s].pc = "label" /\ job'[s].clean = job[s].clean
              /\ job'[s].crossings = Crossings(Current(s))
<1>1. SharedOK' /\ now' = now /\ arrived' = arrived /\ decision' = decision
  BY SharedSame DEF Fetch
<1>2. job[s].pc = "fetch" /\ job[s].pc \in OnVideo /\ "label" \in Polled
  BY DEF Fetch, OnVideo, Polled
<1>3. CASE Current(s) \in gone
  <2>1. job' = [job EXCEPT ![s] = AfterVideo(@, TRUE)]
    BY <1>3 DEF Fetch
  <2> QED
    BY <1>1, <1>2, <1>3, <2>1, LeaveType
<1>4. CASE Current(s) \notin gone
  <2> DEFINE r == [job[s] EXCEPT !.pc = "label", !.crossings = Crossings(Current(s))]
  <2>1. job' = [job EXCEPT ![s] = r]
    BY <1>4 DEF Fetch
  <2>2. Crossings(Current(s)) \in SUBSET Crossing
    BY CrossingsType DEF WellFormed
  <2>3. r \in Job
    BY <1>2, <2>2, JobFacts, ZenonT(60) DEF Job
  <2>4. job' \in [Sweep -> Job] /\ job'[s] = r
        /\ \A t \in Sweep \ {s} : job'[t] = job[t]
    BY <2>1, <2>3, JobFacts
  <2>5. Keeps(s) /\ job'[s].pc = "label" /\ job'[s].clean = job[s].clean
        /\ job'[s].crossings = Crossings(Current(s))
        /\ job'[s].crossing = job[s].crossing /\ job'[s].event = job[s].event
    BY <2>4, JobFacts DEF Keeps, Job
  <2> QED
    BY <1>1, <1>2, <1>4, <2>5, OnwardType
<1> QED
  BY <1>3, <1>4

LEMMA ThrowsType ==
  ASSUME WellFormed, NEW s \in Sweep, Throws(s)
  PROVE  WellFormed' /\ Becomes(s, AfterVideo(job[s], FALSE))
<1>1. SharedOK' /\ now' = now /\ arrived' = arrived /\ decision' = decision
  BY SharedSame DEF Throws
<1> QED
  BY <1>1, LeaveType DEF Throws

LEMMA CountType ==
  ASSUME WellFormed, NEW s \in Sweep, Count(s)
  PROVE  /\ WellFormed' /\ job[s].pc = "label" /\ job[s].crossings = {}
         /\ \/ Becomes(s, AfterVideo(job[s], job[s].clean))
            \/ /\ Keeps(s) /\ job'[s].pc = "warn" /\ job'[s].clean = job[s].clean
               /\ job'[s].crossings = job[s].crossings
               /\ job'[s].level \in Level
               /\ job'[s].level * WarningCount <= StrikesAgainst(Creator[Current(s)])
<1> DEFINE n == StrikesAgainst(Creator[Current(s)])
           level == n \div WarningCount
<1>1. SharedOK' /\ now' = now /\ arrived' = arrived /\ decision' = decision
  BY SharedSame DEF Count
<1>2. job[s].pc = "label" /\ job[s].pc \in OnVideo /\ "warn" \in Polled /\ job[s].crossings = {}
  BY DEF Count, OnVideo, OnWarning, Polled
<1>3. n \in Nat /\ n <= Cardinality(Key) /\ Cardinality(Key) \in Nat
  <2>1. strikes \in SUBSET Key
    BY DEF WellFormed, SharedOK
  <2> DEFINE p == Creator[Current(s)]
  <2> HIDE DEF p
  <2>2. StrikesAgainst(p) \in Nat /\ StrikesAgainst(p) <= Cardinality(Key)
        /\ Cardinality(Key) \in Nat
    BY <2>1, StrikesCount DEF StrikesAgainst
  <2> QED
    BY <2>2 DEF p
<1>4. level \in Nat /\ level * WarningCount <= n
      /\ level <= Cardinality(Key) \div WarningCount
      /\ Cardinality(Key) \div WarningCount \in Nat
  BY <1>3, DivBounds, DivMonotone, SweepAssumption
<1>5. job' = [job EXCEPT ![s] =
           IF level >= 1 THEN [@ EXCEPT !.pc = "warn", !.level = level]
           ELSE AfterVideo(@, @.clean)]
  BY DEF Count
<1> HIDE DEF level
<1>6. CASE level >= 1
  <2> DEFINE r == [job[s] EXCEPT !.pc = "warn", !.level = level]
  <2>1. level \in Level
    BY <1>4, <1>6 DEF Level
  <2>2. r \in Job
    BY <1>2, <2>1, JobFacts, ZenonT(60) DEF Job
  <2>3. job' = [job EXCEPT ![s] = r]
    BY <1>5, <1>6
  <2>4. job' \in [Sweep -> Job] /\ job'[s] = r
        /\ \A t \in Sweep \ {s} : job'[t] = job[t]
    BY <2>2, <2>3, JobFacts
  <2>5. Keeps(s) /\ job'[s].pc = "warn" /\ job'[s].clean = job[s].clean
        /\ job'[s].crossings = job[s].crossings /\ job'[s].level = level
        /\ job'[s].crossing = job[s].crossing /\ job'[s].event = job[s].event
    BY <2>4, JobFacts DEF Keeps, Job
  <2> QED
    BY <1>1, <1>2, <1>4, <2>1, <2>5, OnwardType
<1>7. CASE ~ level >= 1
  <2>1. job' = [job EXCEPT ![s] = AfterVideo(@, job[s].clean)]
    BY <1>5, <1>7
  <2> QED
    BY <1>1, <1>2, <2>1, LeaveType, JobFacts
<1> QED
  BY <1>6, <1>7

LEMMA ClaimWarningType ==
  ASSUME WellFormed, NEW s \in Sweep, ClaimWarning(s)
  PROVE  /\ WellFormed' /\ WarningOf(s) \in Creators \X Level
         /\ \/ /\ warning[WarningOf(s)] = "none" /\ Keeps(s)
               /\ job'[s].pc = "send" /\ job'[s].level = job[s].level
               /\ job'[s].clean = job[s].clean
               /\ warning' = [warning EXCEPT ![WarningOf(s)] = "pending"]
            \/ warning' = warning /\ Becomes(s, AfterVideo(job[s], job[s].clean))
<1>1. job[s].pc = "warn" /\ job[s].pc \in OnVideo /\ job[s].pc \in OnWarning
      /\ "send" \in Polled
  BY DEF ClaimWarning, OnVideo, OnWarning, Polled
<1>2. WarningOf(s) \in Creators \X Level
  BY <1>1, WarningKey
<1>3. UNCHANGED <<now, relay, cursor, decision, strikes, sent>>
      /\ warning' \in {warning, [warning EXCEPT ![WarningOf(s)] = "pending"]}
  BY DEF ClaimWarning
<1>4. SharedOK' /\ now' = now /\ arrived' = arrived /\ decision' = decision
  BY <1>2, <1>3 DEF WellFormed, SharedOK, relay, sent
<1>5. CASE warning[WarningOf(s)] = "none"
  <2>1. job' = [job EXCEPT ![s].pc = "send"]
        /\ warning' = [warning EXCEPT ![WarningOf(s)] = "pending"]
    BY <1>5 DEF ClaimWarning
  <2>2. Keeps(s) /\ job'[s].pc = "send" /\ job'[s].level = job[s].level
        /\ job'[s].clean = job[s].clean
        /\ job'[s].crossing = job[s].crossing /\ job'[s].event = job[s].event
    BY <1>1, <2>1, StayEffect
  <2> QED
    BY <1>1, <1>2, <1>4, <1>5, <2>1, <2>2, OnwardType
<1>6. CASE warning[WarningOf(s)] # "none"
  <2>1. job' = [job EXCEPT ![s] = AfterVideo(@, job[s].clean)] /\ warning' = warning
    BY <1>6 DEF ClaimWarning
  <2> QED
    BY <1>1, <1>2, <1>4, <2>1, LeaveType, JobFacts
<1> QED
  BY <1>5, <1>6

LEMMA SendType ==
  ASSUME WellFormed, NEW s \in Sweep, Send(s)
  PROVE  /\ WellFormed' /\ Keeps(s) /\ WarningOf(s) \in Creators \X Level
         /\ job'[s].pc = "settle" /\ job'[s].level = job[s].level
         /\ job'[s].clean = job[s].clean
         /\ delivered' \in {delivered, [delivered EXCEPT ![WarningOf(s)] = @ + 1]}
         /\ job'[s].dm = "definitive" => delivered' = delivered
<1> DEFINE received == [delivered EXCEPT ![WarningOf(s)] = @ + 1]
<1>1. job[s].pc = "send" /\ job[s].pc \in OnVideo /\ job[s].pc \in OnWarning
      /\ "settle" \in Polled
  BY DEF Send, OnVideo, OnWarning, Polled
<1>2. WarningOf(s) \in Creators \X Level
  BY <1>1, WarningKey
<1>3. PICK dm \in {"sent", "definitive", "ambiguous"} :
           /\ dm = "sent" => delivered' = received
           /\ dm = "definitive" => UNCHANGED delivered
           /\ dm = "ambiguous" => delivered' \in {delivered, received}
           /\ job' = [job EXCEPT ![s].pc = "settle", ![s].dm = dm]
  BY DEF Send
<1>4. delivered' \in {delivered, received}
      /\ UNCHANGED <<now, relay, cursor, db, labels>>
  BY <1>3 DEF Send
<1>5. SharedOK' /\ now' = now /\ arrived' = arrived /\ decision' = decision
  BY <1>2, <1>4 DEF WellFormed, SharedOK, relay, db
<1> DEFINE r == [job[s] EXCEPT !.pc = "settle", !.dm = dm]
<1>6. r \in Job
  BY <1>1, JobFacts, ZenonT(60) DEF Job
<1>7. job' = [job EXCEPT ![s] = r]
  BY <1>3, JobFacts DEF Job
<1>8. job' \in [Sweep -> Job] /\ job'[s] = r /\ \A t \in Sweep \ {s} : job'[t] = job[t]
  BY <1>6, <1>7, JobFacts
<1>9. Keeps(s) /\ job'[s].pc = "settle" /\ job'[s].level = job[s].level /\ job'[s].dm = dm
      /\ job'[s].clean = job[s].clean
      /\ job'[s].crossing = job[s].crossing /\ job'[s].event = job[s].event
  BY <1>8, JobFacts DEF Keeps, Job
<1>10. WellFormed'
  BY <1>1, <1>5, <1>9, OnwardType
<1> QED
  BY <1>2, <1>3, <1>4, <1>9, <1>10

LEMMA SettleType ==
  ASSUME WellFormed, NEW s \in Sweep, Settle(s)
  PROVE  /\ WellFormed' /\ WarningOf(s) \in Creators \X Level
         /\ \/ warning' = warning
            \/ warning' = [warning EXCEPT ![WarningOf(s)] = "sent"]
            \/ /\ job[s].dm = "definitive"
               /\ warning' = [warning EXCEPT ![WarningOf(s)] = "none"]
         /\ \E clean \in {job[s].clean, FALSE} : Becomes(s, AfterVideo(job[s], clean))
<1>1. job[s].pc = "settle" /\ job[s].pc \in OnVideo /\ job[s].pc \in OnWarning
  BY DEF Settle, OnVideo, OnWarning
<1>2. WarningOf(s) \in Creators \X Level
  BY <1>1, WarningKey
<1>3. warning \in [Creators \X Level -> {"none", "pending", "sent"}]
  BY DEF WellFormed, SharedOK
<1>4. \/ warning' = warning
      \/ warning' = [warning EXCEPT ![WarningOf(s)] = "sent"]
      \/ /\ job[s].dm = "definitive"
         /\ warning' = [warning EXCEPT ![WarningOf(s)] = "none"]
  BY <1>2, <1>3 DEF Settle
<1>5. UNCHANGED <<now, relay, cursor, decision, strikes, sent>>
  BY DEF Settle
<1>6. SharedOK' /\ now' = now /\ arrived' = arrived /\ decision' = decision
  BY <1>2, <1>4, <1>5 DEF WellFormed, SharedOK, relay, sent
<1>7. PICK clean \in {job[s].clean, FALSE} : job' = [job EXCEPT ![s] = AfterVideo(@, clean)]
  BY DEF Settle
<1>8. clean \in BOOLEAN
  BY JobFacts
<1>9. WellFormed' /\ Becomes(s, AfterVideo(job[s], clean))
  BY <1>1, <1>6, <1>7, <1>8, LeaveType
<1> QED
  BY <1>2, <1>4, <1>9

\* Steps outside the loop over videos.
LEMMA RestartEffect ==
  ASSUME WellFormed, NEW s \in Sweep, SharedOK', now' = now, arrived' = arrived,
         decision' = decision, job' = [job EXCEPT ![s] = Idle]
  PROVE  WellFormed' /\ Becomes(s, Idle)
<1>1. Becomes(s, Idle)
  BY IdleType, BecomesRule DEF WellFormed
<1>2. Idle.pc = "idle" /\ Idle.started = 0 /\ Idle.since = 0 /\ Idle.page = {}
      /\ Idle.todo = <<>>
  BY DEF Idle
<1>3. job'[s] = Idle /\ Idle \in Job /\ <<>> \in Seq(Touched({}))
  BY <1>1, IdleType, EmptySeq DEF Becomes
<1>4. "idle" \notin {"poll"} \cup Polled /\ "idle" \notin OnVideo
      /\ "idle" \notin OnCrossing /\ "idle" \notin OnWarning
  BY DEF Polled, OnVideo, OnCrossing, OnWarning
<1>5. now \in Nat /\ now' \in Nat
  BY SweepAssumption DEF WellFormed, SharedOK
<1>6. Touched(job[s].page)' = Touched({})
  BY <1>2, <1>3 DEF Touched
<1> HIDE DEF Idle
<1>7. JobOK(s)'
  <2>1. job'[s].todo \in Seq(Touched(job'[s].page))
    BY <1>2, <1>3, <1>6
  <2>2. job'[s].started <= now' /\ job'[s].since <= now' /\ job'[s].page \subseteq arrived'
    BY <1>2, <1>3, <1>5
  <2>3. job'[s] \in Job
    BY <1>3
  <2> QED
    BY <1>2, <1>3, <1>4, <2>1, <2>2, <2>3 DEF JobOK
<1> QED
  BY <1>1, <1>5, <1>7, StepOK DEF Becomes

LEMMA BeginType ==
  ASSUME WellFormed, NEW s \in Sweep, Begin(s)
  PROVE  WellFormed' /\ Becomes(s, [Idle EXCEPT !.pc = "cursor", !.started = now])
<1> DEFINE r == [Idle EXCEPT !.pc = "cursor", !.started = now]
<1>1. now \in Nat /\ now >= 1
  BY SweepAssumption DEF WellFormed, SharedOK
<1>2. r \in Job
  BY <1>1, IdleType DEF Job
<1>3. Becomes(s, r)
  BY <1>2, BecomesRule DEF Begin, WellFormed
<1>4. r.pc = "cursor" /\ r.started = now /\ r.since = 0 /\ r.page = {} /\ r.todo = <<>>
  BY DEF Idle
<1> HIDE DEF r
<1>5. job'[s] = r /\ <<>> \in Seq(Touched({}))
  BY <1>3, EmptySeq DEF Becomes
<1>6. "cursor" \notin {"poll"} \cup Polled /\ "cursor" \notin OnVideo
      /\ "cursor" \notin OnCrossing /\ "cursor" \notin OnWarning
  BY DEF Polled, OnVideo, OnCrossing, OnWarning
<1>7. Touched(job[s].page)' = Touched({})
  BY <1>4, <1>5 DEF Touched
<1>8. SharedOK' /\ now' = now /\ arrived' = arrived /\ decision' = decision
  BY SharedSame DEF Begin
<1>9. JobOK(s)'
  <2>1. job'[s].todo \in Seq(Touched(job'[s].page))
    BY <1>4, <1>5, <1>7
  <2>2. job'[s].started <= now' /\ job'[s].since <= now' /\ job'[s].page \subseteq arrived'
    BY <1>1, <1>4, <1>5, <1>8
  <2>3. job'[s] \in Job /\ job'[s].started >= 1
    BY <1>1, <1>2, <1>4, <1>5
  <2> QED
    BY <1>4, <1>5, <1>6, <2>1, <2>2, <2>3 DEF JobOK
<1>10. WellFormed'
  BY <1>1, <1>3, <1>8, <1>9, StepOK DEF Becomes
<1> QED
  BY <1>3, <1>10 DEF r

LEMMA ReadCursorType ==
  ASSUME WellFormed, NEW s \in Sweep, ReadCursor(s)
  PROVE  WellFormed' /\ Becomes(s, [job[s] EXCEPT !.pc = "poll", !.since = cursor])
<1> DEFINE r == [job[s] EXCEPT !.pc = "poll", !.since = cursor]
<1>1. now \in Nat /\ now >= 1 /\ cursor \in Nat /\ cursor >= 1 /\ cursor <= now
  BY SweepAssumption DEF WellFormed, SharedOK
<1>2. r \in Job
  BY <1>1, JobFacts, ZenonT(60) DEF Job
<1>3. job' = [job EXCEPT ![s] = r]
  BY JobFacts DEF ReadCursor, Job
<1>4. Becomes(s, r)
  BY <1>2, <1>3, BecomesRule DEF WellFormed
<1>5. r.pc = "poll" /\ r.started = job[s].started /\ r.since = cursor
      /\ r.page = job[s].page /\ r.todo = job[s].todo
  BY JobFacts DEF Job
<1> HIDE DEF r
<1>6. job'[s] = r
  BY <1>4 DEF Becomes
<1>7. "poll" \notin OnVideo /\ "poll" \notin OnCrossing /\ "poll" \notin OnWarning
  BY DEF OnVideo, OnCrossing, OnWarning
<1>8. Touched(job[s].page)' = Touched(job[s].page)
  BY <1>5, <1>6 DEF Touched
<1>9. SharedOK' /\ now' = now /\ arrived' = arrived /\ decision' = decision
  BY SharedSame DEF ReadCursor
<1>10. JobOK(s) /\ job[s].pc = "cursor"
  BY DEF WellFormed, ReadCursor
<1>11. JobOK(s)'
  BY <1>1, <1>2, <1>5, <1>6, <1>7, <1>8, <1>9, <1>10 DEF JobOK
<1>12. WellFormed'
  BY <1>1, <1>4, <1>9, <1>11, StepOK DEF Becomes
<1> QED
  BY <1>4, <1>12 DEF r

\* What a sweep takes from its poll.
LEMMA PolledJob ==
  ASSUME NEW j \in Job, NEW p \in Polled, NEW page \in SUBSET Vote, NEW full \in BOOLEAN,
         NEW batch \in Seq(Video), NEW held \in SUBSET Nat
  PROVE  [j EXCEPT !.pc = p, !.page = page, !.full = full, !.todo = batch,
                   !.held = held] \in Job
  BY DEF Job

\* Polling: the batch is a sequence of touched videos, and every touched
\* video is in the batch or holds the watermark.
LEMMA PollType ==
  ASSUME WellFormed, NEW s \in Sweep, Poll(s)
  PROVE  /\ WellFormed'
         /\ job' \in [Sweep -> Job] /\ \A t \in Sweep \ {s} : job'[t] = job[t]
         /\ job'[s].pc \in {"finish", "fetch"}
         /\ job'[s].since = job[s].since /\ job'[s].started = job[s].started
         /\ job'[s].page \in Pages(job[s].since) /\ job'[s].full \in BOOLEAN
         /\ job'[s].page # VotesFrom(job[s].since) => job'[s].full
         /\ job'[s].pc = "finish" => job'[s].todo = <<>>
         /\ \A v \in Touched(job'[s].page) :
              \/ \E i \in 1..Len(job'[s].todo) : job'[s].todo[i] = v
              \/ EarliestIn(job'[s].page, v) \in job'[s].held
<1>1. PICK page \in Pages(job[s].since), full \in BOOLEAN :
       /\ page # VotesFrom(job[s].since) => full
       /\ \E q \in Targets(page) :
            LET batch == SubSeq(q, 1, Min({BatchLimit, Len(q)}))
                deferred == SubSeq(q, BatchLimit + 1, Len(q))
            IN  job' = [job EXCEPT ![s].pc = IF batch = <<>> THEN "finish" ELSE "fetch",
                                   ![s].page = page, ![s].full = full, ![s].todo = batch,
                                   ![s].held = {EarliestIn(page, v) : v \in Range(deferred)}]
  BY DEF Poll
<1>2. PICK q \in Targets(page) :
            LET batch == SubSeq(q, 1, Min({BatchLimit, Len(q)}))
                deferred == SubSeq(q, BatchLimit + 1, Len(q))
            IN  job' = [job EXCEPT ![s].pc = IF batch = <<>> THEN "finish" ELSE "fetch",
                                   ![s].page = page, ![s].full = full, ![s].todo = batch,
                                   ![s].held = {EarliestIn(page, v) : v \in Range(deferred)}]
  BY <1>1
<1> DEFINE m == IF BatchLimit <= Len(q) THEN BatchLimit ELSE Len(q)
           batch == SubSeq(q, 1, Min({BatchLimit, Len(q)}))
           deferred == SubSeq(q, BatchLimit + 1, Len(q))
           held == {EarliestIn(page, v) : v \in Range(deferred)}
           p == IF batch = <<>> THEN "finish" ELSE "fetch"
           r == [job[s] EXCEPT !.pc = p, !.page = page, !.full = full, !.todo = batch,
                               !.held = held]
<1>3. /\ SharedOK' /\ now' = now /\ arrived' = arrived /\ decision' = decision
      /\ \A k \in Key : decision[k] \in Decision => decision'[k] \in Decision
  BY SharedSame DEF Poll
<1>4. SharedOK /\ JobOK(s) /\ job[s].pc = "poll" /\ now \in Nat
  <2>1. SharedOK /\ JobOK(s) /\ job[s].pc = "poll"
    BY DEF WellFormed, Poll
  <2> QED
    BY <2>1, SweepAssumption DEF SharedOK
<1>5. page \in SUBSET Vote /\ page \subseteq arrived
  BY <1>4 DEF Pages, VotesFrom, SharedOK
<1>6. IsFiniteSet(Touched(page)) /\ Touched(page) \subseteq Video
  <2>1. IsFiniteSet(page) /\ page \subseteq DOMAIN VideoOf
    BY <1>5, FinitenessAssumption, SweepAssumption, FS_Subset
  <2> QED
    BY <1>5, <2>1, ImageFinite, SweepAssumption DEF Touched
<1>7. q \in SetToSeqs(Touched(page))
  BY DEF Targets, Touched
<1>8. q \in Seq(Touched(page)) /\ Len(q) \in Nat
      /\ \A v \in Touched(page) : \E i \in 1..Len(q) : q[i] = v
  BY <1>6, <1>7, Permutation, LenProperties
<1>9. BatchLimit \in Nat /\ BatchLimit >= 1 /\ m \in Nat /\ m <= Len(q) /\ m <= BatchLimit
      /\ m = Min({BatchLimit, Len(q)})
  <2> DEFINE n == Len(q)
  <2>1. BatchLimit \in Int /\ n \in Int /\ BatchLimit >= 1 /\ n >= 0
    BY <1>8, SweepAssumption
  <2> HIDE DEF n
  <2>2. Min({BatchLimit, n}) = IF BatchLimit <= n THEN BatchLimit ELSE n
    BY <2>1, MinPair
  <2>3. m = IF BatchLimit <= n THEN BatchLimit ELSE n
    BY DEF n
  <2>4. m \in Nat /\ m <= n /\ m <= BatchLimit
    BY <2>1, <2>3
  <2> QED
    BY <2>1, <2>2, <2>3, <2>4 DEF n
<1>10. \A i \in 1..Len(q) : q[i] \in Touched(page)
  BY <1>8, ElementOfSeq
<1>11. batch \in Seq(Touched(page)) /\ Len(batch) = m /\ \A i \in 1..m : batch[i] = q[i]
  <2>1. \A i \in 1..m : q[i] \in Touched(page)
    BY <1>8, <1>9, <1>10
  <2>2. m \in Nat /\ batch = SubSeq(q, 1, m)
    BY <1>9
  <2> HIDE DEF m, batch
  <2> QED
    BY <2>1, <2>2, Prefix
<1>12. ASSUME NEW i \in 1..Len(q), i > m PROVE q[i] \in Range(deferred)
  <2>1. m = BatchLimit
    BY <1>8, <1>9, <1>12
  <2>2. \A j \in (BatchLimit + 1)..Len(q) : q[j] \in Touched(page)
    BY <1>8, <1>9, <1>10
  <2>3. /\ deferred \in Seq(Touched(page))
        /\ Len(deferred) = IF BatchLimit + 1 <= Len(q) THEN Len(q) - (BatchLimit + 1) + 1 ELSE 0
        /\ \A j \in 1..(Len(q) - (BatchLimit + 1) + 1) :
             deferred[j] = q[BatchLimit + 1 + j - 1]
    BY <1>8, <1>9, <2>2, SubSeqProperties, SMTT(30)
  <2> DEFINE d == deferred
  <2> HIDE DEF d
  <2>4. DOMAIN d = 1..Len(d)
    BY <2>3, LenProperties DEF d
  <2>5. i - BatchLimit \in 1..Len(d) /\ d[i - BatchLimit] = q[i]
    <3> DEFINE n == Len(q)
    <3>1. n \in Nat /\ i \in 1..n /\ i > BatchLimit /\ BatchLimit \in Nat
      BY <1>8, <1>9, <1>12, <2>1
    <3>2. /\ Len(d) = IF BatchLimit + 1 <= n THEN n - (BatchLimit + 1) + 1 ELSE 0
          /\ \A j \in 1..(n - (BatchLimit + 1) + 1) : d[j] = q[BatchLimit + 1 + j - 1]
      BY <2>3 DEF d
    <3> HIDE DEF n
    <3>3. Len(d) = n - BatchLimit /\ i - BatchLimit \in 1..(n - (BatchLimit + 1) + 1)
          /\ BatchLimit + 1 + (i - BatchLimit) - 1 = i
      BY <3>1, <3>2
    <3>4. d[i - BatchLimit] = q[BatchLimit + 1 + (i - BatchLimit) - 1]
      BY <3>2, <3>3
    <3> QED
      BY <3>1, <3>3, <3>4
  <2> QED
    BY <2>4, <2>5 DEF Range, d
<1>13. held \in SUBSET Nat
  <2>1. \A j \in (BatchLimit + 1)..Len(q) : q[j] \in Touched(page)
    BY <1>8, <1>9, <1>10
  <2>2. deferred \in Seq(Touched(page))
    BY <1>8, <1>9, <2>1, SubSeqProperties
  <2> DEFINE d == deferred
  <2> HIDE DEF d
  <2>3. Range(d) \subseteq Touched(page)
    <3>1. d \in Seq(Touched(page))
      BY <2>2 DEF d
    <3>2. DOMAIN d = 1..Len(d)
      BY <3>1, LenProperties
    <3>3. \A j \in 1..Len(d) : d[j] \in Touched(page)
      BY <3>1, ElementOfSeq
    <3> QED
      BY <3>2, <3>3 DEF Range
  <2>4. \A v \in Touched(page) : EarliestIn(page, v) \in Nat
    BY <1>4, <1>5, EarliestVote
  <2> QED
    BY <2>3, <2>4 DEF d
<1>14. job' = [job EXCEPT ![s].pc = p, ![s].page = page, ![s].full = full,
                          ![s].todo = batch, ![s].held = held]
  BY <1>2
<1>15. p \in {"finish", "fetch"} /\ p \in Polled /\ p # "poll" /\ p \notin OnCrossing
       /\ p \notin OnWarning /\ (p \in OnVideo => batch # <<>>)
       /\ (p = "finish" => batch = <<>>)
  BY DEF Polled, OnVideo, OnCrossing, OnWarning
<1>16. batch \in Seq(Video)
  BY <1>6, <1>11, SeqMonotonic
<1>17. \A v \in Touched(page) :
         (\E i \in 1..Len(batch) : batch[i] = v) \/ EarliestIn(page, v) \in held
  <2> SUFFICES ASSUME NEW v \in Touched(page)
               PROVE  (\E i \in 1..Len(batch) : batch[i] = v) \/ EarliestIn(page, v) \in held
    OBVIOUS
  <2>1. PICK i \in 1..Len(q) : q[i] = v
    BY <1>8
  <2>2. CASE i <= m
    BY <1>9, <1>11, <2>1, <2>2
  <2>3. CASE i > m
    BY <1>12, <2>1, <2>3
  <2>4. i \in Int /\ m \in Int
    BY <1>8, <1>9
  <2>5. i <= m \/ i > m
    BY <2>4
  <2> QED
    BY <2>2, <2>3, <2>5
<1> HIDE DEF p, batch, held, r
<1>18. r \in Job
  <2>1. job[s] \in Job /\ p \in Polled /\ batch \in Seq(Video)
    BY <1>15, <1>16, JobFacts
  <2>2. page \in SUBSET Vote /\ held \in SUBSET Nat
    BY <1>5, <1>13
  <2> QED
    BY <2>1, <2>2, PolledJob DEF r
<1>19. job' = [job EXCEPT ![s] = r]
  BY <1>14, JobFacts DEF Job, r
<1>20. Becomes(s, r)
  BY <1>18, <1>19, BecomesRule DEF WellFormed
<1>21. job'[s] = r /\ r.pc = p /\ r.page = page /\ r.full = full /\ r.todo = batch
       /\ r.held = held /\ r.since = job[s].since /\ r.started = job[s].started
  BY <1>20, JobFacts DEF Job, r, Becomes
<1>22. JobOK(s)'
  <2>1. job'[s].todo \in Seq(Touched(job'[s].page))
    BY <1>11, <1>21 DEF batch
  <2>2. job'[s].started <= now' /\ job'[s].since <= now' /\ job'[s].page \subseteq arrived'
        /\ job'[s].since >= 1 /\ job'[s].started >= 1 /\ job'[s] \in Job
    BY <1>3, <1>4, <1>5, <1>18, <1>21 DEF JobOK
  <2>3. job'[s].pc \notin {"publish", "confirm"}
    BY <1>15, <1>21
  <2> QED
    BY <1>15, <1>21, <2>1, <2>2, <2>3 DEF JobOK
<1>23. now <= now'
  BY <1>3, <1>4
<1>24. WellFormed'
  BY <1>3, <1>20, <1>22, <1>23, StepOK DEF Becomes
<1>25. \A v \in Touched(job'[s].page) :
         \/ \E i \in 1..Len(job'[s].todo) : job'[s].todo[i] = v
         \/ EarliestIn(job'[s].page, v) \in job'[s].held
  BY <1>17, <1>21
<1>26. job'[s].page # VotesFrom(job[s].since) => job'[s].full
  BY <1>1, <1>21
<1> QED
  BY <1>1, <1>15, <1>20, <1>21, <1>24, <1>25, <1>26 DEF Becomes

\* What a finishing sweep stores: never less than it began from, never more
\* than its start, and behind every vote it holds.
LEMMA Watermark ==
  ASSUME WellFormed, NEW s \in Sweep, Finish(s)
  PROVE  /\ cursor' \in Nat /\ cursor' >= job[s].since
         /\ cursor' > job[s].since =>
              /\ ~job[s].full /\ cursor' <= job[s].started
              /\ \A h \in job[s].held : cursor' < h
         /\ cursor' = job[s].since \/ cursor' <= job[s].started
<1> DEFINE since == job[s].since
           started == job[s].started
           held == job[s].held
           ceiling == IF job[s].full THEN since ELSE started
           watermark == IF held = {} THEN ceiling ELSE Min({Min(held) - 1, ceiling})
<1>1. since \in Nat /\ started \in Nat /\ held \subseteq Nat
  BY JobFacts DEF Job
<1>2. cursor' = Max({watermark, since})
  BY DEF Finish
<1> HIDE DEF since, started, held
<1>3. ceiling \in Nat /\ (ceiling > since => ~job[s].full /\ ceiling = started)
  BY <1>1
<1> HIDE DEF ceiling
<1>4. watermark \in Int /\ watermark <= ceiling /\ \A h \in held : watermark < h
  <2>1. CASE held = {}
    BY <1>3, <2>1
  <2>2. CASE held # {}
    <3>1. Min(held) \in Nat /\ \A h \in held : Min(held) <= h
      BY <1>1, <2>2, MinNat
    <3> DEFINE n == Min(held) - 1
    <3>2. n \in Int /\ ceiling \in Int /\ \A h \in held : n < h
      BY <1>1, <1>3, <3>1
    <3>3. watermark = Min({n, ceiling})
      BY <2>2
    <3> HIDE DEF n, watermark
    <3>4. Min({n, ceiling}) = IF n <= ceiling THEN n ELSE ceiling
      BY <3>2, MinPair
    <3>5. \A h \in held : h \in Int
      BY <1>1
    <3> QED
      BY <3>2, <3>3, <3>4, <3>5
  <2> QED
    BY <2>1, <2>2
<1> HIDE DEF watermark
<1>5. cursor' = IF watermark >= since THEN watermark ELSE since
  <2>1. watermark \in Int /\ since \in Int
    BY <1>1, <1>4
  <2> QED
    BY <1>2, <2>1, MaxPair
<1>6. cursor' \in Nat /\ cursor' >= since
  BY <1>1, <1>4, <1>5
<1>7. cursor' > since => /\ ~job[s].full /\ cursor' <= started
                         /\ \A h \in held : cursor' < h
  BY <1>1, <1>3, <1>4, <1>5
<1>8. cursor' = since \/ cursor' <= started
  BY <1>1, <1>6, <1>7
<1> QED
  BY <1>6, <1>7, <1>8 DEF since, started, held

LEMMA FinishType ==
  ASSUME WellFormed, NEW s \in Sweep, Finish(s)
  PROVE  WellFormed' /\ Becomes(s, Idle)
<1>1. UNCHANGED <<now, relay, db, sent>> /\ job[s].pc = "finish"
      /\ job' = [job EXCEPT ![s] = Idle]
  BY DEF Finish
<1>2. JobOK(s) /\ job[s].since \in Nat /\ job[s].started \in Nat /\ now \in Nat
  BY JobFacts, SweepAssumption DEF WellFormed, SharedOK
<1>3. job[s].since >= 1 /\ job[s].since <= now /\ job[s].started <= now
  BY <1>1, <1>2 DEF JobOK, Polled
<1>4. cursor' \in 1..now
  BY <1>2, <1>3, Watermark
<1>5. SharedOK' /\ now' = now /\ arrived' = arrived /\ decision' = decision
  BY <1>1, <1>4 DEF WellFormed, SharedOK, relay, db, sent
<1> QED
  BY <1>1, <1>5, RestartEffect

LEMMA CrashType ==
  ASSUME WellFormed, NEW s \in Sweep, Crash(s)
  PROVE  WellFormed' /\ Becomes(s, Idle)
<1>1. SharedOK' /\ now' = now /\ arrived' = arrived /\ decision' = decision
  BY SharedSame DEF Crash
<1> QED
  BY <1>1, RestartEffect DEF Crash

\* Steps of the world around the sweeps, and stuttering.
LEMMA OutsideType ==
  ASSUME WellFormed, SharedOK', job' = job, decision' = decision, now <= now',
         arrived \subseteq arrived'
  PROVE  WellFormed'
<1>1. \A t \in Sweep : JobOK(t)'
  BY FrameOK
<1> QED
  BY <1>1 DEF WellFormed

LEMMA SignType ==
  ASSUME WellFormed, NEW x \in Vote, Sign(x)
  PROVE  WellFormed' /\ at'[x] = now /\ \A y \in Vote \ {x} : at'[y] = at[y]
<1>1. SharedOK /\ now \in Nat /\ now >= 1
  BY SweepAssumption DEF WellFormed, SharedOK
<1>2. at' = [at EXCEPT ![x] = now] /\ at[x] = 0
      /\ UNCHANGED <<now, arrived, gone, late, cursor, db, sent, job>>
  BY DEF Sign
<1>3. at \in [Vote -> 0..now]
  BY <1>1 DEF SharedOK
<1>4. at' \in [Vote -> 0..now] /\ at'[x] = now /\ \A y \in Vote \ {x} : at'[y] = at[y]
  BY <1>1, <1>2, <1>3
<1>5. \A y \in Vote : at[y] > 0 => at'[y] > 0
  BY <1>1, <1>2, <1>4
<1>6. SharedOK'
  BY <1>1, <1>2, <1>4, <1>5 DEF SharedOK, db, sent
<1>7. WellFormed'
  BY <1>1, <1>2, <1>6, OutsideType DEF db
<1> QED
  BY <1>4, <1>7

LEMMA ArriveType ==
  ASSUME WellFormed, NEW x \in Vote, Arrive(x)
  PROVE  WellFormed'
<1>1. SharedOK /\ now \in Nat
  BY SweepAssumption DEF WellFormed, SharedOK
<1>2. at[x] > 0 /\ arrived' = arrived \cup {x} /\ late' \in {late, late \cup {x}}
      /\ UNCHANGED <<now, at, gone, cursor, db, sent, job>>
  BY DEF Arrive
<1>3. SharedOK'
  BY <1>1, <1>2 DEF SharedOK, db, sent
<1> QED
  BY <1>1, <1>2, <1>3, OutsideType DEF db

LEMMA DeleteVideoType ==
  ASSUME WellFormed, NEW v \in Video, DeleteVideo(v)
  PROVE  WellFormed'
<1>1. SharedOK /\ now \in Nat
  BY SweepAssumption DEF WellFormed, SharedOK
<1>2. gone' = gone \cup {v} /\ UNCHANGED <<now, at, arrived, late, cursor, db, sent, job>>
  BY DEF DeleteVideo
<1>3. SharedOK'
  BY <1>1, <1>2 DEF SharedOK, db, sent
<1> QED
  BY <1>1, <1>2, <1>3, OutsideType DEF db

LEMMA TickType ==
  ASSUME WellFormed, Tick
  PROVE  WellFormed' /\ now' = now + 1
<1>1. SharedOK /\ now \in Nat
  BY SweepAssumption DEF WellFormed, SharedOK
<1>2. now' = now + 1 /\ now <= MaxTime /\ UNCHANGED <<relay, cursor, db, sent, job>>
  BY DEF Tick
<1>3. SharedOK'
  BY <1>1, <1>2, SweepAssumption DEF SharedOK, relay, db, sent
<1> QED
  BY <1>1, <1>2, <1>3, OutsideType DEF relay, db

LEMMA StutterType ==
  ASSUME WellFormed, UNCHANGED vars
  PROVE  WellFormed'
<1>1. now \in Nat
  BY SweepAssumption DEF WellFormed, SharedOK
<1>2. SharedOK'
  BY DEF WellFormed, SharedOK, vars
<1> QED
  BY <1>1, <1>2, OutsideType DEF vars

LEMMA InitOK == Init => WellFormed
<1> SUFFICES ASSUME Init PROVE WellFormed
  OBVIOUS
<1>1. SharedOK
  BY SweepAssumption DEF Init, SharedOK
<1>2. job \in [Sweep -> Job] /\ \A s \in Sweep : job[s] = Idle
  BY IdleType DEF Init
<1>3. ASSUME NEW s \in Sweep PROVE JobOK(s)
  <2>1. job[s] = Idle /\ job[s] \in Job /\ now = 1 /\ <<>> \in Seq(Touched({}))
    BY <1>2, IdleType, EmptySeq DEF Init
  <2>2. Idle.pc = "idle" /\ Idle.started = 0 /\ Idle.since = 0 /\ Idle.page = {}
        /\ Idle.todo = <<>>
    BY DEF Idle
  <2> HIDE DEF Idle
  <2> QED
    BY <2>1, <2>2 DEF JobOK, Polled, OnVideo, OnCrossing, OnWarning
<1> QED
  BY <1>1, <1>2, <1>3 DEF WellFormed

LEMMA WellFormedStep == WellFormed /\ [Next]_vars => WellFormed'
<1> SUFFICES ASSUME WellFormed, [Next]_vars PROVE WellFormed'
  OBVIOUS
<1>1. ASSUME NEW x \in Vote, Sign(x) \/ Arrive(x) PROVE WellFormed'
  BY <1>1, SignType, ArriveType
<1>2. ASSUME NEW v \in Video, DeleteVideo(v) PROVE WellFormed'
  BY <1>2, DeleteVideoType
<1>3. CASE Tick
  BY <1>3, TickType
<1>4. ASSUME NEW s \in Sweep, Works(s) PROVE WellFormed'
  BY <1>4, BeginType, ReadCursorType, CheckType, ClaimType, ConfirmType, StrikeType,
     CountType, ClaimWarningType, SendType, SettleType, FinishType DEF Works
<1>5. ASSUME NEW s \in Sweep,
             \/ Poll(s) \/ Fetch(s) \/ Publish(s)
             \/ BuildFails(s) \/ StrikeThrows(s) \/ Throws(s) \/ Crash(s)
      PROVE  WellFormed'
  BY <1>5, PollType, FetchType, PublishType, BuildFailsType, StrikeType, ThrowsType,
     CrashType
<1>6. CASE UNCHANGED vars
  BY <1>6, StutterType
<1> QED
  BY <1>1, <1>2, <1>3, <1>4, <1>5, <1>6 DEF Next

\* In every reachable state, every variable of the sweep, its tables and the
\* relay has its type.
THEOREM TypeCorrect == Spec => []TypeOK
<1>1. Spec => []WellFormed
  BY InitOK, WellFormedStep, PTL DEF Spec
<1> QED
  BY <1>1, WellFormedType, PTL

-----------------------------------------------------------------------------
(* Labels and strikes.  A decision is made once and its event never        *)
(* changes; whatever a sweep publishes is the event of the decision.       *)

DecisionsOK ==
  /\ \A p \in labels : decision[p[1]] \in Decision /\ decision[p[1]].event = p[2]
  /\ \A k \in Key : Confirmed(k) => <<k, decision[k].event>> \in labels
  /\ \A k \in strikes : Confirmed(k) /\ k[2] \notin SelfLabels[k[1]]

PublishingOK(s) ==
  /\ job[s].pc \in {"publish", "confirm"} => job[s].event = decision[KeyOf(s)].event
  /\ job[s].pc = "confirm" => <<KeyOf(s), job[s].event>> \in labels
  /\ job[s].pc = "strike" => Confirmed(KeyOf(s))

LabelInv == WellFormed /\ DecisionsOK /\ \A s \in Sweep : PublishingOK(s)

\* Decisions stand.
DecisionsGrow ==
  \A k \in Key : decision[k] \in Decision =>
    /\ decision'[k] \in Decision /\ decision'[k].event = decision[k].event
    /\ Confirmed(k) => Confirmed(k)'

LEMMA LabelProperties == LabelInv => LabelledOnce /\ StrikesAccountedFor
<1> SUFFICES ASSUME LabelInv PROVE LabelledOnce /\ StrikesAccountedFor
  OBVIOUS
<1>1. labels \subseteq Key \X Event /\ strikes \subseteq Key
  BY DEF LabelInv, WellFormed, SharedOK
<1>2. LabelledOnce
  BY <1>1 DEF LabelInv, DecisionsOK, LabelledOnce
<1>3. StrikesAccountedFor
  BY <1>1 DEF LabelInv, DecisionsOK, StrikesAccountedFor
<1> QED
  BY <1>2, <1>3

LEMMA SameDecisions == decision' = decision => DecisionsGrow
  BY DEF DecisionsGrow, Confirmed

LEMMA PublishingFrame ==
  ASSUME LabelInv, NEW t \in Sweep, job'[t] = job[t], DecisionsGrow,
         labels \subseteq labels'
  PROVE  PublishingOK(t)'
<1>1. PublishingOK(t) /\ WellFormed /\ KeyOf(t)' = KeyOf(t)
  BY DEF LabelInv, KeyOf, Current
<1>2. CASE job[t].pc \in {"publish", "confirm"}
  <2>1. KeyOf(t) \in Key /\ decision[KeyOf(t)] \in Decision
    BY <1>1, <1>2, KeyOK DEF OnCrossing, WellFormed, JobOK
  <2>2. decision'[KeyOf(t)].event = decision[KeyOf(t)].event
    BY <2>1 DEF DecisionsGrow
  <2> QED
    BY <1>1, <1>2, <2>2 DEF PublishingOK
<1>3. CASE job[t].pc = "strike"
  <2>1. KeyOf(t) \in Key /\ Confirmed(KeyOf(t))
    BY <1>1, <1>3, KeyOK DEF OnCrossing, PublishingOK
  <2>2. decision[KeyOf(t)] \in Decision
    BY <1>1, <2>1 DEF Confirmed, WellFormed, SharedOK
  <2>3. Confirmed(KeyOf(t))'
    BY <1>1, <2>1, <2>2 DEF DecisionsGrow
  <2> QED
    BY <1>3, <2>3 DEF PublishingOK
<1> QED
  BY <1>2, <1>3 DEF PublishingOK

\* A step that publishes nothing, decides nothing and strikes nobody.
LEMMA NoLabelStep ==
  ASSUME LabelInv, WellFormed', UNCHANGED <<decision, labels, strikes>>,
         NEW s \in Sweep, \A t \in Sweep \ {s} : job'[t] = job[t],
         \/ job'[s] = job[s]
         \/ job'[s].pc \notin {"publish", "confirm", "strike"}
         \/ job'[s].pc = "strike" /\ Confirmed(KeyOf(s)')
  PROVE  LabelInv'
<1>1. DecisionsOK'
  BY DEF LabelInv, DecisionsOK, Confirmed
<1>2. \A t \in Sweep \ {s} : PublishingOK(t)'
  BY PublishingFrame, SameDecisions
<1>3. CASE job'[s] = job[s]
  BY <1>1, <1>2, <1>3, PublishingFrame, SameDecisions DEF LabelInv
<1>4. CASE job'[s].pc \notin {"publish", "confirm", "strike"}
  BY <1>1, <1>2, <1>4 DEF LabelInv, PublishingOK
<1>5. CASE job'[s].pc = "strike" /\ Confirmed(KeyOf(s)')
  <2>1. Confirmed(KeyOf(s))'
    BY <1>5 DEF Confirmed
  <2> QED
    BY <1>1, <1>2, <1>5, <2>1 DEF LabelInv, PublishingOK
<1> QED
  BY <1>3, <1>4, <1>5

LEMMA CheckLabels ==
  ASSUME LabelInv, NEW s \in Sweep, Check(s)
  PROVE  LabelInv'
<1>1. PICK c \in job[s].crossings :
              /\ job'[s].crossings = job[s].crossings \ {c} /\ job'[s].crossing = c
              /\ job'[s].pc = IF Confirmed(<<Current(s), c[1]>>) THEN "strike" ELSE "claim"
  BY CheckEffect DEF LabelInv
<1>2. WellFormed' /\ Keeps(s)
  BY CheckType, CheckEffect DEF LabelInv
<1>3. KeyOf(s)' = <<Current(s), c[1]>>
  BY <1>1, <1>2 DEF KeyOf, Current, Keeps
<1>4. UNCHANGED <<decision, labels, strikes>>
  BY DEF Check, db, sent
<1> QED
  BY <1>1, <1>2, <1>3, <1>4, NoLabelStep DEF Keeps

LEMMA ClaimLabels ==
  ASSUME LabelInv, NEW s \in Sweep, Claim(s)
  PROVE  LabelInv'
<1>1. WellFormed /\ WellFormed' /\ DecisionsOK
  BY ClaimType DEF LabelInv
<1>0. PICK k \in Key : k = KeyOf(s)
  BY <1>1, KeyOK DEF Claim, OnCrossing
<1>2. /\ Keeps(s) /\ job'[s].pc = "publish" /\ job'[s].crossing = job[s].crossing
      /\ decision'[k] \in Decision /\ job'[s].event = decision'[k].event
      /\ decision[k] # Nothing => decision' = decision
      /\ decision[k] = Nothing => decision'[k].status = "pending"
      /\ \A j \in Key \ {k} : decision'[j] = decision[j]
  BY <1>1, <1>0, ClaimEffect
<1>3. KeyOf(s)' = k
  BY <1>2, <1>0 DEF KeyOf, Current, Keeps
<1>4. labels' = labels /\ strikes' = strikes
  BY DEF Claim, sent
<1>5. decision[k] = Nothing => decision[k] \notin Decision
  BY NothingAssumption
<1>6. DecisionsGrow
  BY <1>2, <1>3, <1>5 DEF DecisionsGrow, Confirmed
<1>7. labels \subseteq Key \X Event /\ strikes \subseteq Key
      /\ decision \in [Key -> Decision \cup {Nothing}]
  BY <1>1 DEF WellFormed, SharedOK
<1>8. DecisionsOK'
  <2>1. CASE decision[k] # Nothing
    BY <1>1, <1>2, <1>4, <2>1 DEF DecisionsOK, Confirmed
  <2>2. CASE decision[k] = Nothing
    <3>1. \A p \in labels : p[1] # k
      BY <1>1, <1>5, <2>2 DEF DecisionsOK
    <3>2. ~Confirmed(k) /\ ~Confirmed(k)'
      BY <1>2, <2>2 DEF Confirmed
    <3>3. \A j \in Key \ {k} : Confirmed(j)' <=> Confirmed(j)
      BY <1>2 DEF Confirmed
    <3> QED
      BY <1>1, <1>2, <1>4, <1>7, <3>1, <3>2, <3>3 DEF DecisionsOK
  <2> QED
    BY <2>1, <2>2
<1>9. \A t \in Sweep \ {s} : PublishingOK(t)'
  BY <1>2, <1>4, <1>6, PublishingFrame DEF Keeps
<1>10. PublishingOK(s)'
  BY <1>2, <1>3 DEF PublishingOK
<1> QED
  BY <1>1, <1>8, <1>9, <1>10 DEF LabelInv

LEMMA PublishLabels ==
  ASSUME LabelInv, NEW s \in Sweep, Publish(s)
  PROVE  LabelInv'
<1> DEFINE p == <<KeyOf(s), job[s].event>>
<1>1. /\ WellFormed' /\ Keeps(s) /\ KeyOf(s) \in Key
      /\ job'[s].crossing = job[s].crossing /\ job'[s].event = job[s].event
      /\ labels' \in {labels, labels \cup {p}}
      /\ \/ job'[s].pc = "confirm" /\ labels' = labels \cup {p}
         \/ job'[s].pc = "label"
  BY PublishType DEF LabelInv
<1>2. decision' = decision /\ strikes' = strikes /\ job[s].pc = "publish"
  BY DEF Publish, db
<1>3. KeyOf(s)' = KeyOf(s)
  BY <1>1 DEF KeyOf, Current, Keeps
<1>4. job[s].event = decision[KeyOf(s)].event /\ decision[KeyOf(s)] \in Decision
  BY <1>2 DEF LabelInv, PublishingOK, WellFormed, JobOK
<1>5. DecisionsOK'
  BY <1>1, <1>2, <1>4 DEF LabelInv, DecisionsOK, Confirmed
<1>6. \A t \in Sweep \ {s} : PublishingOK(t)'
  BY <1>1, <1>2, SameDecisions, PublishingFrame DEF Keeps
<1>7. PublishingOK(s)'
  BY <1>1, <1>2, <1>3, <1>4 DEF PublishingOK
<1> QED
  BY <1>1, <1>5, <1>6, <1>7 DEF LabelInv

LEMMA ConfirmLabels ==
  ASSUME LabelInv, NEW s \in Sweep, Confirm(s)
  PROVE  LabelInv'
<1>0. PICK k \in Key : k = KeyOf(s)
  BY ConfirmType DEF LabelInv
<1>1. /\ WellFormed' /\ Keeps(s) /\ job'[s].pc = "strike"
      /\ job'[s].crossing = job[s].crossing
      /\ decision[k] \in Decision /\ decision'[k] \in Decision
      /\ decision'[k].status = "confirmed" /\ decision'[k].event = decision[k].event
      /\ \A j \in Key \ {k} : decision'[j] = decision[j]
  BY <1>0, ConfirmType DEF LabelInv
<1>2. labels' = labels /\ strikes' = strikes /\ job[s].pc = "confirm"
  BY DEF Confirm, sent
<1>3. KeyOf(s)' = k
  BY <1>1, <1>0 DEF KeyOf, Current, Keeps
<1>4. job[s].event = decision[k].event /\ <<k, job[s].event>> \in labels
  BY <1>2, <1>0 DEF LabelInv, PublishingOK
<1>5. labels \subseteq Key \X Event /\ strikes \subseteq Key /\ DecisionsOK
  BY DEF LabelInv, WellFormed, SharedOK
<1>6. Confirmed(k)' /\ \A j \in Key \ {k} : Confirmed(j)' <=> Confirmed(j)
  BY <1>1, NothingAssumption DEF Confirmed
<1>7. DecisionsGrow
  BY <1>1, <1>6 DEF DecisionsGrow
<1>8. DecisionsOK'
  <2>1. \A q \in labels : decision'[q[1]] \in Decision /\ decision'[q[1]].event = q[2]
    BY <1>1, <1>5 DEF DecisionsOK
  <2>2. \A j \in Key : Confirmed(j)' => <<j, decision'[j].event>> \in labels
    BY <1>1, <1>4, <1>5, <1>6 DEF DecisionsOK
  <2>3. \A j \in strikes : Confirmed(j)' /\ j[2] \notin SelfLabels[j[1]]
    BY <1>5, <1>6 DEF DecisionsOK
  <2> QED
    BY <1>2, <2>1, <2>2, <2>3 DEF DecisionsOK
<1>9. \A t \in Sweep \ {s} : PublishingOK(t)'
  BY <1>1, <1>2, <1>7, PublishingFrame DEF Keeps
<1>10. PublishingOK(s)'
  BY <1>1, <1>3, <1>6 DEF PublishingOK
<1> QED
  BY <1>1, <1>8, <1>9, <1>10 DEF LabelInv

LEMMA StrikeLabels ==
  ASSUME LabelInv, NEW s \in Sweep, Strike(s) \/ StrikeThrows(s)
  PROVE  LabelInv'
<1>1. /\ WellFormed' /\ Keeps(s) /\ job'[s].pc = "label" /\ KeyOf(s) \in Key
      /\ strikes' \subseteq strikes \cup {KeyOf(s)}
      /\ KeyOf(s)[2] \in SelfLabels[KeyOf(s)[1]] => strikes' = strikes
  BY StrikeType DEF LabelInv
<1>2. decision' = decision /\ labels' = labels /\ job[s].pc = "strike"
  BY DEF Strike, StrikeThrows, sent
<1>3. Confirmed(KeyOf(s))
  BY <1>2 DEF LabelInv, PublishingOK
<1>4. DecisionsOK'
  BY <1>1, <1>2, <1>3 DEF LabelInv, DecisionsOK, Confirmed
<1>5. \A t \in Sweep \ {s} : PublishingOK(t)'
  BY <1>1, <1>2, SameDecisions, PublishingFrame DEF Keeps
<1>6. PublishingOK(s)'
  BY <1>1 DEF PublishingOK
<1> QED
  BY <1>1, <1>4, <1>5, <1>6 DEF LabelInv

\* A sweep that leaves a video is not about to publish or to strike.
LEMMA AfterLeaving ==
  ASSUME WellFormed, NEW s \in Sweep, job[s].pc \in OnVideo, NEW clean \in BOOLEAN,
         Becomes(s, AfterVideo(job[s], clean))
  PROVE  /\ \A t \in Sweep \ {s} : job'[t] = job[t]
         /\ job'[s].pc = IF Tail(job[s].todo) = <<>> THEN "finish" ELSE "fetch"
         /\ job'[s].todo = Tail(job[s].todo)
         /\ job'[s].held = IF clean THEN job[s].held
                           ELSE job[s].held \cup {EarliestIn(job[s].page, Current(s))}
         /\ job'[s].started = job[s].started /\ job'[s].since = job[s].since
         /\ job'[s].page = job[s].page /\ job'[s].full = job[s].full
<1>1. \A t \in Sweep \ {s} : job'[t] = job[t]
  BY DEF Becomes
<1> DEFINE r == AfterVideo(job[s], clean)
<1> HIDE DEF r
<1>2. job'[s] = r
  BY DEF Becomes, r
<1>3. /\ r.pc = IF Tail(job[s].todo) = <<>> THEN "finish" ELSE "fetch"
      /\ r.todo = Tail(job[s].todo)
      /\ r.held = IF clean THEN job[s].held
                  ELSE job[s].held \cup {EarliestIn(job[s].page, Current(s))}
      /\ r.started = job[s].started /\ r.since = job[s].since
      /\ r.page = job[s].page /\ r.full = job[s].full
  BY AfterVideoType, ZenonT(60) DEF r
<1> QED
  BY <1>1, <1>2, <1>3

\* Where the steps that have nothing to do with labels lead.
LEMMA OtherSteps ==
  ASSUME WellFormed, NEW s \in Sweep,
         \/ Begin(s) \/ ReadCursor(s) \/ Poll(s) \/ Fetch(s) \/ BuildFails(s) \/ Count(s)
         \/ ClaimWarning(s) \/ Send(s) \/ Settle(s) \/ Throws(s) \/ Finish(s) \/ Crash(s)
  PROVE  /\ WellFormed' /\ UNCHANGED <<decision, labels, strikes>>
         /\ \A t \in Sweep \ {s} : job'[t] = job[t]
         /\ job'[s].pc \notin OnCrossing
         /\ job'[s].pc \in OnWarning => Count(s) \/ ClaimWarning(s) \/ Send(s)
         /\ \/ ClaimWarning(s) \/ Send(s) \/ Settle(s)
            \/ UNCHANGED <<warning, delivered>>
<1>1. CASE Begin(s)
  <2>1. WellFormed' /\ Becomes(s, [Idle EXCEPT !.pc = "cursor", !.started = now])
    BY <1>1, BeginType
  <2>2. [Idle EXCEPT !.pc = "cursor", !.started = now].pc = "cursor"
    BY DEF Idle
  <2> QED
    BY <1>1, <2>1, <2>2 DEF Begin, Becomes, db, sent, OnCrossing, OnWarning
<1>2. CASE ReadCursor(s)
  <2>1. WellFormed' /\ Becomes(s, [job[s] EXCEPT !.pc = "poll", !.since = cursor])
    BY <1>2, ReadCursorType
  <2>2. [job[s] EXCEPT !.pc = "poll", !.since = cursor].pc = "poll"
    BY JobFacts DEF Job
  <2> QED
    BY <1>2, <2>1, <2>2 DEF ReadCursor, Becomes, db, sent, OnCrossing, OnWarning
<1>3. CASE Poll(s)
  BY <1>3, PollType DEF Poll, db, sent, OnCrossing, OnWarning
<1>4. CASE Fetch(s)
  <2>1. WellFormed' /\ UNCHANGED <<decision, labels, strikes, warning, delivered>>
        /\ job[s].pc \in OnVideo
    BY <1>4, FetchType DEF Fetch, db, sent, OnVideo
  <2>2. CASE Current(s) \in gone
    BY <1>4, <2>1, <2>2, FetchType, AfterLeaving DEF OnCrossing, OnWarning
  <2>3. CASE Current(s) \notin gone
    BY <1>4, <2>1, <2>3, FetchType DEF OnCrossing, OnWarning, Keeps
  <2> QED
    BY <2>2, <2>3
<1>5. CASE BuildFails(s)
  BY <1>5, BuildFailsType DEF BuildFails, db, sent, OnCrossing, OnWarning, Keeps
<1>6. CASE Count(s)
  <2>1. WellFormed' /\ UNCHANGED <<decision, labels, strikes, warning, delivered>>
        /\ job[s].pc \in OnVideo
    BY <1>6, CountType DEF Count, db, sent, OnVideo
  <2>2. CASE Becomes(s, AfterVideo(job[s], job[s].clean))
    BY <1>6, <2>1, <2>2, AfterLeaving, JobFacts DEF OnCrossing, OnWarning
  <2>3. CASE Keeps(s) /\ job'[s].pc = "warn"
    BY <1>6, <2>1, <2>3 DEF OnCrossing, OnWarning, Keeps
  <2> QED
    BY <1>6, <2>2, <2>3, CountType
<1>7. CASE ClaimWarning(s)
  <2>1. WellFormed' /\ UNCHANGED <<decision, labels, strikes>> /\ job[s].pc \in OnVideo
    BY <1>7, ClaimWarningType DEF ClaimWarning, sent, OnVideo, OnWarning
  <2>2. CASE Becomes(s, AfterVideo(job[s], job[s].clean))
    BY <1>7, <2>1, <2>2, AfterLeaving, JobFacts DEF OnCrossing, OnWarning
  <2>3. CASE Keeps(s) /\ job'[s].pc = "send"
    BY <1>7, <2>1, <2>3 DEF OnCrossing, OnWarning, Keeps
  <2> QED
    BY <1>7, <2>2, <2>3, ClaimWarningType
<1>8. CASE Send(s)
  BY <1>8, SendType DEF Send, db, OnCrossing, OnWarning, Keeps
<1>9. CASE Settle(s)
  <2>1. WellFormed' /\ UNCHANGED <<decision, labels, strikes>> /\ job[s].pc \in OnVideo
    BY <1>9, SettleType DEF Settle, sent, OnVideo, OnWarning
  <2>2. PICK clean \in {job[s].clean, FALSE} : Becomes(s, AfterVideo(job[s], clean))
    BY <1>9, SettleType
  <2>3. clean \in BOOLEAN
    BY JobFacts
  <2> QED
    BY <1>9, <2>1, <2>2, <2>3, AfterLeaving DEF OnCrossing, OnWarning
<1>10. CASE Throws(s)
  <2>1. WellFormed' /\ UNCHANGED <<decision, labels, strikes, warning, delivered>>
        /\ job[s].pc \in OnVideo /\ Becomes(s, AfterVideo(job[s], FALSE)) /\ FALSE \in BOOLEAN
    BY <1>10, ThrowsType DEF Throws, db, sent
  <2>2. job'[s].pc \in {"finish", "fetch"} /\ \A t \in Sweep \ {s} : job'[t] = job[t]
    BY <2>1, AfterLeaving
  <2> QED
    BY <2>1, <2>2 DEF OnCrossing, OnWarning
<1>11. CASE Finish(s)
  BY <1>11, FinishType DEF Finish, db, sent, OnCrossing, OnWarning, Becomes, Idle
<1>12. CASE Crash(s)
  BY <1>12, CrashType DEF Crash, db, sent, OnCrossing, OnWarning, Becomes, Idle
<1> QED
  BY <1>1, <1>2, <1>3, <1>4, <1>5, <1>6, <1>7, <1>8, <1>9, <1>10, <1>11, <1>12

LEMMA OutsideLabels ==
  ASSUME LabelInv, WellFormed', UNCHANGED <<decision, labels, strikes, job>>
  PROVE  LabelInv'
<1>1. DecisionsOK'
  BY DEF LabelInv, DecisionsOK, Confirmed
<1>2. \A t \in Sweep : PublishingOK(t)'
  BY PublishingFrame, SameDecisions
<1> QED
  BY <1>1, <1>2 DEF LabelInv

LEMMA LabelStep == LabelInv /\ [Next]_vars => LabelInv'
<1> SUFFICES ASSUME LabelInv, [Next]_vars PROVE LabelInv'
  OBVIOUS
<1>1. WellFormed /\ WellFormed'
  BY WellFormedStep DEF LabelInv
<1>2. CASE \/ \E x \in Vote : Sign(x) \/ Arrive(x)
           \/ \E v \in Video : DeleteVideo(v)
           \/ Tick
           \/ UNCHANGED vars
  <2>1. UNCHANGED <<decision, labels, strikes, job>>
    BY <1>2 DEF Sign, Arrive, DeleteVideo, Tick, vars, db, sent
  <2> QED
    BY <1>1, <2>1, OutsideLabels
<1>3. ASSUME NEW s \in Sweep,
             \/ Begin(s) \/ ReadCursor(s) \/ Poll(s) \/ Fetch(s) \/ BuildFails(s)
             \/ Count(s) \/ ClaimWarning(s) \/ Send(s) \/ Settle(s) \/ Throws(s)
             \/ Finish(s) \/ Crash(s)
      PROVE  LabelInv'
  BY <1>1, <1>3, OtherSteps, NoLabelStep DEF OnCrossing
<1>4. ASSUME NEW s \in Sweep,
             Check(s) \/ Claim(s) \/ Publish(s) \/ Confirm(s) \/ Strike(s) \/ StrikeThrows(s)
      PROVE  LabelInv'
  BY <1>4, CheckLabels, ClaimLabels, PublishLabels, ConfirmLabels, StrikeLabels
<1> QED
  BY <1>2, <1>3, <1>4 DEF Next, Works

LEMMA InitLabels == Init => LabelInv
<1> SUFFICES ASSUME Init PROVE LabelInv
  OBVIOUS
<1>1. WellFormed
  BY InitOK
<1>2. DecisionsOK
  BY DEF Init, DecisionsOK, Confirmed
<1>3. \A s \in Sweep : job[s].pc = "idle"
  BY DEF Init, Idle
<1> QED
  BY <1>1, <1>2, <1>3 DEF LabelInv, PublishingOK

\* At most one authoritative label is published for a video and label:
\* whatever a retry or an overlapping sweep publishes is the event stored
\* with the first claim.
THEOREM OneLabel == Spec => []LabelledOnce
<1>1. Spec => []LabelInv
  BY InitLabels, LabelStep, PTL DEF Spec
<1> QED
  BY <1>1, LabelProperties, PTL

\* A strike stands only against a video whose label is confirmed and on the
\* relay, and that its creator had not labelled so.
THEOREM NoUnearnedStrike == Spec => []StrikesAccountedFor
<1>1. Spec => []LabelInv
  BY InitLabels, LabelStep, PTL DEF Spec
<1> QED
  BY <1>1, LabelProperties, PTL

-----------------------------------------------------------------------------
(* Warnings.  The claim of a level has one holder, and nobody releases the *)
(* claim of a level that may have been delivered.                          *)

Warning == Creators \X Level

Enough(p, n) == StrikesAgainst(p) >= n * WarningCount

Sending == {"send", "settle"}

WarningsOK ==
  \A w \in Warning :
    /\ delivered[w] <= 1
    /\ warning[w] = "none" => delivered[w] = 0
    /\ warning[w] # "none" => Enough(w[1], w[2])

WarnJobOK(s) ==
  /\ job[s].pc \in OnWarning => Enough(Creator[Current(s)], job[s].level)
  /\ job[s].pc \in Sending => warning[WarningOf(s)] # "none"
  /\ \/ job[s].pc = "send"
     \/ job[s].pc = "settle" /\ job[s].dm = "definitive"
     => delivered[WarningOf(s)] = 0

OneHolder ==
  \A s, t \in Sweep :
    job[s].pc \in Sending /\ job[t].pc \in Sending /\ s # t => WarningOf(s) # WarningOf(t)

WarnInv == WellFormed /\ WarningsOK /\ OneHolder /\ \A s \in Sweep : WarnJobOK(s)

LEMMA WarnProperties == WarnInv => WarnedOnce /\ WarningsEarned
<1> SUFFICES ASSUME WarnInv PROVE WarnedOnce /\ WarningsEarned
  OBVIOUS
<1>1. WarnedOnce
  BY DEF WarnInv, WarningsOK, WarnedOnce, Warning
<1>2. WarningsEarned
  BY DEF WarnInv, WarningsOK, WarningsEarned, Warning, Enough
<1> QED
  BY <1>1, <1>2

LEMMA EnoughStays ==
  ASSUME WellFormed, WellFormed', strikes \subseteq strikes', NEW p, NEW n \in Nat,
         Enough(p, n)
  PROVE  StrikesAgainst(p)' >= n * WarningCount
<1>1. strikes' \subseteq Key
  BY DEF WellFormed, SharedOK
<1>2. /\ StrikesAgainst(p) \in Nat /\ StrikesAgainst(p)' \in Nat
      /\ StrikesAgainst(p) <= StrikesAgainst(p)'
  BY <1>1, StrikesMonotone
<1>3. n * WarningCount \in Nat
  BY SweepAssumption
<1> QED
  BY <1>2, <1>3 DEF Enough

\* A sweep that stays where it is keeps what it knows about its warning.
LEMMA WarnFrame ==
  ASSUME WarnInv, WellFormed', NEW t \in Sweep, job'[t] = job[t], strikes \subseteq strikes',
         job[t].pc \in Sending =>
           /\ warning'[WarningOf(t)] = warning[WarningOf(t)]
           /\ delivered'[WarningOf(t)] = delivered[WarningOf(t)]
  PROVE  WarnJobOK(t)'
<1>1. WarnJobOK(t) /\ WellFormed /\ WarningOf(t)' = WarningOf(t) /\ Current(t)' = Current(t)
  BY DEF WarnInv, WarningOf, Current
<1>2. job[t].pc \in OnWarning => Enough(Creator[Current(t)], job[t].level)'
  <2> SUFFICES ASSUME job[t].pc \in OnWarning
               PROVE  Enough(Creator[Current(t)], job[t].level)'
    OBVIOUS
  <2>1. PICK p, n : p = Creator[Current(t)] /\ n = job[t].level
    OBVIOUS
  <2>2. n \in Nat /\ Enough(p, n)
    BY <1>1, <2>1 DEF WellFormed, JobOK, WarnJobOK, Level
  <2>3. StrikesAgainst(p)' >= n * WarningCount
    BY <1>1, <2>2, EnoughStays
  <2>4. Enough(p, n)'
    BY <2>3 DEF Enough
  <2> QED
    BY <1>1, <2>1, <2>4 DEF Enough, StrikesAgainst
<1> QED
  BY <1>1, <1>2 DEF WarnJobOK, Sending

\* A step that neither claims, releases nor delivers a warning.
LEMMA NoWarningStep ==
  ASSUME WarnInv, WellFormed', UNCHANGED <<warning, delivered>>, strikes \subseteq strikes',
         NEW s \in Sweep, \A t \in Sweep \ {s} : job'[t] = job[t],
         \/ job'[s] = job[s]
         \/ job'[s].pc \notin OnWarning
         \/ job'[s].pc = "warn" /\ Enough(Creator[Current(s)], job[s].level)'
  PROVE  WarnInv'
<1>1. WellFormed
  BY DEF WarnInv
<1>2. WarningsOK'
  <2> SUFFICES ASSUME NEW w \in Warning
               PROVE  /\ delivered'[w] <= 1
                      /\ warning'[w] = "none" => delivered'[w] = 0
                      /\ warning'[w] # "none" => Enough(w[1], w[2])'
    BY DEF WarningsOK, Warning
  <2>1. w[2] \in Nat
    BY DEF Warning, Level
  <2>2. Enough(w[1], w[2]) => Enough(w[1], w[2])'
    BY <1>1, <2>1, EnoughStays DEF Enough
  <2> QED
    BY <2>2 DEF WarnInv, WarningsOK
<1>3. \A t \in Sweep : job'[t] = job[t] => WarnJobOK(t)' /\ WarningOf(t)' = WarningOf(t)
  BY WarnFrame DEF WarningOf, Current
<1>4. job'[s] = job[s] \/ job'[s].pc \notin Sending
  BY DEF Sending, OnWarning
<1>5. OneHolder'
  BY <1>3, <1>4 DEF WarnInv, OneHolder
<1>6. WarnJobOK(s)'
  <2>1. CASE job'[s] = job[s]
    BY <1>3, <2>1
  <2>2. CASE job'[s].pc \notin OnWarning
    BY <2>2 DEF WarnJobOK, OnWarning, Sending
  <2>3. CASE job'[s].pc = "warn" /\ Enough(Creator[Current(s)], job[s].level)'
    BY <2>3 DEF WarnJobOK, OnWarning, Sending
  <2> QED
    BY <2>1, <2>2, <2>3
<1> QED
  BY <1>2, <1>3, <1>5, <1>6 DEF WarnInv

LEMMA CountWarnings ==
  ASSUME WarnInv, NEW s \in Sweep, Count(s)
  PROVE  WarnInv'
<1>1. WellFormed /\ WellFormed' /\ job[s].pc \in OnVideo
  BY CountType DEF WarnInv, Count, OnVideo
<1>2. UNCHANGED <<warning, delivered, strikes>>
  BY DEF Count, db, sent
<1>3. CASE Becomes(s, AfterVideo(job[s], job[s].clean))
  <2>1. job'[s].pc \notin OnWarning /\ \A t \in Sweep \ {s} : job'[t] = job[t]
    BY <1>1, <1>3, AfterLeaving, JobFacts DEF OnWarning
  <2> QED
    BY <1>1, <1>2, <2>1, NoWarningStep
<1>4. CASE /\ Keeps(s) /\ job'[s].pc = "warn" /\ job'[s].level \in Level
           /\ job'[s].level * WarningCount <= StrikesAgainst(Creator[Current(s)])
  <2>1. Current(s)' = Current(s) /\ \A t \in Sweep \ {s} : job'[t] = job[t]
    BY <1>4 DEF Keeps, Current
  <2>2. PICK p, n : p = Creator[Current(s)] /\ n = job'[s].level
    OBVIOUS
  <2>3. StrikesAgainst(p)' = StrikesAgainst(p)
    BY <1>2 DEF StrikesAgainst
  <2>4. strikes \in SUBSET Key /\ n \in Nat
    BY <1>1, <1>4, <2>2 DEF WellFormed, SharedOK, Level
  <2>5. StrikesAgainst(p) \in Nat /\ n * WarningCount \in Nat
    <3>1. StrikesAgainst(p) \in Nat
      BY <2>4, StrikesCount DEF StrikesAgainst
    <3>2. WarningCount \in Nat
      BY SweepAssumption
    <3> QED
      BY <2>4, <3>1, <3>2
  <2>6. n * WarningCount <= StrikesAgainst(p)
    BY <1>4, <2>2
  <2>7. StrikesAgainst(p)' >= n * WarningCount
    BY <2>3, <2>5, <2>6
  <2>8. Enough(Creator[Current(s)], job[s].level)'
    BY <2>1, <2>2, <2>7 DEF Enough, StrikesAgainst
  <2> QED
    BY <1>1, <1>2, <1>4, <2>1, <2>8, NoWarningStep
<1> QED
  BY <1>1, <1>3, <1>4, CountType

LEMMA ClaimWarningWarnings ==
  ASSUME WarnInv, NEW s \in Sweep, ClaimWarning(s)
  PROVE  WarnInv'
<1>1. WellFormed /\ WellFormed' /\ job[s].pc = "warn" /\ job[s].pc \in OnVideo
  BY ClaimWarningType DEF WarnInv, ClaimWarning, OnVideo, OnWarning
<1>2. UNCHANGED <<delivered, strikes>>
  BY DEF ClaimWarning, sent
<1>3. CASE warning' = warning /\ Becomes(s, AfterVideo(job[s], job[s].clean))
  <2>1. job'[s].pc \notin OnWarning /\ \A t \in Sweep \ {s} : job'[t] = job[t]
    BY <1>1, <1>3, AfterLeaving, JobFacts DEF OnWarning
  <2> QED
    BY <1>1, <1>2, <1>3, <2>1, NoWarningStep
<1>4. CASE /\ warning[WarningOf(s)] = "none" /\ Keeps(s)
           /\ job'[s].pc = "send" /\ job'[s].level = job[s].level
           /\ warning' = [warning EXCEPT ![WarningOf(s)] = "pending"]
  <2>1. PICK w \in Warning : w = WarningOf(s)
    BY ClaimWarningType, <1>1 DEF Warning
  <2>2. warning \in [Warning -> {"none", "pending", "sent"}]
    BY <1>1 DEF WellFormed, SharedOK, Warning
  <2>3. warning'[w] = "pending" /\ \A v \in Warning \ {w} : warning'[v] = warning[v]
    BY <1>4, <2>1, <2>2
  <2>4. /\ \A t \in Sweep \ {s} : job'[t] = job[t] /\ WarningOf(t)' = WarningOf(t)
        /\ WarningOf(s)' = w /\ Current(s)' = Current(s)
    BY <1>4, <2>1 DEF Keeps, WarningOf, Current
  <2>5. \A t \in Sweep \ {s} : job[t].pc \in Sending =>
          WarningOf(t) # w /\ WarningOf(t) \in Warning
    BY <1>1, <1>4, <2>1, WarningKey DEF WarnInv, WarnJobOK, Sending, OnWarning, Warning
  <2>6. \A t \in Sweep \ {s} : WarnJobOK(t)'
    BY <1>1, <1>2, <2>3, <2>4, <2>5, WarnFrame
  <2>7. Enough(w[1], w[2]) /\ w[1] = Creator[Current(s)] /\ w[2] = job[s].level
        /\ delivered[w] = 0
    BY <1>1, <1>4, <2>1 DEF WarnInv, WarnJobOK, WarningsOK, OnWarning, WarningOf
  <2>8. \A p, n : Enough(p, n)' <=> Enough(p, n)
    BY <1>2 DEF Enough, StrikesAgainst
  <2>9. WarningsOK'
    BY <1>2, <2>3, <2>7, <2>8 DEF WarnInv, WarningsOK
  <2>10. Enough(Creator[Current(s)], job[s].level)'
    BY <1>2, <1>4, <2>4, <2>7 DEF Enough, StrikesAgainst
  <2>11. WarnJobOK(s)'
    BY <1>2, <1>4, <2>3, <2>4, <2>7, <2>10 DEF WarnJobOK
  <2>12. OneHolder'
    BY <2>4, <2>5 DEF WarnInv, OneHolder
  <2> QED
    BY <1>1, <2>6, <2>9, <2>11, <2>12 DEF WarnInv
<1> QED
  BY <1>1, <1>3, <1>4, ClaimWarningType

LEMMA SendWarnings ==
  ASSUME WarnInv, NEW s \in Sweep, Send(s)
  PROVE  WarnInv'
<1>1. WellFormed /\ WellFormed' /\ job[s].pc = "send"
  BY SendType DEF WarnInv, Send
<1>2. UNCHANGED <<warning, strikes>>
  BY DEF Send, db
<1>3. PICK w \in Warning : w = WarningOf(s)
  BY SendType, <1>1 DEF Warning
<1>4. /\ Keeps(s) /\ job'[s].pc = "settle" /\ job'[s].level = job[s].level
      /\ delivered' \in {delivered, [delivered EXCEPT ![w] = @ + 1]}
      /\ job'[s].dm = "definitive" => delivered' = delivered
  BY <1>1, <1>3, SendType
<1>5. delivered \in [Warning -> Nat]
  BY <1>1 DEF WellFormed, SharedOK, Warning
<1>6. /\ \A t \in Sweep \ {s} : job'[t] = job[t] /\ WarningOf(t)' = WarningOf(t)
      /\ WarningOf(s)' = w /\ Current(s)' = Current(s)
  BY <1>3, <1>4 DEF Keeps, WarningOf, Current
<1>7. delivered[w] = 0 /\ warning[w] # "none"
      /\ Enough(Creator[Current(s)], job[s].level)
  BY <1>1, <1>3 DEF WarnInv, WarnJobOK, OnWarning, Sending
<1>8. delivered'[w] \in {0, 1} /\ (\A v \in Warning \ {w} : delivered'[v] = delivered[v])
      /\ (job'[s].dm = "definitive" => delivered'[w] = 0)
  BY <1>4, <1>5, <1>7
<1>9. \A t \in Sweep \ {s} : job[t].pc \in Sending =>
        WarningOf(t) # w /\ WarningOf(t) \in Warning
  BY <1>1, <1>3, WarningKey DEF WarnInv, OneHolder, Sending, OnWarning, Warning
<1>10. \A t \in Sweep \ {s} : WarnJobOK(t)'
  BY <1>1, <1>2, <1>6, <1>8, <1>9, WarnFrame
<1>11. \A p, n : Enough(p, n)' <=> Enough(p, n)
  BY <1>2 DEF Enough, StrikesAgainst
<1>12. WarningsOK'
  BY <1>2, <1>7, <1>8, <1>11 DEF WarnInv, WarningsOK
<1>13. Enough(Creator[Current(s)], job[s].level)'
  BY <1>2, <1>4, <1>6, <1>7 DEF Enough, StrikesAgainst
<1>14. WarnJobOK(s)'
  BY <1>2, <1>4, <1>6, <1>7, <1>8, <1>13 DEF WarnJobOK
<1>15. OneHolder'
  BY <1>1, <1>3, <1>4, <1>6 DEF WarnInv, OneHolder, Sending
<1> QED
  BY <1>1, <1>10, <1>12, <1>14, <1>15 DEF WarnInv

LEMMA SettleWarnings ==
  ASSUME WarnInv, NEW s \in Sweep, Settle(s)
  PROVE  WarnInv'
<1>1. WellFormed /\ WellFormed' /\ job[s].pc = "settle" /\ job[s].pc \in OnVideo
  BY SettleType DEF WarnInv, Settle, OnVideo, OnWarning
<1>2. UNCHANGED <<delivered, strikes>>
  BY DEF Settle, sent
<1>3. PICK w \in Warning : w = WarningOf(s)
  BY SettleType, <1>1 DEF Warning
<1>4. \/ warning' = warning
      \/ warning' = [warning EXCEPT ![w] = "sent"]
      \/ job[s].dm = "definitive" /\ warning' = [warning EXCEPT ![w] = "none"]
  BY <1>1, <1>3, SettleType
<1>5. warning \in [Warning -> {"none", "pending", "sent"}]
  BY <1>1 DEF WellFormed, SharedOK, Warning
<1>6. PICK clean \in {job[s].clean, FALSE} : Becomes(s, AfterVideo(job[s], clean))
  BY <1>1, SettleType
<1>7. job'[s].pc \in {"finish", "fetch"} /\ \A t \in Sweep \ {s} : job'[t] = job[t]
  <2>1. clean \in BOOLEAN
    BY <1>1, JobFacts
  <2> QED
    BY <1>1, <1>6, <2>1, AfterLeaving
<1>8. \A t \in Sweep \ {s} : WarningOf(t)' = WarningOf(t)
  BY <1>7 DEF WarningOf, Current
<1>9. warning[w] # "none" /\ (job[s].dm = "definitive" => delivered[w] = 0)
  BY <1>1, <1>3 DEF WarnInv, WarnJobOK, Sending
<1>10. /\ \A v \in Warning \ {w} : warning'[v] = warning[v]
       /\ warning'[w] = "none" => delivered[w] = 0
  BY <1>3, <1>4, <1>5, <1>9
<1>11. \A t \in Sweep \ {s} : job[t].pc \in Sending =>
        WarningOf(t) # w /\ WarningOf(t) \in Warning
  BY <1>1, <1>3, WarningKey DEF WarnInv, OneHolder, Sending, OnWarning, Warning
<1>12. \A t \in Sweep \ {s} : WarnJobOK(t)'
  BY <1>1, <1>2, <1>7, <1>10, <1>11, WarnFrame
<1>13. \A p, n : Enough(p, n)' <=> Enough(p, n)
  BY <1>2 DEF Enough, StrikesAgainst
<1>14. WarningsOK'
  BY <1>2, <1>9, <1>10, <1>13 DEF WarnInv, WarningsOK
<1>15. WarnJobOK(s)'
  BY <1>7 DEF WarnJobOK, OnWarning, Sending
<1>16. OneHolder'
  BY <1>7, <1>8 DEF WarnInv, OneHolder, Sending
<1> QED
  BY <1>1, <1>12, <1>14, <1>15, <1>16 DEF WarnInv

LEMMA WarnStep == WarnInv /\ [Next]_vars => WarnInv'
<1> SUFFICES ASSUME WarnInv, [Next]_vars PROVE WarnInv'
  OBVIOUS
<1>1. WellFormed /\ WellFormed'
  BY WellFormedStep DEF WarnInv
<1>2. CASE \/ \E x \in Vote : Sign(x) \/ Arrive(x)
           \/ \E v \in Video : DeleteVideo(v)
           \/ Tick
           \/ UNCHANGED vars
  <2>1. UNCHANGED <<warning, delivered, strikes, job>>
    BY <1>2 DEF Sign, Arrive, DeleteVideo, Tick, vars, db, sent
  <2>2. CASE Sweep = {}
    BY <1>1, <2>1, <2>2 DEF WarnInv, WarningsOK, OneHolder, Enough, StrikesAgainst
  <2>3. ASSUME NEW s \in Sweep PROVE WarnInv'
    BY <1>1, <2>1, NoWarningStep
  <2> QED
    BY <2>2, <2>3
<1>3. ASSUME NEW s \in Sweep,
             \/ Begin(s) \/ ReadCursor(s) \/ Poll(s) \/ Fetch(s) \/ BuildFails(s)
             \/ Throws(s) \/ Finish(s) \/ Crash(s)
      PROVE  WarnInv'
  <2>1. /\ UNCHANGED strikes /\ \A t \in Sweep \ {s} : job'[t] = job[t]
        /\ job'[s].pc \in OnWarning => Count(s) \/ ClaimWarning(s) \/ Send(s)
        /\ \/ ClaimWarning(s) \/ Send(s) \/ Settle(s)
           \/ UNCHANGED <<warning, delivered>>
    BY <1>1, <1>3, OtherSteps
  <2> QED
    BY <1>1, <2>1, NoWarningStep, CountWarnings, ClaimWarningWarnings, SendWarnings,
       SettleWarnings
<1>4. ASSUME NEW s \in Sweep, Count(s) \/ ClaimWarning(s) \/ Send(s) \/ Settle(s)
      PROVE  WarnInv'
  BY <1>4, CountWarnings, ClaimWarningWarnings, SendWarnings, SettleWarnings
<1>5. ASSUME NEW s \in Sweep, Check(s) \/ Claim(s) \/ Publish(s) \/ Confirm(s)
      PROVE  WarnInv'
  <2>1. UNCHANGED <<warning, delivered, strikes>>
    BY <1>5 DEF Check, Claim, Publish, Confirm, db, sent
  <2>2. Keeps(s) /\ job'[s].pc \notin OnWarning
    BY <1>1, <1>5, CheckEffect, ClaimEffect, PublishType, ConfirmType DEF OnWarning
  <2> QED
    BY <1>1, <2>1, <2>2, NoWarningStep DEF Keeps
<1>6. ASSUME NEW s \in Sweep, Strike(s) \/ StrikeThrows(s)
      PROVE  WarnInv'
  <2>1. UNCHANGED <<warning, delivered>>
    BY <1>6 DEF Strike, StrikeThrows, sent
  <2>2. Keeps(s) /\ job'[s].pc = "label" /\ strikes \subseteq strikes'
    BY <1>1, <1>6, StrikeType
  <2> QED
    BY <1>1, <2>1, <2>2, NoWarningStep DEF Keeps, OnWarning
<1> QED
  BY <1>2, <1>3, <1>4, <1>5, <1>6 DEF Next, Works

LEMMA InitWarnings == Init => WarnInv
<1> SUFFICES ASSUME Init PROVE WarnInv
  OBVIOUS
<1>1. WellFormed
  BY InitOK
<1>2. WarningsOK
  BY DEF Init, WarningsOK, Warning
<1>3. \A s \in Sweep : job[s].pc = "idle"
  BY DEF Init, Idle
<1> QED
  BY <1>1, <1>2, <1>3 DEF WarnInv, WarnJobOK, OneHolder, OnWarning, Sending

\* A creator gets at most one warning for an escalation level, whatever
\* sweeps overlap or crash and however the sends fail.
THEOREM OneWarning == Spec => []WarnedOnce
<1>1. Spec => []WarnInv
  BY InitWarnings, WarnStep, PTL DEF Spec
<1> QED
  BY <1>1, WarnProperties, PTL

\* A creator is warned at a level only with the strikes for it.
THEOREM NoUnearnedWarning == Spec => []WarningsEarned
<1>1. Spec => []WarnInv
  BY InitWarnings, WarnStep, PTL DEF Spec
<1> QED
  BY <1>1, WarnProperties, PTL

-----------------------------------------------------------------------------
(* The watermark.  Everything behind a watermark is settled; a sweep that  *)
(* is to move it knows every vote up to its start, and for every video of  *)
(* its page has it queued, holds the watermark, or is done with it.        *)

\* The votes, late ones aside, that a watermark c has passed.
Passed(c) == {x \in arrived \ late : at[x] < c}

Settled(c) ==
  \A k \in Key : Reached(Passed(c), k) /\ k[1] \notin gone => Handled(k)

\* The votes a sweep answers for.
Evidence(s) == job[s].page \cup Passed(job[s].since)

Queued(s, v) == \E i \in 1..Len(job[s].todo) : job[s].todo[i] = v

Done(s, v) == \A l \in Label : Reached(Evidence(s), <<v, l>>) => Handled(<<v, l>>)

\* A label of the current video that is still to be acted upon.
Listed(s, l) ==
  \/ job[s].pc \notin OnWarning /\ \E c \in job[s].crossings : c[1] = l
  \/ job[s].pc \in OnCrossing /\ job[s].crossing[1] = l

PageComplete(s) ==
  ~job[s].full =>
    \A x \in arrived \ late :
      job[s].since <= at[x] /\ at[x] < job[s].started => x \in job[s].page

PageCovered(s) ==
  \A v \in Touched(job[s].page) :
    \/ v \in gone \/ Queued(s, v)
    \/ EarliestIn(job[s].page, v) \in job[s].held
    \/ Done(s, v)

VideoCovered(s) ==
  job[s].clean =>
    \A l \in Label : Reached(Evidence(s), <<Current(s), l>>) =>
      Listed(s, l) \/ Handled(<<Current(s), l>>)

SweepOK(s) ==
  /\ job[s].pc \in {"poll"} \cup Polled => Settled(job[s].since)
  /\ job[s].pc \in Polled => PageComplete(s) /\ PageCovered(s)
  /\ job[s].pc = "finish" => job[s].todo = <<>>
  /\ job[s].pc \in OnVideo \ {"fetch"} => VideoCovered(s)

NothingLost == Settled(cursor) /\ \A s \in Sweep : SweepOK(s)

WatermarkInv == LabelInv /\ NothingLost

LEMMA WatermarkProperty == WatermarkInv => NoVoteLeftBehind
<1>1. Passed(cursor) = Behind \ late
  BY DEF Passed, Behind
<1> QED
  BY <1>1 DEF WatermarkInv, NothingLost, Settled, NoVoteLeftBehind

\* A consensus stands when votes are added.
LEMMA ReachedMore ==
  ASSUME NEW votes \in SUBSET Vote, NEW more \in SUBSET Vote, NEW k,
         \A x \in votes : VideoOf[x] = k[1] => x \in more, Reached(votes, k)
  PROVE  Reached(more, k)
<1> DEFINE v == k[1]
           l == k[2]
<1>1. Tally(votes, v, l) \in Nat /\ Tally(more, v, l) \in Nat
  BY TallyType
<1>2. Tally(votes, v, l) <= Tally(more, v, l)
  BY TallyMonotone
<1>3. Tally(votes, v, l) >= Threshold /\ Threshold \in Nat
  BY SweepAssumption DEF Reached
<1> HIDE DEF v, l
<1>4. Tally(more, v, l) >= Threshold
  BY <1>1, <1>2, <1>3
<1> QED
  BY <1>4 DEF Reached, v, l

HandledGrow == \A k \in Key : Handled(k) => Handled(k)'

LEMMA GrowHandled ==
  ASSUME LabelInv, DecisionsGrow, strikes \subseteq strikes'
  PROVE  HandledGrow
<1> SUFFICES ASSUME NEW k \in Key, Handled(k) PROVE Handled(k)'
  BY DEF HandledGrow
<1>1. Confirmed(k) /\ decision[k] \in Decision \cup {Nothing}
  BY DEF LabelInv, WellFormed, SharedOK, Handled
<1>2. Confirmed(k)'
  BY <1>1 DEF DecisionsGrow, Confirmed
<1> QED
  BY <1>2 DEF Handled

\* The page of a sweep, when the sweep keeps it and no vote it answers for
\* changes.
LEMMA PageFrame ==
  ASSUME WatermarkInv, WellFormed', HandledGrow, gone \subseteq gone', NEW s \in Sweep,
         job'[s].started = job[s].started, job'[s].since = job[s].since,
         job'[s].full = job[s].full, job'[s].page = job[s].page,
         job'[s].todo = job[s].todo, job'[s].held = job[s].held,
         job[s].pc \in {"poll"} \cup Polled,
         Passed(job[s].since)' = Passed(job[s].since),
         \A x \in job[s].page : at'[x] = at[x],
         \A x \in arrived' \ late' :
           at'[x] < job[s].started => x \in arrived \ late /\ at'[x] = at[x]
  PROVE  /\ Settled(job[s].since)'
         /\ Evidence(s)' = Evidence(s)
         /\ job[s].pc \in Polled => PageComplete(s)' /\ PageCovered(s)'
<1>1. SweepOK(s) /\ Settled(job[s].since)
  BY DEF WatermarkInv, NothingLost, SweepOK
<1>2. Settled(job[s].since)'
  BY <1>1 DEF Settled, HandledGrow
<1>3. Evidence(s)' = Evidence(s)
  BY DEF Evidence
<1>4. job[s].pc \in Polled => PageComplete(s)'
  BY <1>1 DEF SweepOK, PageComplete
<1>5. ASSUME job[s].pc \in Polled PROVE PageCovered(s)'
  <2> SUFFICES ASSUME NEW v \in Touched(job[s].page), v \notin gone'
               PROVE  \/ Queued(s, v)'
                      \/ (EarliestIn(job[s].page, v) \in job[s].held)'
                      \/ Done(s, v)'
    BY DEF PageCovered, Touched
  <2>1. \/ Queued(s, v) \/ EarliestIn(job[s].page, v) \in job[s].held \/ Done(s, v)
    BY <1>1, <1>5 DEF SweepOK, PageCovered
  <2>2. Queued(s, v) => Queued(s, v)'
    BY DEF Queued
  <2>3. EarliestIn(job[s].page, v)' = EarliestIn(job[s].page, v)
    <3>1. {at'[x] : x \in {y \in job[s].page : VideoOf[y] = v}}
          = {at[x] : x \in {y \in job[s].page : VideoOf[y] = v}}
      OBVIOUS
    <3> QED
      BY <3>1 DEF EarliestIn
  <2>4. Done(s, v) => Done(s, v)'
    <3>1. v \in Video
      BY SweepAssumption DEF WatermarkInv, LabelInv, WellFormed, Job, Touched
    <3>2. \A l \in Label : <<v, l>> \in Key
      BY <3>1 DEF Key
    <3> QED
      BY <1>3, <3>2 DEF Done, HandledGrow, Reached
  <2> QED
    BY <2>1, <2>2, <2>3, <2>4
<1> QED
  BY <1>2, <1>3, <1>4, <1>5

\* Votes stay as they are.
LEMMA VotesSame ==
  ASSUME UNCHANGED <<at, arrived, late>>, NEW s \in Sweep, job'[s].since = job[s].since
  PROVE  /\ Passed(job[s].since)' = Passed(job[s].since)
         /\ \A x \in job[s].page : at'[x] = at[x]
         /\ \A x \in arrived' \ late' :
              at'[x] < job[s].started => x \in arrived \ late /\ at'[x] = at[x]
  BY DEF Passed

\* The labels a sweep has in hand for its current video.
LEMMA VideoFrame ==
  ASSUME WatermarkInv, HandledGrow, NEW s \in Sweep, job'[s].todo = job[s].todo,
         job[s].pc \in OnVideo, Evidence(s)' = Evidence(s),
         job'[s].clean => job[s].clean, VideoCovered(s),
         \A l \in Label : Listed(s, l) => Listed(s, l)' \/ Handled(<<Current(s), l>>)'
  PROVE  VideoCovered(s)'
<1>1. Current(s)' = Current(s) /\ Current(s) \in Video
  BY CurrentOK DEF Current, WatermarkInv, LabelInv
<1> SUFFICES ASSUME job'[s].clean, NEW l \in Label,
                    Reached(Evidence(s), <<Current(s), l>>)'
             PROVE  Listed(s, l)' \/ Handled(<<Current(s), l>>)'
  BY <1>1 DEF VideoCovered, Handled, Confirmed
<1>2. Reached(Evidence(s), <<Current(s), l>>)
  BY <1>1 DEF Reached
<1>3. Listed(s, l) \/ Handled(<<Current(s), l>>)
  BY <1>2 DEF VideoCovered
<1>4. <<Current(s), l>> \in Key
  BY <1>1 DEF Key
<1>5. Handled(<<Current(s), l>>) => Handled(<<Current(s), l>>)'
  <2>1. PICK k \in Key : k = <<Current(s), l>>
    BY <1>4
  <2>2. Handled(k) => Handled(k)'
    BY DEF HandledGrow
  <2> QED
    BY <1>1, <2>1, <2>2 DEF Handled, Confirmed
<1> QED
  BY <1>3, <1>5

LEMMA SweepFrame ==
  ASSUME WatermarkInv, WellFormed', HandledGrow, gone \subseteq gone', NEW s \in Sweep,
         job'[s] = job[s],
         job[s].pc \in {"poll"} \cup Polled =>
           Passed(job[s].since)' = Passed(job[s].since),
         \A x \in job[s].page : at'[x] = at[x],
         job[s].pc \in Polled => \A x \in arrived' \ late' :
           at'[x] < job[s].started => x \in arrived \ late /\ at'[x] = at[x]
  PROVE  SweepOK(s)'
<1>1. SweepOK(s)
  BY DEF WatermarkInv, NothingLost
<1>2. CASE job[s].pc \notin {"poll"} \cup Polled
  BY <1>2 DEF SweepOK, Polled
<1>3. CASE job[s].pc = "poll"
  <2>1. Settled(job[s].since)'
    BY <1>1, <1>3 DEF SweepOK, Settled, HandledGrow
  <2> QED
    BY <1>3, <2>1 DEF SweepOK, Polled, OnVideo, OnCrossing, OnWarning
<1>4. CASE job[s].pc \in Polled
  <2>1. /\ Settled(job[s].since)' /\ Evidence(s)' = Evidence(s)
        /\ PageComplete(s)' /\ PageCovered(s)'
    BY <1>4, PageFrame
  <2>2. ASSUME job[s].pc \in OnVideo \ {"fetch"} PROVE VideoCovered(s)'
    <3>1. VideoCovered(s)
      BY <1>1, <2>2 DEF SweepOK
    <3>2. \A l \in Label : Listed(s, l) => Listed(s, l)'
      BY DEF Listed
    <3> QED
      BY <2>1, <2>2, <3>1, <3>2, VideoFrame
  <2> QED
    BY <1>1, <2>1, <2>2 DEF SweepOK
<1> QED
  BY <1>2, <1>3, <1>4

\* A step on a video that is not the last one.
LEMMA KeepsSweep ==
  ASSUME WatermarkInv, WellFormed', HandledGrow, gone' = gone,
         UNCHANGED <<at, arrived, late>>, NEW s \in Sweep, Keeps(s),
         job[s].pc \in OnVideo, job'[s].pc \in OnVideo,
         Evidence(s)' = Evidence(s) => VideoCovered(s)'
  PROVE  SweepOK(s)'
<1>1. job[s].pc \in {"poll"} \cup Polled /\ job[s].pc \in Polled
  BY DEF Polled
<1>2. /\ Passed(job[s].since)' = Passed(job[s].since)
      /\ \A x \in job[s].page : at'[x] = at[x]
      /\ \A x \in arrived' \ late' :
           at'[x] < job[s].started => x \in arrived \ late /\ at'[x] = at[x]
  BY VotesSame DEF Keeps
<1>3. /\ Settled(job[s].since)' /\ Evidence(s)' = Evidence(s)
      /\ PageComplete(s)' /\ PageCovered(s)'
  BY <1>1, <1>2, PageFrame DEF Keeps
<1>4. job'[s].pc # "finish"
  BY DEF OnVideo, OnCrossing, OnWarning
<1> QED
  BY <1>3, <1>4 DEF SweepOK

\* The last step on a video: it is done, gone, or holds the watermark.
LEMMA LeaveSweep ==
  ASSUME WatermarkInv, WellFormed', HandledGrow, gone' = gone,
         UNCHANGED <<at, arrived, late>>, NEW s \in Sweep, job[s].pc \in OnVideo,
         NEW clean \in BOOLEAN, Becomes(s, AfterVideo(job[s], clean)),
         clean => Current(s) \in gone \/ Done(s, Current(s))
  PROVE  SweepOK(s)'
<1>0. WellFormed /\ SweepOK(s)
  BY DEF WatermarkInv, LabelInv, NothingLost
<1>1. /\ job'[s].pc = IF Tail(job[s].todo) = <<>> THEN "finish" ELSE "fetch"
      /\ job'[s].todo = Tail(job[s].todo)
      /\ job'[s].held = IF clean THEN job[s].held
                        ELSE job[s].held \cup {EarliestIn(job[s].page, Current(s))}
      /\ job'[s].started = job[s].started /\ job'[s].since = job[s].since
      /\ job'[s].page = job[s].page /\ job'[s].full = job[s].full
  BY <1>0, AfterLeaving
<1>2. Settled(job[s].since) /\ PageComplete(s) /\ PageCovered(s)
  BY <1>0 DEF SweepOK, Polled
<1>3. Passed(job[s].since)' = Passed(job[s].since) /\ Evidence(s)' = Evidence(s)
  BY <1>1 DEF Passed, Evidence
<1>4. Settled(job[s].since)'
  BY <1>2, <1>3 DEF Settled, HandledGrow
<1>5. PageComplete(s)'
  BY <1>1, <1>2 DEF PageComplete
<1>6. PageCovered(s)'
  <2> SUFFICES ASSUME NEW v \in Touched(job[s].page), v \notin gone
               PROVE  \/ Queued(s, v)'
                      \/ (EarliestIn(job[s].page, v) \in job[s].held)'
                      \/ Done(s, v)'
    BY <1>1 DEF PageCovered, Touched
  <2>1. \/ Queued(s, v) \/ EarliestIn(job[s].page, v) \in job[s].held \/ Done(s, v)
    BY <1>2 DEF PageCovered
  <2>2. EarliestIn(job[s].page, v)' = EarliestIn(job[s].page, v)
    BY <1>1 DEF EarliestIn
  <2>3. Done(s, v) => Done(s, v)'
    <3>1. v \in Video
      BY <1>0, SweepAssumption DEF WellFormed, Job, Touched
    <3>2. \A l \in Label : <<v, l>> \in Key
      BY <3>1 DEF Key
    <3> QED
      BY <1>3, <3>2 DEF Done, HandledGrow, Reached
  <2>4. CASE v = Current(s) /\ clean
    BY <2>3, <2>4
  <2>5. CASE v = Current(s) /\ ~clean
    BY <1>1, <2>2, <2>5
  <2>6. CASE v # Current(s) /\ Queued(s, v)
    <3>1. PICK i \in 1..Len(job[s].todo) : job[s].todo[i] = v
      BY <2>6 DEF Queued
    <3> DEFINE q == job[s].todo
    <3>2. q \in Seq(Touched(job[s].page)) /\ q # <<>>
      BY <1>0, CurrentOK
    <3> HIDE DEF q
    <3>3. /\ Len(q) \in Nat /\ Len(Tail(q)) = Len(q) - 1 /\ Head(q) = q[1]
          /\ \A j \in 1..Len(Tail(q)) : Tail(q)[j] = q[j + 1]
      BY <3>2, HeadTailProperties, LenProperties
    <3>4. i # 1
      BY <2>6, <3>1, <3>3 DEF Current, q
    <3>5. i \in 1..Len(q) /\ q[i] = v
      BY <3>1 DEF q
    <3>6. i - 1 \in 1..Len(Tail(q)) /\ Tail(q)[i - 1] = v
      <4>1. i - 1 \in 1..Len(Tail(q)) /\ (i - 1) + 1 = i
        BY <3>3, <3>4, <3>5
      <4> QED
        BY <3>3, <3>5, <4>1
    <3>7. job'[s].todo = Tail(q)
      BY <1>1 DEF q
    <3> QED
      BY <3>6, <3>7 DEF Queued
  <2>7. CASE EarliestIn(job[s].page, v) \in job[s].held
    BY <1>1, <2>2, <2>7
  <2>8. CASE Done(s, v)
    BY <2>3, <2>8
  <2> QED
    BY <2>1, <2>4, <2>5, <2>6, <2>7, <2>8
<1>7. job'[s].pc \in {"finish", "fetch"} /\ (job'[s].pc = "finish" => job'[s].todo = <<>>)
  BY <1>1
<1>8. Settled(job[s].since)' /\ job'[s].pc \notin OnVideo \ {"fetch"}
  BY <1>4, <1>7 DEF OnVideo, OnCrossing, OnWarning
<1> QED
  BY <1>5, <1>6, <1>7, <1>8 DEF SweepOK

LEMMA SweepStep ==
  ASSUME WatermarkInv, LabelInv', HandledGrow, UNCHANGED <<at, arrived, late, gone>>,
         cursor' = cursor \/ Settled(cursor'), NEW s \in Sweep,
         \A t \in Sweep \ {s} : job'[t] = job[t], SweepOK(s)'
  PROVE  WatermarkInv'
<1>1. \A t \in Sweep \ {s} : SweepOK(t)'
  <2> SUFFICES ASSUME NEW t \in Sweep \ {s} PROVE SweepOK(t)'
    OBVIOUS
  <2>1. job'[t] = job[t] /\ WellFormed'
    BY DEF LabelInv
  <2>2. Passed(job[t].since)' = Passed(job[t].since)
    BY <2>1 DEF Passed
  <2> QED
    BY <2>1, <2>2, SweepFrame
<1>2. Settled(cursor)'
  <2>1. Settled(cursor')
    BY DEF WatermarkInv, NothingLost
  <2>2. PICK c : c = cursor'
    OBVIOUS
  <2>3. Settled(c) /\ Passed(c)' = Passed(c)
    BY <2>1, <2>2 DEF Passed
  <2>4. Settled(c)'
    BY <2>3 DEF Settled, HandledGrow
  <2> QED
    BY <2>2, <2>4 DEF Settled, Passed
<1> QED
  BY <1>1, <1>2 DEF WatermarkInv, NothingLost

LEMMA ClaimGrows ==
  ASSUME LabelInv, NEW s \in Sweep, Claim(s)
  PROVE  HandledGrow
<1>1. PICK k \in Key : k = KeyOf(s)
  BY KeyOK DEF Claim, OnCrossing, LabelInv
<1>2. /\ decision'[k] \in Decision
      /\ decision[k] # Nothing => decision' = decision
      /\ \A j \in Key \ {k} : decision'[j] = decision[j]
  BY <1>1, ClaimEffect DEF LabelInv
<1>3. DecisionsGrow
  <2>1. decision[k] = Nothing => decision[k] \notin Decision
    BY NothingAssumption
  <2> QED
    BY <1>2, <2>1 DEF DecisionsGrow, Confirmed
<1>4. strikes' = strikes
  BY DEF Claim
<1> QED
  BY <1>3, <1>4, GrowHandled

LEMMA ConfirmGrows ==
  ASSUME LabelInv, NEW s \in Sweep, Confirm(s)
  PROVE  HandledGrow
<1>1. PICK k \in Key : k = KeyOf(s)
  BY ConfirmType DEF LabelInv
<1>2. /\ decision'[k] \in Decision /\ decision'[k].status = "confirmed"
      /\ decision'[k].event = decision[k].event
      /\ \A j \in Key \ {k} : decision'[j] = decision[j]
  BY <1>1, ConfirmType DEF LabelInv
<1>3. DecisionsGrow
  BY <1>2, NothingAssumption DEF DecisionsGrow, Confirmed
<1>4. strikes' = strikes
  BY DEF Confirm
<1> QED
  BY <1>3, <1>4, GrowHandled

LEMMA SameGrows ==
  ASSUME LabelInv, decision' = decision, strikes \subseteq strikes'
  PROVE  HandledGrow
  BY GrowHandled, SameDecisions

LEMMA CheckSweep ==
  ASSUME WatermarkInv, NEW s \in Sweep, Check(s)
  PROVE  WatermarkInv'
<1>1. LabelInv /\ WellFormed /\ WellFormed' /\ LabelInv'
  BY CheckType, CheckLabels DEF WatermarkInv, LabelInv
<1>2. UNCHANGED <<at, arrived, late, gone, cursor, decision, strikes>>
  BY DEF Check, relay, db
<1>3. HandledGrow
  BY <1>1, <1>2, SameGrows
<1>4. PICK c \in job[s].crossings :
              /\ job'[s].crossings = job[s].crossings \ {c} /\ job'[s].crossing = c
              /\ job'[s].pc = IF Confirmed(<<Current(s), c[1]>>) THEN "strike" ELSE "claim"
              /\ job'[s].clean = job[s].clean
  BY <1>1, CheckEffect
<1>5. Keeps(s) /\ job[s].pc = "label"
  BY <1>1, CheckEffect DEF Check
<1>6. job[s].pc \in OnVideo /\ job[s].pc \notin OnCrossing /\ job'[s].pc \in OnVideo
      /\ job'[s].pc \in OnCrossing /\ job'[s].pc \notin OnWarning
  BY <1>4, <1>5 DEF OnVideo, OnCrossing, OnWarning
<1>7. VideoCovered(s)
  BY <1>5, <1>6 DEF WatermarkInv, NothingLost, SweepOK
<1>8. \A l \in Label : Listed(s, l) => Listed(s, l)'
  BY <1>4, <1>6 DEF Listed
<1>9. Evidence(s)' = Evidence(s) => VideoCovered(s)'
  BY <1>3, <1>4, <1>5, <1>6, <1>7, <1>8, VideoFrame DEF Keeps
<1>10. SweepOK(s)'
  BY <1>1, <1>2, <1>3, <1>5, <1>6, <1>9, KeepsSweep
<1> QED
  BY <1>1, <1>2, <1>3, <1>5, <1>10, SweepStep DEF Keeps

\* A step from the crossing in hand to the same crossing, or one that finds
\* the video unclean.
LEMMA CrossingSweep ==
  ASSUME WatermarkInv, LabelInv', HandledGrow,
         UNCHANGED <<at, arrived, late, gone, cursor>>, NEW s \in Sweep, Keeps(s),
         job[s].pc \in OnCrossing, job'[s].pc \in OnCrossing \cup {"label"},
         job'[s].crossings = job[s].crossings,
         \/ job'[s].clean = FALSE
         \/ /\ job'[s].pc \in OnCrossing /\ job'[s].clean = job[s].clean
            /\ job'[s].crossing = job[s].crossing
         \/ /\ job'[s].pc = "label" /\ job'[s].clean = job[s].clean
            /\ \E k \in Key : k = KeyOf(s) /\ Handled(k)'
  PROVE  WatermarkInv'
<1>1. WellFormed /\ WellFormed'
  BY DEF WatermarkInv, LabelInv
<1>2. job[s].pc \in OnVideo \ {"fetch"} /\ job'[s].pc \in OnVideo
      /\ job[s].pc \notin OnWarning /\ job'[s].pc \notin OnWarning
  BY DEF OnVideo, OnCrossing, OnWarning
<1>3. VideoCovered(s)
  BY <1>2 DEF WatermarkInv, NothingLost, SweepOK
<1>4. ASSUME Evidence(s)' = Evidence(s) PROVE VideoCovered(s)'
  <2>1. CASE job'[s].clean = FALSE
    BY <2>1 DEF VideoCovered
  <2>2. CASE /\ job'[s].pc \in OnCrossing /\ job'[s].clean = job[s].clean
             /\ job'[s].crossing = job[s].crossing
    <3>1. \A l \in Label : Listed(s, l) => Listed(s, l)'
      BY <1>2, <2>2 DEF Listed
    <3> QED
      BY <1>2, <1>3, <1>4, <2>2, <3>1, VideoFrame DEF Keeps
  <2>3. CASE /\ job'[s].pc = "label" /\ job'[s].clean = job[s].clean
             /\ \E k \in Key : k = KeyOf(s) /\ Handled(k)'
    <3>1. PICK k \in Key : k = KeyOf(s) /\ Handled(k)'
      BY <2>3
    <3>2. k = <<Current(s), job[s].crossing[1]>> /\ Current(s)' = Current(s)
      BY <3>1 DEF KeyOf, Current, Keeps
    <3>3. ASSUME NEW l \in Label, Listed(s, l)
          PROVE  Listed(s, l)' \/ Handled(<<Current(s), l>>)'
      <4>1. CASE \E c \in job[s].crossings : c[1] = l
        BY <1>2, <4>1 DEF Listed
      <4>2. CASE job[s].crossing[1] = l
        <5>1. k = <<Current(s), l>>'
          BY <3>2, <4>2
        <5> QED
          BY <3>1, <5>1 DEF Handled, Confirmed
      <4> QED
        BY <3>3, <4>1, <4>2 DEF Listed
    <3> QED
      BY <1>2, <1>3, <1>4, <2>3, <3>3, VideoFrame DEF Keeps
  <2> QED
    BY <2>1, <2>2, <2>3
<1>5. SweepOK(s)'
  BY <1>1, <1>2, <1>4, KeepsSweep
<1> QED
  BY <1>5, SweepStep DEF Keeps

LEMMA CrossingSteps ==
  ASSUME WatermarkInv, NEW s \in Sweep,
         Claim(s) \/ BuildFails(s) \/ Publish(s) \/ Confirm(s) \/ Strike(s) \/ StrikeThrows(s)
  PROVE  WatermarkInv'
<1>0. LabelInv /\ WellFormed
  BY DEF WatermarkInv, LabelInv
<1>1. LabelInv'
  <2>1. Next
    BY DEF Next, Works
  <2> QED
    BY <1>0, <2>1, LabelStep
<1>2. CASE Claim(s)
  <2>1. UNCHANGED <<at, arrived, late, gone, cursor>> /\ job[s].pc \in OnCrossing
    BY <1>2 DEF Claim, relay, OnCrossing
  <2>2. /\ Keeps(s) /\ job'[s].pc = "publish" /\ job'[s].crossing = job[s].crossing
        /\ job'[s].crossings = job[s].crossings /\ job'[s].clean = job[s].clean
    BY <1>0, <1>2, ClaimEffect
  <2>3. HandledGrow
    BY <1>0, <1>2, ClaimGrows
  <2>4. job'[s].pc \in OnCrossing
    BY <2>2 DEF OnCrossing
  <2> QED
    BY <1>1, <2>1, <2>2, <2>3, <2>4, CrossingSweep
<1>3. CASE BuildFails(s)
  <2>1. UNCHANGED <<at, arrived, late, gone, cursor, decision, strikes>>
        /\ job[s].pc \in OnCrossing
    BY <1>3 DEF BuildFails, relay, db, OnCrossing
  <2>2. Keeps(s) /\ job'[s].pc = "label" /\ job'[s].clean = FALSE
        /\ job'[s].crossings = job[s].crossings
    BY <1>0, <1>3, BuildFailsType
  <2>3. HandledGrow
    BY <1>0, <2>1, SameGrows
  <2> QED
    BY <1>1, <2>1, <2>2, <2>3, CrossingSweep
<1>4. CASE Publish(s)
  <2>1. UNCHANGED <<at, arrived, late, gone, cursor, decision, strikes>>
        /\ job[s].pc \in OnCrossing
    BY <1>4 DEF Publish, relay, db, OnCrossing
  <2>2. /\ Keeps(s) /\ job'[s].crossing = job[s].crossing
        /\ job'[s].crossings = job[s].crossings
        /\ \/ job'[s].pc = "confirm" /\ job'[s].clean = job[s].clean
           \/ job'[s].pc = "label" /\ job'[s].clean = FALSE
    BY <1>0, <1>4, PublishType
  <2>3. HandledGrow
    BY <1>0, <2>1, SameGrows
  <2>4. "confirm" \in OnCrossing
    BY DEF OnCrossing
  <2> QED
    BY <1>1, <2>1, <2>2, <2>3, <2>4, CrossingSweep
<1>5. CASE Confirm(s)
  <2>1. UNCHANGED <<at, arrived, late, gone, cursor>> /\ job[s].pc \in OnCrossing
    BY <1>5 DEF Confirm, relay, OnCrossing
  <2>2. /\ Keeps(s) /\ job'[s].pc = "strike" /\ job'[s].crossing = job[s].crossing
        /\ job'[s].crossings = job[s].crossings /\ job'[s].clean = job[s].clean
    BY <1>0, <1>5, ConfirmType
  <2>3. HandledGrow
    BY <1>0, <1>5, ConfirmGrows
  <2>4. job'[s].pc \in OnCrossing
    BY <2>2 DEF OnCrossing
  <2> QED
    BY <1>1, <2>1, <2>2, <2>3, <2>4, CrossingSweep
<1>6. CASE Strike(s) \/ StrikeThrows(s)
  <2>1. UNCHANGED <<at, arrived, late, gone, cursor, decision>> /\ job[s].pc = "strike"
    BY <1>6 DEF Strike, StrikeThrows, relay
  <2>2. PICK k \in Key : k = KeyOf(s)
    BY <1>0, <1>6, StrikeType
  <2>3. /\ Keeps(s) /\ job'[s].pc = "label" /\ job'[s].crossings = job[s].crossings
        /\ strikes \subseteq strikes'
        /\ \/ job'[s].clean = FALSE
           \/ /\ job'[s].clean = job[s].clean
              /\ k[2] \notin SelfLabels[k[1]] => k \in strikes'
    BY <1>0, <1>6, <2>2, StrikeType
  <2>4. HandledGrow
    BY <1>0, <2>1, <2>3, SameGrows
  <2>5. Confirmed(k)'
    BY <1>0, <2>1, <2>2 DEF LabelInv, PublishingOK, Confirmed
  <2>6. job'[s].clean = FALSE \/ (job'[s].clean = job[s].clean /\ Handled(k)')
    BY <2>3, <2>5 DEF Handled
  <2>7. job[s].pc \in OnCrossing
    BY <2>1 DEF OnCrossing
  <2> QED
    BY <1>1, <2>1, <2>2, <2>3, <2>4, <2>6, <2>7, CrossingSweep
<1> QED
  BY <1>2, <1>3, <1>4, <1>5, <1>6

\* Fetching counts every vote of the page, and every vote behind the watermark.
LEMMA FetchSweep ==
  ASSUME WatermarkInv, NEW s \in Sweep, Fetch(s)
  PROVE  WatermarkInv'
<1>0. LabelInv /\ WellFormed /\ SharedOK /\ JobOK(s)
  BY DEF WatermarkInv, LabelInv, WellFormed
<1>1. LabelInv' /\ WellFormed'
  <2>1. Next
    BY DEF Next
  <2> QED
    BY <1>0, <2>1, LabelStep, FetchType
<1>2. UNCHANGED <<at, arrived, late, gone, cursor, decision, strikes>>
      /\ job[s].pc \in OnVideo
  BY DEF Fetch, relay, db, OnVideo
<1>3. HandledGrow
  BY <1>0, <1>2, SameGrows
<1>4. CASE Current(s) \in gone
  <2>1. Becomes(s, AfterVideo(job[s], TRUE)) /\ TRUE \in BOOLEAN
    BY <1>0, <1>4, FetchType
  <2>2. SweepOK(s)'
    BY <1>1, <1>2, <1>3, <1>4, <2>1, LeaveSweep
  <2> QED
    BY <1>1, <1>2, <1>3, <2>1, <2>2, SweepStep DEF Becomes
<1>5. CASE Current(s) \notin gone
  <2>1. /\ Keeps(s) /\ job'[s].pc = "label"
        /\ job'[s].crossings = Crossings(Current(s))
    BY <1>0, <1>5, FetchType
  <2>2. PICK v \in Video : v = Current(s)
    BY <1>0, <1>2, CurrentOK
  <2>3. Current(s)' = v
    BY <2>1, <2>2 DEF Current, Keeps
  <2>4. ASSUME Evidence(s)' = Evidence(s) PROVE VideoCovered(s)'
    <3> SUFFICES ASSUME NEW l \in Label, Reached(Evidence(s), <<v, l>>)
                 PROVE  Listed(s, l)'
      BY <2>3, <2>4 DEF VideoCovered, Reached
    <3>1. Evidence(s) \in SUBSET Vote /\ arrived \in SUBSET Vote
          /\ Evidence(s) \subseteq arrived
      BY <1>0 DEF Evidence, Passed, SharedOK, JobOK
    <3>2. Reached(arrived, <<v, l>>)
      BY <3>1, ReachedMore
    <3>3. Tally(arrived, v, l) >= Threshold
      BY <3>2 DEF Reached
    <3>4. <<l, Tally(arrived, v, l)>> \in job'[s].crossings
      BY <2>1, <2>2, <3>3 DEF Crossings
    <3>5. job'[s].pc \notin OnWarning
      BY <2>1 DEF OnWarning
    <3> QED
      BY <3>4, <3>5 DEF Listed
  <2>5. job'[s].pc \in OnVideo
    BY <2>1 DEF OnVideo
  <2>6. SweepOK(s)'
    BY <1>1, <1>2, <1>3, <2>1, <2>4, <2>5, KeepsSweep
  <2> QED
    BY <1>1, <1>2, <1>3, <2>1, <2>6, SweepStep DEF Keeps
<1> QED
  BY <1>4, <1>5

\* A step from one stage of warning the creator to the next.
LEMMA WarningSweep ==
  ASSUME WatermarkInv, LabelInv', HandledGrow,
         UNCHANGED <<at, arrived, late, gone, cursor>>, NEW s \in Sweep, Keeps(s),
         job[s].pc \in OnWarning \/ (job[s].pc = "label" /\ job[s].crossings = {}),
         job'[s].pc \in OnWarning, job'[s].clean = job[s].clean
  PROVE  WatermarkInv'
<1>1. WellFormed /\ WellFormed'
  BY DEF WatermarkInv, LabelInv
<1>2. job[s].pc \in OnVideo \ {"fetch"} /\ job'[s].pc \in OnVideo
      /\ job[s].pc \notin OnCrossing
  BY DEF OnVideo, OnCrossing, OnWarning
<1>3. VideoCovered(s)
  BY <1>2 DEF WatermarkInv, NothingLost, SweepOK
<1>4. \A l \in Label : ~Listed(s, l)
  BY <1>2 DEF Listed
<1>5. Evidence(s)' = Evidence(s) => VideoCovered(s)'
  BY <1>2, <1>3, <1>4, VideoFrame DEF Keeps
<1>6. SweepOK(s)'
  BY <1>1, <1>2, <1>5, KeepsSweep
<1> QED
  BY <1>6, SweepStep DEF Keeps

\* Leaving a video whose crossings are all acted upon, or one that failed.
LEMMA LeavingSweep ==
  ASSUME WatermarkInv, LabelInv', HandledGrow,
         UNCHANGED <<at, arrived, late, gone, cursor>>, NEW s \in Sweep,
         job[s].pc \in OnVideo, NEW clean \in BOOLEAN,
         Becomes(s, AfterVideo(job[s], clean)),
         clean => /\ job[s].clean
                  /\ job[s].pc \in OnWarning \/ (job[s].pc = "label" /\ job[s].crossings = {})
  PROVE  WatermarkInv'
<1>1. WellFormed /\ WellFormed'
  BY DEF WatermarkInv, LabelInv
<1>2. ASSUME clean PROVE Done(s, Current(s))
  <2>1. job[s].pc \in OnVideo \ {"fetch"} /\ job[s].pc \notin OnCrossing
    BY <1>2 DEF OnVideo, OnCrossing, OnWarning
  <2>2. VideoCovered(s)
    BY <2>1 DEF WatermarkInv, NothingLost, SweepOK
  <2>3. \A l \in Label : ~Listed(s, l)
    BY <1>2, <2>1 DEF Listed
  <2> QED
    BY <1>2, <2>2, <2>3 DEF VideoCovered, Done
<1>3. SweepOK(s)'
  BY <1>1, <1>2, LeaveSweep
<1> QED
  BY <1>3, SweepStep DEF Becomes

\* Counting the strikes, warning the creator, and the loop's catch.
LEMMA LastSteps ==
  ASSUME WatermarkInv, NEW s \in Sweep,
         Count(s) \/ ClaimWarning(s) \/ Send(s) \/ Settle(s) \/ Throws(s)
  PROVE  WatermarkInv'
<1>0. LabelInv /\ WellFormed /\ job[s].clean \in BOOLEAN
  BY JobFacts DEF WatermarkInv, LabelInv
<1>1. LabelInv'
  <2>1. Next
    BY DEF Next, Works
  <2> QED
    BY <1>0, <2>1, LabelStep
<1>2. UNCHANGED <<at, arrived, late, gone, cursor, decision, strikes>>
      /\ job[s].pc \in OnVideo
  BY DEF Count, ClaimWarning, Send, Settle, Throws, relay, db, OnVideo, OnWarning
<1>3. HandledGrow
  BY <1>0, <1>2, SameGrows
<1>4. CASE Count(s)
  <2>1. CASE Becomes(s, AfterVideo(job[s], job[s].clean))
    BY <1>0, <1>1, <1>2, <1>3, <1>4, <2>1, CountType, LeavingSweep
  <2>2. CASE Keeps(s) /\ job'[s].pc = "warn" /\ job'[s].clean = job[s].clean
    <3>1. job'[s].pc \in OnWarning
      BY <2>2 DEF OnWarning
    <3> QED
      BY <1>0, <1>1, <1>2, <1>3, <1>4, <2>2, <3>1, CountType, WarningSweep
  <2> QED
    BY <1>0, <1>4, <2>1, <2>2, CountType
<1>5. CASE ClaimWarning(s)
  <2>1. job[s].pc \in OnWarning
    BY <1>5 DEF ClaimWarning, OnWarning
  <2>2. CASE Becomes(s, AfterVideo(job[s], job[s].clean))
    BY <1>0, <1>1, <1>2, <1>3, <2>1, <2>2, LeavingSweep
  <2>3. CASE Keeps(s) /\ job'[s].pc = "send" /\ job'[s].clean = job[s].clean
    <3>1. job'[s].pc \in OnWarning
      BY <2>3 DEF OnWarning
    <3> QED
      BY <1>0, <1>1, <1>2, <1>3, <2>1, <2>3, <3>1, WarningSweep
  <2> QED
    BY <1>0, <1>5, <2>2, <2>3, ClaimWarningType
<1>6. CASE Send(s)
  <2>1. job[s].pc \in OnWarning
    BY <1>6 DEF Send, OnWarning
  <2>2. Keeps(s) /\ job'[s].pc = "settle" /\ job'[s].clean = job[s].clean
    BY <1>0, <1>6, SendType
  <2>3. job'[s].pc \in OnWarning
    BY <2>2 DEF OnWarning
  <2> QED
    BY <1>0, <1>1, <1>2, <1>3, <2>1, <2>2, <2>3, WarningSweep
<1>7. CASE Settle(s)
  <2>1. job[s].pc \in OnWarning
    BY <1>7 DEF Settle, OnWarning
  <2>2. PICK clean \in {job[s].clean, FALSE} : Becomes(s, AfterVideo(job[s], clean))
    BY <1>0, <1>7, SettleType
  <2>3. clean \in BOOLEAN /\ (clean => job[s].clean)
    BY <1>0, <2>2
  <2> QED
    BY <1>0, <1>1, <1>2, <1>3, <2>1, <2>2, <2>3, LeavingSweep
<1>8. CASE Throws(s)
  <2>1. Becomes(s, AfterVideo(job[s], FALSE)) /\ FALSE \in BOOLEAN
    BY <1>0, <1>8, ThrowsType
  <2> QED
    BY <1>1, <1>2, <1>3, <2>1, LeavingSweep
<1> QED
  BY <1>4, <1>5, <1>6, <1>7, <1>8

\* Beginning, reading the watermark, polling, crashing.
LEMMA PollingSteps ==
  ASSUME WatermarkInv, NEW s \in Sweep, Begin(s) \/ ReadCursor(s) \/ Poll(s) \/ Crash(s)
  PROVE  WatermarkInv'
<1>0. LabelInv /\ WellFormed
  BY DEF WatermarkInv, LabelInv
<1>1. LabelInv'
  <2>1. Next
    BY DEF Next, Works
  <2> QED
    BY <1>0, <2>1, LabelStep
<1>2. UNCHANGED <<at, arrived, late, gone, cursor, decision, strikes>>
  BY DEF Begin, ReadCursor, Poll, Crash, relay, db
<1>3. HandledGrow
  BY <1>0, <1>2, SameGrows
<1>4. \A t \in Sweep \ {s} : job'[t] = job[t]
  BY <1>0, OtherSteps
<1>5. CASE Begin(s) \/ Crash(s)
  <2>1. job'[s].pc \in {"idle", "cursor"}
    <3>1. CASE Begin(s)
      BY <1>0, <3>1, BeginType DEF Becomes, Idle
    <3>2. CASE Crash(s)
      BY <1>0, <3>2, CrashType DEF Becomes, Idle
    <3> QED
      BY <1>5, <3>1, <3>2
  <2>2. SweepOK(s)'
    BY <2>1 DEF SweepOK, Polled, OnVideo, OnCrossing, OnWarning
  <2> QED
    BY <1>1, <1>2, <1>3, <1>4, <2>2, SweepStep
<1>6. CASE ReadCursor(s)
  <2>1. job'[s].pc = "poll" /\ job'[s].since = cursor
    BY <1>0, <1>6, ReadCursorType, JobFacts DEF Becomes, Job
  <2>2. Settled(cursor) /\ Passed(cursor)' = Passed(cursor)
    BY <1>2 DEF WatermarkInv, NothingLost, Passed
  <2>3. Settled(job[s].since)'
    BY <1>2, <1>3, <2>1, <2>2 DEF Settled, HandledGrow, Passed
  <2>4. SweepOK(s)'
    BY <2>1, <2>3 DEF SweepOK, Polled, OnVideo, OnCrossing, OnWarning
  <2> QED
    BY <1>1, <1>2, <1>3, <1>4, <2>4, SweepStep
<1>7. CASE Poll(s)
  <2>1. /\ job'[s].pc \in {"finish", "fetch"}
        /\ job'[s].since = job[s].since /\ job'[s].started = job[s].started
        /\ job'[s].page # VotesFrom(job[s].since) => job'[s].full
        /\ job'[s].pc = "finish" => job'[s].todo = <<>>
    BY <1>0, <1>7, PollType
  <2>2. \A v \in Touched(job'[s].page) :
          \/ \E i \in 1..Len(job'[s].todo) : job'[s].todo[i] = v
          \/ EarliestIn(job'[s].page, v) \in job'[s].held
    BY <1>0, <1>7, PollType
  <2>3. Settled(job[s].since) /\ Passed(job[s].since)' = Passed(job[s].since)
    BY <1>2, <1>7, <2>1 DEF WatermarkInv, NothingLost, SweepOK, Poll, Passed
  <2>4. Settled(job[s].since)'
    BY <1>2, <1>3, <2>1, <2>3 DEF Settled, HandledGrow
  <2>5. PageComplete(s)'
    BY <1>2, <2>1 DEF PageComplete, VotesFrom
  <2>6. PageCovered(s)'
    <3> SUFFICES ASSUME NEW v \in Touched(job'[s].page)
                 PROVE  Queued(s, v)' \/ (EarliestIn(job[s].page, v) \in job[s].held)'
      BY DEF PageCovered, Touched
    <3>1. EarliestIn(job[s].page, v)' = EarliestIn(job'[s].page, v)
      BY <1>2 DEF EarliestIn
    <3> QED
      BY <2>2, <3>1 DEF Queued
  <2>7. job'[s].pc \notin OnVideo \ {"fetch"}
    BY <2>1 DEF OnVideo, OnCrossing, OnWarning
  <2>8. SweepOK(s)'
    BY <2>1, <2>4, <2>5, <2>6, <2>7 DEF SweepOK
  <2> QED
    BY <1>1, <1>2, <1>3, <1>4, <2>8, SweepStep
<1> QED
  BY <1>5, <1>6, <1>7

\* Finishing: whoever is behind the new watermark was behind the old one, or
\* is in the page of the sweep, and then its video is done with or gone.
LEMMA FinishSweep ==
  ASSUME WatermarkInv, NEW s \in Sweep, Finish(s)
  PROVE  WatermarkInv'
<1>0. LabelInv /\ WellFormed /\ SharedOK /\ JobOK(s) /\ SweepOK(s)
  BY DEF WatermarkInv, LabelInv, WellFormed, NothingLost
<1>1. LabelInv'
  <2>1. Next
    BY DEF Next, Works
  <2> QED
    BY <1>0, <2>1, LabelStep
<1>2. UNCHANGED <<at, arrived, late, gone, decision, strikes>> /\ job[s].pc = "finish"
  BY DEF Finish, relay, db
<1>3. HandledGrow
  BY <1>0, <1>2, SameGrows
<1>4. \A t \in Sweep \ {s} : job'[t] = job[t]
  BY <1>0, OtherSteps
<1>5. job'[s].pc = "idle"
  BY <1>0, FinishType DEF Becomes, Idle
<1>6. SweepOK(s)'
  BY <1>5 DEF SweepOK, Polled, OnVideo, OnCrossing, OnWarning
<1> DEFINE page == job[s].page
           since == job[s].since
<1>7. /\ Settled(since) /\ PageComplete(s) /\ PageCovered(s) /\ job[s].todo = <<>>
      /\ page \in SUBSET arrived /\ arrived \in SUBSET Vote
      /\ since \in Nat /\ job[s].started \in Nat
      /\ \A x \in Vote : at[x] \in Nat
  BY <1>0, <1>2, JobFacts, SweepAssumption DEF SweepOK, JobOK, SharedOK, Polled
<1>8. /\ cursor' \in Nat /\ cursor' >= since
      /\ cursor' > since => /\ ~job[s].full /\ cursor' <= job[s].started
                            /\ \A h \in job[s].held : cursor' < h
  BY <1>0, Watermark
<1>9. Settled(cursor')
  <2>1. CASE cursor' = since
    BY <1>7, <2>1
  <2>2. CASE cursor' > since
    <3> SUFFICES ASSUME NEW k \in Key, Reached(Passed(cursor'), k), k[1] \notin gone
                 PROVE  Handled(k)
      BY DEF Settled
    <3>1. k[1] \in Video /\ k[2] \in Label /\ k = <<k[1], k[2]>>
      BY DEF Key
    <3>2. /\ Passed(cursor') \in SUBSET Vote /\ Passed(since) \in SUBSET Vote
          /\ Evidence(s) \in SUBSET Vote
      BY <1>7 DEF Passed, Evidence
    <3>3. \A x \in Passed(cursor') : x \in Passed(since) \/ x \in page
      BY <1>7, <1>8, <2>2 DEF Passed, PageComplete
    <3>4. CASE k[1] \notin Touched(page)
      <4>1. \A x \in Passed(cursor') : VideoOf[x] = k[1] => x \in Passed(since)
        BY <3>3, <3>4 DEF Touched
      <4>2. Reached(Passed(since), k)
        BY <3>2, <4>1, ReachedMore
      <4> QED
        BY <1>7, <4>2 DEF Settled
    <3>5. CASE k[1] \in Touched(page) /\ EarliestIn(page, k[1]) \in job[s].held
      <4>1. EarliestIn(page, k[1]) > cursor'
        BY <1>8, <2>2, <3>5, <1>7, JobFacts, <1>0 DEF Job
      <4>2. \A x \in page : VideoOf[x] = k[1] => EarliestIn(page, k[1]) <= at[x]
        <5>1. page \subseteq Vote /\ k[1] \in Touched(page)
          BY <1>7, <3>5
        <5> QED
          BY <1>0, <5>1, EarliestVote
      <4>3. \A x \in Passed(cursor') : VideoOf[x] = k[1] => x \in Passed(since)
        <5> SUFFICES ASSUME NEW x \in Passed(cursor'), VideoOf[x] = k[1], x \in page
                     PROVE  FALSE
          BY <3>3
        <5>1. at[x] < cursor' /\ at[x] \in Nat
          BY <1>7 DEF Passed
        <5>2. EarliestIn(page, k[1]) <= at[x] /\ EarliestIn(page, k[1]) \in Nat
          BY <1>0, <3>5, <4>2, JobFacts DEF Job
        <5> QED
          BY <1>8, <4>1, <5>1, <5>2
      <4>4. Reached(Passed(since), k)
        BY <3>2, <4>3, ReachedMore
      <4> QED
        BY <1>7, <4>4 DEF Settled
    <3>6. CASE Done(s, k[1])
      <4>1. \A x \in Passed(cursor') : VideoOf[x] = k[1] => x \in Evidence(s)
        BY <3>3 DEF Evidence
      <4>2. Reached(Evidence(s), k)
        BY <3>2, <4>1, ReachedMore
      <4> QED
        BY <3>1, <3>6, <4>2 DEF Done
    <3>7. ~Queued(s, k[1])
      BY <1>7 DEF Queued
    <3> QED
      BY <1>7, <3>4, <3>5, <3>6, <3>7 DEF PageCovered
  <2> QED
    BY <1>7, <1>8, <2>1, <2>2
<1> QED
  BY <1>1, <1>2, <1>3, <1>4, <1>6, <1>9, SweepStep

\* The world around the sweeps: a vote that arrives is late, or is behind no
\* watermark that is set or about to be set.
LEMMA OutsideSweep ==
  ASSUME WatermarkInv, LabelInv', UNCHANGED <<cursor, decision, strikes, job>>,
         gone \subseteq gone', Passed(cursor)' = Passed(cursor),
         \A x \in arrived : at'[x] = at[x],
         \A s \in Sweep : job[s].pc \in {"poll"} \cup Polled =>
           Passed(job[s].since)' = Passed(job[s].since),
         \A s \in Sweep : job[s].pc \in Polled => \A x \in arrived' \ late' :
           at'[x] < job[s].started => x \in arrived \ late /\ at'[x] = at[x]
  PROVE  WatermarkInv'
<1>0. LabelInv /\ WellFormed /\ WellFormed'
  BY DEF WatermarkInv, LabelInv
<1>1. HandledGrow
  BY <1>0, SameGrows
<1>2. ASSUME NEW s \in Sweep PROVE SweepOK(s)'
  <2>1. job'[s] = job[s] /\ job[s].page \subseteq arrived
    BY <1>0 DEF WellFormed, JobOK
  <2>2. \A x \in job[s].page : at'[x] = at[x]
    BY <2>1
  <2> QED
    BY <1>0, <1>1, <2>1, <2>2, SweepFrame
<1>3. Settled(cursor)'
  BY <1>1 DEF WatermarkInv, NothingLost, Settled, HandledGrow
<1> QED
  BY <1>2, <1>3 DEF WatermarkInv, NothingLost

LEMMA OutsideSteps ==
  ASSUME WatermarkInv,
         \/ \E x \in Vote : Sign(x) \/ Arrive(x)
         \/ \E v \in Video : DeleteVideo(v)
         \/ Tick \/ UNCHANGED vars
  PROVE  WatermarkInv'
<1>0. LabelInv /\ WellFormed /\ SharedOK
  BY DEF WatermarkInv, LabelInv, WellFormed
<1>1. LabelInv'
  <2>1. [Next]_vars
    BY DEF Next
  <2> QED
    BY <1>0, <2>1, LabelStep
<1>2. UNCHANGED <<cursor, decision, strikes, job>>
  BY DEF Sign, Arrive, DeleteVideo, Tick, vars, db
<1>3. CASE (\E v \in Video : DeleteVideo(v)) \/ Tick \/ UNCHANGED vars
  <2>1. UNCHANGED <<at, arrived, late>> /\ gone \subseteq gone'
    BY <1>3 DEF DeleteVideo, Tick, vars, relay
  <2>2. Passed(cursor)' = Passed(cursor)
        /\ \A s \in Sweep : Passed(job[s].since)' = Passed(job[s].since)
    BY <1>2, <2>1 DEF Passed
  <2> QED
    BY <1>1, <1>2, <2>1, <2>2, OutsideSweep
<1>4. ASSUME NEW x \in Vote, Sign(x) PROVE WatermarkInv'
  <2>1. UNCHANGED <<arrived, gone, late>> /\ at[x] = 0 /\ x \notin arrived
    BY <1>0, <1>4 DEF Sign, SharedOK
  <2>2. \A y \in arrived : at'[y] = at[y]
    BY <1>0, <1>4, <2>1, SignType DEF SharedOK
  <2>3. Passed(cursor)' = Passed(cursor)
        /\ \A s \in Sweep : Passed(job[s].since)' = Passed(job[s].since)
    BY <1>2, <2>1, <2>2 DEF Passed
  <2> QED
    BY <1>1, <1>2, <2>1, <2>2, <2>3, OutsideSweep
<1>5. ASSUME NEW x \in Vote, Arrive(x) PROVE WatermarkInv'
  <2>1. /\ UNCHANGED <<at, gone>> /\ x \notin arrived /\ arrived' = arrived \cup {x}
        /\ late' = IF \/ cursor > at[x]
                      \/ \E s \in Sweep : \/ job[s].since > at[x]
                                          \/ job[s].pc \in Polled /\ job[s].started > at[x]
                   THEN late \cup {x} ELSE late
    BY <1>5 DEF Arrive
  <2>2. late \subseteq arrived
    BY <1>0 DEF SharedOK
  <2>3. CASE late' = late \cup {x}
    <3>1. arrived' \ late' = arrived \ late
      BY <2>1, <2>2, <2>3
    <3>2. Passed(cursor)' = Passed(cursor)
          /\ \A s \in Sweep : Passed(job[s].since)' = Passed(job[s].since)
      BY <1>2, <2>1, <3>1 DEF Passed
    <3> QED
      BY <1>1, <1>2, <2>1, <3>1, <3>2, OutsideSweep
  <2>4. CASE late' = late /\ ~(cursor > at[x])
             /\ \A s \in Sweep : /\ ~(job[s].since > at[x])
                                 /\ job[s].pc \in Polled => ~(job[s].started > at[x])
    <3>1. arrived' \ late' = (arrived \ late) \cup {x}
      BY <2>1, <2>2, <2>4
    <3>2. at[x] \in Nat /\ cursor \in Nat
          /\ \A s \in Sweep : job[s].since \in Nat /\ job[s].started \in Nat
      BY <1>0, JobFacts, SweepAssumption DEF SharedOK
    <3>3. Passed(cursor)' = Passed(cursor)
      BY <1>2, <2>1, <2>4, <3>1, <3>2 DEF Passed
    <3>4. \A s \in Sweep : Passed(job[s].since)' = Passed(job[s].since)
      BY <1>2, <2>1, <2>4, <3>1, <3>2 DEF Passed
    <3>5. \A s \in Sweep : job[s].pc \in Polled => \A y \in arrived' \ late' :
            at'[y] < job[s].started => y \in arrived \ late /\ at'[y] = at[y]
      BY <2>1, <2>4, <3>1, <3>2
    <3> QED
      BY <1>1, <1>2, <2>1, <3>3, <3>4, <3>5, OutsideSweep
  <2> QED
    BY <2>1, <2>3, <2>4
<1> QED
  BY <1>3, <1>4, <1>5

LEMMA WatermarkStep == WatermarkInv /\ [Next]_vars => WatermarkInv'
<1> SUFFICES ASSUME WatermarkInv, [Next]_vars PROVE WatermarkInv'
  OBVIOUS
<1>1. CASE \/ \E x \in Vote : Sign(x) \/ Arrive(x)
           \/ \E v \in Video : DeleteVideo(v)
           \/ Tick \/ UNCHANGED vars
  BY <1>1, OutsideSteps
<1>2. ASSUME NEW s \in Sweep,
             Begin(s) \/ ReadCursor(s) \/ Poll(s) \/ Crash(s) \/ Finish(s)
      PROVE  WatermarkInv'
  BY <1>2, PollingSteps, FinishSweep
<1>3. ASSUME NEW s \in Sweep,
             \/ Fetch(s) \/ Check(s) \/ Claim(s) \/ BuildFails(s) \/ Publish(s) \/ Confirm(s)
             \/ Strike(s) \/ StrikeThrows(s)
      PROVE  WatermarkInv'
  BY <1>3, FetchSweep, CheckSweep, CrossingSteps
<1>4. ASSUME NEW s \in Sweep,
             Count(s) \/ ClaimWarning(s) \/ Send(s) \/ Settle(s) \/ Throws(s)
      PROVE  WatermarkInv'
  BY <1>4, LastSteps
<1> QED
  BY <1>1, <1>2, <1>3, <1>4 DEF Next, Works

LEMMA InitWatermark == Init => WatermarkInv
<1> SUFFICES ASSUME Init PROVE WatermarkInv
  OBVIOUS
<1>1. LabelInv
  BY InitLabels
<1>2. \A s \in Sweep : SweepOK(s)
  BY DEF Init, Idle, SweepOK, Polled, OnVideo, OnCrossing, OnWarning
<1>3. ASSUME NEW k \in Key PROVE ~Reached(Passed(cursor), k)
  <2>1. Passed(cursor) = {}
    BY DEF Init, Passed
  <2>2. {Author[x] : x \in {y \in {} : VideoOf[y] = k[1] /\ LabelOf[y] = k[2]}} = {}
    OBVIOUS
  <2>3. Tally({}, k[1], k[2]) = 0
    BY <2>2, FS_EmptySet DEF Tally
  <2> QED
    BY <2>1, <2>3, SweepAssumption DEF Reached
<1> QED
  BY <1>1, <1>2, <1>3 DEF WatermarkInv, NothingLost, Settled

\* No vote is left behind the watermark: whatever fails, crashes, overlaps or
\* is deferred, the votes that have been passed over, late ones aside, form no
\* consensus without its label and its strike.
THEOREM NothingLeftBehind == Spec => []NoVoteLeftBehind
<1>1. Spec => []WatermarkInv
  BY InitWatermark, WatermarkStep, PTL DEF Spec
<1> QED
  BY <1>1, WatermarkProperty, PTL

=============================================================================
