------------------------ MODULE CreatorDelete_proofs ------------------------
(***************************************************************************)
(* Theorems about CreatorDelete, for every set of invocations, deletions,  *)
(* blobs and every value of the limits that DataAssumption, TimeAssumption *)
(* and ClaimAssumption allow.                                              *)
(***************************************************************************)
EXTENDS CreatorDelete, SequenceTheorems, TLAPS

\* The e-tags that processKind5 looks at are a sequence of targets.
LEMMA CappedType ==
  ASSUME NEW tags \in Seq(Target)
  PROVE  Capped(tags) \in Seq(Target)
<1> DEFINE n == IF Len(tags) < MaxTargets THEN Len(tags) ELSE MaxTargets
<1>1. Len(tags) \in Nat /\ n \in Nat /\ n <= Len(tags)
  BY TimeAssumption, LenProperties
<1>2. \A i \in 1..n : tags[i] \in Target
  BY <1>1, ElementOfSeq
<1> QED
  BY <1>1, <1>2, SubSeqProperties DEF Capped

\* Every reachable state is well typed.
LEMMA InitType == Init => TypeOK
<1> SUFFICES ASSUME Init PROVE TypeOK
  OBVIOUS
<1>1. (CHOOSE k \in Kind5 : TRUE) \in Kind5
  BY DataAssumption
<1>2. NoVerdict \in Verdict
  BY DEF NoVerdict, Verdict
<1>3. <<>> \in Seq(Target)
  BY EmptySeq
<1> QED
  BY <1>1, <1>2, <1>3 DEF Init, TypeOK

-----------------------------------------------------------------------------
(* Well-formed states: typed, and an invocation that runs has a target, a  *)
(* row once its INSERT has been answered, and a row read when it needs it. *)

LocalOK ==
  /\ pc \in [Worker -> {"idle"} \cup Claiming \cup Holding]
  /\ kind5 \in [Worker -> Kind5]
  /\ todo \in [Worker -> Seq(Target)]
  /\ stamp \in [Worker -> Nat]
  /\ seen \in [Worker -> Row \cup {NoRow}]
  /\ verdict \in [Worker -> Verdict]

Busy(w) ==
  /\ pc[w] # "idle" => todo[w] # <<>>
  /\ pc[w] \notin {"idle", "insert"} => rows[Key(w)] # NoRow
  /\ pc[w] \in {"idle", "insert", "read"} => seen[w] = NoRow
  /\ pc[w] \in {"decide", "reclaim"} => seen[w] # NoRow
  /\ pc[w] = "blossom" => Entitled(Key(w))

WellFormed == TypeOK /\ \A w \in Worker : Busy(w)

\* The local state of an invocation is what it was.
Same(v) ==
  /\ pc'[v] = pc[v] /\ kind5'[v] = kind5[v] /\ todo'[v] = todo[v]
  /\ stamp'[v] = stamp[v] /\ seen'[v] = seen[v] /\ verdict'[v] = verdict[v]

Others(w) == \A v \in Worker \ {w} : Same(v)

LEMMA KeyType ==
  ASSUME TypeOK, NEW w \in Worker, todo[w] # <<>>
  PROVE  /\ Key(w) \in Deletion
         /\ kind5[w] \in Kind5
         /\ TargetOf(w) \in Target
         /\ Tail(todo[w]) \in Seq(Target)
<1>1. todo[w] \in Seq(Target) /\ kind5[w] \in Kind5
  BY DEF TypeOK
<1> QED
  BY <1>1, HeadTailProperties DEF Key, TargetOf, Deletion

\* Stopping, or going on to the next target.
LEMMA LeaveEffect ==
  ASSUME TypeOK, NEW w \in Worker, todo[w] # <<>>, NextTarget(w) \/ Stop(w)
  PROVE  /\ LocalOK' /\ Others(w)
         /\ pc'[w] \in {"idle", "insert"} /\ seen'[w] = NoRow
         /\ pc'[w] = "insert" => todo'[w] # <<>> /\ stamp'[w] = now
<1>1. LocalOK /\ now \in Nat
  BY DEF TypeOK, LocalOK
<1>2. (CHOOSE k \in Kind5 : TRUE) \in Kind5 /\ NoVerdict \in Verdict
  BY DataAssumption DEF NoVerdict, Verdict
<1>3. <<>> \in Seq(Target) /\ Tail(todo[w]) \in Seq(Target)
  BY KeyType, EmptySeq
<1>4. CASE Stop(w)
  BY <1>1, <1>2, <1>3, <1>4 DEF Stop, LocalOK, Others, Same
<1>5. CASE NextTarget(w) /\ Tail(todo[w]) # <<>>
  BY <1>1, <1>2, <1>3, <1>5, ZenonT(60) DEF NextTarget, LocalOK, Others, Same, Claiming
<1> QED
  BY <1>4, <1>5 DEF NextTarget

LEMMA GoToEffect ==
  ASSUME TypeOK, NEW w \in Worker, NEW l \in Claiming \cup Holding, GoTo(w, l)
  PROVE  /\ LocalOK' /\ Others(w) /\ pc'[w] = l
         /\ kind5' = kind5 /\ todo' = todo /\ stamp' = stamp
         /\ seen' = seen /\ verdict' = verdict
  BY DEF GoTo, TypeOK, LocalOK, Others, Same

LEMMA ConcludeEffect ==
  ASSUME TypeOK, NEW w \in Worker, NEW v \in Verdict, Conclude(w, v)
  PROVE  /\ LocalOK' /\ Others(w) /\ pc'[w] = "write" /\ verdict'[w] = v
         /\ kind5' = kind5 /\ todo' = todo /\ stamp' = stamp /\ seen' = seen
  BY DEF Conclude, TypeOK, LocalOK, Others, Same, Holding

\* The rows after the UPDATEs.
LEMMA ReclaimedRow ==
  ASSUME TypeOK, NEW w \in Worker, Key(w) \in Deletion, rows[Key(w)] # NoRow,
         rows' = [rows EXCEPT ![Key(w)] = Claimed(stamp[w], @.retries)]
  PROVE  /\ rows' \in [Deletion -> Row \cup {NoRow}]
         /\ rows'[Key(w)] = Claimed(stamp[w], rows[Key(w)].retries)
         /\ rows'[Key(w)] \in Row
         /\ \A d \in Deletion \ {Key(w)} : rows'[d] = rows[d]
<1>1. rows[Key(w)] \in Row /\ stamp[w] \in Nat
  BY DEF TypeOK
<1>2. Claimed(stamp[w], rows[Key(w)].retries) \in Row
  BY <1>1 DEF Row, Claimed
<1> QED
  BY <1>2 DEF TypeOK

Written(w) ==
  [status |-> verdict[w].status,
   acceptedAt |-> rows[Key(w)].acceptedAt,
   retries |-> IF verdict[w].bump THEN rows[Key(w)].retries + 1 ELSE rows[Key(w)].retries]

LEMMA WrittenRow ==
  ASSUME TypeOK, NEW w \in Worker, Key(w) \in Deletion, rows[Key(w)] # NoRow, Write(w)
  PROVE  /\ rows' \in [Deletion -> Row \cup {NoRow}]
         /\ rows'[Key(w)] = Written(w)
         /\ rows'[Key(w)] \in Row
         /\ \A d \in Deletion \ {Key(w)} : rows'[d] = rows[d]
<1>1. rows[Key(w)] \in Row /\ verdict[w] \in Verdict
  BY DEF TypeOK
<1>2. Written(w) \in Row
  <2>1. CASE verdict[w].bump
    BY <1>1, <2>1 DEF Row, Verdict, Written
  <2>2. CASE ~verdict[w].bump
    BY <1>1, <2>2 DEF Row, Verdict, Written
  <2> QED
    BY <2>1, <2>2
<1>3. rows' = [rows EXCEPT ![Key(w)] = Written(w)]
  BY DEF Write, Written
<1> QED
  BY <1>2, <1>3 DEF TypeOK

\* An action of w leaves the others well formed when no row disappears.
LEMMA BusyElsewhere ==
  ASSUME WellFormed, NEW w \in Worker, Others(w),
         \A d \in Deletion : rows[d] # NoRow => rows'[d] # NoRow
  PROVE  \A v \in Worker \ {w} : Busy(v)'
<1> SUFFICES ASSUME NEW v \in Worker \ {w} PROVE Busy(v)'
  OBVIOUS
<1>1. Busy(v) /\ Same(v) /\ TypeOK
  BY DEF WellFormed, Others
<1>2. CASE pc[v] = "idle"
  BY <1>1, <1>2 DEF Busy, Same
<1>3. CASE pc[v] # "idle"
  <2>1. Key(v) \in Deletion
    BY <1>1, <1>3, KeyType DEF Busy
  <2>2. Key(v)' = Key(v)
    BY <1>1 DEF Same, Key
  <2> QED
    BY <1>1, <1>3, <2>1, <2>2 DEF Busy, Same
<1> QED
  BY <1>2, <1>3

LEMMA VerdictType ==
  ASSUME TypeOK, NEW w \in Worker
  PROVE  Retryable(w) \in Verdict /\ Permanent \in Verdict
  BY DEF Retryable, Permanent, Verdict

LEMMA BeginEffect ==
  ASSUME TypeOK, NEW w \in Worker, NEW k \in Kind5, NEW tags \in Seq(Target),
         Begin(w, k, tags)
  PROVE  /\ LocalOK' /\ Others(w)
         /\ pc[w] = "idle" /\ pc'[w] = "insert"
         /\ todo'[w] # <<>> /\ stamp'[w] = now /\ seen' = seen
         /\ UNCHANGED <<now, rows, gone, overrun>>
  BY DEF Begin, TypeOK, LocalOK, Others, Same, Claiming

\* What every step of an invocation does: it leaves the others alone, and
\* neither the clock nor overrun moves.  Starting is a Begin.
LEMMA StartIsBegin ==
  ASSUME TypeOK, NEW w \in Worker, Start(w) \/ StartRetry(w)
  PROVE  \E k \in Kind5, tags \in Seq(Target) : Begin(w, k, tags)
<1>1. CASE Start(w)
  BY <1>1, CappedType, DataAssumption DEF Start
<1>2. CASE StartRetry(w)
  BY <1>2 DEF StartRetry
<1> QED
  BY <1>1, <1>2

LEMMA WellFormedStep == WellFormed /\ [Next]_vars => WellFormed'
<1> SUFFICES ASSUME WellFormed, [Next]_vars PROVE WellFormed'
  OBVIOUS
<1> USE DEF WellFormed
<1>0. TypeOK' <=> LocalOK' /\ now' \in Nat /\ rows' \in [Deletion -> Row \cup {NoRow}]
                  /\ gone' \in SUBSET Blob /\ overrun' \in BOOLEAN
  BY DEF TypeOK, LocalOK
<1>1. /\ now \in Nat /\ rows \in [Deletion -> Row \cup {NoRow}]
      /\ gone \in SUBSET Blob /\ overrun \in BOOLEAN /\ LocalOK
  BY DEF TypeOK, LocalOK
<1>2. ASSUME NEW w \in Worker, Start(w) \/ StartRetry(w) PROVE WellFormed'
  <2>1. PICK k \in Kind5, tags \in Seq(Target) : Begin(w, k, tags)
    BY <1>2, StartIsBegin
  <2>2. /\ LocalOK' /\ Others(w) /\ UNCHANGED <<now, rows, gone, overrun>>
        /\ pc[w] = "idle" /\ pc'[w] = "insert" /\ todo'[w] # <<>> /\ seen' = seen
    BY <2>1, BeginEffect
  <2>3. \A v \in Worker \ {w} : Busy(v)'
    BY <2>2, BusyElsewhere
  <2>4. Busy(w)'
    BY <2>2 DEF Busy
  <2> QED
    BY <1>0, <1>1, <2>2, <2>3, <2>4
<1>3. ASSUME NEW w \in Worker, pc[w] # "idle",
             NextTarget(w) \/ Stop(w),
             rows' \in [Deletion -> Row \cup {NoRow}],
             \A d \in Deletion : rows[d] # NoRow => rows'[d] # NoRow,
             UNCHANGED <<now, gone, overrun>>
      PROVE  WellFormed'
  <2>1. todo[w] # <<>>
    BY <1>3 DEF Busy
  <2>2. /\ LocalOK' /\ Others(w) /\ pc'[w] \in {"idle", "insert"} /\ seen'[w] = NoRow
        /\ pc'[w] = "insert" => todo'[w] # <<>>
    BY <1>3, <2>1, LeaveEffect
  <2>3. Busy(w)'
    BY <2>2 DEF Busy
  <2> QED
    BY <1>0, <1>1, <1>3, <2>2, <2>3, BusyElsewhere
<1>4. ASSUME NEW w \in Worker, Insert(w) PROVE WellFormed'
  <2>1. /\ pc[w] = "insert" /\ todo[w] # <<>> /\ seen[w] = NoRow
        /\ Key(w) \in Deletion /\ stamp[w] \in Nat
    BY <1>4, KeyType DEF Insert, Busy, TypeOK
  <2>2. CASE rows[Key(w)] = NoRow
    <3>1. rows' = [rows EXCEPT ![Key(w)] = Claimed(stamp[w], 0)] /\ GoTo(w, "fetch")
      BY <1>4, <2>2 DEF Insert
    <3>2. Claimed(stamp[w], 0) \in Row
      BY <2>1 DEF Claimed, Row
    <3>3. Claimed(stamp[w], 0) # NoRow
      BY <3>2, DataAssumption
    <3>4. rows' \in [Deletion -> Row \cup {NoRow}] /\ rows'[Key(w)] # NoRow
          /\ \A d \in Deletion : rows[d] # NoRow => rows'[d] # NoRow
      BY <1>1, <2>1, <3>1, <3>2, <3>3
    <3>5. LocalOK' /\ Others(w) /\ pc'[w] = "fetch"
          /\ kind5' = kind5 /\ todo' = todo /\ seen' = seen
      BY <3>1, GoToEffect DEF Holding
    <3>6. Busy(w)'
      BY <2>1, <3>4, <3>5 DEF Busy, Key
    <3> QED
      BY <1>0, <1>1, <1>4, <3>4, <3>5, <3>6, BusyElsewhere DEF Insert
  <2>3. CASE rows[Key(w)] # NoRow
    <3>1. GoTo(w, "read") /\ UNCHANGED <<rows, now, gone, overrun>>
      BY <1>4, <2>3 DEF Insert
    <3>2. LocalOK' /\ Others(w) /\ pc'[w] = "read"
          /\ kind5' = kind5 /\ todo' = todo /\ seen' = seen
      BY <3>1, GoToEffect DEF Claiming
    <3>3. Busy(w)'
      BY <2>1, <2>3, <3>1, <3>2 DEF Busy, Key
    <3> QED
      BY <1>0, <1>1, <3>1, <3>2, <3>3, BusyElsewhere
  <2> QED
    BY <2>2, <2>3
<1>5. ASSUME NEW w \in Worker, Read(w) PROVE WellFormed'
  <2>1. /\ pc[w] = "read" /\ todo[w] # <<>> /\ rows[Key(w)] # NoRow
        /\ Key(w) \in Deletion
    BY <1>5, KeyType DEF Read, Busy
  <2>2. LocalOK' /\ Others(w) /\ pc'[w] = "decide" /\ kind5' = kind5 /\ todo' = todo
        /\ seen'[w] = rows[Key(w)]
    BY <1>1, <1>5, <2>1 DEF Read, LocalOK, Others, Same, Claiming
  <2>3. UNCHANGED <<rows, now, gone, overrun>>
    BY <1>5 DEF Read
  <2>4. Busy(w)'
    BY <2>1, <2>2, <2>3 DEF Busy, Key
  <2> QED
    BY <1>0, <1>1, <2>2, <2>3, <2>4, BusyElsewhere
<1>6. ASSUME NEW w \in Worker, Decide(w) PROVE WellFormed'
  <2>1. /\ pc[w] = "decide" /\ rows[Key(w)] # NoRow /\ seen[w] # NoRow /\ todo[w] # <<>>
    BY <1>6 DEF Decide, Busy
  <2>2. UNCHANGED <<rows, now, gone, overrun>>
    BY <1>6 DEF Decide
  <2>3. CASE GoTo(w, "reclaim")
    <3>1. LocalOK' /\ Others(w) /\ pc'[w] = "reclaim"
          /\ kind5' = kind5 /\ todo' = todo /\ seen' = seen
      BY <2>3, GoToEffect DEF Claiming
    <3>2. Busy(w)'
      BY <2>1, <2>2, <3>1 DEF Busy, Key
    <3> QED
      BY <1>0, <1>1, <2>2, <3>1, <3>2, BusyElsewhere
  <2>4. CASE NextTarget(w)
    BY <1>1, <1>3, <2>1, <2>2, <2>4
  <2> QED
    BY <1>6, <2>3, <2>4 DEF Decide
<1>7. ASSUME NEW w \in Worker, Reclaim(w) PROVE WellFormed'
  <2>1. /\ pc[w] = "reclaim" /\ rows[Key(w)] # NoRow /\ todo[w] # <<>>
        /\ Key(w) \in Deletion
    BY <1>7, KeyType DEF Reclaim, Busy
  <2>2. UNCHANGED <<now, gone, overrun>>
    BY <1>7 DEF Reclaim
  <2>3. CASE /\ rows' = [rows EXCEPT ![Key(w)] = Claimed(stamp[w], @.retries)]
             /\ GoTo(w, "fetch")
    <3>1. LocalOK' /\ Others(w) /\ pc'[w] = "fetch"
          /\ kind5' = kind5 /\ todo' = todo /\ seen' = seen
      BY <2>3, GoToEffect DEF Holding
    <3>2. /\ rows' \in [Deletion -> Row \cup {NoRow}]
          /\ rows'[Key(w)] \in Row
          /\ \A d \in Deletion \ {Key(w)} : rows'[d] = rows[d]
      BY <2>1, <2>3, ReclaimedRow
    <3>3. rows'[Key(w)] # NoRow /\ \A d \in Deletion : rows[d] # NoRow => rows'[d] # NoRow
      BY <3>2, DataAssumption
    <3>4. Busy(w)'
      BY <2>1, <3>1, <3>3 DEF Busy, Key
    <3> QED
      BY <1>0, <1>1, <2>2, <3>1, <3>2, <3>3, <3>4, BusyElsewhere
  <2>4. CASE NextTarget(w) /\ UNCHANGED rows
    BY <1>1, <1>3, <2>1, <2>2, <2>4
  <2> QED
    BY <1>7, <2>3, <2>4 DEF Reclaim
<1>8. ASSUME NEW w \in Worker, pc[w] \in {"fetch", "blossom"},
             UNCHANGED <<now, rows, overrun>>, gone' \in SUBSET Blob,
             \/ GoTo(w, "blossom") /\ Entitled(Key(w))
             \/ \E v \in Verdict : Conclude(w, v)
      PROVE  WellFormed'
  <2>1. rows[Key(w)] # NoRow /\ todo[w] # <<>>
    BY <1>8 DEF Busy
  <2>2. /\ LocalOK' /\ Others(w) /\ pc'[w] \in {"blossom", "write"}
        /\ kind5' = kind5 /\ todo' = todo /\ seen' = seen
        /\ pc'[w] = "blossom" => Entitled(Key(w))
    BY <1>8, GoToEffect, ConcludeEffect DEF Holding
  <2>3. Key(w)' = Key(w)
    BY <2>2 DEF Key
  <2>4. Busy(w)'
    BY <1>8, <2>1, <2>2, <2>3 DEF Busy
  <2> QED
    BY <1>0, <1>1, <1>8, <2>2, <2>4, BusyElsewhere
<1>9. ASSUME NEW w \in Worker, Fetch(w) PROVE WellFormed'
  <2>1. \/ GoTo(w, "blossom") /\ Entitled(Key(w))
        \/ \E v \in Verdict : Conclude(w, v)
    BY <1>9, VerdictType DEF Fetch
  <2> QED
    BY <1>1, <1>8, <1>9, <2>1 DEF Fetch
<1>10. ASSUME NEW w \in Worker, Blossom(w) PROVE WellFormed'
  <2>1. [status |-> "success", bump |-> FALSE] \in Verdict
    BY DEF Verdict
  <2>2. \E v \in Verdict : Conclude(w, v)
    BY <1>10, <2>1, VerdictType DEF Blossom
  <2>3. /\ pc[w] = "blossom" /\ Entitled(Key(w)) /\ TargetOf(w) \in Target
        /\ Key(w)[2] = TargetOf(w)
    BY <1>10, KeyType DEF Blossom, Busy, Key, TargetOf
  <2>4. TargetBlob[TargetOf(w)] \in Blob
    BY <2>3, DataAssumption DEF Entitled
  <2>5. gone' \in SUBSET Blob
    BY <1>1, <1>10, <2>4 DEF Blossom
  <2> QED
    BY <1>8, <1>10, <2>2, <2>5 DEF Blossom
<1>11. ASSUME NEW w \in Worker, Write(w) PROVE WellFormed'
  <2>1. /\ pc[w] = "write" /\ rows[Key(w)] # NoRow /\ todo[w] # <<>>
        /\ Key(w) \in Deletion
    BY <1>11, KeyType DEF Write, Busy
  <2>2. /\ rows' \in [Deletion -> Row \cup {NoRow}]
        /\ rows'[Key(w)] \in Row
        /\ \A d \in Deletion \ {Key(w)} : rows'[d] = rows[d]
    BY <1>11, <2>1, WrittenRow
  <2>3. \A d \in Deletion : rows[d] # NoRow => rows'[d] # NoRow
    BY <2>2, DataAssumption
  <2> QED
    BY <1>3, <1>11, <2>1, <2>2, <2>3 DEF Write
<1>12. ASSUME NEW w \in Worker, Abort(w) PROVE WellFormed'
  BY <1>1, <1>3, <1>12 DEF Abort
<1>13. CASE Tick
  <2>1. now' \in Nat /\ overrun' \in BOOLEAN /\ UNCHANGED <<rows, gone, local>>
    BY <1>1, <1>13 DEF Tick
  <2> QED
    BY <1>0, <1>1, <2>1 DEF Busy, Key, local, LocalOK
<1>14. CASE UNCHANGED vars
  BY <1>0, <1>1, <1>14 DEF Busy, Key, vars, LocalOK
<1> QED
  BY <1>2, <1>4, <1>5, <1>6, <1>7, <1>9, <1>10, <1>11, <1>12, <1>13, <1>14 DEF Next

LEMMA WellFormedInit == Init => WellFormed
  BY InitType DEF WellFormed, Init, Busy

\* The strengthening of the types holds in every state: rows and invocations of
\* creator-delete/process.mjs have the shapes that their steps rely on.
THEOREM WellFormedAlways == Spec => []WellFormed
  BY WellFormedInit, WellFormedStep, PTL DEF Spec

\* Every reachable state is well typed.
THEOREM TypeCorrect == Spec => []TypeOK
<1>1. WellFormed => TypeOK
  BY DEF WellFormed
<1> QED
  BY <1>1, WellFormedAlways, PTL

LEMMA WrittenNotNoRow ==
  ASSUME TypeOK, NEW w \in Worker, Key(w) \in Deletion, rows[Key(w)] # NoRow
  PROVE  Written(w) # NoRow
<1>1. rows[Key(w)] \in Row /\ verdict[w] \in Verdict
  BY DEF TypeOK
<1>2. CASE verdict[w].bump
  BY <1>1, <1>2, DataAssumption DEF Row, Verdict, Written
<1>3. CASE ~verdict[w].bump
  BY <1>1, <1>3, DataAssumption DEF Row, Verdict, Written
<1> QED
  BY <1>2, <1>3

-----------------------------------------------------------------------------
(* What a step does, point by point.  The proofs below go through these    *)
(* cases instead of the actions.                                           *)

Keeps(w) ==
  /\ Others(w) /\ Key(w) \in Deletion /\ Key(w)' = Key(w) /\ stamp'[w] = stamp[w]
  /\ UNCHANGED <<now, overrun>>

SameRows == \A d \in Deletion : rows'[d] = rows[d]
OtherRows(w) == \A d \in Deletion \ {Key(w)} : rows'[d] = rows[d]

Begins(w) ==
  /\ Others(w) /\ SameRows /\ UNCHANGED <<now, gone, overrun>>
  /\ pc[w] = "idle" /\ pc'[w] = "insert" /\ stamp'[w] = now /\ seen'[w] = NoRow

Creates(w) ==
  /\ Keeps(w) /\ OtherRows(w) /\ UNCHANGED gone
  /\ rows[Key(w)] = NoRow /\ rows'[Key(w)] = Claimed(stamp[w], 0)
  /\ pc[w] = "insert" /\ pc'[w] = "fetch" /\ seen'[w] = NoRow

Conflicts(w) ==
  /\ Keeps(w) /\ SameRows /\ UNCHANGED gone
  /\ pc[w] = "insert" /\ pc'[w] = "read" /\ seen'[w] = NoRow

Reads(w) ==
  /\ Keeps(w) /\ SameRows /\ UNCHANGED gone
  /\ pc[w] = "read" /\ pc'[w] = "decide" /\ seen'[w] = rows[Key(w)]

Accepts(w) ==
  /\ Keeps(w) /\ SameRows /\ UNCHANGED gone
  /\ MayProceed(seen[w])
  /\ pc[w] = "decide" /\ pc'[w] = "reclaim" /\ seen'[w] = seen[w]

TakesOver(w) ==
  /\ Keeps(w) /\ OtherRows(w) /\ UNCHANGED gone
  /\ rows[Key(w)].acceptedAt = seen[w].acceptedAt
  /\ rows'[Key(w)] = Claimed(stamp[w], rows[Key(w)].retries)
  /\ pc[w] = "reclaim" /\ pc'[w] = "fetch" /\ seen'[w] = seen[w]

Finds(w) ==
  /\ Keeps(w) /\ SameRows /\ UNCHANGED gone
  /\ Entitled(Key(w))
  /\ pc[w] = "fetch" /\ pc'[w] = "blossom" /\ seen'[w] = seen[w]

\* An attempt ends, with its blob deleted if it is a success.
Concludes(w) ==
  /\ Keeps(w) /\ SameRows
  /\ \/ UNCHANGED gone
     \/ pc[w] = "blossom" /\ gone' = gone \cup {TargetBlob[TargetOf(w)]}
  /\ \/ verdict'[w] \in {Retryable(w), Permanent}
     \/ /\ pc[w] = "blossom" /\ TargetBlob[TargetOf(w)] \in gone'
        /\ verdict'[w] = [status |-> "success", bump |-> FALSE]
  /\ pc[w] \in {"fetch", "blossom"} /\ pc'[w] = "write" /\ seen'[w] = seen[w]

Leaves(w) ==
  /\ Others(w) /\ pc[w] # "idle" /\ pc'[w] \in {"idle", "insert"} /\ seen'[w] = NoRow
  /\ pc'[w] = "insert" => stamp'[w] = now
  /\ UNCHANGED <<now, gone, overrun>>

Settles(w) ==
  /\ Leaves(w) /\ pc[w] = "write" /\ Key(w) \in Deletion
  /\ rows'[Key(w)] = Written(w) /\ OtherRows(w)

Waits ==
  /\ UNCHANGED <<rows, gone, local>>
  /\ \/ UNCHANGED <<now, overrun>>
     \/ Tick

LEMMA Cases ==
  ASSUME WellFormed, [Next]_vars
  PROVE  \/ Waits
         \/ \E w \in Worker :
              \/ Begins(w) \/ Creates(w) \/ Conflicts(w) \/ Reads(w) \/ Accepts(w)
              \/ TakesOver(w) \/ Finds(w) \/ Concludes(w) \/ Settles(w)
              \/ Leaves(w) /\ SameRows
<1> DEFINE Goal(w) ==
              \/ Begins(w) \/ Creates(w) \/ Conflicts(w) \/ Reads(w) \/ Accepts(w)
              \/ TakesOver(w) \/ Finds(w) \/ Concludes(w) \/ Settles(w)
              \/ Leaves(w) /\ SameRows
<1>1. TypeOK /\ \A w \in Worker : Busy(w)
  BY DEF WellFormed
<1>2. ASSUME NEW w \in Worker, pc[w] # "idle"
      PROVE  todo[w] # <<>> /\ Key(w) \in Deletion
  BY <1>1, <1>2, KeyType DEF Busy
<1>3. ASSUME NEW w \in Worker, Start(w) \/ StartRetry(w) PROVE Goal(w)
  <2>1. PICK k \in Kind5, tags \in Seq(Target) : Begin(w, k, tags)
    BY <1>1, <1>3, StartIsBegin
  <2>2. seen[w] = NoRow
    BY <1>1, <2>1 DEF Begin, Busy
  <2> QED
    BY <1>1, <2>1, <2>2, BeginEffect DEF Begins, SameRows
<1>4. ASSUME NEW w \in Worker, Insert(w) PROVE Goal(w)
  <2>1. pc[w] = "insert" /\ Key(w) \in Deletion /\ seen[w] = NoRow
        /\ UNCHANGED <<now, gone, overrun>>
    BY <1>1, <1>2, <1>4 DEF Insert, Busy
  <2>2. CASE rows[Key(w)] = NoRow
    <3>1. rows' = [rows EXCEPT ![Key(w)] = Claimed(stamp[w], 0)] /\ GoTo(w, "fetch")
      BY <1>4, <2>2 DEF Insert
    <3>2. Others(w) /\ pc'[w] = "fetch" /\ Key(w)' = Key(w)
          /\ stamp' = stamp /\ seen' = seen
      BY <1>1, <3>1, GoToEffect DEF Holding, Key
    <3>3. rows'[Key(w)] = Claimed(stamp[w], 0) /\ OtherRows(w)
      BY <1>1, <2>1, <3>1 DEF TypeOK, OtherRows
    <3>4. Creates(w)
      BY <2>1, <2>2, <3>2, <3>3 DEF Creates, Keeps
    <3> QED
      BY <3>4
  <2>3. CASE rows[Key(w)] # NoRow
    <3>1. UNCHANGED rows /\ GoTo(w, "read")
      BY <1>4, <2>3 DEF Insert
    <3>2. Others(w) /\ pc'[w] = "read" /\ Key(w)' = Key(w)
          /\ stamp' = stamp /\ seen' = seen
      BY <1>1, <3>1, GoToEffect DEF Claiming, Key
    <3>3. Conflicts(w)
      BY <2>1, <3>1, <3>2 DEF Conflicts, Keeps, SameRows
    <3> QED
      BY <3>3
  <2> QED
    BY <2>2, <2>3
<1>5. ASSUME NEW w \in Worker, Read(w) PROVE Goal(w)
  <2>1. pc[w] = "read" /\ Key(w) \in Deletion /\ UNCHANGED <<now, rows, gone, overrun>>
    BY <1>2, <1>5 DEF Read
  <2>2. /\ Others(w) /\ pc'[w] = "decide" /\ seen'[w] = rows[Key(w)]
        /\ Key(w)' = Key(w) /\ stamp' = stamp
    BY <1>1, <1>5 DEF Read, TypeOK, Others, Same, Key
  <2>3. Reads(w)
    BY <2>1, <2>2 DEF Reads, Keeps, SameRows
  <2> QED
    BY <2>3
<1>6. ASSUME NEW w \in Worker, pc[w] # "idle", NextTarget(w) \/ Stop(w),
             UNCHANGED <<now, gone, overrun>>
      PROVE  Leaves(w)
  BY <1>1, <1>2, <1>6, LeaveEffect DEF Leaves
<1>7. ASSUME NEW w \in Worker, Decide(w) PROVE Goal(w)
  <2>1. pc[w] = "decide" /\ Key(w) \in Deletion /\ UNCHANGED <<now, rows, gone, overrun>>
    BY <1>2, <1>7 DEF Decide
  <2>2. CASE MayProceed(seen[w])
    <3>1. GoTo(w, "reclaim")
      BY <1>7, <2>2 DEF Decide
    <3>2. Others(w) /\ pc'[w] = "reclaim" /\ Key(w)' = Key(w)
          /\ stamp' = stamp /\ seen' = seen
      BY <1>1, <3>1, GoToEffect DEF Claiming, Key
    <3>3. Accepts(w)
      BY <2>1, <2>2, <3>2 DEF Accepts, Keeps, SameRows
    <3> QED
      BY <3>3
  <2>3. CASE ~MayProceed(seen[w])
    BY <1>6, <1>7, <2>1, <2>3 DEF Decide, SameRows
  <2> QED
    BY <2>2, <2>3
<1>8. ASSUME NEW w \in Worker, Reclaim(w) PROVE Goal(w)
  <2>1. pc[w] = "reclaim" /\ Key(w) \in Deletion /\ rows[Key(w)] # NoRow
        /\ UNCHANGED <<now, gone, overrun>>
    BY <1>1, <1>2, <1>8 DEF Reclaim, Busy
  <2>2. CASE rows[Key(w)].acceptedAt = seen[w].acceptedAt
    <3>1. rows' = [rows EXCEPT ![Key(w)] = Claimed(stamp[w], @.retries)]
          /\ GoTo(w, "fetch")
      BY <1>8, <2>2 DEF Reclaim
    <3>2. Others(w) /\ pc'[w] = "fetch" /\ Key(w)' = Key(w)
          /\ stamp' = stamp /\ seen' = seen
      BY <1>1, <3>1, GoToEffect DEF Holding, Key
    <3>3. rows'[Key(w)] = Claimed(stamp[w], rows[Key(w)].retries) /\ OtherRows(w)
      BY <1>1, <2>1, <3>1, ReclaimedRow DEF OtherRows
    <3>4. TakesOver(w)
      BY <2>1, <2>2, <3>2, <3>3 DEF TakesOver, Keeps
    <3> QED
      BY <3>4
  <2>3. CASE rows[Key(w)].acceptedAt # seen[w].acceptedAt
    BY <1>6, <1>8, <2>1, <2>3 DEF Reclaim, SameRows
  <2> QED
    BY <2>2, <2>3
<1>9. ASSUME NEW w \in Worker, NEW v \in Verdict, Conclude(w, v)
      PROVE  Others(w) /\ pc'[w] = "write" /\ Key(w)' = Key(w) /\ verdict'[w] = v
             /\ stamp' = stamp /\ seen' = seen
  BY <1>1, <1>9, ConcludeEffect DEF Key
<1>10. ASSUME NEW w \in Worker, Fetch(w) PROVE Goal(w)
  <2>1. pc[w] = "fetch" /\ Key(w) \in Deletion /\ UNCHANGED <<now, rows, gone, overrun>>
    BY <1>2, <1>10 DEF Fetch
  <2>2. CASE Conclude(w, Retryable(w)) \/ Conclude(w, Permanent)
    <3>1. Concludes(w)
      BY <1>1, <1>9, <2>1, <2>2, VerdictType DEF Concludes, Keeps, SameRows
    <3> QED
      BY <3>1
  <2>3. CASE Entitled(Key(w)) /\ GoTo(w, "blossom")
    <3>1. Others(w) /\ pc'[w] = "blossom" /\ Key(w)' = Key(w)
          /\ stamp' = stamp /\ seen' = seen
      BY <1>1, <2>3, GoToEffect DEF Holding, Key
    <3>2. Finds(w)
      BY <2>1, <2>3, <3>1 DEF Finds, Keeps, SameRows
    <3> QED
      BY <3>2
  <2> QED
    BY <1>10, <2>2, <2>3 DEF Fetch
<1>11. ASSUME NEW w \in Worker, Blossom(w) PROVE Goal(w)
  <2>1. pc[w] = "blossom" /\ Key(w) \in Deletion /\ UNCHANGED <<now, rows, overrun>>
    BY <1>2, <1>11 DEF Blossom
  <2>2. [status |-> "success", bump |-> FALSE] \in Verdict
    BY DEF Verdict
  <2>3. CASE /\ gone' = gone \cup {TargetBlob[TargetOf(w)]}
             /\ Conclude(w, [status |-> "success", bump |-> FALSE])
    <3>1. Concludes(w)
      BY <1>9, <2>1, <2>2, <2>3 DEF Concludes, Keeps, SameRows
    <3> QED
      BY <3>1
  <2>4. CASE /\ gone' \in {gone, gone \cup {TargetBlob[TargetOf(w)]}}
             /\ Conclude(w, Retryable(w)) \/ Conclude(w, Permanent)
    <3>1. Concludes(w)
      BY <1>1, <1>9, <2>1, <2>4, VerdictType DEF Concludes, Keeps, SameRows
    <3> QED
      BY <3>1
  <2> QED
    BY <1>11, <2>3, <2>4 DEF Blossom
<1>12. ASSUME NEW w \in Worker, Write(w) PROVE Goal(w)
  <2>1. pc[w] = "write" /\ Key(w) \in Deletion /\ rows[Key(w)] # NoRow
        /\ UNCHANGED <<now, gone, overrun>> /\ NextTarget(w)
    BY <1>1, <1>2, <1>12 DEF Write, Busy
  <2>2. rows'[Key(w)] = Written(w) /\ OtherRows(w)
    BY <1>1, <1>12, <2>1, WrittenRow DEF OtherRows
  <2>3. Settles(w)
    BY <1>6, <2>1, <2>2 DEF Settles
  <2> QED
    BY <2>3
<1>13. ASSUME NEW w \in Worker, Abort(w) PROVE Goal(w)
  BY <1>6, <1>13 DEF Abort, SameRows
<1>14. CASE Tick
  BY <1>14 DEF Tick, Waits
<1>15. CASE UNCHANGED vars
  BY <1>15 DEF vars, Waits, local
<1> QED
  BY <1>3, <1>4, <1>5, <1>7, <1>8, <1>10, <1>11, <1>12, <1>13, <1>14, <1>15 DEF Next

-----------------------------------------------------------------------------
(* Claims.  A takeover carries a later accepted_at than the row it takes,  *)
(* because the row was old when the decision was made and the invocation   *)
(* had been at it for ClaimWindow at most.                                 *)

\* A row waiting for a retry has been tried.
Tried(row) == row # NoRow /\ row.status = "transient" => row.retries > 0

Stamped(w) ==
  /\ pc[w] # "idle" => stamp[w] <= now
  /\ pc[w] \in Claiming => now - stamp[w] <= ClaimWindow
  /\ pc[w] = "reclaim" => seen[w].acceptedAt < stamp[w]
  /\ pc[w] \in Holding => stamp[w] <= rows[Key(w)].acceptedAt
  /\ pc[w] = "write" /\ verdict[w].status = "transient" => verdict[w].bump
  /\ Tried(seen[w])

ClaimInv ==
  /\ WellFormed
  /\ \A d \in Deletion : Tried(rows[d])
  /\ \A w \in Worker : Stamped(w)
  /\ ClaimsUnique

\* A decision to proceed is taken on a row older than ClaimWindow.
LEMMA ProceedsWhenOld ==
  ASSUME NEW row \in Row, now \in Nat, Tried(row), MayProceed(row)
  PROVE  now - row.acceptedAt > ClaimWindow
<1>1. row.retries \in Nat /\ row.acceptedAt \in Nat /\ row # NoRow
  BY DataAssumption DEF Row
<1>2. CASE row.status = "accepted"
  BY <1>1, <1>2, ClaimAssumption, TimeAssumption DEF MayProceed
<1>3. CASE row.status = "transient"
  <2>1. row.retries \in 1..(MaxRetries - 1)
        /\ now - row.acceptedAt >= Backoff(row.retries)
    BY <1>1, <1>3, TimeAssumption DEF MayProceed, Tried
  <2>2. Backoff(row.retries) \in Nat /\ Backoff(row.retries) > ClaimWindow
    BY <2>1, ClaimAssumption
  <2> QED
    BY <1>1, <2>1, <2>2, TimeAssumption
<1> QED
  BY <1>2, <1>3 DEF MayProceed

\* The claim of w differs from every other claim of the same row.
Unique(w) ==
  \A v \in Worker \ {w} :
    (pc[v] \in Holding /\ pc[w] \in Holding /\ Key(v) = Key(w)) => stamp[v] # stamp[w]

\* A step of w leaves the claims of the others alone when accepted_at does
\* not decrease.
LEMMA StampedElsewhere ==
  ASSUME ClaimInv, NEW w \in Worker, Others(w), UNCHANGED now,
         TypeOK',
         \A d \in Deletion : rows[d] # NoRow =>
            rows'[d] # NoRow /\ rows'[d].acceptedAt >= rows[d].acceptedAt,
         Stamped(w)', Unique(w)', \A d \in Deletion : Tried(rows'[d]),
         WellFormed'
  PROVE  ClaimInv'
<1>1. ASSUME NEW v \in Worker \ {w}, pc[v] # "idle"
      PROVE  Key(v) \in Deletion /\ Key(v)' = Key(v)
  BY <1>1, KeyType DEF ClaimInv, WellFormed, Busy, Others, Same, Key
<1>2. ASSUME NEW v \in Worker \ {w} PROVE Stamped(v)'
  <2>1. Same(v) /\ Stamped(v) /\ Busy(v)
    BY DEF Others, ClaimInv, WellFormed
  <2>2. CASE pc[v] \in Holding
    <3>1. /\ Key(v) \in Deletion /\ Key(v)' = Key(v) /\ rows[Key(v)] # NoRow
      BY <1>1, <2>1, <2>2 DEF Holding, Busy
    <3>2. /\ rows[Key(v)] \in Row /\ rows'[Key(v)] \in Row /\ stamp[v] \in Nat
      BY <3>1 DEF ClaimInv, WellFormed, TypeOK
    <3>3. /\ rows[Key(v)].acceptedAt \in Nat /\ rows'[Key(v)].acceptedAt \in Nat
      BY <3>2 DEF Row
    <3>4. stamp[v] <= rows'[Key(v)].acceptedAt
      BY <2>1, <2>2, <3>1, <3>2, <3>3 DEF Stamped
    <3> QED
      BY <2>1, <2>2, <3>1, <3>4 DEF Stamped, Same, Holding, Claiming
  <2>3. CASE pc[v] \notin Holding
    BY <2>1, <2>3 DEF Stamped, Same
  <2> QED
    BY <2>2, <2>3
<1>3. ClaimsUnique'
  <2> SUFFICES ASSUME NEW u \in Worker, NEW v \in Worker, u # v,
                      pc'[u] \in Holding, pc'[v] \in Holding, Key(u)' = Key(v)'
               PROVE  stamp'[u] # stamp'[v]
    BY DEF ClaimsUnique
  <2>1. CASE u = w \/ v = w
    BY <2>1 DEF Unique
  <2>2. CASE u # w /\ v # w
    <3>1. Same(u) /\ Same(v)
      BY <2>2 DEF Others
    <3>2. pc[u] # "idle" /\ pc[v] # "idle"
      BY <3>1 DEF Same, Holding
    <3> QED
      BY <1>1, <2>2, <3>1, <3>2 DEF Same, ClaimInv, ClaimsUnique
  <2> QED
    BY <2>1, <2>2
<1> QED
  BY <1>2, <1>3 DEF ClaimInv

LEMMA ClaimInvInit == Init => ClaimInv
  BY WellFormedInit DEF Init, ClaimInv, Tried, Stamped, ClaimsUnique, Claiming, Holding

LEMMA ClaimInvStep == ClaimInv /\ [Next]_vars => ClaimInv'
<1> SUFFICES ASSUME ClaimInv, [Next]_vars PROVE ClaimInv'
  OBVIOUS
<1> DEFINE Later == \A d \in Deletion : rows[d] # NoRow =>
             rows'[d] # NoRow /\ rows'[d].acceptedAt >= rows[d].acceptedAt
           Worked == \A d \in Deletion : Tried(rows'[d])
<1>1. WellFormed /\ WellFormed' /\ TypeOK /\ TypeOK' /\ now \in Nat
  BY WellFormedStep DEF ClaimInv, WellFormed, TypeOK
<1>2. ASSUME NEW d \in Deletion, rows[d] # NoRow
      PROVE  rows[d] \in Row /\ rows[d].acceptedAt \in Nat /\ rows[d].retries \in Nat
  BY <1>1, <1>2 DEF TypeOK, Row
<1>3. ASSUME SameRows PROVE Later /\ Worked
  BY <1>2, <1>3 DEF SameRows, ClaimInv
<1>4. ASSUME NEW w \in Worker
      PROVE  /\ Stamped(w) /\ Busy(w) /\ stamp[w] \in Nat /\ seen[w] \in Row \cup {NoRow}
             /\ verdict[w] \in Verdict
  BY <1>1 DEF ClaimInv, WellFormed, TypeOK
<1>5. ASSUME NEW w \in Worker, pc'[w] \notin Holding PROVE Unique(w)'
  BY <1>5 DEF Unique
<1>6. ASSUME NEW w \in Worker, Begins(w) PROVE ClaimInv'
  <2>1. Stamped(w)'
    BY <1>1, <1>6, TimeAssumption DEF Begins, Stamped, Tried, Holding, Claiming
  <2>2. Unique(w)'
    BY <1>5, <1>6 DEF Begins, Holding
  <2> QED
    BY <1>1, <1>3, <1>6, <2>1, <2>2, StampedElsewhere DEF Begins
<1>7. ASSUME NEW w \in Worker, Leaves(w), Later, Worked PROVE ClaimInv'
  <2>1. Stamped(w)'
    BY <1>1, <1>7, TimeAssumption DEF Leaves, Stamped, Tried, Holding, Claiming
  <2>2. Unique(w)'
    BY <1>5, <1>7 DEF Leaves, Holding
  <2> QED
    BY <1>1, <1>7, <2>1, <2>2, StampedElsewhere DEF Leaves
<1>8. ASSUME NEW w \in Worker, Creates(w) PROVE ClaimInv'
  <2>1. /\ rows'[Key(w)].acceptedAt = stamp[w] /\ rows'[Key(w)].status = "accepted"
        /\ Key(w) \in Deletion
    BY <1>8 DEF Creates, Claimed, Keeps
  <2>2. Later /\ Worked
    BY <1>2, <1>8, <2>1 DEF Creates, OtherRows, Tried, ClaimInv
  <2>3. Stamped(w)'
    BY <1>4, <1>8, <2>1 DEF Creates, Keeps, Stamped, Tried, Holding, Claiming
  <2>4. \A v \in Worker \ {w} : pc[v] \in Holding => Key(v) # Key(w)
    BY <1>4, <1>8 DEF Creates, Busy, Holding
  <2>5. Unique(w)'
    BY <1>8, <2>4 DEF Unique, Creates, Keeps, Others, Same, Key
  <2> QED
    BY <1>1, <1>8, <2>2, <2>3, <2>5, StampedElsewhere DEF Creates, Keeps
<1>9. ASSUME NEW w \in Worker, Conflicts(w) \/ Reads(w) PROVE ClaimInv'
  <2>1. Keeps(w) /\ SameRows /\ pc'[w] \in {"read", "decide"} /\ pc[w] \in Claiming
        /\ Tried(seen'[w])
    BY <1>9 DEF Conflicts, Reads, Keeps, Claiming, Tried, ClaimInv
  <2>2. Stamped(w)'
    BY <1>4, <2>1 DEF Keeps, Stamped, Holding, Claiming
  <2>3. Unique(w)'
    BY <1>5, <2>1 DEF Holding
  <2> QED
    BY <1>1, <1>3, <2>1, <2>2, <2>3, StampedElsewhere DEF Keeps
<1>10. ASSUME NEW w \in Worker, Accepts(w) PROVE ClaimInv'
  <2>1. Keeps(w) /\ SameRows /\ pc[w] = "decide" /\ pc'[w] = "reclaim" /\ seen'[w] = seen[w]
    BY <1>10 DEF Accepts
  <2>2. seen[w] \in Row /\ seen[w].acceptedAt \in Nat
    BY <1>4, <2>1 DEF Busy, Row
  <2>3. now - seen[w].acceptedAt > ClaimWindow
    BY <1>1, <1>4, <1>10, <2>2, ProceedsWhenOld DEF Accepts, Stamped
  <2>4. Stamped(w)'
    BY <1>1, <1>4, <2>1, <2>2, <2>3, TimeAssumption DEF Keeps, Stamped, Holding, Claiming
  <2>5. Unique(w)'
    BY <1>5, <2>1 DEF Holding
  <2> QED
    BY <1>1, <1>3, <2>1, <2>4, <2>5, StampedElsewhere DEF Keeps
<1>11. ASSUME NEW w \in Worker, TakesOver(w) PROVE ClaimInv'
  <2>1. /\ Keeps(w) /\ OtherRows(w) /\ pc[w] = "reclaim" /\ pc'[w] = "fetch"
        /\ seen'[w] = seen[w] /\ Key(w) \in Deletion /\ rows[Key(w)] # NoRow
    BY <1>4, <1>11 DEF TakesOver, Keeps, Busy
  <2>2. /\ rows'[Key(w)].acceptedAt = stamp[w] /\ rows'[Key(w)].status = "accepted"
        /\ rows[Key(w)].acceptedAt < stamp[w] /\ rows[Key(w)].acceptedAt \in Nat
    BY <1>2, <1>4, <1>11, <2>1 DEF TakesOver, Claimed, Stamped
  <2>3. Later /\ Worked
    <3>1. rows'[Key(w)] # NoRow
      BY <1>2, <1>11, <1>4, <2>1, DataAssumption DEF TakesOver, Claimed, Row
    <3> QED
      BY <1>2, <1>4, <2>1, <2>2, <3>1 DEF OtherRows, Tried, ClaimInv
  <2>4. Stamped(w)'
    BY <1>4, <2>1, <2>2 DEF Keeps, Stamped, Holding, Claiming
  <2>5. ASSUME NEW v \in Worker \ {w}, pc[v] \in Holding, Key(v) = Key(w)
        PROVE  stamp[v] < stamp[w]
    BY <1>4, <2>2, <2>5 DEF Stamped
  <2>6. Unique(w)'
    <3> SUFFICES ASSUME NEW v \in Worker \ {w}, pc'[v] \in Holding, Key(v)' = Key(w)'
                 PROVE  stamp'[v] # stamp'[w]
      BY DEF Unique
    <3>1. Same(v) /\ Key(v)' = Key(v)
      BY <2>1 DEF Keeps, Others, Same, Key
    <3>2. stamp[v] < stamp[w] /\ stamp'[w] = stamp[w] /\ stamp'[v] = stamp[v]
      BY <2>1, <2>5, <3>1 DEF Keeps, Same
    <3> QED
      BY <1>4, <3>2
  <2> QED
    BY <1>1, <2>1, <2>3, <2>4, <2>6, StampedElsewhere DEF Keeps
<1>12. ASSUME NEW w \in Worker, Finds(w) \/ Concludes(w) PROVE ClaimInv'
  <2>1. /\ Keeps(w) /\ SameRows /\ pc[w] \in {"fetch", "blossom"}
        /\ pc'[w] \in Holding /\ seen'[w] = seen[w]
        /\ Key(w) \in Deletion
        /\ pc'[w] = "write" /\ verdict'[w].status = "transient" => verdict'[w].bump
    BY <1>12 DEF Finds, Concludes, Keeps, Holding, Retryable, Permanent
  <2>2. Stamped(w)'
    BY <1>4, <2>1 DEF Keeps, Stamped, Holding, Claiming, SameRows
  <2>3. Unique(w)'
    BY <2>1 DEF ClaimInv, ClaimsUnique, Unique, Keeps, Others, Same, Key, Holding
  <2> QED
    BY <1>1, <1>3, <2>1, <2>2, <2>3, StampedElsewhere DEF Keeps
<1>13. ASSUME NEW w \in Worker, Settles(w) PROVE ClaimInv'
  <2>1. /\ Leaves(w) /\ Key(w) \in Deletion /\ pc[w] = "write" /\ rows[Key(w)] # NoRow
        /\ rows'[Key(w)] = Written(w) /\ OtherRows(w)
    BY <1>4, <1>13 DEF Settles, Busy
  <2>2. /\ rows'[Key(w)].acceptedAt = rows[Key(w)].acceptedAt
        /\ rows'[Key(w)].status = verdict[w].status
        /\ verdict[w].bump => rows'[Key(w)].retries = rows[Key(w)].retries + 1
    BY <2>1 DEF Written
  <2>3. rows'[Key(w)] # NoRow
    BY <1>1, <2>1, WrittenNotNoRow
  <2>4. Later
    BY <1>2, <2>1, <2>2, <2>3 DEF OtherRows
  <2>5. Worked
    BY <1>2, <1>4, <2>1, <2>2 DEF OtherRows, Tried, ClaimInv, Stamped
  <2> QED
    BY <1>7, <2>1, <2>4, <2>5
<1>14. CASE Waits
  <2>1. UNCHANGED <<rows, local>> /\ now' \in Nat /\ now' >= now
    BY <1>1, <1>14 DEF Waits, Tick
  <2>2. ASSUME NEW w \in Worker PROVE Stamped(w)'
    <3>1. pc[w] \in Claiming => now' - stamp[w] <= ClaimWindow
      BY <1>1, <1>4, <1>14, TimeAssumption DEF Waits, Tick, Stamped
    <3> QED
      BY <1>1, <1>4, <2>1, <3>1, TimeAssumption DEF Stamped, local, Key
  <2> QED
    BY <1>1, <2>1, <2>2 DEF ClaimInv, ClaimsUnique, local, Key
<1> QED
  BY <1>1, <1>3, <1>6, <1>7, <1>8, <1>9, <1>10, <1>11, <1>12, <1>13, <1>14, Cases

LEMMA ClaimInvAlways == Spec => []ClaimInv
  BY ClaimInvInit, ClaimInvStep, PTL DEF Spec

\* At most one invocation holds the current claim of a row, however long the
\* invocations take.
THEOREM ClaimsAreUnique == Spec => []ClaimsUnique
<1>1. ClaimInv => ClaimsUnique
  BY DEF ClaimInv
<1> QED
  BY <1>1, ClaimInvAlways, PTL

-----------------------------------------------------------------------------
(* Effects.  A success that waits to be written is backed by a deletion.   *)

Backed(w) ==
  pc[w] = "write" /\ verdict[w].status = "success"
    => Entitled(Key(w)) /\ TargetBlob[Key(w)[2]] \in gone

EffectInv ==
  /\ WellFormed
  /\ \A w \in Worker : Backed(w)
  /\ SuccessMeansGone
  /\ ErasedForItsAuthor

LEMMA EffectInvStep == EffectInv /\ [Next]_vars => EffectInv'
<1> SUFFICES ASSUME EffectInv, [Next]_vars PROVE EffectInv'
  OBVIOUS
<1> DEFINE Kept == \A d \in Deletion : rows[d] # NoRow => rows'[d] # NoRow
           Sound == \A d \in Deletion :
             rows'[d] # NoRow /\ rows'[d].status = "success"
               => Entitled(d) /\ TargetBlob[d[2]] \in gone'
<1>1. WellFormed /\ WellFormed' /\ TypeOK /\ TypeOK'
  BY WellFormedStep DEF EffectInv, WellFormed
<1>2. ASSUME NEW w \in Worker, Others(w), gone \subseteq gone'
      PROVE  \A v \in Worker \ {w} : Backed(v)'
  BY <1>1, <1>2 DEF EffectInv, Backed, Others, Same, Key
<1>3. ASSUME Kept, UNCHANGED gone PROVE ErasedForItsAuthor'
  BY <1>3 DEF EffectInv, ErasedForItsAuthor
<1>4. ASSUME SameRows, gone \subseteq gone' PROVE Kept /\ Sound
  BY <1>4 DEF SameRows, EffectInv, SuccessMeansGone
<1>5. ASSUME Sound PROVE SuccessMeansGone'
  BY <1>5 DEF SuccessMeansGone
<1>6. ASSUME NEW w \in Worker, Others(w), SameRows, UNCHANGED gone, pc'[w] # "write"
      PROVE  EffectInv'
  <2>1. \A v \in Worker : Backed(v)'
    BY <1>2, <1>6 DEF Backed
  <2> QED
    BY <1>1, <1>3, <1>4, <1>5, <1>6, <2>1 DEF EffectInv
<1>7. ASSUME NEW w \in Worker,
             \/ Begins(w) \/ Conflicts(w) \/ Reads(w) \/ Accepts(w) \/ Finds(w)
             \/ Leaves(w) /\ SameRows
      PROVE  EffectInv'
  BY <1>6, <1>7 DEF Begins, Conflicts, Reads, Accepts, Finds, Leaves, Keeps
<1>8. ASSUME NEW w \in Worker, Creates(w) \/ TakesOver(w) PROVE EffectInv'
  <2>1. /\ Others(w) /\ OtherRows(w) /\ UNCHANGED gone /\ pc'[w] = "fetch"
        /\ Key(w) \in Deletion /\ rows'[Key(w)].status = "accepted"
    BY <1>8 DEF Creates, TakesOver, Keeps, Claimed
  <2>2. rows'[Key(w)] # NoRow
    BY <1>1, <1>8, <2>1, DataAssumption DEF Creates, TakesOver, Claimed, WellFormed,
       Busy, Row, TypeOK, Keeps
  <2>3. Kept /\ Sound
    BY <2>1, <2>2 DEF OtherRows, EffectInv, SuccessMeansGone
  <2>4. \A v \in Worker : Backed(v)'
    BY <1>2, <2>1 DEF Backed
  <2> QED
    BY <1>1, <1>3, <1>5, <2>1, <2>3, <2>4 DEF EffectInv
<1>9. ASSUME NEW w \in Worker, Concludes(w) PROVE EffectInv'
  <2>1. /\ Others(w) /\ SameRows /\ gone \subseteq gone' /\ Key(w) \in Deletion
        /\ Key(w)' = Key(w) /\ Key(w)[2] = TargetOf(w)
    BY <1>9 DEF Concludes, Keeps, Key, TargetOf
  <2>2. rows'[Key(w)] # NoRow
    BY <1>1, <1>9, <2>1 DEF Concludes, WellFormed, Busy, SameRows
  <2>3. pc[w] = "blossom" => Entitled(Key(w))
    BY <1>1 DEF WellFormed, Busy
  <2>4. Backed(w)'
    <3> SUFFICES ASSUME verdict'[w].status = "success"
                 PROVE  Entitled(Key(w)) /\ TargetBlob[Key(w)[2]] \in gone'
      BY <2>1 DEF Backed
    <3>1. verdict'[w] # Retryable(w) /\ verdict'[w] # Permanent
      BY DEF Retryable, Permanent
    <3> QED
      BY <1>9, <2>1, <2>3, <3>1 DEF Concludes
  <2>5. ErasedForItsAuthor'
    <3> SUFFICES ASSUME NEW b \in gone'
                 PROVE  \E d \in Deletion :
                          rows'[d] # NoRow /\ Entitled(d) /\ TargetBlob[d[2]] = b
      BY DEF ErasedForItsAuthor
    <3>1. CASE b \in gone
      BY <1>4, <2>1, <3>1 DEF EffectInv, ErasedForItsAuthor
    <3>2. CASE b \notin gone
      <4>1. pc[w] = "blossom" /\ b = TargetBlob[Key(w)[2]]
        BY <1>9, <2>1, <3>2 DEF Concludes
      <4> QED
        BY <2>1, <2>2, <2>3, <4>1
    <3> QED
      BY <3>1, <3>2
  <2> QED
    BY <1>1, <1>2, <1>4, <1>5, <2>1, <2>4, <2>5 DEF EffectInv
<1>10. ASSUME NEW w \in Worker, Settles(w) PROVE EffectInv'
  <2>1. /\ Others(w) /\ OtherRows(w) /\ UNCHANGED gone /\ pc[w] = "write"
        /\ Key(w) \in Deletion /\ rows'[Key(w)] = Written(w) /\ pc'[w] # "write"
        /\ rows[Key(w)] # NoRow
    BY <1>1, <1>10 DEF Settles, Leaves, WellFormed, Busy
  <2>2. rows'[Key(w)].status = verdict[w].status
    BY <2>1 DEF Written
  <2>3. rows'[Key(w)] # NoRow
    BY <1>1, <1>10, <2>1, WrittenNotNoRow
  <2>4. Kept /\ Sound
    BY <2>1, <2>2, <2>3 DEF OtherRows, EffectInv, SuccessMeansGone, Backed
  <2>5. \A v \in Worker : Backed(v)'
    BY <1>2, <2>1 DEF Backed
  <2> QED
    BY <1>1, <1>3, <1>5, <2>1, <2>4, <2>5 DEF EffectInv
<1>11. CASE Waits
  BY <1>1, <1>11 DEF Waits, local, EffectInv, Backed, SuccessMeansGone,
     ErasedForItsAuthor, Key
<1> QED
  BY <1>1, <1>7, <1>8, <1>9, <1>10, <1>11, Cases

LEMMA EffectInvInit == Init => EffectInv
  BY WellFormedInit DEF Init, EffectInv, Backed, SuccessMeansGone, ErasedForItsAuthor

LEMMA EffectInvAlways == Spec => []EffectInv
  BY EffectInvInit, EffectInvStep, PTL DEF Spec

\* A success is written only for a blob that Blossom has deleted, on behalf of
\* the author of the target.
THEOREM SuccessIsReal == Spec => []SuccessMeansGone
<1>1. EffectInv => SuccessMeansGone
  BY DEF EffectInv
<1> QED
  BY <1>1, EffectInvAlways, PTL

\* No blob goes without a row that accounts for it.
THEOREM ErasureIsAccountedFor == Spec => []ErasedForItsAuthor
<1>1. EffectInv => ErasedForItsAuthor
  BY DEF EffectInv
<1> QED
  BY <1>1, EffectInvAlways, PTL

-----------------------------------------------------------------------------
(* Prompt executions.  While no claim has been outlived, the holder of a   *)
(* claim owns its row, and a row read before a decision is either still    *)
(* what it was, with nobody working on it, or was taken too recently for   *)
(* the decision to be a takeover.                                          *)

Owns(w) ==
  LET row == rows[Key(w)]
  IN  /\ row.status = "accepted"
      /\ row.acceptedAt = stamp[w]
      /\ row.retries = PriorRetries(w) /\ PriorRetries(w) < MaxRetries
      /\ now - stamp[w] + ClaimWindow < InProgressTimeout

NoHolder(d) == \A u \in Worker : pc[u] \in Holding => Key(u) # d

UpToDate(w) ==
  LET row == rows[Key(w)]
  IN  /\ seen[w].acceptedAt <= row.acceptedAt
      /\ seen[w].status \in {"accepted", "transient"} => seen[w].retries < MaxRetries
      /\ pc[w] = "reclaim" => seen[w].status \in {"accepted", "transient"}
      /\ row.acceptedAt = seen[w].acceptedAt =>
           \/ row = seen[w] /\ NoHolder(Key(w))
           \/ /\ pc[w] = "decide" /\ seen[w].status = "accepted"
              /\ stamp[w] + ClaimWindow < seen[w].acceptedAt + InProgressTimeout

Fresh(w) ==
  /\ pc[w] \in Holding => Owns(w)
  /\ pc[w] = "write" /\ verdict[w].status = "transient" => PriorRetries(w) + 1 < MaxRetries
  /\ pc[w] \in {"decide", "reclaim"} => UpToDate(w)

Limited(row) ==
  /\ row.retries <= MaxRetries
  /\ row.status \in {"accepted", "transient"} => row.retries < MaxRetries
  /\ row.status = "transient" => row.retries > 0

PromptInv ==
  /\ \A w \in Worker : Fresh(w)
  /\ \A d \in Deletion : rows[d] # NoRow => Limited(rows[d])

SafeInv == ClaimInv /\ (~overrun => PromptInv)

LEMMA OneHolder ==
  ASSUME SafeInv, ~overrun, NEW v \in Worker, NEW w \in Worker, v # w,
         pc[v] \in Holding, pc[w] \in Holding
  PROVE  Key(v) # Key(w)
<1>1. rows[Key(v)].acceptedAt = stamp[v] /\ rows[Key(w)].acceptedAt = stamp[w]
  BY DEF SafeInv, PromptInv, Fresh, Owns
<1> QED
  BY <1>1 DEF SafeInv, ClaimInv, ClaimsUnique

\* Facts about an invocation v that another one leaves alone.
LEMMA Undisturbed ==
  ASSUME SafeInv, NEW w \in Worker, Others(w), NEW v \in Worker \ {w}, pc[v] # "idle"
  PROVE  Same(v) /\ Key(v) \in Deletion /\ Key(v)' = Key(v) /\ PriorRetries(v)' = PriorRetries(v)
  BY KeyType DEF SafeInv, ClaimInv, WellFormed, Busy, Others, Same, Key, PriorRetries

\* A step of w that changes no row of v and makes nobody hold it.
LEMMA FreshElsewhere ==
  ASSUME SafeInv, ~overrun, NEW w \in Worker, Others(w), UNCHANGED now,
         NEW v \in Worker \ {w},
         pc[v] # "idle" => rows'[Key(v)] = rows[Key(v)],
         pc[v] # "idle" /\ pc'[w] \in Holding /\ Key(w)' = Key(v)
           => pc[w] \in Holding /\ Key(w) = Key(v)
  PROVE  Fresh(v)'
<1>1. CASE pc[v] = "idle"
  <2>1. pc'[v] = "idle"
    BY <1>1 DEF Others, Same
  <2> QED
    BY <2>1 DEF Fresh, Holding
<1>2. CASE pc[v] # "idle"
  <2>1. Same(v) /\ Key(v) \in Deletion /\ Key(v)' = Key(v)
        /\ PriorRetries(v)' = PriorRetries(v) /\ rows'[Key(v)] = rows[Key(v)] /\ Fresh(v)
    BY <1>2, Undisturbed DEF SafeInv, PromptInv
  <2>2. ASSUME NoHolder(Key(v)) PROVE NoHolder(Key(v))'
    <3> SUFFICES ASSUME NEW u \in Worker, pc'[u] \in Holding, Key(u)' = Key(v)
                 PROVE  FALSE
      BY <2>1 DEF NoHolder
    <3>1. CASE u = w
      BY <1>2, <2>2, <3>1 DEF NoHolder
    <3>2. CASE u # w
      BY <2>2, <3>2 DEF NoHolder, Others, Same, Key
    <3> QED
      BY <3>1, <3>2
  <2>3. pc[v] \in Holding => Owns(v)'
    BY <2>1 DEF Fresh, Owns, Same
  <2>4. pc[v] \in {"decide", "reclaim"} => UpToDate(v)'
    BY <2>1, <2>2 DEF Fresh, UpToDate, Same
  <2> QED
    BY <2>1, <2>3, <2>4 DEF Fresh, Same
<1> QED
  BY <1>1, <1>2

LEMMA SafeInvStep == SafeInv /\ [Next]_vars => SafeInv'
<1> SUFFICES ASSUME SafeInv, [Next]_vars, ~overrun' PROVE PromptInv'
  BY ClaimInvStep DEF SafeInv
<1> DEFINE AllLimited == \A d \in Deletion : rows'[d] # NoRow => Limited(rows'[d])
<1>1. /\ WellFormed /\ TypeOK /\ TypeOK' /\ ClaimInv /\ ClaimInv'
      /\ now \in Nat /\ now' \in Nat /\ MaxRetries \in Nat \ {0}
      /\ ClaimWindow \in Nat /\ InProgressTimeout \in Nat
  BY ClaimInvStep, TimeAssumption DEF SafeInv, ClaimInv, WellFormed, TypeOK
<1>2. ~overrun
  BY Cases, <1>1 DEF Waits, Tick, Begins, Creates, Conflicts, Reads, Accepts, TakesOver,
     Finds, Concludes, Settles, Leaves, Keeps
<1>3. PromptInv
  BY <1>2 DEF SafeInv
<1>4. ASSUME NEW w \in Worker
      PROVE  /\ Fresh(w) /\ Stamped(w) /\ Busy(w)
             /\ stamp[w] \in Nat /\ seen[w] \in Row \cup {NoRow} /\ verdict[w] \in Verdict
  BY <1>1, <1>3 DEF PromptInv, ClaimInv, WellFormed, TypeOK
<1>5. ASSUME NEW d \in Deletion, rows[d] # NoRow
      PROVE  rows[d] \in Row /\ rows[d].acceptedAt \in Nat /\ rows[d].retries \in Nat
             /\ Limited(rows[d])
  BY <1>1, <1>3, <1>5 DEF TypeOK, Row, PromptInv
<1>6. ASSUME SameRows PROVE AllLimited
  BY <1>3, <1>6 DEF SameRows, PromptInv
<1>7. ASSUME NEW w \in Worker, Others(w), SameRows, UNCHANGED now,
             pc'[w] \in Holding => pc[w] \in Holding /\ Key(w)' = Key(w),
             Fresh(w)'
      PROVE  PromptInv'
  <2>1. ASSUME NEW v \in Worker \ {w} PROVE Fresh(v)'
    <3>1. pc[v] # "idle" => Key(v) \in Deletion
      BY <1>1, <1>4, KeyType DEF Busy
    <3> QED
      BY <1>2, <1>7, <3>1, FreshElsewhere DEF SameRows
  <2> QED
    BY <1>6, <1>7, <2>1 DEF PromptInv
\* The steps that change no row.
<1>8. ASSUME NEW w \in Worker, Begins(w) \/ (Leaves(w) /\ SameRows) PROVE PromptInv'
  <2>1. /\ Others(w) /\ SameRows /\ UNCHANGED now /\ pc'[w] \in {"idle", "insert"}
    BY <1>8 DEF Begins, Leaves
  <2> QED
    BY <1>7, <2>1 DEF Fresh, Holding
<1>9. ASSUME NEW w \in Worker, Conflicts(w) PROVE PromptInv'
  BY <1>7, <1>9 DEF Conflicts, Keeps, Fresh, Holding
<1>10. ASSUME NEW w \in Worker, Reads(w) PROVE PromptInv'
  <2>1. /\ Keeps(w) /\ SameRows /\ pc[w] = "read" /\ pc'[w] = "decide"
        /\ seen'[w] = rows[Key(w)] /\ rows'[Key(w)] = rows[Key(w)]
        /\ rows[Key(w)] # NoRow /\ Key(w) \in Deletion
    BY <1>4, <1>10 DEF Reads, Keeps, SameRows, Busy
  <2>2. /\ rows[Key(w)].acceptedAt \in Nat /\ Limited(rows[Key(w)])
    BY <1>5, <2>1
  <2>3. CASE NoHolder(Key(w))
    <3>1. NoHolder(Key(w))'
      BY <2>1, <2>3 DEF NoHolder, Keeps, Others, Same, Key, Holding
    <3>2. UpToDate(w)'
      BY <2>1, <2>2, <3>1 DEF UpToDate, Keeps, Limited
    <3> QED
      BY <1>7, <2>1, <3>2 DEF Fresh, Keeps, Holding
  <2>4. CASE ~NoHolder(Key(w))
    <3>1. PICK h \in Worker : pc[h] \in Holding /\ Key(h) = Key(w)
      BY <2>4 DEF NoHolder
    <3>2. rows[Key(w)].status = "accepted" /\ rows[Key(w)].acceptedAt = stamp[h]
          /\ now - stamp[h] + ClaimWindow < InProgressTimeout
      BY <1>4, <3>1 DEF Fresh, Owns
    <3>3. stamp[w] <= now
      BY <1>4, <2>1 DEF Stamped
    <3>4. stamp[w] + ClaimWindow < rows[Key(w)].acceptedAt + InProgressTimeout
      BY <1>1, <1>4, <3>2, <3>3
    <3>5. UpToDate(w)'
      BY <2>1, <2>2, <3>2, <3>4 DEF UpToDate, Keeps, Limited
    <3> QED
      BY <1>7, <2>1, <3>5 DEF Fresh, Keeps, Holding
  <2> QED
    BY <2>3, <2>4
<1>11. ASSUME NEW w \in Worker, Accepts(w) PROVE PromptInv'
  <2>1. /\ Keeps(w) /\ SameRows /\ pc[w] = "decide" /\ pc'[w] = "reclaim"
        /\ seen'[w] = seen[w] /\ rows'[Key(w)] = rows[Key(w)] /\ Key(w) \in Deletion
        /\ MayProceed(seen[w]) /\ UpToDate(w) /\ seen[w] \in Row
        /\ now - stamp[w] <= ClaimWindow
    BY <1>4, <1>11 DEF Accepts, Keeps, SameRows, Fresh, Busy, Stamped, Claiming
  <2>2. seen[w].acceptedAt \in Nat
    BY <2>1 DEF Row
  <2>3. seen[w].status \in {"accepted", "transient"}
    BY <2>1 DEF MayProceed
  <2>4. ~ /\ seen[w].status = "accepted"
          /\ stamp[w] + ClaimWindow < seen[w].acceptedAt + InProgressTimeout
    BY <1>1, <1>4, <2>1, <2>2 DEF MayProceed
  <2>5. NoHolder(Key(w)) => NoHolder(Key(w))'
    BY <2>1 DEF NoHolder, Keeps, Others, Same, Key, Holding
  <2>6. UpToDate(w)'
    BY <2>1, <2>3, <2>4, <2>5 DEF UpToDate, Keeps
  <2> QED
    BY <1>7, <2>1, <2>6 DEF Fresh, Keeps, Holding
<1>12. ASSUME NEW w \in Worker, Finds(w) \/ Concludes(w) PROVE PromptInv'
  <2>1. /\ Keeps(w) /\ SameRows /\ pc[w] \in Holding /\ pc'[w] \in {"blossom", "write"}
        /\ rows'[Key(w)] = rows[Key(w)] /\ Owns(w) /\ seen'[w] = seen[w]
        /\ PriorRetries(w)' = PriorRetries(w)
    BY <1>4, <1>12 DEF Finds, Concludes, Keeps, SameRows, Fresh, Holding, PriorRetries
  <2>2. pc'[w] = "write" /\ verdict'[w].status = "transient"
          => verdict'[w] = Retryable(w) /\ PriorRetries(w) + 1 < MaxRetries
    <3>1. pc'[w] = "write" => Concludes(w)
      BY <1>12 DEF Finds
    <3>2. Retryable(w).status = "transient" => ~(PriorRetries(w) + 1 >= MaxRetries)
      BY DEF Retryable
    <3>3. PriorRetries(w) \in Nat
      BY <1>4 DEF PriorRetries, Row
    <3> QED
      BY <1>1, <3>1, <3>2, <3>3 DEF Concludes, Permanent
  <2>3. Owns(w)'
    BY <2>1 DEF Owns, Keeps
  <2> QED
    BY <1>7, <2>1, <2>2, <2>3 DEF Fresh, Keeps, Holding
\* The steps that change a row: nobody else can hold it.
<1>13. ASSUME NEW w \in Worker, Creates(w) PROVE PromptInv'
  <2>1. /\ Keeps(w) /\ OtherRows(w) /\ pc[w] = "insert" /\ pc'[w] = "fetch"
        /\ seen'[w] = NoRow /\ rows[Key(w)] = NoRow /\ Key(w) \in Deletion
        /\ rows'[Key(w)] = Claimed(stamp[w], 0) /\ now - stamp[w] <= ClaimWindow
    BY <1>4, <1>13 DEF Creates, Keeps, Stamped, Claiming
  <2>2. ASSUME NEW v \in Worker \ {w} PROVE Fresh(v)'
    <3>1. CASE pc[v] = "insert"
      BY <2>1, <3>1 DEF Keeps, Others, Same, Fresh, Holding
    <3>2. CASE pc[v] # "insert"
      <4>1. pc[v] # "idle" => Key(v) \in Deletion /\ Key(v) # Key(w)
        BY <1>1, <1>4, <2>1, <3>2, KeyType DEF Busy
      <4>2. pc[v] # "idle" => rows'[Key(v)] = rows[Key(v)]
        BY <2>1, <4>1 DEF OtherRows
      <4> QED
        BY <1>2, <2>1, <4>1, <4>2, FreshElsewhere DEF Keeps
    <3> QED
      BY <3>1, <3>2
  <2>3. Owns(w)'
    BY <1>1, <1>4, <2>1, ClaimAssumption DEF Owns, Keeps, Claimed, PriorRetries
  <2>4. AllLimited
    BY <1>1, <1>5, <2>1 DEF OtherRows, Limited, Claimed
  <2> QED
    BY <2>1, <2>2, <2>3, <2>4 DEF PromptInv, Fresh
<1>14. ASSUME NEW w \in Worker, TakesOver(w) PROVE PromptInv'
  <2>1. /\ Keeps(w) /\ OtherRows(w) /\ pc[w] = "reclaim" /\ pc'[w] = "fetch"
        /\ seen'[w] = seen[w] /\ rows[Key(w)] # NoRow /\ Key(w) \in Deletion
        /\ rows'[Key(w)] = Claimed(stamp[w], rows[Key(w)].retries)
        /\ now - stamp[w] <= ClaimWindow /\ UpToDate(w)
        /\ rows[Key(w)].acceptedAt = seen[w].acceptedAt
        /\ seen[w].acceptedAt < stamp[w] /\ seen[w] \in Row
    BY <1>4, <1>14 DEF TakesOver, Keeps, Stamped, Claiming, Busy, Fresh
  <2>2. rows[Key(w)] = seen[w] /\ NoHolder(Key(w)) /\ seen[w].retries < MaxRetries
    BY <2>1 DEF UpToDate
  <2>3. /\ seen[w] # NoRow /\ rows'[Key(w)].retries = seen[w].retries
        /\ rows'[Key(w)].acceptedAt = stamp[w] /\ rows'[Key(w)].status = "accepted"
        /\ seen[w].retries \in Nat
    BY <1>4, <2>1, <2>2 DEF Claimed, Busy, Row
  <2>4. ASSUME NEW v \in Worker \ {w} PROVE Fresh(v)'
    <3>1. CASE pc[v] = "idle" \/ Key(v) # Key(w)
      <4>1. pc[v] # "idle" => rows'[Key(v)] = rows[Key(v)]
        BY <1>1, <1>4, <2>1, <3>1, KeyType DEF OtherRows, Busy
      <4> QED
        BY <1>2, <2>1, <3>1, <4>1, FreshElsewhere DEF Keeps
    <3>2. CASE pc[v] # "idle" /\ Key(v) = Key(w)
      <4>1. Same(v) /\ Key(v)' = Key(w) /\ pc[v] \notin Holding
        BY <2>1, <2>2, <3>2, Undisturbed DEF NoHolder, Keeps
      <4>2. ASSUME pc[v] \in {"decide", "reclaim"} PROVE UpToDate(v)'
        <5>1. /\ seen[v].acceptedAt <= rows[Key(w)].acceptedAt /\ seen[v] \in Row
              /\ seen[v].acceptedAt \in Nat
          BY <1>4, <3>2, <4>2 DEF Fresh, UpToDate, Busy, Row
        <5>2. seen[v].acceptedAt < rows'[Key(w)].acceptedAt
              /\ seen[v].acceptedAt <= rows'[Key(w)].acceptedAt
          BY <1>4, <1>5, <2>1, <2>3, <5>1
        <5>3. rows'[Key(w)].acceptedAt # seen[v].acceptedAt
          BY <1>4, <2>3, <5>1, <5>2
        <5> QED
          BY <1>4, <3>2, <4>1, <4>2, <5>2, <5>3 DEF Fresh, UpToDate, Same
      <4> QED
        BY <4>1, <4>2 DEF Fresh, Same, Holding
    <3> QED
      BY <3>1, <3>2
  <2>5. Owns(w)'
    BY <1>1, <1>4, <2>1, <2>2, <2>3, ClaimAssumption DEF Owns, Keeps, PriorRetries
  <2>6. AllLimited
    BY <1>1, <1>5, <2>1, <2>2, <2>3 DEF OtherRows, Limited
  <2> QED
    BY <2>1, <2>4, <2>5, <2>6 DEF PromptInv, Fresh
<1>15. ASSUME NEW w \in Worker, Settles(w) PROVE PromptInv'
  <2>1. /\ Leaves(w) /\ OtherRows(w) /\ pc[w] = "write" /\ Key(w) \in Deletion
        /\ rows'[Key(w)] = Written(w) /\ rows[Key(w)] # NoRow /\ Owns(w)
        /\ pc'[w] \notin Holding /\ pc'[w] \notin {"decide", "reclaim"}
    BY <1>4, <1>15 DEF Settles, Leaves, Busy, Fresh, Holding
  <2>2. /\ rows'[Key(w)].acceptedAt = rows[Key(w)].acceptedAt
        /\ rows'[Key(w)].status = verdict[w].status
        /\ rows'[Key(w)].retries \in {rows[Key(w)].retries, rows[Key(w)].retries + 1}
        /\ verdict[w].bump => rows'[Key(w)].retries = rows[Key(w)].retries + 1
    BY <2>1 DEF Written
  <2>3. ASSUME NEW v \in Worker \ {w} PROVE Fresh(v)'
    <3>1. CASE pc[v] = "idle" \/ Key(v) # Key(w)
      <4>1. pc[v] # "idle" => rows'[Key(v)] = rows[Key(v)]
        BY <1>1, <1>4, <2>1, <3>1, KeyType DEF OtherRows, Busy
      <4> QED
        BY <1>2, <2>1, <3>1, <4>1, FreshElsewhere DEF Leaves
    <3>2. CASE pc[v] # "idle" /\ Key(v) = Key(w)
      <4>1. Same(v) /\ Key(v)' = Key(w) /\ pc[v] \notin Holding
        BY <1>2, <2>1, <3>2, Undisturbed, OneHolder DEF Leaves, Holding
      <4>2. ~NoHolder(Key(v))
        BY <2>1, <3>2 DEF NoHolder, Holding
      <4>3. pc[v] \in {"decide", "reclaim"} => UpToDate(v)'
        BY <1>4, <2>2, <3>2, <4>1, <4>2 DEF Fresh, UpToDate, Same
      <4> QED
        BY <4>1, <4>3 DEF Fresh, Same, Holding
    <3> QED
      BY <3>1, <3>2
  <2>4. Limited(rows'[Key(w)])
    <3>1. /\ rows[Key(w)].retries \in Nat /\ rows[Key(w)].retries < MaxRetries
          /\ rows[Key(w)].retries = PriorRetries(w)
      BY <1>5, <2>1 DEF Owns
    <3>2. verdict[w].status = "transient"
            => verdict[w].bump /\ PriorRetries(w) + 1 < MaxRetries
      BY <1>4, <2>1 DEF Fresh, Stamped
    <3>3. verdict[w].status \in {"success", "transient", "permanent"}
      BY <1>4 DEF Verdict
    <3> QED
      BY <1>1, <2>2, <3>1, <3>2, <3>3 DEF Limited
  <2>5. AllLimited
    BY <1>5, <2>1, <2>4 DEF OtherRows
  <2> QED
    BY <2>1, <2>3, <2>5 DEF PromptInv, Fresh, Holding
<1>16. CASE Waits
  <2>1. UNCHANGED <<rows, local>>
    BY <1>16 DEF Waits
  <2>2. ASSUME NEW w \in Worker, pc[w] \in Holding
        PROVE  now' - stamp[w] + ClaimWindow < InProgressTimeout
    <3>1. CASE Tick
      BY <2>2, <3>1 DEF Tick, Prompt
    <3>2. CASE UNCHANGED now
      BY <1>4, <2>2, <3>2 DEF Fresh, Owns
    <3> QED
      BY <1>16, <3>1, <3>2 DEF Waits
  <2>3. ASSUME NEW w \in Worker PROVE Fresh(w)'
    <3>1. Key(w)' = Key(w) /\ PriorRetries(w)' = PriorRetries(w)
      BY <2>1 DEF local, Key, PriorRetries
    <3>2. NoHolder(Key(w)) => NoHolder(Key(w))'
      BY <2>1, <3>1 DEF local, NoHolder, Key
    <3>3. pc[w] \in Holding => Owns(w)'
      BY <1>4, <2>1, <2>2, <3>1 DEF local, Fresh, Owns
    <3>4. pc[w] \in {"decide", "reclaim"} => UpToDate(w)'
      BY <1>4, <2>1, <3>1, <3>2 DEF local, Fresh, UpToDate
    <3> QED
      BY <1>4, <2>1, <3>1, <3>3, <3>4 DEF local, Fresh
  <2> QED
    BY <1>3, <2>1, <2>3 DEF PromptInv
<1>17. WellFormed
  BY <1>1
<1>18. CASE \E w \in Worker :
              \/ Begins(w) \/ Creates(w) \/ Conflicts(w) \/ Reads(w) \/ Accepts(w)
              \/ TakesOver(w) \/ Finds(w) \/ Concludes(w) \/ Settles(w)
              \/ Leaves(w) /\ SameRows
  BY <1>8, <1>9, <1>10, <1>11, <1>12, <1>13, <1>14, <1>15, <1>18
<1> QED
  BY <1>16, <1>17, <1>18, Cases

LEMMA SafeInvInit == Init => SafeInv
<1> SUFFICES ASSUME Init PROVE ClaimInv /\ PromptInv
  BY DEF SafeInv
<1> QED
  BY ClaimInvInit DEF Init, PromptInv, Fresh, Holding

LEMMA SafeInvAlways == Spec => []SafeInv
  BY SafeInvInit, SafeInvStep, PTL DEF Spec

\* As long as no claim has been outlived, no two invocations work on the same
\* deletion at the same time.
THEOREM HoldersAreSingle == Spec => []SingleHolder
<1>1. SafeInv => SingleHolder
  BY OneHolder DEF SingleHolder
<1> QED
  BY <1>1, SafeInvAlways, PTL

\* As long as no claim has been outlived, the retry count decides when a
\* retryable failure becomes a permanent one.
THEOREM RetriesAreBounded == Spec => []RetriesBounded
<1>1. SafeInv => RetriesBounded
  BY DEF SafeInv, PromptInv, Limited, RetriesBounded
<1> QED
  BY <1>1, SafeInvAlways, PTL

\* A row that a step changes, while no claim has been outlived, is new, or is
\* retried or taken over by an invocation that found nobody working on it, or
\* is settled by the one that owns it: it was not settled before.
LEMMA SettledStep ==
  ASSUME SafeInv, [Next]_vars, NEW d \in Deletion, ~overrun, Settled(rows[d])
  PROVE  rows'[d] = rows[d]
<1>1. WellFormed /\ PromptInv
  BY DEF SafeInv, ClaimInv
<1>2. rows[d] # NoRow /\ rows[d].status \in {"success", "permanent"}
  BY DEF Settled
<1>3. ASSUME NEW w \in Worker, Creates(w) PROVE rows'[d] = rows[d]
  BY <1>2, <1>3 DEF Creates, OtherRows
<1>4. ASSUME NEW w \in Worker, TakesOver(w) PROVE rows'[d] = rows[d]
  <2>1. UpToDate(w) /\ OtherRows(w) /\ pc[w] = "reclaim"
        /\ rows[Key(w)].acceptedAt = seen[w].acceptedAt
    BY <1>1, <1>4 DEF TakesOver, PromptInv, Fresh
  <2>2. rows[Key(w)].status \in {"accepted", "transient"}
    BY <2>1 DEF UpToDate
  <2> QED
    BY <1>2, <2>1, <2>2 DEF OtherRows
<1>5. ASSUME NEW w \in Worker, Settles(w) PROVE rows'[d] = rows[d]
  <2>1. rows[Key(w)].status = "accepted" /\ OtherRows(w)
    BY <1>1, <1>5 DEF Settles, PromptInv, Fresh, Owns, Holding
  <2> QED
    BY <1>2, <2>1 DEF OtherRows
<1>6. SameRows \/ UNCHANGED rows => rows'[d] = rows[d]
  BY DEF SameRows
<1>7. CASE \E w \in Worker :
              \/ Begins(w) \/ Creates(w) \/ Conflicts(w) \/ Reads(w) \/ Accepts(w)
              \/ TakesOver(w) \/ Finds(w) \/ Concludes(w) \/ Settles(w)
              \/ Leaves(w) /\ SameRows
  BY <1>3, <1>4, <1>5, <1>6, <1>7 DEF Begins, Conflicts, Reads, Accepts, Finds, Concludes
<1>8. CASE Waits
  BY <1>6, <1>8 DEF Waits
<1> QED
  BY <1>1, <1>7, <1>8, Cases

\* As long as no claim has been outlived, a success or a permanent failure is
\* final.
THEOREM SettledIsFinal == Spec => SettledForGood
<1> DEFINE Final == \A d \in Deletion : ~overrun /\ Settled(rows[d]) => rows'[d] = rows[d]
<1>1. SafeInv /\ [Next]_vars => [Final]_rows
  <2> SUFFICES ASSUME SafeInv, [Next]_vars PROVE Final
    OBVIOUS
  <2> QED
    BY SettledStep
<1>2. Spec => [][Final]_rows
  BY <1>1, SafeInvAlways, PTL DEF Spec
<1> QED
  BY <1>2 DEF SettledForGood

-----------------------------------------------------------------------------
(* The pipeline implements the ledger.                                     *)

Entries == [d \in Deletion |-> Entry(rows[d])]

LEMMA EntryOf ==
  ASSUME NEW row \in Row
  PROVE  /\ row.status \in {"accepted", "transient"} => Entry(row) = "open"
         /\ row.status = "success" => Entry(row) = "success"
         /\ row.status = "permanent" => Entry(row) = "failed"
<1>1. row # NoRow
  BY DataAssumption
<1> QED
  BY <1>1 DEF Entry

LEMMA SameEntries ==
  ASSUME \A d \in Deletion : Entry(rows'[d]) = Entry(rows[d])
  PROVE  Entries' = Entries
  BY DEF Entries

LEMMA OneEntry ==
  ASSUME NEW k \in Deletion, \A d \in Deletion \ {k} : rows'[d] = rows[d]
  PROVE  Entries' = [Entries EXCEPT ![k] = Entry(rows'[k])]
  BY DEF Entries

LEMMA LedgerStep ==
  ASSUME SafeInv, EffectInv, ~overrun, [Next]_vars
  PROVE  [Ledger!Next]_(Ledger!vars)
<1> USE DEF Ledger!vars
<1>1. WellFormed /\ PromptInv /\ TypeOK /\ TypeOK'
  BY WellFormedStep DEF SafeInv, ClaimInv, WellFormed
<1>2. ASSUME NEW d \in Deletion, rows[d] # NoRow
      PROVE  rows[d] \in Row
  BY <1>1, <1>2 DEF TypeOK
<1>3. ASSUME SameRows, UNCHANGED gone PROVE UNCHANGED Ledger!vars
  BY <1>3, SameEntries DEF SameRows, Entries
<1>4. ASSUME NEW w \in Worker, Creates(w) PROVE Ledger!Next
  <2>1. /\ Key(w) \in Deletion /\ OtherRows(w) /\ UNCHANGED gone
        /\ rows[Key(w)] = NoRow /\ rows'[Key(w)] = Claimed(stamp[w], 0)
        /\ stamp[w] \in Nat
    BY <1>1, <1>4 DEF Creates, Keeps, TypeOK
  <2>2. Claimed(stamp[w], 0) \in Row
    BY <2>1 DEF Claimed, Row
  <2>3. Entry(rows'[Key(w)]) = "open" /\ Entries[Key(w)] = "none"
    BY <2>1, <2>2, EntryOf DEF Claimed, Entry, Entries
  <2>4. Entries' = [Entries EXCEPT ![Key(w)] = "open"]
    BY <2>1, <2>3, OneEntry DEF OtherRows
  <2>5. Ledger!Open(Key(w))
    BY <2>1, <2>3, <2>4 DEF Ledger!Open, Entries
  <2> QED
    BY <2>1, <2>5 DEF Ledger!Next
<1>5. ASSUME NEW w \in Worker, TakesOver(w) PROVE UNCHANGED Ledger!vars
  <2>1. /\ Key(w) \in Deletion /\ OtherRows(w) /\ UNCHANGED gone /\ UpToDate(w)
        /\ pc[w] = "reclaim" /\ rows[Key(w)] # NoRow
        /\ rows[Key(w)].acceptedAt = seen[w].acceptedAt
        /\ rows'[Key(w)] = Claimed(stamp[w], rows[Key(w)].retries)
        /\ stamp[w] \in Nat
    BY <1>1, <1>5 DEF TakesOver, Keeps, PromptInv, Fresh, WellFormed, Busy, TypeOK
  <2>2. rows[Key(w)] \in Row /\ rows[Key(w)].status \in {"accepted", "transient"}
    BY <1>2, <2>1 DEF UpToDate
  <2>3. rows'[Key(w)] \in Row /\ rows'[Key(w)].status = "accepted"
    BY <2>1, <2>2 DEF Claimed, Row
  <2>4. \A d \in Deletion : Entry(rows'[d]) = Entry(rows[d])
    BY <2>1, <2>2, <2>3, EntryOf DEF OtherRows
  <2> QED
    BY <2>1, <2>4, SameEntries DEF Entries
<1>6. ASSUME NEW w \in Worker, Concludes(w) PROVE [Ledger!Next]_(Ledger!vars)
  <2>1. CASE UNCHANGED gone
    BY <1>3, <1>6, <2>1 DEF Concludes
  <2>2. CASE pc[w] = "blossom" /\ gone' = gone \cup {TargetBlob[TargetOf(w)]}
    <3>1. /\ Key(w) \in Deletion /\ Entitled(Key(w)) /\ SameRows /\ Owns(w)
          /\ rows[Key(w)] # NoRow /\ Key(w)[2] = TargetOf(w)
      BY <1>1, <1>6, <2>2 DEF Concludes, Keeps, WellFormed, Busy, PromptInv, Fresh,
         Holding, Key, TargetOf
    <3>2. Entries[Key(w)] = "open"
      BY <1>2, <3>1, EntryOf DEF Entries, Owns
    <3>3. Entries' = Entries
      BY <3>1, SameEntries DEF SameRows
    <3>4. Ledger!Erase(Key(w))
      BY <2>2, <3>1, <3>2, <3>3 DEF Ledger!Erase, BlobOf, Entries
    <3> QED
      BY <3>1, <3>4 DEF Ledger!Next
  <2> QED
    BY <1>6, <2>1, <2>2 DEF Concludes
<1>7. ASSUME NEW w \in Worker, Settles(w) PROVE [Ledger!Next]_(Ledger!vars)
  <2>1. /\ Key(w) \in Deletion /\ OtherRows(w) /\ UNCHANGED gone /\ Owns(w)
        /\ pc[w] = "write" /\ rows[Key(w)] # NoRow /\ Backed(w)
        /\ rows'[Key(w)] = Written(w) /\ verdict[w] \in Verdict
    BY <1>1, <1>7 DEF Settles, Leaves, PromptInv, Fresh, Holding, WellFormed, Busy,
       EffectInv, TypeOK
  <2>2. rows[Key(w)] \in Row /\ rows'[Key(w)] \in Row
        /\ rows'[Key(w)].status = verdict[w].status
    BY <1>1, <1>2, <2>1, WrittenNotNoRow DEF TypeOK, Written
  <2>3. Entries[Key(w)] = "open"
    BY <2>1, <2>2, EntryOf DEF Entries, Owns
  <2>4. CASE verdict[w].status = "success"
    <3>1. Entries' = [Entries EXCEPT ![Key(w)] = "success"]
      BY <2>1, <2>2, <2>4, EntryOf, OneEntry DEF OtherRows
    <3>2. Ledger!Succeed(Key(w))
      BY <2>1, <2>3, <2>4, <3>1 DEF Ledger!Succeed, Backed, BlobOf, Entries
    <3> QED
      BY <2>1, <3>2 DEF Ledger!Next
  <2>5. CASE verdict[w].status = "permanent"
    <3>1. Entries' = [Entries EXCEPT ![Key(w)] = "failed"]
      BY <2>1, <2>2, <2>5, EntryOf, OneEntry DEF OtherRows
    <3>2. Ledger!Fail(Key(w))
      BY <2>1, <2>3, <3>1 DEF Ledger!Fail, Entries
    <3> QED
      BY <2>1, <3>2 DEF Ledger!Next
  <2>6. CASE verdict[w].status = "transient"
    <3>1. \A d \in Deletion : Entry(rows'[d]) = Entry(rows[d])
      BY <2>1, <2>2, <2>6, EntryOf DEF OtherRows, Owns
    <3> QED
      BY <2>1, <3>1, SameEntries DEF Entries
  <2> QED
    BY <2>1, <2>4, <2>5, <2>6 DEF Verdict
<1>8. ASSUME NEW w \in Worker,
             \/ Begins(w) \/ Conflicts(w) \/ Reads(w) \/ Accepts(w) \/ Finds(w)
             \/ Leaves(w) /\ SameRows
      PROVE  UNCHANGED Ledger!vars
  BY <1>3, <1>8 DEF Begins, Conflicts, Reads, Accepts, Finds, Leaves
<1>9. CASE Waits
  BY <1>3, <1>9 DEF Waits, SameRows
<1> QED
  BY <1>1, <1>4, <1>5, <1>6, <1>7, <1>8, <1>9, Cases

LEMMA LedgerInit == Init => Ledger!Init
<1> SUFFICES ASSUME Init PROVE Ledger!Init
  OBVIOUS
<1>1. \A d \in Deletion : Entry(rows[d]) = "none"
  BY DEF Init, Entry
<1> QED
  BY <1>1 DEF Init, Ledger!Init

\* When no claim is outlived, the pipeline is a ledger in which every deletion
\* is opened once, erases only what its author may erase, and is settled once.
THEOREM PromptImplementsLedger == PromptSpec => ImplementsLedger
<1>1. Init /\ [][Next /\ ~overrun']_vars => Spec
  <2>1. [Next /\ ~overrun']_vars => [Next]_vars
    OBVIOUS
  <2> QED
    BY <2>1, PTL DEF Spec
<1>2. PromptSpec => []~overrun
  <2>1. Init => ~overrun
    BY DEF Init
  <2>2. ~overrun /\ [Next /\ ~overrun']_vars => ~overrun'
    BY DEF vars
  <2> QED
    BY <2>1, <2>2, PTL DEF PromptSpec
<1>3. SafeInv /\ EffectInv /\ ~overrun /\ [Next /\ ~overrun']_vars
        => [Ledger!Next]_(Ledger!vars)
  <2>1. [Next /\ ~overrun']_vars => [Next]_vars
    OBVIOUS
  <2> QED
    BY <2>1, LedgerStep
<1> QED
  BY <1>1, <1>2, <1>3, LedgerInit, SafeInvAlways, EffectInvAlways, PTL
     DEF PromptSpec, ImplementsLedger, Ledger!Spec
=============================================================================
