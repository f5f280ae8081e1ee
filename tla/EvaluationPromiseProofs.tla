---------------------- MODULE EvaluationPromiseProofs ----------------------
(***************************************************************************)
(* What a call costs, what it promises its callers and how its batches are *)
(* cut, for any number of calls, candidates and attempts.                  *)
(***************************************************************************)
EXTENDS EvaluationProofs, FunctionTheorems

-----------------------------------------------------------------------------
(***************************************************************************)
(* Counting by rank                                                        *)
(***************************************************************************)

\* Numbers that tell the members of a set apart, all from lo to hi, are as many
\* as the members.
LEMMA NumberedApart ==
    ASSUME NEW S, NEW lo \in Int, NEW hi \in Int, NEW number \in [S -> lo..hi],
           \A x, y \in S : number[x] = number[y] => x = y
    PROVE  IsFiniteSet(S) /\ Cardinality(S) <= (IF lo > hi THEN 0 ELSE hi - lo + 1)
<1>1. IsFiniteSet(lo..hi) /\ Cardinality(lo..hi) = IF lo > hi THEN 0 ELSE hi - lo + 1
  BY FS_Interval
<1>2. number \in Injection(S, lo..hi)
  BY Fun_IsInj
<1> QED BY <1>1, <1>2, FS_Injection

\* In a strict total order, a member with more below it is another member.
LEMMA RanksTellApart ==
    ASSUME NEW S, IsFiniteSet(S), NEW below \in [S -> SUBSET S],
           \A x \in S : x \notin below[x],
           \A x, y \in S : x # y => x \in below[y] \/ y \in below[x],
           \A x, y \in S : x \in below[y] => below[x] \subseteq below[y]
    PROVE  /\ \A x \in S : IsFiniteSet(below[x]) /\ Cardinality(below[x]) \in Nat
           /\ \A x, y \in S : Cardinality(below[x]) = Cardinality(below[y]) => x = y
<1>1. ASSUME NEW x \in S PROVE IsFiniteSet(below[x]) /\ Cardinality(below[x]) \in Nat
  BY FS_Subset, FS_CardinalityType
<1>2. ASSUME NEW x \in S, NEW y \in S, x \in below[y]
      PROVE  Cardinality(below[x]) # Cardinality(below[y])
  <2>1. below[x] \in SUBSET below[y] /\ below[x] # below[y]
    BY <1>2
  <2> QED BY <1>1, <2>1, FS_Subset
<1> QED BY <1>1, <1>2

-----------------------------------------------------------------------------
(***************************************************************************)
(* Few are worth a notice                                                  *)
(***************************************************************************)

\* Whatever the outcomes are, no more of them are marked for a notification than
\* one request may have (NotificationPolicy).
LEMMA MarkedWithinCap ==
    ASSUME NEW items, IsFiniteSet(DOMAIN items), DOMAIN items \subseteq Nat,
           \A i \in DOMAIN items : items[i] \in CandidateRecommendation
    PROVE  IsFiniteSet(Marked(items)) /\ Cardinality(Marked(items)) <= MaxPerRequest
<1> DEFINE worthy == {i \in DOMAIN items : Eligible(items[i])}
           below == [i \in worthy |-> {j \in worthy : Before(items, j, i)}]
<1>1. IsFiniteSet(worthy)
  BY FS_Subset
<1>2. \A i \in worthy : i \in Nat /\ items[i].score \in Int /\ items[i].score # Nothing
                        /\ items[i].status = "evaluated"
  BY JudgementAssumption DEF Eligible, CandidateRecommendation, JudgementAssumption
<1>3. \A i, j \in worthy : Before(items, i, j) <=>
         \/ items[i].score > items[j].score
         \/ items[i].score = items[j].score /\ i < j
  BY <1>2 DEF Before, StatusOrder
<1> HIDE DEF worthy
<1>4. /\ \A i \in worthy : i \notin below[i]
      /\ \A i, j \in worthy : i # j => i \in below[j] \/ j \in below[i]
      /\ \A i, j \in worthy : i \in below[j] => below[i] \subseteq below[j]
  <2>1. \A i \in worthy : \A j : j \in below[i] <=> j \in worthy /\ Before(items, j, i)
    OBVIOUS
  <2> HIDE DEF below
  <2> QED BY <1>2, <1>3, <2>1
<1>5. below \in [worthy -> SUBSET worthy]
  OBVIOUS
<1> HIDE DEF below
<1>6. /\ \A i \in worthy : Cardinality(below[i]) \in Nat
      /\ \A i, j \in worthy : Cardinality(below[i]) = Cardinality(below[j]) => i = j
  BY <1>1, <1>4, <1>5, RanksTellApart
<1>7. Marked(items) = {i \in worthy : Cardinality(below[i]) < MaxPerRequest}
  BY DEF Marked, worthy, below
<1> DEFINE rank == [i \in Marked(items) |-> Cardinality(below[i])]
<1>8. MaxPerRequest \in Nat
  BY JudgementAssumption DEF JudgementAssumption
<1>9. rank \in [Marked(items) -> 0..(MaxPerRequest - 1)]
  BY <1>6, <1>7, <1>8
<1>10. \A i, j \in Marked(items) : rank[i] = rank[j] => i = j
  BY <1>6, <1>7
<1> HIDE DEF rank
<1> QED BY <1>8, <1>9, <1>10, NumberedApart

-----------------------------------------------------------------------------
(***************************************************************************)
(* How the batches are cut                                                 *)
(***************************************************************************)

\* Whole division, as the batches and the budget use it.
LEMMA Division ==
    ASSUME NEW x \in Int, NEW size \in Nat \ {0}
    PROVE  /\ x \div size \in Int
           /\ (x \div size) * size <= x
           /\ x < (x \div size) * size + size
OBVIOUS

\* A batch is never larger than what was set, nor than what the budget of the
\* answer allows, if it has more than one candidate.
LEMMA EffectiveSize ==
    /\ EffectiveBatchSize \in 1..BatchSize
    /\ EffectiveBatchSize > 1 => Overhead + EffectiveBatchSize * PerCandidate <= MaxOutput
<1> DEFINE affordable == (MaxOutput - Overhead) \div PerCandidate
<1>1. /\ BatchSize \in Nat \ {0} /\ PerCandidate \in Nat \ {0}
      /\ MaxOutput \in Nat /\ Overhead \in Nat
  BY EvaluationAssumption DEF EvaluationAssumption
<1>2. affordable \in Int /\ affordable * PerCandidate <= MaxOutput - Overhead
  BY <1>1, Division
<1>3. EffectiveBatchSize = IF BatchSize < (IF affordable < 1 THEN 1 ELSE affordable) THEN BatchSize
                           ELSE (IF affordable < 1 THEN 1 ELSE affordable)
  BY DEF EffectiveBatchSize
<1> HIDE DEF affordable
<1>4. EffectiveBatchSize \in 1..BatchSize /\ (EffectiveBatchSize > 1 => EffectiveBatchSize <= affordable)
  BY <1>1, <1>2, <1>3
<1>5. ASSUME EffectiveBatchSize > 1
      PROVE  EffectiveBatchSize * PerCandidate <= affordable * PerCandidate
  BY <1>1, <1>2, <1>4, <1>5
<1> QED BY <1>1, <1>2, <1>4, <1>5

\* The batches of a set of positions are not empty, and not too large.
LEMMA ChunksFit ==
    ASSUME NEW pending \in SUBSET Nat, IsFiniteSet(pending), NEW p \in pending
    PROVE  LET members == {i \in pending : Chunk(pending, i) = Chunk(pending, p)} IN
           /\ IsFiniteSet(members)
           /\ Cardinality(members) \in 1..EffectiveBatchSize
<1> DEFINE size == EffectiveBatchSize
           below == [i \in pending |-> {j \in pending : j < i}]
           members == {i \in pending : Chunk(pending, i) = Chunk(pending, p)}
           q == Cardinality(below[p]) \div size
           rank == [i \in members |-> Cardinality(below[i])]
<1>1. size \in Nat \ {0}
  BY EffectiveSize, EvaluationAssumption DEF EvaluationAssumption
<1>2. /\ \A i \in pending : Cardinality(below[i]) \in Nat
      /\ \A i, j \in pending : Cardinality(below[i]) = Cardinality(below[j]) => i = j
  <2>1. below \in [pending -> SUBSET pending]
    OBVIOUS
  <2>2. /\ \A i \in pending : i \notin below[i]
        /\ \A i, j \in pending : i # j => i \in below[j] \/ j \in below[i]
        /\ \A i, j \in pending : i \in below[j] => below[i] \subseteq below[j]
    <3>1. \A i \in pending : i \in Nat
      OBVIOUS
    <3>2. \A i \in pending : \A j : j \in below[i] <=> j \in pending /\ j < i
      OBVIOUS
    <3> HIDE DEF below
    <3>3. \A i \in pending : i \notin below[i]
      BY <3>1, <3>2
    <3>4. \A i, j \in pending : i # j => i \in below[j] \/ j \in below[i]
      BY <3>1, <3>2
    <3>5. ASSUME NEW i \in pending, NEW j \in pending, i \in below[j], NEW k \in below[i]
          PROVE  k \in below[j]
      <4>1. i < j /\ k < i /\ k \in pending
        BY <3>2, <3>5
      <4>2. k \in Nat /\ i \in Nat /\ j \in Nat
        BY <3>1, <4>1
      <4> QED BY <3>2, <4>1, <4>2
    <3> QED BY <3>3, <3>4, <3>5
  <2> HIDE DEF below
  <2> QED BY <2>1, <2>2, RanksTellApart
<1>3. \A i \in pending : Chunk(pending, i) = (Cardinality(below[i]) \div size) + 1
  BY DEF Chunk
<1> HIDE DEF below, size
<1>4. q \in Int
  BY <1>1, <1>2, Division
<1>5. \A i \in members : /\ q * size <= Cardinality(below[i])
                         /\ Cardinality(below[i]) < q * size + size
  <2> SUFFICES ASSUME NEW i \in members
               PROVE  /\ q * size <= Cardinality(below[i])
                      /\ Cardinality(below[i]) < q * size + size
    OBVIOUS
  <2>1. Cardinality(below[i]) \in Int /\ Cardinality(below[i]) \div size \in Int
    BY <1>1, <1>2, Division
  <2>2. Cardinality(below[i]) \div size = q
    BY <1>3, <1>4, <2>1
  <2>3. /\ (Cardinality(below[i]) \div size) * size <= Cardinality(below[i])
        /\ Cardinality(below[i]) < (Cardinality(below[i]) \div size) * size + size
    BY <1>1, <2>1, Division
  <2> QED BY <2>2, <2>3
<1> HIDE DEF q
<1> DEFINE lo == q * size
<1>6. lo \in Int
  BY <1>1, <1>4
<1>7. \A i \in members : lo <= Cardinality(below[i]) /\ Cardinality(below[i]) < lo + size
  BY <1>5
<1> HIDE DEF lo
<1>8. rank \in [members -> lo..(lo + size - 1)]
  <2>1. \A i \in members : Cardinality(below[i]) \in Nat
    BY <1>2
  <2> HIDE DEF members
  <2>2. \A i \in members : Cardinality(below[i]) \in lo..(lo + size - 1)
    BY <1>1, <1>6, <1>7, <2>1
  <2> QED BY <2>2
<1>9. \A i, j \in members : rank[i] = rank[j] => i = j
  BY <1>2
<1>10. p \in members
  OBVIOUS
<1> HIDE DEF rank, members
<1>11. IsFiniteSet(members) /\ Cardinality(members) <= size
  BY <1>1, <1>6, <1>8, <1>9, NumberedApart
<1>12. Cardinality(members) \in Nat /\ Cardinality(members) # 0
  BY <1>10, <1>11, FS_CardinalityType, FS_EmptySet
<1> QED BY <1>1, <1>11, <1>12 DEF members, size

-----------------------------------------------------------------------------
(***************************************************************************)
(* What a call was billed, and how its tasks stand                         *)
(***************************************************************************)

Sent(ba) == UNION {{n} \X (1..ba[n].tries) : n \in DOMAIN ba}

Waiting(ba) == {n \in DOMAIN ba : ba[n].at = "posting"}

\* A task has sent nothing before it is inside, and stores no failures.
TaskFresh(t) ==
    /\ t.tries \in Nat
    /\ t.at = "queued" => t.tries = 0
    /\ t.at = "storing" => \A i \in t.unsaved : t.results[i].status # "failed"

BatchFits(t) ==
    LET size == Cardinality(t.members) IN
    /\ size \in 1..BatchSize
    /\ size > 1 => Overhead + size * PerCandidate <= MaxOutput

\* Of the requests sent, some were answered, and a task waits for at most one
\* more; what the answers reported is counted by field, and as a whole.
BillRight(ba, m, w) ==
    /\ IsFiniteSet(Sent(ba)) /\ IsFiniteSet(Waiting(ba))
    /\ m.count = Cardinality(Sent(ba))
    /\ \E answered \in Nat :
         /\ answered + Cardinality(Waiting(ba)) <= m.count
         /\ w <= answered
         /\ \A f \in Fields : w <= m.coverage[f] /\ m.coverage[f] <= answered
         /\ (\A f \in Fields : m.coverage[f] = answered) => w = answered

CostRight(ba, m, w) ==
    /\ \A n \in DOMAIN ba : TaskFresh(ba[n]) /\ BatchFits(ba[n])
    /\ BillRight(ba, m, w)

CostsRight == \A c \in Calls : CostRight(batch[c], metrics[c], whole[c])

\* A request more is one more of the requests sent.
LEMMA SentMore ==
    ASSUME NEW ba, NEW n \in DOMAIN ba, NEW bb, DOMAIN bb = DOMAIN ba,
           \A k \in DOMAIN ba \ {n} : bb[k] = ba[k],
           ba[n].tries \in Nat, bb[n].tries = ba[n].tries + 1, IsFiniteSet(Sent(ba))
    PROVE  IsFiniteSet(Sent(bb)) /\ Cardinality(Sent(bb)) = Cardinality(Sent(ba)) + 1
<1> DEFINE new == <<n, ba[n].tries + 1>>
<1>1. \A k, i : <<k, i>> \in Sent(ba) <=> k \in DOMAIN ba /\ i \in 1..ba[k].tries
  BY DEF Sent
<1>2. new \notin Sent(ba)
  BY <1>1
<1>3. Sent(bb) = Sent(ba) \cup {new}
  <2>1. 1..bb[n].tries = (1..ba[n].tries) \cup {ba[n].tries + 1}
    OBVIOUS
  <2>2. {n} \X (1..bb[n].tries) = ({n} \X (1..ba[n].tries)) \cup {new}
    BY <2>1
  <2>3. \A k \in DOMAIN ba \ {n} : {k} \X (1..bb[k].tries) = {k} \X (1..ba[k].tries)
    OBVIOUS
  <2>4. ASSUME NEW x PROVE x \in Sent(bb) <=> x \in Sent(ba) \cup {new}
    <3>1. x \in Sent(bb) <=> \E k \in DOMAIN ba : x \in {k} \X (1..bb[k].tries)
      BY DEF Sent
    <3>2. x \in Sent(ba) <=> \E k \in DOMAIN ba : x \in {k} \X (1..ba[k].tries)
      BY DEF Sent
    <3> HIDE DEF new
    <3> QED BY <2>2, <2>3, <3>1, <3>2
  <2> QED BY <2>4
<1> HIDE DEF new
<1> QED BY <1>2, <1>3, FS_AddElement

\* Nothing is sent as long as no task tries anything.
LEMMA SentSame ==
    ASSUME NEW ba, NEW bb, DOMAIN bb = DOMAIN ba, \A k \in DOMAIN ba : bb[k].tries = ba[k].tries
    PROVE  Sent(bb) = Sent(ba)
<1>1. \A k \in DOMAIN ba : {k} \X (1..bb[k].tries) = {k} \X (1..ba[k].tries)
  OBVIOUS
<1> QED BY <1>1 DEF Sent

\* A step of one call leaves the other calls' costs right.
LEMMA OneCost ==
    ASSUME CostsRight, NEW c \in Calls,
           \A d \in Calls \ {c} :
              batch'[d] = batch[d] /\ metrics'[d] = metrics[d] /\ whole'[d] = whole[d],
           CostRight(batch'[c], metrics'[c], whole'[c])
    PROVE  CostsRight'
BY DEF CostsRight

\* A call without batches has cost nothing, and neither have fresh ones.
LEMMA FreeOfCharge ==
    ASSUME NEW ba, \A n \in DOMAIN ba : /\ ba[n].at = "queued" /\ ba[n].tries = 0
                                        /\ BatchFits(ba[n]),
           NEW m, m.count = 0, m.coverage \in [Fields -> Nat], \A f \in Fields : m.coverage[f] = 0
    PROVE  CostRight(ba, m, 0)
<1>1. Sent(ba) = {}
  <2>1. \A n \in DOMAIN ba : {n} \X (1..ba[n].tries) = {}
    OBVIOUS
  <2> QED BY <2>1 DEF Sent
<1>2. Waiting(ba) = {}
  BY DEF Waiting
<1>3. \A n \in DOMAIN ba : TaskFresh(ba[n])
  BY DEF TaskFresh
<1>4. IsFiniteSet({}) /\ Cardinality({}) = 0
  BY FS_EmptySet
<1>5. BillRight(ba, m, 0)
  BY <1>1, <1>2, <1>4 DEF BillRight
<1> QED BY <1>3, <1>5 DEF CostRight

\* A task that moves on keeps its members; what it costs is looked at below.
LEMMA TaskCosts ==
    ASSUME CostsRight, NEW c \in Calls, NEW n \in DOMAIN batch[c], OneTask(c, n),
           \A d \in Calls \ {c} : metrics'[d] = metrics[d] /\ whole'[d] = whole[d],
           batch'[c][n].members = batch[c][n].members, TaskFresh(batch'[c][n]),
           BillRight(batch'[c], metrics'[c], whole'[c])
    PROVE  CostsRight'
<1>1. CostRight(batch[c], metrics[c], whole[c])
  BY DEF CostsRight
<1>2. \A k \in DOMAIN batch'[c] : TaskFresh(batch'[c][k]) /\ BatchFits(batch'[c][k])
  BY <1>1 DEF OneTask, CostRight, BatchFits
<1>3. CostRight(batch'[c], metrics'[c], whole'[c])
  BY <1>2 DEF CostRight
<1> QED BY <1>3, OneCost DEF OneTask

\* A request that is sent is billed, before anything is heard of it.
LEMMA AttemptBilled ==
    ASSUME CostsRight, CountsRight, NEW c \in Calls, NEW n \in DOMAIN batch[c], OneTask(c, n),
           Attempt(c), batch'[c][n].tries = batch[c][n].tries + 1,
           batch[c][n].at \in {"queued", "posting"}, batch'[c][n].at = "posting",
           batch'[c][n].members = batch[c][n].members
    PROVE  CostsRight'
<1> DEFINE ba == batch[c]
           bb == batch'[c]
<1>1. /\ \A k \in DOMAIN ba : TaskFresh(ba[k])
      /\ BillRight(ba, metrics[c], whole[c])
  BY DEF CostsRight, CostRight
<1>2. /\ metrics[c] \in [count : Nat, coverage : [Fields -> Nat]]
      /\ metrics'[c] = [metrics[c] EXCEPT !.count = @ + 1] /\ whole'[c] = whole[c]
      /\ \A d \in Calls \ {c} : metrics'[d] = metrics[d] /\ whole'[d] = whole[d]
  BY DEF CountsRight, Attempt
<1>3. metrics'[c].count = metrics[c].count + 1 /\ metrics'[c].coverage = metrics[c].coverage
  BY <1>2
<1>4. DOMAIN bb = DOMAIN ba /\ \A k \in DOMAIN ba \ {n} : bb[k] = ba[k]
  BY DEF OneTask
<1>5. IsFiniteSet(Sent(bb)) /\ Cardinality(Sent(bb)) = Cardinality(Sent(ba)) + 1
  BY <1>1, <1>4, SentMore DEF BillRight, TaskFresh
<1>6. Waiting(bb) = Waiting(ba) \cup {n}
  BY <1>4 DEF Waiting
<1> HIDE DEF ba, bb
<1>7. IsFiniteSet(Waiting(ba)) /\ Cardinality(Waiting(ba)) \in Nat
  BY <1>1, FS_CardinalityType DEF BillRight
<1>8. /\ IsFiniteSet(Waiting(bb)) /\ Cardinality(Waiting(bb)) \in Nat
      /\ Cardinality(Waiting(bb)) <= Cardinality(Waiting(ba)) + 1
  <2>1. /\ IsFiniteSet(Waiting(bb))
        /\ Cardinality(Waiting(bb)) = IF n \in Waiting(ba) THEN Cardinality(Waiting(ba))
                                      ELSE Cardinality(Waiting(ba)) + 1
    BY <1>6, <1>7, FS_AddElement
  <2> QED BY <1>7, <2>1
<1>9. PICK answered \in Nat :
         /\ answered + Cardinality(Waiting(ba)) <= metrics[c].count
         /\ whole[c] <= answered
         /\ \A f \in Fields : whole[c] <= metrics[c].coverage[f] /\ metrics[c].coverage[f] <= answered
         /\ (\A f \in Fields : metrics[c].coverage[f] = answered) => whole[c] = answered
  BY <1>1 DEF BillRight
<1>10. answered + Cardinality(Waiting(bb)) <= metrics'[c].count
  BY <1>2, <1>3, <1>7, <1>8, <1>9
<1>11. BillRight(bb, metrics'[c], whole'[c])
  BY <1>1, <1>2, <1>3, <1>5, <1>8, <1>9, <1>10 DEF BillRight
<1>12. TaskFresh(bb[n])
  BY <1>1 DEF TaskFresh, ba, bb
<1> QED BY <1>2, <1>11, <1>12, TaskCosts DEF bb

\* A task that stops waiting without an answer, or did not wait, is billed for
\* nothing more.
LEMMA NothingBilled ==
    ASSUME CostsRight, NEW c \in Calls, NEW n \in DOMAIN batch[c], OneTask(c, n),
           UNCHANGED counts, batch'[c][n].tries = batch[c][n].tries,
           batch'[c][n].at \notin {"queued", "posting"}, TaskFresh(batch'[c][n]),
           batch'[c][n].members = batch[c][n].members
    PROVE  CostsRight'
<1> DEFINE ba == batch[c]
           bb == batch'[c]
<1>1. BillRight(ba, metrics[c], whole[c])
  BY DEF CostsRight, CostRight
<1>2. DOMAIN bb = DOMAIN ba /\ \A k \in DOMAIN ba \ {n} : bb[k] = ba[k]
  BY DEF OneTask
<1>3. Sent(bb) = Sent(ba)
  BY <1>2, SentSame
<1>4. Waiting(bb) \subseteq Waiting(ba)
  BY <1>2 DEF Waiting
<1> HIDE DEF ba, bb
<1>5. /\ IsFiniteSet(Waiting(bb)) /\ Cardinality(Waiting(bb)) \in Nat
      /\ Cardinality(Waiting(bb)) <= Cardinality(Waiting(ba)) /\ Cardinality(Waiting(ba)) \in Nat
      /\ metrics[c].count \in Nat
  BY <1>1, <1>4, FS_Subset, FS_CardinalityType DEF BillRight
<1>6. metrics' = metrics /\ whole' = whole
  BY DEF counts
<1>7. BillRight(bb, metrics[c], whole[c])
  BY <1>1, <1>3, <1>5 DEF BillRight
<1> QED BY <1>6, <1>7, TaskCosts DEF bb

\* An answer is counted as a whole if it reports every field, and a call all of
\* whose requests reported a field has been answered as often as it asked.
LEMMA ReportBilled ==
    ASSUME CostsRight, CountsRight, NEW c \in Calls, NEW n \in DOMAIN batch[c], OneTask(c, n),
           NEW reported \in SUBSET Fields, Reported(c, reported),
           batch'[c][n].tries = batch[c][n].tries, batch[c][n].at = "posting",
           batch'[c][n].at \notin {"queued", "posting"}, TaskFresh(batch'[c][n]),
           batch'[c][n].members = batch[c][n].members
    PROVE  CostsRight'
<1> DEFINE ba == batch[c]
           bb == batch'[c]
           m == metrics[c]
           cover == [f \in Fields |-> m.coverage[f] + (IF f \in reported THEN 1 ELSE 0)]
           w == whole[c] + (IF reported = Fields THEN 1 ELSE 0)
<1>1. BillRight(ba, m, whole[c])
  BY DEF CostsRight, CostRight
<1>2. /\ m \in [count : Nat, coverage : [Fields -> Nat]] /\ whole[c] \in Nat
      /\ metrics'[c] = [m EXCEPT !.coverage = cover] /\ whole'[c] = w
      /\ \A d \in Calls \ {c} : metrics'[d] = metrics[d] /\ whole'[d] = whole[d]
  BY DEF CountsRight, Reported
<1>3. metrics'[c].count = m.count /\ metrics'[c].coverage = cover
  BY <1>2
<1>4. DOMAIN bb = DOMAIN ba /\ \A k \in DOMAIN ba \ {n} : bb[k] = ba[k]
  BY DEF OneTask
<1>5. Sent(bb) = Sent(ba)
  BY <1>4, SentSame
<1>6. Waiting(bb) = Waiting(ba) \ {n} /\ n \in Waiting(ba)
  BY <1>4 DEF Waiting
<1> HIDE DEF ba, bb, m
<1>7. /\ IsFiniteSet(Waiting(bb)) /\ Cardinality(Waiting(bb)) \in Nat
      /\ Cardinality(Waiting(bb)) = Cardinality(Waiting(ba)) - 1
      /\ Cardinality(Waiting(ba)) \in Nat
  BY <1>1, <1>6, FS_RemoveElement, FS_CardinalityType DEF BillRight
<1>8. PICK answered \in Nat :
         /\ answered + Cardinality(Waiting(ba)) <= m.count
         /\ whole[c] <= answered
         /\ \A f \in Fields : whole[c] <= m.coverage[f] /\ m.coverage[f] <= answered
         /\ (\A f \in Fields : m.coverage[f] = answered) => whole[c] = answered
  BY <1>1 DEF BillRight
<1>9. \A f \in Fields : m.coverage[f] \in Nat /\ cover[f] = m.coverage[f] + (IF f \in reported THEN 1 ELSE 0)
  BY <1>2
<1> HIDE DEF cover
<1>10. \A f \in Fields : w <= cover[f] /\ cover[f] <= answered + 1
  <2> SUFFICES ASSUME NEW f \in Fields PROVE w <= cover[f] /\ cover[f] <= answered + 1
    OBVIOUS
  <2>1. whole[c] <= m.coverage[f] /\ m.coverage[f] <= answered /\ whole[c] \in Nat
    BY <1>2, <1>8
  <2>2. CASE reported = Fields
    BY <1>9, <2>1, <2>2
  <2>3. CASE reported # Fields
    BY <1>9, <2>1, <2>3
  <2> QED BY <2>2, <2>3
<1>11. ASSUME \A f \in Fields : cover[f] = answered + 1 PROVE w = answered + 1
  <2>1. \A f \in Fields : f \in reported /\ m.coverage[f] = answered
    BY <1>8, <1>9, <1>11
  <2>2. reported = Fields
    BY <2>1
  <2> QED BY <1>2, <1>8, <2>1, <2>2
<1>12. w <= answered + 1
  BY <1>2, <1>8
<1> HIDE DEF w
<1>13. answered + 1 \in Nat /\ (answered + 1) + Cardinality(Waiting(bb)) <= m.count
  BY <1>2, <1>7, <1>8
<1>14. BillRight(bb, metrics'[c], whole'[c])
  BY <1>1, <1>2, <1>3, <1>5, <1>7, <1>10, <1>11, <1>12, <1>13 DEF BillRight
<1> QED BY <1>2, <1>14, TaskCosts DEF bb

-----------------------------------------------------------------------------
(***************************************************************************)
(* What the steps cost                                                     *)
(***************************************************************************)

\* From here on: each step keeps the costs right.
LEMMA EnterCosts ==
    ASSUME IInv, CostsRight, NEW c \in Calls, NEW n \in DOMAIN batch[c], Enter(c, n)
    PROVE  CostsRight'
<1> DEFINE u == [batch[c][n] EXCEPT !.at = "posting", !.tries = 1]
<1>1. /\ batch[c][n] \in TaskType /\ batch[c][n].at = "queued"
      /\ TaskFresh(batch[c][n])
  BY TaskOf DEF Enter, CostsRight, CostRight
<1>2. batch' = [batch EXCEPT ![c] = [@ EXCEPT ![n] = u]]
  BY <1>1 DEF Enter, IInv, CellsRight
<1>3. /\ u.at = "posting" /\ u.tries = 1 /\ u.members = batch[c][n].members
      /\ batch[c][n].tries = 0
  BY <1>1 DEF TaskType, TaskFresh
<1> HIDE DEF u
<1>4. OneTask(c, n) /\ batch'[c][n] = u
  <2>1. UNCHANGED <<request, phase, unread, found, resolved>>
    BY DEF Enter
  <2>2. CellsRight
    BY DEF IInv
  <2> QED BY <1>2, <2>1, <2>2, OneTaskOf
<1>5. batch'[c][n].tries = batch[c][n].tries + 1
  BY <1>3, <1>4
<1> QED BY <1>1, <1>3, <1>4, <1>5, AttemptBilled DEF IInv, Enter

LEMMA AgainCosts ==
    ASSUME IInv, CostsRight, NEW c \in Calls, NEW n \in DOMAIN batch[c], Again(c, n)
    PROVE  CostsRight'
<1> DEFINE u == [batch[c][n] EXCEPT !.tries = @ + 1]
<1>1. batch[c][n] \in TaskType /\ batch[c][n].at = "posting"
  BY TaskOf DEF Again, Posting
<1>2. batch' = [batch EXCEPT ![c] = [@ EXCEPT ![n] = u]]
  BY DEF Again
<1>3. /\ u.at = "posting" /\ u.tries = batch[c][n].tries + 1
      /\ u.members = batch[c][n].members
  BY <1>1 DEF TaskType
<1> HIDE DEF u
<1>4. OneTask(c, n) /\ batch'[c][n] = u
  <2>1. UNCHANGED <<request, phase, unread, found, resolved>>
    BY DEF Again
  <2>2. CellsRight
    BY DEF IInv
  <2> QED BY <1>2, <2>1, <2>2, OneTaskOf
<1> QED BY <1>1, <1>3, <1>4, AttemptBilled DEF IInv, Again

\* What a batch that fails as a whole becomes.
LEMMA FailBatchMoves ==
    ASSUME IInv, CostsRight, NEW c \in Calls, NEW n \in DOMAIN batch[c], Posting(c, n), NEW code,
           FailBatch(c, n, code), UNCHANGED <<request, phase, unread, found, resolved>>
    PROVE  /\ OneTask(c, n) /\ batch[c][n].at = "posting"
           /\ batch'[c][n].tries = batch[c][n].tries /\ batch'[c][n].at = "done"
           /\ batch'[c][n].members = batch[c][n].members /\ TaskFresh(batch'[c][n])
<1> DEFINE results == [i \in batch[c][n].members |-> Failed(request[c], i, code)]
           u == [batch[c][n] EXCEPT !.at = "done", !.results = results]
<1>1. /\ batch[c][n] \in TaskType /\ batch[c][n].at = "posting"
      /\ TaskFresh(batch[c][n])
  BY TaskOf DEF Posting, CostsRight, CostRight
<1>2. batch' = [batch EXCEPT ![c] = [@ EXCEPT ![n] = u]]
  BY DEF FailBatch, Finish, IInv, CellsRight
<1> HIDE DEF results
<1>3. u.at = "done" /\ u.tries = batch[c][n].tries /\ u.members = batch[c][n].members
  BY <1>1 DEF TaskType
<1> HIDE DEF u
<1>4. OneTask(c, n) /\ batch'[c][n] = u
  BY <1>2, OneTaskOf DEF IInv
<1> QED BY <1>1, <1>3, <1>4 DEF TaskFresh

LEMMA NoAnswerCosts ==
    ASSUME IInv, CostsRight, NEW c \in Calls, NEW n \in DOMAIN batch[c], NoAnswer(c, n)
    PROVE  CostsRight'
<1>1. PICK trouble \in Troubles : FailBatch(c, n, trouble.code)
  BY DEF NoAnswer
<1> QED BY <1>1, FailBatchMoves, NothingBilled DEF NoAnswer

LEMMA UnusableCosts ==
    ASSUME IInv, CostsRight, NEW c \in Calls, NEW n \in DOMAIN batch[c], Unusable(c, n)
    PROVE  CostsRight'
<1>1. PICK trouble \in Troubles : FailBatch(c, n, trouble.code) /\ Reported(c, trouble.usage)
  BY DEF Unusable
<1>2. trouble.usage \in SUBSET Fields
  BY EvaluationAssumption DEF EvaluationAssumption
<1> QED BY <1>1, <1>2, FailBatchMoves, ReportBilled DEF Unusable, IInv

LEMMA AnsweredCosts ==
    ASSUME IInv, CostsRight, NEW c \in Calls, NEW n \in DOMAIN batch[c],
           NEW reply \in AnswersTo(c, n), Answered(c, n, reply)
    PROVE  CostsRight'
<1> DEFINE r == request[c]
           t == batch[c][n]
           results == [i \in t.members |-> Accounted(r.viewer, r.candidates[i], reply.entries)]
           unsaved == Storable(results)
           at == IF unsaved = {} THEN "done" ELSE "storing"
           u == [t EXCEPT !.at = at, !.reply = reply, !.results = results, !.unsaved = unsaved]
<1>1. /\ r \in AllRequests /\ t \in TaskType /\ t.at = "posting"
      /\ t.members \subseteq DOMAIN r.candidates /\ TaskFresh(t)
  BY TaskOf DEF Answered, Posting, TaskRight, CostsRight, CostRight
<1>2. reply.usage \in SUBSET Fields
  BY <1>1, AnswersTyped DEF Reply
<1>3. batch' = [batch EXCEPT ![c] = [@ EXCEPT ![n] = u]]
  BY DEF Answered
<1>4. \A i \in unsaved : results[i].status # "failed"
  BY DEF Storable
<1> HIDE DEF results, unsaved
<1>5. at \in {"done", "storing"}
  OBVIOUS
<1> HIDE DEF at
<1>6. /\ u.at = at /\ u.tries = t.tries /\ u.members = t.members
      /\ u.results = results /\ u.unsaved = unsaved
  BY <1>1 DEF TaskType
<1> HIDE DEF u
<1>7. OneTask(c, n) /\ batch'[c][n] = u
  <2>1. UNCHANGED <<request, phase, unread, found, resolved>>
    BY DEF Answered
  <2>2. CellsRight
    BY DEF IInv
  <2> QED BY <1>3, <2>1, <2>2, OneTaskOf
<1>8. TaskFresh(u)
  BY <1>1, <1>4, <1>5, <1>6 DEF TaskFresh
<1> QED BY <1>1, <1>2, <1>5, <1>6, <1>7, <1>8, ReportBilled DEF IInv, Answered

LEMMA StoreCosts ==
    ASSUME IInv, CostsRight, NEW c \in Calls, NEW n \in DOMAIN batch[c],
           NEW i \in batch[c][n].unsaved, Store(c, n, i)
    PROVE  CostsRight'
<1> DEFINE t == batch[c][n]
           left == t.unsaved \ {i}
           at == IF left = {} THEN "done" ELSE "storing"
           u == [t EXCEPT !.unsaved = left, !.at = at]
<1>1. t \in TaskType /\ t.at = "storing" /\ TaskFresh(t)
  BY TaskOf DEF Store, CostsRight, CostRight
<1>2. batch' = [batch EXCEPT ![c] = [@ EXCEPT ![n] = u]]
  BY DEF Store, IInv, CellsRight
<1>3. left \subseteq t.unsaved /\ at \in {"done", "storing"}
  OBVIOUS
<1> HIDE DEF left, at
<1>4. /\ u.at = at /\ u.tries = t.tries /\ u.members = t.members
      /\ u.results = t.results /\ u.unsaved = left
  BY <1>1 DEF TaskType
<1> HIDE DEF u
<1>5. OneTask(c, n) /\ batch'[c][n] = u
  <2>1. UNCHANGED <<request, phase, unread, found, resolved>>
    BY DEF Store
  <2>2. CellsRight
    BY DEF IInv
  <2> QED BY <1>2, <2>1, <2>2, OneTaskOf
<1>6. TaskFresh(u)
  BY <1>1, <1>3, <1>4 DEF TaskFresh
<1> QED BY <1>3, <1>4, <1>5, <1>6, NothingBilled DEF Store

LEMMA TaskCancelledCosts ==
    ASSUME IInv, CostsRight, NEW c \in Calls, NEW n \in DOMAIN batch[c], TaskCancelled(c, n)
    PROVE  CostsRight'
<1> DEFINE u == [batch[c][n] EXCEPT !.at = "cancelled"]
<1>1. batch[c][n] \in TaskType /\ TaskFresh(batch[c][n])
  BY TaskOf DEF TaskCancelled, CostsRight, CostRight
<1>2. batch' = [batch EXCEPT ![c] = [@ EXCEPT ![n] = u]]
  BY DEF TaskCancelled
<1>3. /\ u.at = "cancelled" /\ u.tries = batch[c][n].tries
      /\ u.members = batch[c][n].members
  BY <1>1 DEF TaskType
<1> HIDE DEF u
<1>4. OneTask(c, n) /\ batch'[c][n] = u
  <2>1. UNCHANGED <<request, phase, unread, found, resolved>>
    BY DEF TaskCancelled
  <2>2. CellsRight
    BY DEF IInv
  <2> QED BY <1>2, <2>1, <2>2, OneTaskOf
<1>5. TaskFresh(u)
  BY <1>1, <1>3 DEF TaskFresh
<1> QED BY <1>3, <1>4, <1>5, NothingBilled DEF TaskCancelled

\* The batches are cut to size, and have sent nothing yet.
LEMMA LookedUpCosts ==
    ASSUME IInv, CostsRight, NEW c \in Calls, LookedUp(c) PROVE CostsRight'
<1> DEFINE r == request[c]
           usable(i) == IF resolved[c][i] # Nothing THEN resolved[c][i]
                        ELSE Revalidated(found[c][i], r.viewer, r.candidates[i])
           known == [i \in DOMAIN r.candidates |-> usable(i)]
           pending == {i \in DOMAIN known : known[i] = Nothing}
           numbers == {Chunk(pending, i) : i \in pending}
           members(n) == {i \in pending : Chunk(pending, i) = n}
           tasks == [n \in numbers |-> Task(members(n))]
<1>1. r \in AllRequests /\ batch[c] = <<>>
  BY DEF LookedUp, IInv, CallsRight, CallRight
<1>2. /\ batch'[c] = tasks /\ metrics' = metrics /\ whole' = whole
      /\ \A d \in Calls \ {c} : batch'[d] = batch[d]
  BY DEF LookedUp, IInv, CellsRight, counts
<1>3. IsFiniteSet(pending) /\ pending \in SUBSET Nat
  <2>1. r.candidates \in Seq(Profile)
    BY <1>1, RequestsTyped
  <2>2. pending \subseteq 1..Len(r.candidates) /\ Len(r.candidates) \in Nat
    BY <2>1
  <2> HIDE DEF pending
  <2>3. IsFiniteSet(1..Len(r.candidates)) /\ 1..Len(r.candidates) \subseteq Nat
    BY <2>2, FS_Interval
  <2>4. IsFiniteSet(pending)
    BY <2>2, <2>3, FS_Subset
  <2> QED BY <2>2, <2>3, <2>4
<1> HIDE DEF known, pending
<1>4. ASSUME NEW n \in numbers
      PROVE  tasks[n].at = "queued" /\ tasks[n].tries = 0 /\ BatchFits(tasks[n])
  <2>1. PICK p \in pending : n = Chunk(pending, p)
    OBVIOUS
  <2>2. Cardinality(members(n)) \in 1..EffectiveBatchSize
    BY <1>3, <2>1, ChunksFit
  <2>3. tasks[n] = Task(members(n))
    OBVIOUS
  <2> HIDE DEF members, tasks
  <2>4. tasks[n].at = "queued" /\ tasks[n].tries = 0 /\ tasks[n].members = members(n)
    BY <2>3 DEF Task
  <2>5. BatchSize \in Nat /\ PerCandidate \in Nat /\ Overhead \in Nat /\ MaxOutput \in Nat
    BY EvaluationAssumption DEF EvaluationAssumption
  <2> DEFINE size == Cardinality(members(n))
  <2>6. size * PerCandidate <= EffectiveBatchSize * PerCandidate
    BY <2>2, <2>5, EffectiveSize
  <2>7. size \in 1..BatchSize /\ (size > 1 => Overhead + size * PerCandidate <= MaxOutput)
    BY <2>2, <2>5, <2>6, EffectiveSize
  <2> QED BY <2>4, <2>7 DEF BatchFits
<1>5. DOMAIN tasks = numbers
  OBVIOUS
<1> HIDE DEF tasks, members, numbers
<1>6. /\ whole[c] = 0 /\ metrics[c].count = 0 /\ metrics[c].coverage \in [Fields -> Nat]
      /\ \A f \in Fields : metrics[c].coverage[f] = 0
  <2>1. BillRight(<<>>, metrics[c], whole[c])
    BY <1>1 DEF CostsRight, CostRight
  <2>2. Sent(<<>>) = {} /\ Waiting(<<>>) = {}
    BY DEF Sent, Waiting
  <2>3. metrics[c].count = 0
    BY <2>1, <2>2, FS_EmptySet DEF BillRight
  <2>4. metrics[c].coverage \in [Fields -> Nat] /\ whole[c] \in Nat
    BY DEF IInv, CountsRight
  <2>5. PICK answered \in Nat :
           /\ answered + Cardinality(Waiting(<<>>)) <= metrics[c].count
           /\ whole[c] <= answered
           /\ \A f \in Fields : whole[c] <= metrics[c].coverage[f] /\ metrics[c].coverage[f] <= answered
    BY <2>1 DEF BillRight
  <2>6. answered = 0
    <3>1. Cardinality(Waiting(<<>>)) = 0
      BY <2>2, FS_EmptySet
    <3> QED BY <2>3, <2>5, <3>1
  <2> QED BY <2>3, <2>4, <2>5, <2>6
<1>7. CostRight(tasks, metrics[c], 0)
  BY <1>4, <1>5, <1>6, FreeOfCharge
<1> QED BY <1>2, <1>6, <1>7, OneCost

\* Returning clears the account.
LEMMA ReturnCosts ==
    ASSUME IInv, CostsRight, NEW c \in Calls, Return(c) PROVE CostsRight'
<1>1. /\ batch'[c] = <<>> /\ metrics'[c] = NoMetrics /\ whole'[c] = 0
      /\ \A d \in Calls \ {c} :
            batch'[d] = batch[d] /\ metrics'[d] = metrics[d] /\ whole'[d] = whole[d]
  BY DEF Return, IInv, CellsRight, CountsRight
<1>2. CostRight(<<>>, NoMetrics, 0)
  BY FreeOfCharge DEF NoMetrics
<1> QED BY <1>1, <1>2, OneCost

LEMMA InitCosts == Init => CostsRight
<1> SUFFICES ASSUME Init, NEW c \in Calls PROVE CostRight(batch[c], metrics[c], whole[c])
  BY DEF CostsRight
<1>1. batch[c] = <<>> /\ metrics[c] = NoMetrics /\ whole[c] = 0
  BY DEF Init
<1>2. CostRight(<<>>, NoMetrics, 0)
  BY FreeOfCharge DEF NoMetrics
<1> QED BY <1>1, <1>2

\* The other steps neither touch a batch nor count anything.
LEMMA StepCosts == IInv /\ CostsRight /\ [Next]_vars => CostsRight'
<1> SUFFICES ASSUME IInv, CostsRight, [Next]_vars PROVE CostsRight'
  OBVIOUS
<1>1. CASE UNCHANGED <<batch, metrics, whole>>
  BY <1>1 DEF CostsRight
<1>2. CASE UNCHANGED vars
  BY <1>1, <1>2 DEF vars, counts
<1>3. ASSUME NEW c \in Calls, NEW r \in Requests[c], Refuse(c, r) \/ Start(c, r)
      PROVE  CostsRight'
  BY <1>1, <1>3 DEF Refuse, Start, counts
<1>4. ASSUME NEW c \in Calls, NEW i \in unread[c], Read(c, i) PROVE CostsRight'
  BY <1>1, <1>4 DEF Read, counts
<1>5. ASSUME NEW c \in Calls, ReadsDone(c) \/ ReadsExpire(c) PROVE CostsRight'
  BY <1>5, LookedUpCosts DEF ReadsDone, ReadsExpire
<1>6. ASSUME NEW c \in Calls, NEW n \in DOMAIN batch[c],
             Enter(c, n) \/ Again(c, n) \/ NoAnswer(c, n) \/ Unusable(c, n)
      PROVE  CostsRight'
  BY <1>6, EnterCosts, AgainCosts, NoAnswerCosts, UnusableCosts
<1>7. ASSUME NEW c \in Calls, NEW n \in DOMAIN batch[c], NEW reply \in AnswersTo(c, n),
             Answered(c, n, reply)
      PROVE  CostsRight'
  BY <1>7, AnsweredCosts
<1>8. ASSUME NEW c \in Calls, NEW n \in DOMAIN batch[c], NEW i \in batch[c][n].unsaved,
             Store(c, n, i)
      PROVE  CostsRight'
  BY <1>8, StoreCosts
<1>9. ASSUME NEW c \in Calls, NEW n \in DOMAIN batch[c], TaskCancelled(c, n) PROVE CostsRight'
  BY <1>9, TaskCancelledCosts
<1>10. ASSUME NEW c \in Calls, CancelReads(c) \/ Deadline(c) \/ CancelCaller(c) \/ Collect(c)
       PROVE  CostsRight'
  BY <1>1, <1>10 DEF CancelReads, Deadline, CancelCaller, Collect, counts
<1>11. ASSUME NEW c \in Calls, Return(c) PROVE CostsRight'
  BY <1>11, ReturnCosts
<1> QED BY <1>2, <1>3, <1>4, <1>5, <1>6, <1>7, <1>8, <1>9, <1>10, <1>11 DEF Next

\* The costs stay right in every state that can be reached.
THEOREM CostsAlwaysRight == Spec => [](IInv /\ CostsRight)
<1>1. Init => IInv /\ CostsRight
  BY InitRight, InitCosts
<1>2. (IInv /\ CostsRight) /\ [Next]_vars => (IInv /\ CostsRight)'
  BY StepKeeps, StepCosts
<1> QED BY <1>1, <1>2, PTL DEF Spec

\* The usage of a call is called complete exactly when every request its batches
\* sent, cancelled or not, was answered and reported every field.
THEOREM UsageAlwaysHonest == Spec => []UsageIsHonest
<1>1. IInv /\ CostsRight => UsageIsHonest
  <2> SUFFICES ASSUME CountsRight, CostsRight, NEW c \in Calls
               PROVE  Complete(c) <=> whole[c] = Cardinality(Attempts(c))
    BY DEF IInv, UsageIsHonest
  <2>1. BillRight(batch[c], metrics[c], whole[c])
    BY DEF CostsRight, CostRight
  <2>2. Cardinality(Attempts(c)) = metrics[c].count
    BY <2>1 DEF BillRight, Attempts, Sent
  <2>3. /\ metrics[c].count \in Nat /\ whole[c] \in Nat
        /\ \A f \in Fields : metrics[c].coverage[f] \in Nat
    BY DEF CountsRight
  <2>4. PICK answered \in Nat :
           /\ answered + Cardinality(Waiting(batch[c])) <= metrics[c].count
           /\ whole[c] <= answered
           /\ \A f \in Fields : whole[c] <= metrics[c].coverage[f] /\ metrics[c].coverage[f] <= answered
           /\ (\A f \in Fields : metrics[c].coverage[f] = answered) => whole[c] = answered
    BY <2>1 DEF BillRight
  <2>5. answered <= metrics[c].count
    <3>1. Cardinality(Waiting(batch[c])) \in Nat
      BY <2>1, FS_CardinalityType DEF BillRight
    <3> QED BY <2>3, <2>4, <3>1
  <2>6. Complete(c) <=> \/ metrics[c].count = 0
                        \/ /\ metrics[c].count > 0
                           /\ \A f \in Fields : metrics[c].coverage[f] = metrics[c].count
    BY DEF Complete, Covers, GatewayCalls
  <2>7. CASE metrics[c].count = 0
    BY <2>3, <2>4, <2>5, <2>6, <2>7, <2>2
  <2>8. ASSUME metrics[c].count > 0, \A f \in Fields : metrics[c].coverage[f] = metrics[c].count
        PROVE  whole[c] = metrics[c].count
    <3>1. PICK f \in Fields : TRUE
      BY EvaluationAssumption DEF EvaluationAssumption
    <3>2. answered = metrics[c].count
      BY <2>3, <2>4, <2>5, <2>8, <3>1
    <3> QED BY <2>4, <2>8, <3>2
  <2>9. ASSUME whole[c] = metrics[c].count, NEW f \in Fields
        PROVE  metrics[c].coverage[f] = metrics[c].count
    BY <2>3, <2>4, <2>5, <2>9
  <2> QED BY <2>2, <2>3, <2>6, <2>7, <2>8, <2>9
<1> QED BY CostsAlwaysRight, <1>1, PTL

\* No batch is empty, larger than was set, or larger than the budget of its
\* answer while a smaller one would do.
THEOREM BatchesAlwaysFit == Spec => []BatchesFit
<1>1. CostsRight => BatchesFit
  BY DEF CostsRight, CostRight, BatchFits, BatchesFit
<1> QED BY CostsAlwaysRight, <1>1, PTL

-----------------------------------------------------------------------------
(***************************************************************************)
(* What it leaves in the cache                                             *)
(***************************************************************************)

\* Two requests with one key show the same people with the same texts.
LEMMA KeySays ==
    ASSUME NEW viewer, NEW candidate, NEW viewer2, NEW candidate2,
           Key(viewer, candidate) = Key(viewer2, candidate2)
    PROVE  /\ candidate.user_id = candidate2.user_id
           /\ viewer.profile_revision = viewer2.profile_revision
           /\ candidate.profile_revision = candidate2.profile_revision
           /\ \A source \in Sources : SourceText(source, viewer, candidate)
                                        = SourceText(source, viewer2, candidate2)
BY DEF Key, SourceText, Sources, ViewerSources, CandidateSources

\* An excerpt that says of itself what is true is left as it is.
LEMMA TrueExcerptsStay ==
    ASSUME NEW viewer, NEW candidate, NEW excerpts \in SUBSET Excerpt,
           \A e \in excerpts : e.verified = VerifyExcerpt(e, viewer, candidate)
    PROVE  VerifyExcerpts(excerpts, viewer, candidate) = excerpts
<1>1. ASSUME NEW e \in excerpts
      PROVE  [e EXCEPT !.verified = VerifyExcerpt(e, viewer, candidate)] = e
  <2>1. e \in Excerpt /\ e.verified = VerifyExcerpt(e, viewer, candidate)
    OBVIOUS
  <2>2. [e EXCEPT !.verified = e.verified] = e
    BY <2>1 DEF Excerpt
  <2> QED BY <2>1, <2>2
<1> QED BY <1>1 DEF VerifyExcerpts

\* A sound outcome is the same for every reader that has its key.
LEMMA SoundStays ==
    ASSUME NEW viewer, NEW candidate, NEW viewer2, NEW candidate2, NEW o,
           Sound(o, viewer, candidate), o # Nothing,
           Key(viewer2, candidate2) = Key(viewer, candidate)
    PROVE  Revalidated(o, viewer2, candidate2) = o
<1>1. /\ o \in CandidateRecommendation /\ o.excerpts \in SUBSET Excerpt
      /\ o.candidate_user_id = candidate2.user_id
      /\ o.viewer_profile_revision = viewer2.profile_revision
      /\ o.candidate_profile_revision = candidate2.profile_revision
  BY KeySays DEF Sound, CandidateRecommendation, Excerpt
<1>2. \A e \in o.excerpts : e.verified = VerifyExcerpt(e, viewer2, candidate2)
  <2>1. \A e \in o.excerpts : e.source \in Sources
    BY <1>1 DEF Excerpt
  <2> QED BY <2>1, KeySays DEF Sound, VerifyExcerpt
<1>3. VerifyExcerpts(o.excerpts, viewer2, candidate2) = o.excerpts
  BY <1>1, <1>2, TrueExcerptsStay
<1> DEFINE live == [o EXCEPT !.excerpts = o.excerpts,
                             !.viewer_profile_revision = o.viewer_profile_revision,
                             !.candidate_profile_revision = o.candidate_profile_revision]
<1>4. live = o
  BY <1>1 DEF CandidateRecommendation
<1>5. o.status = "evaluated" => Grounded(o.excerpts)
  BY DEF Sound
<1>6. Revalidated(o, viewer2, candidate2) =
        IF o.status = "evaluated" /\ ~Grounded(live.excerpts)
        THEN [live EXCEPT !.status = "failed", !.failure_code = "ungrounded_reason",
                          !.score = Nothing, !.reason = FALSE]
        ELSE live
  BY <1>1, <1>3 DEF Revalidated
<1> QED BY <1>4, <1>5, <1>6

\* Only a batch that stores a result changes the cache.
LEMMA OnlyStoreWrites ==
    ASSUME [Next]_vars, cache' # cache
    PROVE  \E c \in Calls : \E n \in DOMAIN batch[c] : \E i \in batch[c][n].unsaved : Store(c, n, i)
<1>1. ASSUME NEW c, NEW r, Refuse(c, r) \/ Start(c, r) PROVE cache' = cache
  BY <1>1 DEF Refuse, Start
<1>2. ASSUME NEW c, NEW i, Read(c, i) PROVE cache' = cache
  BY <1>2 DEF Read
<1>3. ASSUME NEW c, ReadsDone(c) \/ ReadsExpire(c) \/ CancelReads(c) PROVE cache' = cache
  BY <1>3 DEF ReadsDone, ReadsExpire, LookedUp, CancelReads
<1>4. ASSUME NEW c, NEW n, \/ Enter(c, n) \/ Again(c, n) \/ NoAnswer(c, n) \/ Unusable(c, n)
                           \/ TaskCancelled(c, n)
      PROVE  cache' = cache
  BY <1>4 DEF Enter, Again, NoAnswer, Unusable, TaskCancelled
<1>5. ASSUME NEW c, NEW n, NEW reply, Answered(c, n, reply) PROVE cache' = cache
  BY <1>5 DEF Answered
<1>6. ASSUME NEW c, Deadline(c) \/ CancelCaller(c) \/ Collect(c) \/ Return(c) PROVE cache' = cache
  BY <1>6 DEF Deadline, CancelCaller, Collect, Return
<1>7. Next
  BY DEF vars
<1> QED BY <1>1, <1>2, <1>3, <1>4, <1>5, <1>6, <1>7 DEF Next

\* Whoever looks up what a batch has stored takes it over as it is: nothing is
\* paid for that its readers would refuse, and a hit says what the first call said.
THEOREM StoredAlwaysTakenOver == Spec => StoredIsTakenOver
<1>1. ASSUME IInv, [Next]_vars, NEW k \in AllKeys, cache'[k] # cache[k],
             NEW q \in AllRequests, NEW j \in DOMAIN q.candidates, KeyAt(q, j) = k
      PROVE  Revalidated(cache'[k], q.viewer, q.candidates[j]) = cache'[k]
  <2>1. PICK c \in Calls : \E n \in DOMAIN batch[c] : \E i \in batch[c][n].unsaved : Store(c, n, i)
    BY <1>1, OnlyStoreWrites
  <2>2. PICK n \in DOMAIN batch[c] : \E i \in batch[c][n].unsaved : Store(c, n, i)
    BY <2>1
  <2>3. PICK i \in batch[c][n].unsaved : Store(c, n, i)
    BY <2>2
  <2> DEFINE r == request[c]
             o == batch[c][n].results[i]
  <2>4. /\ r \in AllRequests /\ batch[c][n].at = "storing" /\ i \in DOMAIN r.candidates
        /\ ResultRight(batch[c][n], i, r)
    BY <1>1, <2>3, TaskOf DEF Store, TaskRight
  <2>5. Sound(o, r.viewer, r.candidates[i]) /\ o # Nothing
    BY <2>4, EvaluationAssumption DEF ResultRight, Sound, EvaluationAssumption
  <2>6. cache' = [cache EXCEPT ![KeyAt(r, i)] = o] /\ DOMAIN cache = AllKeys
    BY <1>1, <2>3 DEF Store, IInv, CellsRight
  <2>7. k = KeyAt(r, i) /\ cache'[k] = o
    BY <1>1, <2>6
  <2> HIDE DEF o, r
  <2> QED BY <1>1, <2>5, <2>7, SoundStays DEF KeyAt
<1>2. IInv /\ [Next]_vars =>
        [\A k \in AllKeys : cache'[k] # cache[k] =>
            \A r \in AllRequests : \A i \in DOMAIN r.candidates :
                KeyAt(r, i) = k => Revalidated(cache'[k], r.viewer, r.candidates[i]) = cache'[k]]_vars
  BY <1>1
<1>3. Spec => [][\A k \in AllKeys : cache'[k] # cache[k] =>
                    \A r \in AllRequests : \A i \in DOMAIN r.candidates :
                        KeyAt(r, i) = k =>
                          Revalidated(cache'[k], r.viewer, r.candidates[i]) = cache'[k]]_vars
  BY <1>2, IInvAlways, PTL DEF Spec
<1> QED BY <1>3 DEF StoredIsTakenOver

-----------------------------------------------------------------------------
(***************************************************************************)
(* The promise: what the callers see of a call                             *)
(***************************************************************************)

StageOf(ph) == IF ph \in {"reading", "evaluating", "cancelling"} THEN "asked" ELSE ph

AskedOf(ph, r) == IF ph = "idle" THEN {} ELSE {KeyAt(r, i) : i \in DOMAIN r.candidates}

PublicOf(re, i) == IF i \in Marked(re) THEN "worthy" ELSE Entry(re[i])

ToldOf(ph, r, re) ==
    [k \in AllKeys |->
       IF ph = "answered" /\ k \in AskedOf(ph, r)
       THEN PublicOf(re, CHOOSE i \in DOMAIN r.candidates : KeyAt(r, i) = k)
       ELSE Nothing]

Stage == [c \in Calls |-> StageOf(phase[c])]
Asked == [c \in Calls |-> AskedOf(phase[c], request[c])]
Told == [c \in Calls |-> ToldOf(phase[c], request[c], resolved[c])]
Kept == [k \in AllKeys |-> Entry(cache[k])]

seen == <<Asked, Stage, Told, Kept>>

Silent == [k \in AllKeys |-> Nothing]

\* From here on: the steps of the promise, in those terms.
LEMMA SaysInit ==
    /\ Asked = [c \in Calls |-> {}] /\ Stage = [c \in Calls |-> "idle"]
    /\ Told = [c \in Calls |-> Silent] /\ Kept \in [AllKeys -> {"usable", "failed", Nothing}]
    => Promise!PromiseInit
BY DEF Promise!PromiseInit, Promise!NoOutcome, Promise!Entries, Silent,
       Stage, Asked, Told, Kept, StageOf, AskedOf, ToldOf, PublicOf, Public, AskedKeys

LEMMA SaysAsk ==
    ASSUME NEW c \in Calls,
           Stage[c] = "idle", Stage' = [Stage EXCEPT ![c] = "asked"],
           Asked' \in {[Asked EXCEPT ![c] = ks] : ks \in SUBSET AllKeys},
           Told' = Told, Kept' = Kept
    PROVE  Promise!Ask(c)
BY DEF Promise!Ask, Promise!Asks,
       Stage, Asked, Told, Kept, StageOf, AskedOf, ToldOf, PublicOf, Public, AskedKeys

LEMMA SaysDecline ==
    ASSUME NEW c \in Calls,
           Stage[c] = "idle", Stage' = [Stage EXCEPT ![c] = "answered"],
           Asked' \in {[Asked EXCEPT ![c] = ks] : ks \in SUBSET AllKeys},
           Told' = [Told EXCEPT ![c] = [k \in AllKeys |-> IF k \in Asked'[c] THEN "failed"
                                                          ELSE Nothing]],
           Kept' = Kept
    PROVE  Promise!Decline(c)
BY DEF Promise!Decline, Promise!Asks,
       Stage, Asked, Told, Kept, StageOf, AskedOf, ToldOf, PublicOf, Public, AskedKeys

\* The promise counts as the service does.
LEMMA SameCount == \A S : Promise!Cardinality(S) = Cardinality(S)
BY DEF Promise!Cardinality, Cardinality

LEMMA SaysAnswer ==
    ASSUME NEW c \in Calls,
           Stage[c] = "asked", Stage' = [Stage EXCEPT ![c] = "answered"],
           \E answer \in [Asked[c] -> {"usable", "worthy", "failed"}] :
             /\ Cardinality({k \in Asked[c] : answer[k] = "worthy"}) <= MaxPerRequest
             /\ Told' = [Told EXCEPT ![c] = [k \in AllKeys |-> IF k \in Asked[c] THEN answer[k]
                                                               ELSE Nothing]],
           Asked' = Asked, Kept' = Kept
    PROVE  Promise!Answer(c)
<1>1. \E answer \in [Asked[c] -> {"usable", "worthy", "failed"}] :
        /\ Promise!Cardinality({k \in Asked[c] : answer[k] = "worthy"}) <= MaxPerRequest
        /\ Told' = [Told EXCEPT ![c] = [k \in AllKeys |-> IF k \in Asked[c] THEN answer[k]
                                                          ELSE Nothing]]
  BY SameCount
<1> QED
  BY <1>1 DEF Promise!Answer, Promise!Outcomes,
              Stage, Asked, Told, Kept, StageOf, AskedOf, ToldOf, PublicOf, Public, AskedKeys

LEMMA SaysRaise ==
    ASSUME NEW c \in Calls,
           Stage[c] = "asked", Stage' = [Stage EXCEPT ![c] = "raised"],
           Asked' = Asked, Told' = Told, Kept' = Kept
    PROVE  Promise!Raise(c)
BY DEF Promise!Raise,
       Stage, Asked, Told, Kept, StageOf, AskedOf, ToldOf, PublicOf, Public, AskedKeys

LEMMA SaysReturn ==
    ASSUME NEW c \in Calls,
           Stage[c] \in {"answered", "raised"}, Stage' = [Stage EXCEPT ![c] = "idle"],
           Asked' = [Asked EXCEPT ![c] = {}], Told' = [Told EXCEPT ![c] = Silent], Kept' = Kept
    PROVE  Promise!Return(c)
BY DEF Promise!Return, Promise!NoOutcome, Silent,
       Stage, Asked, Told, Kept, StageOf, AskedOf, ToldOf, PublicOf, Public, AskedKeys

LEMMA SaysKeep ==
    ASSUME NEW c \in Calls, NEW k \in AllKeys,
           Stage[c] = "asked", k \in Asked[c], Kept' = [Kept EXCEPT ![k] = "usable"],
           Asked' = Asked, Stage' = Stage, Told' = Told
    PROVE  Promise!Keep(c, k)
BY DEF Promise!Keep,
       Stage, Asked, Told, Kept, StageOf, AskedOf, ToldOf, PublicOf, Public, AskedKeys

LEMMA SaysNothing ==
    ASSUME Asked' = Asked, Stage' = Stage, Told' = Told, Kept' = Kept
    PROVE  UNCHANGED Promise!promiseVars
BY DEF Promise!promiseVars,
       Stage, Asked, Told, Kept, StageOf, AskedOf, ToldOf, PublicOf, Public, AskedKeys

\* A step of one call changes what is seen of that call only.
LEMMA SeenOfOne ==
    ASSUME NEW c \in Calls,
           \A d \in Calls \ {c} :
              phase'[d] = phase[d] /\ request'[d] = request[d] /\ resolved'[d] = resolved[d]
    PROVE  /\ Stage' = [Stage EXCEPT ![c] = StageOf(phase'[c])]
           /\ Asked' = [Asked EXCEPT ![c] = AskedOf(phase'[c], request'[c])]
           /\ Told' = [Told EXCEPT ![c] = ToldOf(phase'[c], request'[c], resolved'[c])]
           /\ Stage[c] = StageOf(phase[c]) /\ Asked[c] = AskedOf(phase[c], request[c])
           /\ Told[c] = ToldOf(phase[c], request[c], resolved[c])
<1>1. \A d \in Calls \ {c} :
         /\ StageOf(phase'[d]) = StageOf(phase[d])
         /\ AskedOf(phase'[d], request'[d]) = AskedOf(phase[d], request[d])
         /\ ToldOf(phase'[d], request'[d], resolved'[d]) = ToldOf(phase[d], request[d], resolved[d])
  OBVIOUS
<1>2. Stage' = [d \in Calls |-> StageOf(phase'[d])]
  BY DEF Stage, StageOf
<1>3. Asked' = [d \in Calls |-> AskedOf(phase'[d], request'[d])]
  BY DEF Asked, AskedOf
<1>4. Told' = [d \in Calls |-> ToldOf(phase'[d], request'[d], resolved'[d])]
  BY DEF Told, ToldOf, PublicOf, AskedOf
<1>5. Stage' = [Stage EXCEPT ![c] = StageOf(phase'[c])] /\ Stage[c] = StageOf(phase[c])
  BY <1>1, <1>2 DEF Stage
<1>6. /\ Asked' = [Asked EXCEPT ![c] = AskedOf(phase'[c], request'[c])]
      /\ Asked[c] = AskedOf(phase[c], request[c])
  BY <1>1, <1>3 DEF Asked
<1>7. /\ Told' = [Told EXCEPT ![c] = ToldOf(phase'[c], request'[c], resolved'[c])]
      /\ Told[c] = ToldOf(phase[c], request[c], resolved[c])
  BY <1>1, <1>4 DEF Told
<1> QED BY <1>5, <1>6, <1>7

\* Before its answer nothing is told of a call.
LEMMA SilentBefore ==
    ASSUME NEW ph, ph # "answered", NEW r, NEW re PROVE ToldOf(ph, r, re) = Silent
BY DEF ToldOf, Silent

LEMMA KeptSame == UNCHANGED cache => Kept' = Kept
BY DEF Kept, Entry

\* The keys of a request are keys.
LEMMA AskedTyped ==
    ASSUME NEW r \in AllRequests, NEW ph
    PROVE  AskedOf(ph, r) \subseteq AllKeys
BY DEF AskedOf, AllKeys

\* What is stored is an evaluation or a failure, if it is anything.
LEMMA EntryTyped ==
    ASSUME NEW o \in CandidateRecommendation, o # Nothing
    PROVE  Entry(o) = (IF o.status = "failed" THEN "failed" ELSE "usable")
BY DEF Entry

-----------------------------------------------------------------------------
(***************************************************************************)
(* Every step is one the promise allows, or changes nothing it speaks of   *)
(***************************************************************************)

LEMMA PromiseInit == Init => Promise!PromiseInit
<1> SUFFICES ASSUME Init PROVE Promise!PromiseInit
  OBVIOUS
<1>1. Asked = [c \in Calls |-> {}] /\ Stage = [c \in Calls |-> "idle"]
  BY DEF Init, Asked, Stage, AskedOf, StageOf
<1>2. Told = [c \in Calls |-> Silent]
  BY DEF Init, Told, ToldOf, Silent
<1>3. Kept \in [AllKeys -> {"usable", "failed", Nothing}]
  BY DEF Init, Kept, Entry
<1> QED BY <1>1, <1>2, <1>3, SaysInit

\* A call that is refused tells a failure for everybody it was asked about.
LEMMA RefuseSeen ==
    ASSUME IInv, NEW c \in Calls, NEW r \in Requests[c], Refuse(c, r) PROVE Promise!Decline(c)
<1> DEFINE re == [i \in DOMAIN r.candidates |-> Failed(r, i, Refusal(r))]
           ks == AskedOf("answered", r)
<1>1. r \in AllRequests /\ Refusal(r) \in FailureCodes
  BY EvaluationAssumption
     DEF AllRequests, Refuse, Refusal, FailureCodes, EvaluationAssumption
<1>2. /\ phase[c] = "idle" /\ phase'[c] = "answered" /\ request'[c] = r /\ resolved'[c] = re
      /\ \A d \in Calls \ {c} :
            phase'[d] = phase[d] /\ request'[d] = request[d] /\ resolved'[d] = resolved[d]
      /\ UNCHANGED cache
  BY DEF Refuse, IInv, CellsRight
<1>3. \A i \in DOMAIN r.candidates : re[i].status = "failed" /\ re[i] # Nothing
  BY <1>1, FailedSound
<1>4. DOMAIN re = DOMAIN r.candidates
  OBVIOUS
<1> HIDE DEF re
<1>5. \A i \in DOMAIN r.candidates : PublicOf(re, i) = "failed"
  <2>1. \A i \in DOMAIN r.candidates : Entry(re[i]) = "failed"
    BY <1>3 DEF Entry
  <2>2. \A i \in DOMAIN r.candidates : i \notin Marked(re)
    BY <1>3 DEF Marked, Eligible
  <2> QED BY <2>1, <2>2 DEF PublicOf
<1>6. ToldOf("answered", r, re) = [k \in AllKeys |-> IF k \in ks THEN "failed" ELSE Nothing]
  <2>1. ASSUME NEW k \in AllKeys, k \in ks
        PROVE  PublicOf(re, CHOOSE i \in DOMAIN r.candidates : KeyAt(r, i) = k) = "failed"
    <3>1. \E i \in DOMAIN r.candidates : KeyAt(r, i) = k
      BY <2>1 DEF AskedOf
    <3>2. (CHOOSE i \in DOMAIN r.candidates : KeyAt(r, i) = k) \in DOMAIN r.candidates
      BY <3>1
    <3> QED BY <1>5, <3>2
  <2> HIDE DEF ks
  <2> QED BY <2>1 DEF ToldOf, ks
<1>7. /\ Stage' = [Stage EXCEPT ![c] = StageOf("answered")]
      /\ Asked' = [Asked EXCEPT ![c] = ks]
      /\ Told' = [Told EXCEPT ![c] = ToldOf("answered", r, re)]
      /\ Stage[c] = StageOf("idle")
  BY <1>2, SeenOfOne
<1>8. Asked'[c] = ks /\ ks \in SUBSET AllKeys
  <2>1. DOMAIN Asked = Calls
    BY DEF Asked
  <2> QED BY <1>1, <1>7, <2>1, AskedTyped
<1>9. StageOf("answered") = "answered" /\ StageOf("idle") = "idle"
  BY DEF StageOf
<1> HIDE DEF ks
<1>10. Kept' = Kept
  BY <1>2, KeptSame
<1> QED BY <1>6, <1>7, <1>8, <1>9, <1>10, SaysDecline

\* A call that starts is asked about the people of its request.
LEMMA StartSeen ==
    ASSUME IInv, NEW c \in Calls, NEW r \in Requests[c], Start(c, r) PROVE Promise!Ask(c)
<1>1. r \in AllRequests
  BY DEF AllRequests
<1>2. /\ phase[c] = "idle" /\ phase'[c] = "reading" /\ request'[c] = r
      /\ \A d \in Calls \ {c} :
            phase'[d] = phase[d] /\ request'[d] = request[d] /\ resolved'[d] = resolved[d]
      /\ UNCHANGED cache
  BY DEF Start, IInv, CellsRight
<1>3. /\ Stage' = [Stage EXCEPT ![c] = StageOf("reading")]
      /\ Asked' = [Asked EXCEPT ![c] = AskedOf("reading", r)]
      /\ Told' = [Told EXCEPT ![c] = ToldOf("reading", r, resolved'[c])]
      /\ Stage[c] = StageOf("idle") /\ Told[c] = ToldOf("idle", request[c], resolved[c])
  BY <1>2, SeenOfOne
<1>4. Told' = Told
  <2>1. ToldOf("reading", r, resolved'[c]) = Told[c]
    BY <1>3, SilentBefore
  <2>2. Told = [Told EXCEPT ![c] = Told[c]]
    BY DEF Told
  <2> QED BY <1>3, <2>1, <2>2
<1>5. AskedOf("reading", r) \in SUBSET AllKeys
  BY <1>1, AskedTyped
<1>6. StageOf("reading") = "asked" /\ StageOf("idle") = "idle"
  BY DEF StageOf
<1>7. Kept' = Kept
  BY <1>2, KeptSame
<1> QED BY <1>3, <1>4, <1>5, <1>6, <1>7, SaysAsk

\* A call that goes on is seen as before, whatever it has found out meanwhile.
LEMMA GoingOnUnseen ==
    ASSUME IInv, NEW c \in Calls,
           phase[c] \in {"reading", "evaluating", "cancelling"},
           phase'[c] \in {"reading", "evaluating", "cancelling"},
           request'[c] = request[c],
           \A d \in Calls \ {c} :
              phase'[d] = phase[d] /\ request'[d] = request[d] /\ resolved'[d] = resolved[d]
    PROVE  Stage' = Stage /\ Asked' = Asked /\ Told' = Told
           /\ Stage[c] = "asked" /\ Asked[c] = {KeyAt(request[c], i) : i \in DOMAIN request[c].candidates}
<1>1. /\ Stage' = [Stage EXCEPT ![c] = StageOf(phase'[c])]
      /\ Asked' = [Asked EXCEPT ![c] = AskedOf(phase'[c], request[c])]
      /\ Told' = [Told EXCEPT ![c] = ToldOf(phase'[c], request[c], resolved'[c])]
      /\ Stage[c] = StageOf(phase[c]) /\ Asked[c] = AskedOf(phase[c], request[c])
      /\ Told[c] = ToldOf(phase[c], request[c], resolved[c])
  BY SeenOfOne
<1>2. StageOf(phase'[c]) = Stage[c] /\ Stage[c] = "asked"
  BY <1>1 DEF StageOf
<1>3. /\ AskedOf(phase'[c], request[c]) = Asked[c]
      /\ Asked[c] = {KeyAt(request[c], i) : i \in DOMAIN request[c].candidates}
  BY <1>1 DEF AskedOf
<1>4. ToldOf(phase'[c], request[c], resolved'[c]) = Told[c]
  BY <1>1, SilentBefore
<1>5. /\ Stage = [Stage EXCEPT ![c] = Stage[c]] /\ Asked = [Asked EXCEPT ![c] = Asked[c]]
      /\ Told = [Told EXCEPT ![c] = Told[c]]
  BY DEF Stage, Asked, Told
<1> QED BY <1>1, <1>2, <1>3, <1>4, <1>5

\* A call that is answered tells one outcome for each pair it was asked about,
\* nobody else's, and not too many of them are worth a notice.
LEMMA AnswerSeen ==
    ASSUME IInv', NEW c \in Calls, phase[c] \in {"reading", "evaluating", "cancelling"},
           phase'[c] = "answered", request'[c] = request[c], UNCHANGED cache,
           \A d \in Calls \ {c} :
              phase'[d] = phase[d] /\ request'[d] = request[d] /\ resolved'[d] = resolved[d]
    PROVE  Promise!Answer(c)
<1> DEFINE r == request[c]
           re == resolved'[c]
           ks == AskedOf("answered", r)
           chosen(k) == CHOOSE i \in DOMAIN r.candidates : KeyAt(r, i) = k
           answer == [k \in ks |-> PublicOf(re, chosen(k))]
           noticed == {k \in ks : answer[k] = "worthy"}
<1>1. CallRight("answered", r, unread'[c], found'[c], re, batch'[c])
  BY DEF IInv, CallsRight
<1>2. /\ r \in AllRequests
      /\ re \in [DOMAIN r.candidates -> CandidateRecommendation \cup {Nothing}]
      /\ \A i \in DOMAIN r.candidates : re[i] # Nothing
  BY <1>1 DEF CallRight, OutcomesRight
<1>3. /\ DOMAIN re = DOMAIN r.candidates /\ DOMAIN re \subseteq Nat /\ IsFiniteSet(DOMAIN re)
      /\ \A i \in DOMAIN re : re[i] \in CandidateRecommendation
  <2>1. r.candidates \in Seq(Profile)
    BY <1>2, RequestsTyped
  <2>2. DOMAIN r.candidates = 1..Len(r.candidates) /\ Len(r.candidates) \in Nat
    BY <2>1
  <2>3. IsFiniteSet(DOMAIN r.candidates) /\ DOMAIN r.candidates \subseteq Nat
    BY <2>2, FS_Interval
  <2> QED BY <1>2, <2>3
<1>4. IsFiniteSet(Marked(re)) /\ Cardinality(Marked(re)) <= MaxPerRequest
  BY <1>3, MarkedWithinCap
<1> HIDE DEF re
<1>5. ASSUME NEW i \in DOMAIN r.candidates
      PROVE  /\ PublicOf(re, i) \in {"usable", "worthy", "failed"}
             /\ PublicOf(re, i) = "worthy" => i \in Marked(re)
  BY <1>2, <1>3, EntryTyped DEF PublicOf
<1>6. ASSUME NEW k \in ks PROVE chosen(k) \in DOMAIN r.candidates /\ KeyAt(r, chosen(k)) = k
  <2>1. \E i \in DOMAIN r.candidates : KeyAt(r, i) = k
    BY DEF AskedOf
  <2> QED BY <2>1
<1> HIDE DEF ks, chosen
<1>7. answer \in [ks -> {"usable", "worthy", "failed"}]
  BY <1>5, <1>6
<1>8. Cardinality(noticed) <= MaxPerRequest
  <2> DEFINE pick == [k \in noticed |-> chosen(k)]
  <2>1. pick \in [noticed -> Marked(re)]
    BY <1>5, <1>6
  <2>2. \A k, l \in noticed : pick[k] = pick[l] => k = l
    BY <1>6
  <2> HIDE DEF pick, noticed
  <2>3. pick \in Injection(noticed, Marked(re))
    BY <2>1, <2>2, Fun_IsInj
  <2>4. Cardinality(noticed) <= Cardinality(Marked(re)) /\ IsFiniteSet(noticed)
    BY <1>4, <2>3, FS_Injection
  <2>5. Cardinality(noticed) \in Nat /\ Cardinality(Marked(re)) \in Nat /\ MaxPerRequest \in Nat
    BY <1>4, <2>4, FS_CardinalityType, JudgementAssumption DEF JudgementAssumption
  <2> QED BY <1>4, <2>4, <2>5
<1>9. /\ Stage' = [Stage EXCEPT ![c] = StageOf("answered")]
      /\ Asked' = [Asked EXCEPT ![c] = ks]
      /\ Told' = [Told EXCEPT ![c] = ToldOf("answered", r, re)]
      /\ Stage[c] = StageOf(phase[c]) /\ Asked[c] = AskedOf(phase[c], r)
  BY SeenOfOne DEF ks, re
<1>10. Stage[c] = "asked" /\ StageOf("answered") = "answered" /\ Asked[c] = ks
  BY <1>9 DEF StageOf, AskedOf, ks
<1>11. Asked' = Asked
  <2>1. Asked = [Asked EXCEPT ![c] = Asked[c]]
    BY DEF Asked
  <2> QED BY <1>9, <1>10, <2>1
<1>12. ToldOf("answered", r, re) = [k \in AllKeys |-> IF k \in ks THEN answer[k] ELSE Nothing]
  <2>1. \A k \in ks : answer[k] = PublicOf(re, chosen(k))
    OBVIOUS
  <2> HIDE DEF answer
  <2> QED BY <2>1 DEF ToldOf, ks, chosen
<1> HIDE DEF answer
<1>13. Kept' = Kept
  BY KeptSame
<1> QED BY <1>7, <1>8, <1>9, <1>10, <1>11, <1>12, <1>13, SaysAnswer DEF noticed

\* A call that is cancelled raises, and tells nothing.
LEMMA RaiseSeen ==
    ASSUME IInv, NEW c \in Calls, phase[c] \in {"reading", "evaluating", "cancelling"},
           phase'[c] = "raised", request'[c] = request[c], UNCHANGED cache,
           \A d \in Calls \ {c} :
              phase'[d] = phase[d] /\ request'[d] = request[d] /\ resolved'[d] = resolved[d]
    PROVE  Promise!Raise(c)
<1>1. /\ Stage' = [Stage EXCEPT ![c] = StageOf("raised")]
      /\ Asked' = [Asked EXCEPT ![c] = AskedOf("raised", request[c])]
      /\ Told' = [Told EXCEPT ![c] = ToldOf("raised", request[c], resolved'[c])]
      /\ Stage[c] = StageOf(phase[c]) /\ Asked[c] = AskedOf(phase[c], request[c])
      /\ Told[c] = ToldOf(phase[c], request[c], resolved[c])
  BY SeenOfOne
<1>2. Stage[c] = "asked" /\ StageOf("raised") = "raised"
  BY <1>1 DEF StageOf
<1>3. AskedOf("raised", request[c]) = Asked[c]
  BY <1>1 DEF AskedOf
<1>4. ToldOf("raised", request[c], resolved'[c]) = Told[c]
  BY <1>1, SilentBefore
<1>5. Asked = [Asked EXCEPT ![c] = Asked[c]] /\ Told = [Told EXCEPT ![c] = Told[c]]
  BY DEF Asked, Told
<1>6. Kept' = Kept
  BY KeptSame
<1> QED BY <1>1, <1>2, <1>3, <1>4, <1>5, <1>6, SaysRaise

\* A call that returns is forgotten.
LEMMA ReturnSeen ==
    ASSUME IInv, NEW c \in Calls, Return(c) PROVE Promise!Return(c)
<1>1. /\ phase[c] \in {"answered", "raised"} /\ phase'[c] = "idle" /\ UNCHANGED cache
      /\ \A d \in Calls \ {c} :
            phase'[d] = phase[d] /\ request'[d] = request[d] /\ resolved'[d] = resolved[d]
  BY DEF Return, IInv, CellsRight
<1>2. /\ Stage' = [Stage EXCEPT ![c] = StageOf("idle")]
      /\ Asked' = [Asked EXCEPT ![c] = AskedOf("idle", request'[c])]
      /\ Told' = [Told EXCEPT ![c] = ToldOf("idle", request'[c], resolved'[c])]
      /\ Stage[c] = StageOf(phase[c])
  BY <1>1, SeenOfOne
<1>3. Stage[c] \in {"answered", "raised"} /\ StageOf("idle") = "idle"
  BY <1>1, <1>2 DEF StageOf
<1>4. AskedOf("idle", request'[c]) = {}
  BY DEF AskedOf
<1>5. ToldOf("idle", request'[c], resolved'[c]) = Silent
  BY SilentBefore
<1>6. Kept' = Kept
  BY <1>1, KeptSame
<1> QED BY <1>2, <1>3, <1>4, <1>5, <1>6, SaysReturn

\* What is stored is an evaluation, under a key the call was asked about.
LEMMA StoreSeen ==
    ASSUME IInv, CostsRight, NEW c \in Calls, NEW n \in DOMAIN batch[c],
           NEW i \in batch[c][n].unsaved, Store(c, n, i)
    PROVE  Promise!PromiseNext \/ UNCHANGED Promise!promiseVars
<1> DEFINE r == request[c]
           k == KeyAt(r, i)
           o == batch[c][n].results[i]
<1>1. /\ r \in AllRequests /\ batch[c][n].at = "storing" /\ i \in DOMAIN r.candidates
      /\ ResultRight(batch[c][n], i, r) /\ TaskFresh(batch[c][n])
  BY TaskOf DEF Store, TaskRight, CostsRight, CostRight
<1>2. o \in CandidateRecommendation /\ o.status # "failed" /\ o # Nothing
  BY <1>1, EvaluationAssumption DEF ResultRight, Sound, TaskFresh, EvaluationAssumption
<1>3. phase[c] = "evaluating" /\ phase' = phase /\ request' = request /\ resolved' = resolved
  BY DEF Store
<1>4. /\ Stage' = Stage /\ Asked' = Asked /\ Told' = Told
      /\ Stage[c] = "asked" /\ Asked[c] = {KeyAt(r, j) : j \in DOMAIN r.candidates}
  BY <1>3, GoingOnUnseen
<1>5. k \in Asked[c] /\ k \in AllKeys
  BY <1>1, <1>4 DEF AllKeys
<1>6. cache' = cache \/ cache' = [cache EXCEPT ![k] = o]
  BY DEF Store
<1>7. Entry(o) = "usable"
  BY <1>2, EntryTyped
<1> HIDE DEF k, o
<1>8. CASE cache' = cache
  <2>1. Kept' = Kept
    BY <1>8, KeptSame
  <2> QED BY <1>4, <2>1, SaysNothing
<1>9. CASE cache' = [cache EXCEPT ![k] = o]
  <2>1. DOMAIN cache = AllKeys
    BY DEF IInv, CellsRight
  <2>2. \A l \in AllKeys : cache'[l] = IF l = k THEN o ELSE cache[l]
    BY <1>9, <2>1
  <2>3. Kept' = [l \in AllKeys |-> Entry(cache'[l])]
    BY DEF Kept, Entry
  <2>4. Kept' = [Kept EXCEPT ![k] = "usable"]
    BY <1>5, <1>7, <2>2, <2>3 DEF Kept
  <2>5. Promise!Keep(c, k)
    BY <1>4, <1>5, <2>4, SaysKeep
  <2> QED BY <1>5, <2>5 DEF Promise!PromiseNext
<1> QED BY <1>6, <1>8, <1>9

\* The other steps of a call that goes on.
LEMMA QuietSeen ==
    ASSUME IInv, NEW c \in Calls,
           phase[c] \in {"reading", "evaluating", "cancelling"},
           phase'[c] \in {"reading", "evaluating", "cancelling"},
           request'[c] = request[c], UNCHANGED cache,
           \A d \in Calls \ {c} :
              phase'[d] = phase[d] /\ request'[d] = request[d] /\ resolved'[d] = resolved[d]
    PROVE  UNCHANGED Promise!promiseVars
<1>1. Stage' = Stage /\ Asked' = Asked /\ Told' = Told
  BY GoingOnUnseen
<1>2. Kept' = Kept
  BY KeptSame
<1> QED BY <1>1, <1>2, SaysNothing

LEMMA PromiseStep ==
    IInv /\ CostsRight /\ [Next]_vars => [Promise!PromiseNext]_Promise!promiseVars
<1> SUFFICES ASSUME IInv, CostsRight, [Next]_vars
             PROVE  Promise!PromiseNext \/ UNCHANGED Promise!promiseVars
  OBVIOUS
<1>1. IInv'
  BY StepKeeps
<1>2. CASE UNCHANGED vars
  <2>1. Stage' = Stage /\ Asked' = Asked /\ Told' = Told /\ Kept' = Kept
    BY <1>2 DEF vars, counts, Stage, Asked, Told, Kept, StageOf, AskedOf, ToldOf, PublicOf, Entry
  <2> QED BY <2>1, SaysNothing
<1>3. ASSUME NEW c \in Calls, NEW r \in Requests[c], Refuse(c, r) \/ Start(c, r)
      PROVE  Promise!PromiseNext
  BY <1>3, RefuseSeen, StartSeen DEF Promise!PromiseNext
<1>4. ASSUME NEW c \in Calls, NEW i \in unread[c], Read(c, i)
      PROVE  UNCHANGED Promise!promiseVars
  BY <1>4, QuietSeen DEF Read
<1>5. ASSUME NEW c \in Calls, ReadsDone(c) \/ ReadsExpire(c)
      PROVE  Promise!PromiseNext \/ UNCHANGED Promise!promiseVars
  <2>1. /\ phase[c] = "reading" /\ phase'[c] \in {"answered", "evaluating"}
        /\ request'[c] = request[c] /\ UNCHANGED cache
        /\ \A d \in Calls \ {c} :
              phase'[d] = phase[d] /\ request'[d] = request[d] /\ resolved'[d] = resolved[d]
    BY <1>5 DEF ReadsDone, ReadsExpire, LookedUp, IInv, CellsRight
  <2> QED BY <1>1, <2>1, AnswerSeen, QuietSeen DEF Promise!PromiseNext
<1>6. ASSUME NEW c \in Calls, CancelReads(c) PROVE Promise!PromiseNext
  <2>1. /\ phase[c] = "reading" /\ phase'[c] = "raised"
        /\ request'[c] = request[c] /\ UNCHANGED cache
        /\ \A d \in Calls \ {c} :
              phase'[d] = phase[d] /\ request'[d] = request[d] /\ resolved'[d] = resolved[d]
    BY <1>6 DEF CancelReads, IInv, CellsRight
  <2> QED BY <2>1, RaiseSeen DEF Promise!PromiseNext
<1>7. ASSUME NEW c \in Calls, NEW n \in DOMAIN batch[c],
             \/ Enter(c, n) \/ Again(c, n) \/ NoAnswer(c, n) \/ Unusable(c, n)
             \/ \E reply \in AnswersTo(c, n) : Answered(c, n, reply)
             \/ TaskCancelled(c, n)
      PROVE  UNCHANGED Promise!promiseVars
  <2>1. /\ phase[c] \in {"evaluating", "cancelling"}
        /\ phase' = phase /\ request' = request /\ resolved' = resolved /\ UNCHANGED cache
    BY <1>7 DEF Enter, Again, NoAnswer, Unusable, Answered, TaskCancelled, Posting
  <2> QED BY <2>1, QuietSeen
<1>8. ASSUME NEW c \in Calls, NEW n \in DOMAIN batch[c], NEW i \in batch[c][n].unsaved,
             Store(c, n, i)
      PROVE  Promise!PromiseNext \/ UNCHANGED Promise!promiseVars
  BY <1>8, StoreSeen
<1>9. ASSUME NEW c \in Calls, Deadline(c) \/ CancelCaller(c)
      PROVE  UNCHANGED Promise!promiseVars
  <2>1. /\ phase[c] \in {"evaluating", "cancelling"} /\ phase'[c] = "cancelling"
        /\ request'[c] = request[c] /\ UNCHANGED cache
        /\ \A d \in Calls \ {c} :
              phase'[d] = phase[d] /\ request'[d] = request[d] /\ resolved'[d] = resolved[d]
    BY <1>9 DEF Deadline, CancelCaller, IInv, CellsRight
  <2> QED BY <2>1, QuietSeen
<1>10. ASSUME NEW c \in Calls, Collect(c) PROVE Promise!PromiseNext
  <2>1. /\ phase[c] \in {"evaluating", "cancelling"} /\ phase'[c] \in {"answered", "raised"}
        /\ request'[c] = request[c] /\ UNCHANGED cache
        /\ \A d \in Calls \ {c} :
              phase'[d] = phase[d] /\ request'[d] = request[d] /\ resolved'[d] = resolved[d]
    BY <1>10 DEF Collect, IInv, CellsRight
  <2> QED BY <1>1, <2>1, AnswerSeen, RaiseSeen DEF Promise!PromiseNext
<1>11. ASSUME NEW c \in Calls, Return(c) PROVE Promise!PromiseNext
  BY <1>11, ReturnSeen DEF Promise!PromiseNext
<1> QED BY <1>2, <1>3, <1>4, <1>5, <1>6, <1>7, <1>8, <1>9, <1>10, <1>11 DEF Next

\* The tasks, batches, deadlines and cancellations keep what recommend() promises:
\* one outcome for each pair it was asked about, few of them worth a notice, and
\* evaluations stored under those pairs' keys, before it returns.
THEOREM PromiseKept == Spec => KeepsPromise
BY PromiseInit, PromiseStep, CostsAlwaysRight, PTL DEF Spec, KeepsPromise, Promise!PromiseSpec

=============================================================================
