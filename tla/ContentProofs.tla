----------------------------- MODULE ContentProofs -----------------------------
(***************************************************************************)
(* For any number of analyses, slots and threads, any weights and any      *)
(* pages: the pools of analyze_content add up and nothing stays open       *)
(* whatever fails or is cancelled, neither a failing dependency nor the    *)
(* rendered page costs the evidence of the static one, and nothing is      *)
(* started for a cancelled analysis any more, although its cancellation    *)
(* may be absorbed.  An analysis takes a bounded number of steps.          *)
(***************************************************************************)
EXTENDS ContentAnalysis, FiniteSetTheorems, TLAPS

Reading == {"body", "closeBody"}
Rendering == {"render", "closing"}

\* Only an analysis that returned has a result.
Unfinished == \A a \in Analyses : pc[a] # "done" => result[a] = NoResult

\* Where a cancelled analysis may still be: it closes what it has open or, where a
\* handler absorbed the cancellation, asks the provider.  A page waits for a thread
\* only while the analysis waits for its features.
Winding == {"closeBody", "closing", "ai"} \cup Ended
Stopping ==
  \A a \in Analyses : /\ cancelled[a] => pc[a] \in Winding
                      /\ thread[a] = "queued" => pc[a] = "extract"

\* The features scored last pay for the evidence of the static page, and the score
\* is that of the signals.
Pays(s, f) ==
  /\ s.score = ScoreOf(s.signals)
  /\ SignalsOf(f) \cap Evidence \subseteq s.signals
  /\ s.score >= Cap(EvidencePoints(Counted(SignalsOf(f))))
ScoringPays == \A a \in Analyses : Pays(scoring[a], static[a])

\* What is reported are the signals scored last.
SignalsReported ==
  \A a \in Analyses : pc[a] = "done" /\ result[a].fetched => result[a].signals = scoring[a].signals

\* A page that was fetched has at least the score of the rules.
EvidenceIsKept ==
  \A a \in Analyses :
    pc[a] = "done" /\ result[a].fetched => result[a].score >= scoring[a].score

IInv ==
  /\ TypeOK /\ SlotsAreHeld /\ ResponsesAreClosed /\ EvidenceIsKept /\ ScoreIsExplained
  /\ Unfinished /\ Stopping /\ ScoringPays /\ SignalsReported
-----------------------------------------------------------------------------
\* The evidence of the static page is among that of the merged one.
LEMMA EvidenceGrows ==
  ASSUME NEW f \in Features, NEW g \in Features
  PROVE  /\ Merge(f, g) \in Features
         /\ SignalsOf(f) \cap Evidence \subseteq SignalsOf(Merge(f, g))
<1> DEFINE m == Merge(f, g)
<1>1. /\ m \in Features
      /\ f.marks \subseteq m.marks /\ f.fields \subseteq m.fields
  BY DEF Merge, Features
<1>2. ASSUME NEW s \in Evidence, s \in SignalsOf(f) PROVE s \in SignalsOf(m)
  <2> HIDE DEF m
  <2>1. /\ f.fields \cap PiiFieldTypes \subseteq m.fields \cap PiiFieldTypes
        /\ f.fields \cap SensitiveIdTypes \subseteq m.fields \cap SensitiveIdTypes
        /\ f.fields \cap FinancialFieldTypes \subseteq m.fields \cap FinancialFieldTypes
    BY <1>1
  <2> QED
    BY <1>1, <1>2, <2>1 DEF SignalsOf, Evidence
<1> QED
  BY <1>1, <1>2

\* What counts beside some signals counts beside more of them.
LEMMA CountedGrows ==
  ASSUME NEW S, NEW T, S \cap Evidence \subseteq T
  PROVE  Counted(S) \cap Evidence \subseteq Counted(T)
  BY DEF Counted, Evidence, Impressions

LEMMA PointsGrow ==
  ASSUME NEW C, NEW D, C \cap Evidence \subseteq D, NEW s \in Evidence
  PROVE  Points(C, s) \in Nat /\ Points(D, s) \in Nat /\ Points(C, s) <= Points(D, s)
<1>1. Weight[s] \in Nat
  BY WeightsAssumption
<1> QED
  BY <1>1 DEF Points

LEMMA EvidencePointsGrow ==
  ASSUME NEW C, NEW D, C \cap Evidence \subseteq D
  PROVE  /\ EvidencePoints(C) \in Nat /\ EvidencePoints(D) \in Nat
         /\ EvidencePoints(C) <= EvidencePoints(D)
<1>1. \A s \in Evidence : /\ Points(C, s) \in Nat /\ Points(D, s) \in Nat
                          /\ Points(C, s) <= Points(D, s)
  BY PointsGrow
<1>2. {"CREDENTIAL_FORM_EXTERNAL", "PII_COLLECTION_FORM", "SENSITIVE_ID_FIELD",
       "FINANCIAL_FIELD", "RISKY_DOWNLOAD_LINK", "KOREAN_LURE_TEXT", "PUBLIC_AGENCY_LURE",
       "META_REFRESH", "EXTERNAL_META_REFRESH"} = Evidence
  BY DEF Evidence
<1> QED
  BY <1>1, <1>2 DEF EvidencePoints

LEMMA ImpressionPointsType ==
  ASSUME NEW C PROVE ImpressionPoints(C) \in Nat
<1>1. ASSUME NEW s \in Impressions PROVE Points(C, s) \in Nat
  BY WeightsAssumption DEF Points
<1> QED
  BY <1>1 DEF ImpressionPoints, Impressions

\* The cap keeps the order.
LEMMA CapKeepsOrder ==
  ASSUME NEW m \in Nat, NEW n \in Nat, m <= n
  PROVE  Cap(m) \in 0..ContentCap /\ Cap(n) \in 0..ContentCap /\ Cap(m) <= Cap(n)
<1>1. ContentCap \in Nat
  BY WeightsAssumption
<1> QED
  BY <1>1 DEF Cap

\* score_content pays for all evidence there is, whatever else it pays for.
LEMMA ScoringPaysFor ==
  ASSUME NEW f \in Features, NEW g \in Features,
         SignalsOf(f) \cap Evidence \subseteq SignalsOf(g)
  PROVE  Scoring(g) \in Scorings /\ Pays(Scoring(g), f)
<1> DEFINE C == Counted(SignalsOf(f))
           D == Counted(SignalsOf(g))
<1>1. C \cap Evidence \subseteq D
  BY CountedGrows
<1>2. /\ EvidencePoints(C) \in Nat /\ EvidencePoints(D) \in Nat
      /\ EvidencePoints(C) <= EvidencePoints(D) /\ ImpressionPoints(D) \in Nat
  <2> HIDE DEF C, D
  <2> QED
    BY <1>1, EvidencePointsGrow, ImpressionPointsType
<1>3. Scoring(g) = [score |-> Cap(EvidencePoints(D) + ImpressionPoints(D)),
                    signals |-> SignalsOf(g)]
  BY DEF Scoring, ScoreOf
<1>4. SignalsOf(g) \subseteq Signals
  BY DEF SignalsOf, Signals
<1> HIDE DEF C, D
<1>5. /\ Cap(EvidencePoints(D) + ImpressionPoints(D)) \in 0..ContentCap
      /\ Cap(EvidencePoints(C)) \in 0..ContentCap
      /\ Cap(EvidencePoints(C)) <= Cap(EvidencePoints(D) + ImpressionPoints(D))
  <2>1. /\ EvidencePoints(D) + ImpressionPoints(D) \in Nat
        /\ EvidencePoints(C) <= EvidencePoints(D) + ImpressionPoints(D)
    BY <1>2
  <2> QED
    BY <1>2, <2>1, CapKeepsOrder
<1>6. Scoring(g) \in Scorings
  BY <1>3, <1>4, <1>5 DEF Scorings
<1>7. Cap(EvidencePoints(C)) <= Scoring(g).score
  BY <1>3, <1>5
<1>8. Scoring(g).score \in 0..ContentCap /\ ContentCap \in Nat
  BY <1>3, <1>5, WeightsAssumption
<1>9. Scoring(g).score = ScoreOf(Scoring(g).signals)
  BY DEF Scoring
<1> QED
  BY <1>3, <1>5, <1>6, <1>7, <1>8, <1>9 DEF Pays, C

LEMMA DueIsNatural ==
  ASSUME NEW signals PROVE Cap(EvidencePoints(Counted(signals))) \in Nat
<1> DEFINE C == Counted(signals)
<1> HIDE DEF C
<1>1. EvidencePoints(C) \in Nat
  BY EvidencePointsGrow
<1>2. ContentCap \in Nat
  BY WeightsAssumption
<1>3. Cap(EvidencePoints(C)) \in Nat
  BY <1>1, <1>2 DEF Cap
<1> QED
  BY <1>3 DEF C

LEMMA AiWeightIsNatural ==
  ASSUME NEW signals, NEW verdict, NEW context PROVE AiWeight(signals, verdict, context) \in Nat
  BY WeightsAssumption DEF AiWeight
-----------------------------------------------------------------------------
\* A page whose rendering was analysed is scored like one with the same signals.
LEMMA MarkCostsNothing ==
  ASSUME NEW S PROVE ScoreOf(S \cup {"RENDERED_DOM_ANALYZED"}) = ScoreOf(S)
<1>1. Counted(S \cup {"RENDERED_DOM_ANALYZED"}) = Counted(S)
  BY DEF Counted, Evidence, Impressions
<1> QED
  BY <1>1 DEF ScoreOf

\* What counts in a score is a reason, with the weight it counted for.
LEMMA SignalsAreReasons ==
  ASSUME NEW r, NEW s \in Counted(r.signals), Weight[s] > 0
  PROVE  [code |-> s, weight |-> Weight[s]] \in ContentReasons(r)
<1>1. s \in r.signals /\ s \in Evidence \cup Impressions
  BY DEF Counted
<1>2. SignalWeight(s) = Weight[s]
  BY <1>1 DEF SignalWeight
<1>3. [code |-> s, weight |-> Weight[s]] \in {[code |-> t, weight |-> SignalWeight(t)] : t \in r.signals}
  BY <1>1, <1>2
<1> QED
  BY <1>3 DEF ContentReasons, Added

\* So is the weight of a verdict, if it has one.
LEMMA VerdictsAreReasons ==
  ASSUME NEW r, r.ai \in Inferences, NEW signals, NEW context,
         NEW w, w = AiWeight(signals, r.ai, context), w > 0
  PROVE  \E reason \in ContentReasons(r) : Verdict(reason) /\ reason.weight = w
<1> DEFINE R(c) == [code |-> c, weight |-> w]
<1>1. \/ R("AI_PHISHING") \in VerdictReasons(r.ai)
      \/ R("AI_SUSPICIOUS") \in VerdictReasons(r.ai)
  <2>1. w # 0
    OBVIOUS
  <2> QED
    BY <2>1 DEF AiWeight, VerdictReasons, Inferences
<1>2. PICK c \in {"AI_PHISHING", "AI_SUSPICIOUS"} : R(c) \in VerdictReasons(r.ai)
  BY <1>1
<1>3. R(c) \in ContentReasons(r)
  BY <1>2 DEF ContentReasons, Added
<1>4. Verdict(R(c)) /\ R(c).weight = w
  BY <1>2 DEF Verdict
<1> QED
  BY <1>3, <1>4

LEMMA CapOnce ==
  ASSUME NEW n \in Nat, NEW w \in Nat
  PROVE  Cap(n) \in Nat /\ Cap(n) + 0 = Cap(n) /\ Cap(Cap(n) + w) = Cap(n + w)
<1>1. ContentCap \in Nat
  BY WeightsAssumption
<1> QED
  BY <1>1 DEF Cap

\* A page's score is that of its signals and of the verdict on it.
LEMMA JudgedIsExplained ==
  ASSUME NEW a \in Analyses, NEW verdict \in Inferences, NEW context,
         scoring[a].score = ScoreOf(scoring[a].signals)
  PROVE  Explained(Judged(a, verdict, AiWeight(scoring[a].signals, verdict, context)))
<1> DEFINE S == scoring[a].signals
           w == AiWeight(S, verdict, context)
           r == Judged(a, verdict, w)
           n == EvidencePoints(Counted(S)) + ImpressionPoints(Counted(S))
<1>1. /\ r.fetched /\ r.signals = S /\ r.ai = verdict
      /\ r.score = Cap(scoring[a].score + w)
  BY DEF Judged
<1>2. w \in Nat
  BY AiWeightIsNatural
<1>3. n \in Nat
  <2>1. EvidencePoints(Counted(S)) \in Nat /\ ImpressionPoints(Counted(S)) \in Nat
    BY EvidencePointsGrow, ImpressionPointsType
  <2> QED
    BY <2>1
<1>4. ScoreOf(S) = Cap(n)
  BY DEF ScoreOf
<1>5. \A s \in Counted(r.signals) :
        Weight[s] > 0 => [code |-> s, weight |-> Weight[s]] \in ContentReasons(r)
  BY SignalsAreReasons
<1>6. ASSUME w = 0 PROVE Explained(r)
  <2>1. Cap(Cap(n) + w) = Cap(n)
    <3> HIDE DEF n, w
    <3>1. n + w = n
      BY <1>3, <1>6
    <3> QED
      BY <1>2, <1>3, <3>1, CapOnce
  <2>2. r.score = Cap(Cap(n) + w)
    BY <1>1, <1>4
  <2>3. r.score = ScoreOf(r.signals)
    BY <1>1, <1>4, <2>1, <2>2
  <2> HIDE DEF r
  <2> QED
    BY <1>1, <1>5, <2>3 DEF Explained
<1>7. ASSUME w # 0 PROVE Explained(r)
  <2>1. w > 0
    <3> HIDE DEF w
    <3> QED
      BY <1>2, <1>7
  <2>2. PICK reason \in ContentReasons(r) : Verdict(reason) /\ reason.weight = w
    <3>1. r.ai \in Inferences /\ w = AiWeight(S, r.ai, context)
      BY <1>1
    <3> HIDE DEF r, w
    <3> QED
      BY <2>1, <3>1, VerdictsAreReasons
  <2>3. r.score = Cap(n + w)
    <3>1. Cap(Cap(n) + w) = Cap(n + w)
      <4> HIDE DEF n, w
      <4> QED
        BY <1>2, <1>3, CapOnce
    <3> QED
      BY <1>1, <1>4, <3>1
  <2>4. r.score = Cap(EvidencePoints(Counted(r.signals))
                        + ImpressionPoints(Counted(r.signals)) + reason.weight)
    BY <1>1, <2>2, <2>3
  <2> HIDE DEF r
  <2> QED
    BY <1>1, <1>5, <2>2, <2>4 DEF Explained
<1>8. Explained(r)
  BY <1>6, <1>7
<1> QED
  BY <1>8

\* A page that was not fetched costs nothing or is a reason.
LEMMA UnreachedIsExplained == ASSUME NEW error PROVE Explained(Unreached(error))
<1> DEFINE r == Unreached(error)
<1>1. /\ ~r.fetched /\ r.signals = {"FETCH_FAILED"} /\ r.score = FetchFailed(error)
  BY DEF Unreached
<1>2. Counted(r.signals) = {}
  BY <1>1 DEF Counted, Evidence, Impressions
<1>3. r.score = 0 \/ [code |-> "FETCH_FAILED", weight |-> r.score] \in ContentReasons(r)
  <2>1. CASE FetchFailed(error) = 0
    BY <1>1, <2>1
  <2>2. CASE FetchFailed(error) # 0
    <3>1. FetchFailed(error) = FetchFailedScore /\ FetchFailedScore \in Nat
      BY <2>2, WeightsAssumption DEF FetchFailed
    <3>2. SignalWeight("FETCH_FAILED") = r.score
      BY <1>1, <3>1 DEF SignalWeight, Evidence, Impressions
    <3>3. r.score > 0
      BY <1>1, <2>2, <3>1
    <3> HIDE DEF r
    <3> QED
      BY <1>1, <3>2, <3>3 DEF ContentReasons, Added
  <2> QED
    BY <2>1, <2>2
<1> HIDE DEF r
<1>4. Explained(r)
  BY <1>1, <1>2, <1>3 DEF Explained
<1> QED
  BY <1>4 DEF r
-----------------------------------------------------------------------------
One(stage, K) == IF stage \in K THEN 1 ELSE 0

\* How the number of analyses at some stages changes when one of them moves.
LEMMA CountMoves ==
  ASSUME NEW f \in [Analyses -> Stages], NEW a \in Analyses, NEW to \in Stages, NEW K,
         NEW g, g = [f EXCEPT ![a] = to],
         NEW before, before = {b \in Analyses : f[b] \in K},
         NEW after, after = {b \in Analyses : g[b] \in K}
  PROVE  /\ Cardinality(before) \in Nat /\ Cardinality(after) \in Nat
         /\ Cardinality(after) + One(f[a], K) = Cardinality(before) + One(to, K)
<1> DEFINE Others == {b \in Analyses : b # a /\ f[b] \in K}
<1>1. IsFiniteSet(Others) /\ Cardinality(Others) \in Nat
  BY PoolsAssumption, FS_Subset, FS_CardinalityType
<1>2. before = IF f[a] \in K THEN Others \cup {a} ELSE Others
  OBVIOUS
<1>3. after = IF to \in K THEN Others \cup {a} ELSE Others
  OBVIOUS
<1>4. Cardinality(Others \cup {a}) = Cardinality(Others) + 1
  BY <1>1, FS_AddElement
<1> HIDE DEF Others
<1>5. Cardinality(before) = Cardinality(Others) + One(f[a], K) /\ Cardinality(before) \in Nat
  <2>1. CASE f[a] \in K
    <3>1. before = Others \cup {a} /\ One(f[a], K) = 1
      BY <2>1, <1>2 DEF One
    <3> QED
      BY <3>1, <1>1, <1>4
  <2>2. CASE f[a] \notin K
    BY <2>2, <1>1, <1>2 DEF One
  <2> QED
    BY <2>1, <2>2
<1>6. Cardinality(after) = Cardinality(Others) + One(to, K) /\ Cardinality(after) \in Nat
  BY <1>1, <1>3, <1>4 DEF One
<1> QED
  BY <1>1, <1>5, <1>6 DEF One

\* A step keeps the pools if it takes and gives back what its stages say, and
\* leaves no browser without a slot.
LEMMA SlotsKept ==
  ASSUME TypeOK, SlotsAreHeld, NEW a \in Analyses, NEW to \in Stages,
         Moves(a, to), extractFree' \in Nat, renderFree' \in Nat,
         extractFree' + One(to, {"extract"}) = extractFree + One(pc[a], {"extract"}),
         renderFree' + One(to, Rendering) = renderFree + One(pc[a], Rendering),
         \A b \in Analyses : browser'[b] => pc'[b] \in Rendering
  PROVE  SlotsAreHeld' /\ extractFree' \in 0..ExtractSlots /\ renderFree' \in 0..RenderSlots
<1> DEFINE Parsing == {b \in Analyses : pc[b] \in {"extract"}}
           Drawing == {b \in Analyses : pc[b] \in Rendering}
<1>1. pc \in [Analyses -> Stages] /\ extractFree \in Nat /\ renderFree \in Nat
        /\ ExtractSlots \in Nat /\ RenderSlots \in Nat
  BY PoolsAssumption DEF TypeOK, Stages
<1>2. pc' = [pc EXCEPT ![a] = to]
  BY DEF Moves
<1>3. /\ Parsing = {b \in Analyses : pc[b] = "extract"}
      /\ Parsing' = {b \in Analyses : pc'[b] = "extract"}
      /\ Drawing = {b \in Analyses : pc[b] \in {"render", "closing"}}
      /\ Drawing' = {b \in Analyses : pc'[b] \in {"render", "closing"}}
  BY DEF Rendering
<1>4. /\ Cardinality(Parsing) \in Nat /\ Cardinality(Parsing') \in Nat
      /\ Cardinality(Parsing') + One(pc[a], {"extract"})
           = Cardinality(Parsing) + One(to, {"extract"})
  <2>1. Parsing' = {b \in Analyses : pc'[b] \in {"extract"}}
    OBVIOUS
  <2>2. Parsing = {b \in Analyses : pc[b] \in {"extract"}}
    OBVIOUS
  <2> HIDE DEF Parsing
  <2> QED
    BY <1>1, <1>2, <2>1, <2>2, CountMoves
<1>5. /\ Cardinality(Drawing) \in Nat /\ Cardinality(Drawing') \in Nat
      /\ Cardinality(Drawing') + One(pc[a], Rendering)
           = Cardinality(Drawing) + One(to, Rendering)
  <2>1. Drawing' = {b \in Analyses : pc'[b] \in Rendering}
    BY DEF Rendering
  <2>2. Drawing = {b \in Analyses : pc[b] \in Rendering}
    OBVIOUS
  <2> HIDE DEF Drawing
  <2> QED
    BY <1>1, <1>2, <2>1, <2>2, CountMoves
<1>6. /\ extractFree + Cardinality(Parsing) = ExtractSlots
      /\ renderFree + Cardinality(Drawing) = RenderSlots
  BY <1>3 DEF SlotsAreHeld
<1> HIDE DEF Parsing, Drawing
<1> DEFINE was(K) == One(pc[a], K)
           is(K) == One(to, K)
<1>7. \A K : was(K) \in Nat /\ is(K) \in Nat
  BY DEF One
<1>8. /\ extractFree' + is({"extract"}) = extractFree + was({"extract"})
      /\ renderFree' + is(Rendering) = renderFree + was(Rendering)
      /\ Cardinality(Parsing') + was({"extract"}) = Cardinality(Parsing) + is({"extract"})
      /\ Cardinality(Drawing') + was(Rendering) = Cardinality(Drawing) + is(Rendering)
  BY <1>4, <1>5
<1> HIDE DEF was, is
<1>9. extractFree' + Cardinality(Parsing') = ExtractSlots
  BY <1>1, <1>4, <1>6, <1>7, <1>8
<1>10. renderFree' + Cardinality(Drawing') = RenderSlots
  BY <1>1, <1>5, <1>6, <1>7, <1>8
<1>11. extractFree' \in 0..ExtractSlots /\ renderFree' \in 0..RenderSlots
  BY <1>1, <1>4, <1>5, <1>9, <1>10
<1> QED
  BY <1>3, <1>9, <1>10, <1>11 DEF SlotsAreHeld, Rendering
-----------------------------------------------------------------------------
LEMMA Starts == ASSUME Init PROVE IInv
<1>1. NoFeatures \in Features /\ [score |-> 0, signals |-> {}] \in Scorings
  <2>1. 0 \in 0..ContentCap
    BY WeightsAssumption
  <2> QED
    BY <2>1 DEF NoFeatures, Features, Scorings
<1>2. TypeOK
  BY <1>1, PoolsAssumption DEF Init, TypeOK, Stages
<1>3. {a \in Analyses : pc[a] = "extract"} = {}
        /\ {a \in Analyses : pc[a] \in {"render", "closing"}} = {}
  BY DEF Init
<1>4. SlotsAreHeld
  <2>1. ExtractSlots \in Nat /\ RenderSlots \in Nat /\ Cardinality({}) = 0
    BY PoolsAssumption, FS_EmptySet
  <2>2. /\ extractFree = ExtractSlots /\ renderFree = RenderSlots
        /\ \A a \in Analyses : ~browser[a]
    BY DEF Init
  <2>3. /\ Cardinality({a \in Analyses : pc[a] = "extract"}) = 0
        /\ Cardinality({a \in Analyses : pc[a] \in {"render", "closing"}}) = 0
    BY <1>3, <2>1
  <2> QED
    BY <2>1, <2>2, <2>3 DEF SlotsAreHeld
<1>5. Pays([score |-> 0, signals |-> {}], NoFeatures)
  <2>1. SignalsOf(NoFeatures) = {}
    BY DEF SignalsOf, NoFeatures
  <2>2. Counted({}) = {}
    BY DEF Counted
  <2>3. EvidencePoints({}) = 0 /\ ImpressionPoints({}) = 0
    BY DEF EvidencePoints, ImpressionPoints, Points
  <2>4. Cap(0) = 0
    <3>1. ContentCap \in Nat
      BY WeightsAssumption
    <3> QED
      BY <3>1 DEF Cap
  <2> QED
    BY <2>1, <2>2, <2>3, <2>4 DEF Pays, ScoreOf
<1>6. ScoringPays
  BY <1>5 DEF Init, ScoringPays
<1> QED
  BY <1>2, <1>4, <1>6
     DEF Init, IInv, ResponsesAreClosed, EvidenceIsKept, ScoreIsExplained, Unfinished, Stopping, SignalsReported

\* A step within an analysis: the results stay, slots are taken and given back
\* as the stages say, and a cancelled analysis only closes what it has open.
LEMMA MoveKeeps ==
  ASSUME IInv, NEW a \in Analyses, NEW to \in Stages \ {"done"}, Moves(a, to),
         pc[a] # "done", UNCHANGED <<cancelled, result>>,
         cancelled[a] => to \in Winding,
         fetch' \in [Analyses -> {"ok"} \cup FetchErrors],
         response' \in [Analyses -> BOOLEAN],
         \A b \in Analyses : b # a => response'[b] = response[b],
         response'[a] => to \in Reading,
         thread' \in [Analyses -> {"none", "queued", "running"}],
         \A b \in Analyses : b # a => thread'[b] = thread[b],
         thread'[a] = "queued" => to = "extract",
         pass' \in [Analyses -> {1, 2}],
         static' \in [Analyses -> Features], scoring' \in [Analyses -> Scorings],
         \A b \in Analyses : b # a => scoring'[b] = scoring[b],
         ScoringPays',
         rendered' \in [Analyses -> {"no", "ok", "failed"}],
         browser' \in [Analyses -> BOOLEAN],
         \A b \in Analyses : b # a => browser'[b] = browser[b],
         browser'[a] => to \in Rendering,
         extractFree' \in Nat, renderFree' \in Nat,
         extractFree' + One(to, {"extract"}) = extractFree + One(pc[a], {"extract"}),
         renderFree' + One(to, Rendering) = renderFree + One(pc[a], Rendering)
  PROVE  IInv'
<1>1. pc' = [pc EXCEPT ![a] = to] /\ pc \in [Analyses -> Stages]
  BY DEF Moves, IInv, TypeOK
<1>2. \A b \in Analyses : browser'[b] => pc'[b] \in Rendering
  BY <1>1 DEF IInv, SlotsAreHeld, Rendering
<1>3. SlotsAreHeld' /\ extractFree' \in 0..ExtractSlots /\ renderFree' \in 0..RenderSlots
  BY <1>2, SlotsKept DEF IInv
<1>4. TypeOK'
  <2>1. pc' \in [Analyses -> Stages]
    BY <1>1
  <2> QED
    BY <2>1, <1>3 DEF IInv, TypeOK
<1>5. ResponsesAreClosed'
  BY <1>1 DEF IInv, ResponsesAreClosed, Reading
<1>6. EvidenceIsKept' /\ ScoreIsExplained' /\ Unfinished' /\ Stopping' /\ SignalsReported'
  BY <1>1 DEF IInv, TypeOK, EvidenceIsKept, ScoreIsExplained, Unfinished, Stopping, SignalsReported
<1> QED
  BY <1>3, <1>4, <1>5, <1>6 DEF IInv

\* A step that leaves the stages alone.
LEMMA StayKeeps ==
  ASSUME IInv, NEW a \in Analyses,
         UNCHANGED <<pc, cancelled, fetch, response, pass, static, scoring, rendered, result,
                     extractFree, renderFree>>,
         thread' \in [Analyses -> {"none", "queued", "running"}],
         \A b \in Analyses : thread'[b] = "queued" => thread[b] = "queued",
         browser' \in [Analyses -> BOOLEAN],
         \A b \in Analyses : browser'[b] => browser[b] \/ pc[b] \in Rendering
  PROVE  IInv'
<1>1. TypeOK'
  BY DEF IInv, TypeOK
<1>2. SlotsAreHeld' /\ ResponsesAreClosed'
  BY DEF IInv, SlotsAreHeld, ResponsesAreClosed, Rendering
<1>3. EvidenceIsKept' /\ ScoreIsExplained' /\ Unfinished' /\ Stopping' /\ SignalsReported' /\ ScoringPays'
  BY DEF IInv, EvidenceIsKept, ScoreIsExplained, Unfinished, Stopping, SignalsReported, ScoringPays
<1> QED
  BY <1>1, <1>2, <1>3 DEF IInv

\* An analysis returns.
LEMMA ReturnKeeps ==
  ASSUME IInv, NEW a \in Analyses, NEW r \in Results, Returns(a, r),
         pc[a] \in {"resolve", "request", "closeBody", "ai"},
         r.fetched => r.score >= scoring[a].score /\ r.signals = scoring[a].signals,
         Explained(r),
         response' \in [Analyses -> BOOLEAN], ~response'[a],
         \A b \in Analyses : b # a => response'[b] = response[b],
         UNCHANGED <<cancelled, fetch, analysed>>
  PROVE  IInv'
<1>1. /\ Moves(a, "done") /\ pc' = [pc EXCEPT ![a] = "done"]
      /\ result' = [result EXCEPT ![a] = r]
  BY DEF Returns, Moves
<1>2. UNCHANGED <<thread, pass, static, scoring, rendered, browser, extractFree, renderFree>>
  BY DEF analysed
<1>3. \A b \in Analyses : browser'[b] => pc'[b] \in Rendering
  BY <1>1, <1>2 DEF IInv, TypeOK, SlotsAreHeld, Rendering
<1>4. SlotsAreHeld'
  <2>1. extractFree' \in Nat /\ renderFree' \in Nat /\ "done" \in Stages
    BY <1>2 DEF IInv, TypeOK, Stages
  <2>2. /\ extractFree' + One("done", {"extract"}) = extractFree + One(pc[a], {"extract"})
        /\ renderFree' + One("done", Rendering) = renderFree + One(pc[a], Rendering)
    BY <1>2 DEF One, Rendering
  <2> QED
    BY <1>1, <1>3, <2>1, <2>2, SlotsKept DEF IInv
<1>5. TypeOK'
  <2>1. pc' \in [Analyses -> Stages] /\ result' \in [Analyses -> Results \cup {NoResult}]
    BY <1>1 DEF IInv, TypeOK, Stages
  <2> QED
    BY <1>2, <2>1 DEF IInv, TypeOK
<1>6. ResponsesAreClosed' /\ ScoringPays'
  BY <1>1, <1>2 DEF IInv, TypeOK, ResponsesAreClosed, ScoringPays
<1>7. EvidenceIsKept' /\ ScoreIsExplained' /\ Unfinished' /\ Stopping' /\ SignalsReported'
  BY <1>1, <1>2
     DEF IInv, TypeOK, EvidenceIsKept, ScoreIsExplained, Unfinished, Stopping, SignalsReported,
         Winding, Ended
<1> QED
  BY <1>4, <1>5, <1>6, <1>7 DEF IInv
-----------------------------------------------------------------------------
\* What the invariant says of one analysis.
LEMMA Facts ==
  ASSUME IInv, NEW a \in Analyses
  PROVE  /\ pc \in [Analyses -> Stages]
         /\ fetch \in [Analyses -> {"ok"} \cup FetchErrors]
         /\ response \in [Analyses -> BOOLEAN]
         /\ thread \in [Analyses -> {"none", "queued", "running"}]
         /\ pass \in [Analyses -> {1, 2}]
         /\ static \in [Analyses -> Features] /\ scoring \in [Analyses -> Scorings]
         /\ rendered \in [Analyses -> {"no", "ok", "failed"}]
         /\ browser \in [Analyses -> BOOLEAN]
         /\ extractFree \in Nat /\ renderFree \in Nat
         /\ cancelled[a] => pc[a] \in Winding
         /\ thread[a] = "queued" => pc[a] = "extract"
         /\ browser[a] => pc[a] \in Rendering
         /\ response[a] => pc[a] \in Reading
         /\ Pays(scoring[a], static[a])
  BY DEF IInv, TypeOK, Stopping, SlotsAreHeld, ResponsesAreClosed, ScoringPays, Rendering,
         Reading

LEMMA UnreachedIsResult ==
  ASSUME NEW error \in FetchErrors PROVE Unreached(error) \in Results /\ ~Unreached(error).fetched
<1>1. FetchFailed(error) \in 0..ContentCap
  BY WeightsAssumption DEF FetchFailed
<1> QED
  BY <1>1 DEF Unreached, Results, Signals, Inferences

\* The steps of fetch_page.
LEMMA FetchKeeps ==
  ASSUME IInv, NEW a \in Analyses,
         \/ HostPasses(a) \/ HostIsBlocked(a) \/ FetchRaises(a) \/ RequestFails(a)
         \/ ResponseArrives(a) \/ BodyIsRead(a) \/ ResponseCloses(a)
  PROVE  IInv'
<1>a. ScoringPays /\ (UNCHANGED analysed => ScoringPays')
  BY DEF IInv, ScoringPays, analysed
<1>1. CASE HostPasses(a)
  BY <1>a, <1>1, Facts, MoveKeeps
     DEF HostPasses, analysed, Stages, Reading, Rendering, One, Winding, Ended
<1>2. CASE HostIsBlocked(a)
  <2>1. "blocked_host" \in FetchErrors
    BY DEF FetchErrors
  <2>2. /\ Unreached("blocked_host") \in Results /\ ~Unreached("blocked_host").fetched
        /\ Explained(Unreached("blocked_host"))
    BY <2>1, UnreachedIsResult, UnreachedIsExplained
  <2> QED
    BY <1>2, <2>2, Facts, ReturnKeeps DEF HostIsBlocked, Reading
<1>3. CASE FetchRaises(a)
  BY <1>a, <1>3, Facts, MoveKeeps
     DEF FetchRaises, analysed, Stages, Reading, Rendering, One, Winding, Ended
<1>4. CASE RequestFails(a)
  <2>1. PICK error \in RequestErrors : Returns(a, Unreached(error))
    BY <1>4 DEF RequestFails
  <2>2. error \in FetchErrors
    BY DEF FetchErrors
  <2>3. /\ Unreached(error) \in Results /\ ~Unreached(error).fetched
        /\ Explained(Unreached(error))
    BY <2>2, UnreachedIsResult, UnreachedIsExplained
  <2> QED
    BY <1>4, <2>1, <2>3, Facts, ReturnKeeps DEF RequestFails, Reading
<1>5. CASE ResponseArrives(a)
  BY <1>a, <1>5, Facts, MoveKeeps
     DEF ResponseArrives, analysed, Stages, Reading, Rendering, One, Winding, Ended
<1>6. CASE BodyIsRead(a)
  <2>1. fetch' \in [Analyses -> {"ok"} \cup FetchErrors]
    BY <1>6, Facts DEF BodyIsRead, FetchErrors
  <2> QED
    BY <1>a, <1>6, <2>1, Facts, MoveKeeps
       DEF BodyIsRead, analysed, Stages, Reading, Rendering, One, Winding, Ended
<1>7. CASE ResponseCloses(a)
  <2>1. /\ pc[a] = "closeBody" /\ response' = [response EXCEPT ![a] = FALSE]
        /\ (AfterFetch(a) \/ CloseFails(a)) /\ UNCHANGED <<cancelled, fetch, analysed>>
    BY <1>7 DEF ResponseCloses
  <2>2. /\ response' \in [Analyses -> BOOLEAN] /\ ~response'[a]
        /\ \A b \in Analyses : b # a => response'[b] = response[b]
    BY <2>1, Facts
  <2>3. CASE AfterFetch(a) /\ cancelled[a]
    BY <1>a, <2>1, <2>2, <2>3, Facts, MoveKeeps
       DEF AfterFetch, analysed, Stages, Reading, Rendering, One, Winding, Ended
  <2>4. CASE AfterFetch(a) /\ ~cancelled[a] /\ fetch[a] = "ok"
    BY <1>a, <2>1, <2>2, <2>4, Facts, MoveKeeps
       DEF AfterFetch, analysed, Stages, Reading, Rendering, One, Winding, Ended
  <2>5. CASE AfterFetch(a) /\ ~cancelled[a] /\ fetch[a] # "ok"
    <3>1. fetch[a] \in FetchErrors
      BY <2>5, Facts
    <3>2. /\ Unreached(fetch[a]) \in Results /\ ~Unreached(fetch[a]).fetched
          /\ Explained(Unreached(fetch[a]))
      BY <3>1, UnreachedIsResult, UnreachedIsExplained
    <3>3. Returns(a, Unreached(fetch[a]))
      BY <2>1, <2>5 DEF AfterFetch
    <3> QED
      BY <2>1, <2>2, <2>5, <3>2, <3>3, ReturnKeeps
  <2>6. CASE CloseFails(a)
    <3>1. PICK error \in RequestErrors : Returns(a, Unreached(error))
      BY <2>6 DEF CloseFails
    <3>2. error \in FetchErrors
      BY DEF FetchErrors
    <3>3. /\ Unreached(error) \in Results /\ ~Unreached(error).fetched
          /\ Explained(Unreached(error))
      BY <3>2, UnreachedIsResult, UnreachedIsExplained
    <3> QED
      BY <2>1, <2>2, <3>1, <3>3, ReturnKeeps
  <2> QED
    BY <2>1, <2>3, <2>4, <2>5, <2>6
<1> QED
  BY <1>1, <1>2, <1>3, <1>4, <1>5, <1>6, <1>7

\* The steps of extract_features_async and the scoring after it.
LEMMA ExtractKeeps ==
  ASSUME IInv, NEW a \in Analyses,
         \/ EntersExtract(a) \/ ThreadStarts(a) \/ Extracted(a) \/ ExtractRaises(a)
         \/ OrphanEnds(a)
  PROVE  IInv'
<1>a. ScoringPays /\ (UNCHANGED <<static, scoring>> => ScoringPays')
  BY DEF IInv, ScoringPays
<1>1. CASE EntersExtract(a)
  BY <1>a, <1>1, Facts, MoveKeeps DEF EntersExtract, fetched, Stages, Reading, Rendering, One, Winding, Ended
<1>2. CASE ThreadStarts(a)
  BY <1>2, Facts, StayKeeps DEF ThreadStarts, fetched
<1>3. CASE Extracted(a)
  <2>1. PICK found \in Found : \/ pass[a] = 1 /\ StaticScored(a, found)
                               \/ pass[a] = 2 /\ MergedScored(a, found)
    BY <1>3 DEF Extracted
  <2>2. /\ pc[a] = "extract" /\ thread' = [thread EXCEPT ![a] = "none"]
        /\ extractFree' = extractFree + 1
        /\ UNCHANGED <<cancelled, fetch, response, pass, rendered, browser, result, renderFree>>
    BY <1>3 DEF Extracted, fetched
  <2>3. found \in Features
    BY PagesAssumption
  <2>4. /\ static' \in [Analyses -> Features] /\ scoring' \in [Analyses -> Scorings]
        /\ \A b \in Analyses : b # a => scoring'[b] = scoring[b] /\ static'[b] = static[b]
        /\ Pays(scoring'[a], static'[a])
    <3>1. CASE StaticScored(a, found)
      <4>1. /\ static' = [static EXCEPT ![a] = found]
            /\ scoring' = [scoring EXCEPT ![a] = Scoring(found)]
        BY <3>1 DEF StaticScored
      <4>2. Scoring(found) \in Scorings /\ Pays(Scoring(found), found)
        BY <2>3, ScoringPaysFor
      <4> QED
        BY <2>3, <4>1, <4>2, Facts
    <3>2. CASE MergedScored(a, found)
      <4> DEFINE m == Merge(static[a], found)
                 s == [Scoring(m) EXCEPT !.signals = @ \cup {"RENDERED_DOM_ANALYZED"}]
      <4>1. UNCHANGED static /\ scoring' = [scoring EXCEPT ![a] = s]
        BY <3>2 DEF MergedScored
      <4>2. static[a] \in Features
        BY Facts
      <4>3. m \in Features /\ SignalsOf(static[a]) \cap Evidence \subseteq SignalsOf(m)
        BY <2>3, <4>2, EvidenceGrows
      <4> HIDE DEF m
      <4>4. Scoring(m) \in Scorings /\ Pays(Scoring(m), static[a])
        BY <4>2, <4>3, ScoringPaysFor
      <4>5. s \in Scorings /\ Pays(s, static[a])
        BY <4>4, MarkCostsNothing DEF Scorings, Signals, Pays
      <4> HIDE DEF s
      <4> QED
        BY <4>1, <4>5, Facts
    <3> QED
      BY <2>1, <3>1, <3>2
  <2>5. ScoringPays'
    BY <1>a, <2>4 DEF ScoringPays
  <2>6. PICK to \in {"target", "ai"} : Moves(a, to)
    BY <2>1 DEF StaticScored, MergedScored
  <2> QED
    BY <2>2, <2>4, <2>5, <2>6, Facts, MoveKeeps DEF Stages, Reading, Rendering, One, Winding, Ended
<1>4. CASE ExtractRaises(a)
  BY <1>a, <1>4, Facts, MoveKeeps DEF ExtractRaises, fetched, Stages, Reading, Rendering, One, Winding, Ended
<1>5. CASE OrphanEnds(a)
  BY <1>5, Facts, StayKeeps DEF OrphanEnds, fetched
<1> QED
  BY <1>1, <1>2, <1>3, <1>4, <1>5

\* The steps of render_page.
LEMMA RenderKeeps ==
  ASSUME IInv, NEW a \in Analyses,
         \/ RenderRefused(a) \/ TargetPasses(a) \/ EntersRender(a) \/ BrowserOpens(a)
         \/ RenderEnds(a) \/ BrowserCloses(a)
  PROVE  IInv'
<1>a. ScoringPays /\ (UNCHANGED <<static, scoring>> => ScoringPays')
  BY DEF IInv, ScoringPays
<1>1. CASE RenderRefused(a)
  <2>1. PICK to \in {"ai", "raised"} : Moves(a, to)
    BY <1>1 DEF RenderRefused
  <2> QED
    BY <1>a, <1>1, <2>1, Facts, MoveKeeps
       DEF RenderRefused, fetched, extraction, Stages, Reading, Rendering, One, Winding, Ended
<1>2. CASE TargetPasses(a)
  BY <1>a, <1>2, Facts, MoveKeeps
     DEF TargetPasses, fetched, extraction, Stages, Reading, Rendering, One, Winding, Ended
<1>3. CASE EntersRender(a)
  BY <1>a, <1>3, Facts, MoveKeeps
     DEF EntersRender, fetched, extraction, Stages, Reading, Rendering, One, Winding, Ended
<1>4. CASE BrowserOpens(a)
  BY <1>4, Facts, StayKeeps DEF BrowserOpens, fetched, extraction, Rendering
<1>5. CASE RenderEnds(a)
  BY <1>a, <1>5, Facts, MoveKeeps
     DEF RenderEnds, fetched, extraction, Stages, Reading, Rendering, One, Winding, Ended
<1>6. CASE BrowserCloses(a)
  <2>1. PICK to \in {"cancelled", "awaitExtract", "ai"} :
          Moves(a, to) /\ (cancelled[a] => to \in {"cancelled", "ai"})
    BY <1>6 DEF BrowserCloses, AfterRender, CloseRaises
  <2>2. pass' \in [Analyses -> {1, 2}]
    BY <1>6, Facts DEF BrowserCloses, AfterRender, CloseRaises
  <2>3. /\ browser' = [browser EXCEPT ![a] = FALSE] /\ renderFree' = renderFree + 1
        /\ UNCHANGED <<cancelled, fetch, response, thread, static, scoring, rendered, result,
                       extractFree>>
        /\ pc[a] = "closing"
    BY <1>6 DEF BrowserCloses, fetched
  <2>4. /\ extractFree' + One(to, {"extract"}) = extractFree + One(pc[a], {"extract"})
        /\ renderFree' + One(to, Rendering) = renderFree + One(pc[a], Rendering)
    BY <2>1, <2>3, Facts DEF One, Rendering
  <2>5. to \in Stages \ {"done"} /\ (cancelled[a] => to \in Winding)
    BY <2>1 DEF Stages, Winding, Ended
  <2>6. /\ browser' \in [Analyses -> BOOLEAN] /\ ~browser'[a]
        /\ \A b \in Analyses : b # a => browser'[b] = browser[b]
    BY <2>3, Facts
  <2>7. extractFree' \in Nat /\ renderFree' \in Nat /\ ~response[a] /\ thread[a] # "queued"
    BY <2>3, Facts DEF Reading
  <2> QED
    BY <1>a, <2>1, <2>2, <2>3, <2>4, <2>5, <2>6, <2>7, Facts, MoveKeeps
<1> QED
  BY <1>1, <1>2, <1>3, <1>4, <1>5, <1>6

LEMMA AiKeeps == ASSUME IInv, NEW a \in Analyses, AiAnswers(a) PROVE IInv'
<1>1. PICK verdict \in Inferences, context \in Contexts :
        Returns(a, Judged(a, verdict, AiWeight(scoring[a].signals, verdict, context)))
  BY DEF AiAnswers
<1> DEFINE weight == AiWeight(scoring[a].signals, verdict, context)
           r == Judged(a, verdict, weight)
<1>2. weight \in Nat
  BY AiWeightIsNatural
<1>3. /\ scoring[a].score \in 0..ContentCap /\ scoring[a].signals \subseteq Signals
      /\ ContentCap \in Nat
  <2>1. ContentCap \in Nat
    BY WeightsAssumption
  <2> QED
    BY <2>1, Facts DEF Scorings
<1>4. Explained(r)
  <2>1. scoring[a].score = ScoreOf(scoring[a].signals)
    BY Facts DEF Pays
  <2> QED
    BY <2>1, JudgedIsExplained
<1> HIDE DEF weight
<1>5. /\ Cap(scoring[a].score + weight) \in 0..ContentCap
      /\ Cap(scoring[a].score + weight) >= scoring[a].score
  BY <1>2, <1>3 DEF Cap
<1>6. /\ r \in Results
      /\ r.score >= scoring[a].score /\ r.signals = scoring[a].signals
  BY <1>3, <1>5 DEF Judged, Results
<1>7. Returns(a, r)
  BY <1>1 DEF weight
<1> HIDE DEF r
<1> QED
  BY <1>4, <1>6, <1>7, Facts, ReturnKeeps DEF AiAnswers, fetched, Reading

LEMMA CancelKeeps == ASSUME IInv, NEW a \in Analyses, Cancel(a) PROVE IInv'
<1> DEFINE to == Unwinds(pc[a])
<1>1. /\ pc \in [Analyses -> Stages] /\ pc[a] \notin Ended /\ ~cancelled[a]
      /\ pc' = [pc EXCEPT ![a] = to] /\ cancelled' = [cancelled EXCEPT ![a] = TRUE]
      /\ extractFree' = IF pc[a] = "extract" THEN extractFree + 1 ELSE extractFree
      /\ UNCHANGED <<fetch, response, pass, static, scoring, rendered, browser, result,
                     renderFree>>
      /\ thread' \in [Analyses -> {"none", "queued", "running"}]
      /\ thread'[a] # "queued" /\ \A b \in Analyses : b # a => thread'[b] = thread[b]
  BY Facts DEF Cancel, Moves, fetched, DropQueued
<1>2. /\ to \in {"closeBody", "closing", "cancelled"}
      /\ to = "closeBody" <=> pc[a] \in Reading
      /\ to = "closing" <=> pc[a] \in Rendering
  BY <1>1 DEF Unwinds, Reading, Rendering
<1> HIDE DEF to
<1>3. /\ \A b \in Analyses : browser'[b] => pc'[b] \in Rendering
      /\ \A b \in Analyses : response'[b] => pc'[b] \in Reading
  <2>1. \A b \in Analyses : /\ browser[b] => pc[b] \in Rendering
                            /\ response[b] => pc[b] \in Reading
    BY Facts
  <2> QED
    BY <1>1, <1>2, <2>1 DEF Rendering, Reading
<1>4. SlotsAreHeld' /\ extractFree' \in 0..ExtractSlots /\ renderFree' \in 0..RenderSlots
  <2>1. extractFree' \in Nat /\ renderFree' \in Nat
    BY <1>1, Facts
  <2>2. to \in Stages /\ Moves(a, to)
    BY <1>1, <1>2 DEF Stages, Moves
  <2>3. /\ extractFree' + One(to, {"extract"}) = extractFree + One(pc[a], {"extract"})
        /\ renderFree' + One(to, Rendering) = renderFree + One(pc[a], Rendering)
    BY <1>1, <1>2, Facts DEF One, Rendering
  <2> QED
    BY <1>3, <2>1, <2>2, <2>3, SlotsKept DEF IInv
<1>5. TypeOK'
  <2>1. pc' \in [Analyses -> Stages] /\ cancelled' \in [Analyses -> BOOLEAN]
    BY <1>1, <1>2 DEF IInv, TypeOK, Stages
  <2> QED
    BY <1>1, <1>4, <2>1 DEF IInv, TypeOK
<1>6. ResponsesAreClosed' /\ ScoringPays'
  BY <1>1, <1>3 DEF IInv, ResponsesAreClosed, ScoringPays, Reading
<1>7. EvidenceIsKept' /\ ScoreIsExplained' /\ Unfinished' /\ Stopping' /\ SignalsReported'
  <2>1. \A b \in Analyses : pc'[b] = "done" <=> pc[b] = "done"
    BY <1>1, <1>2 DEF Ended
  <2>2. Stopping'
    BY <1>1, <1>2 DEF IInv, TypeOK, Stopping, Winding, Ended
  <2> QED
    BY <1>1, <2>1, <2>2 DEF IInv, EvidenceIsKept, ScoreIsExplained, Unfinished, SignalsReported
<1> QED
  BY <1>4, <1>5, <1>6, <1>7 DEF IInv

\* A cancellation that wait_for swallows leaves the analysis where it is.
LEMMA CancelTooLateKeeps == ASSUME IInv, NEW a \in Analyses, CancelTooLate(a) PROVE IInv'
<1>1. /\ pc[a] = "ai" /\ cancelled' = [cancelled EXCEPT ![a] = TRUE]
      /\ UNCHANGED <<pc, fetch, response, thread, pass, static, scoring, rendered, browser,
                     result, extractFree, renderFree>>
  BY DEF CancelTooLate, fetched, analysed
<1>2. TypeOK' /\ SlotsAreHeld' /\ ResponsesAreClosed'
  BY <1>1 DEF IInv, TypeOK, SlotsAreHeld, ResponsesAreClosed
<1>3. Stopping'
  BY <1>1 DEF IInv, TypeOK, Stopping, Winding
<1>4. EvidenceIsKept' /\ ScoreIsExplained' /\ Unfinished' /\ ScoringPays' /\ SignalsReported'
  BY <1>1 DEF IInv, EvidenceIsKept, ScoreIsExplained, Unfinished, ScoringPays, SignalsReported
<1> QED
  BY <1>2, <1>3, <1>4 DEF IInv

LEMMA StepKeeps == ASSUME IInv, [Next]_vars PROVE IInv'
<1>1. ASSUME UNCHANGED vars PROVE IInv'
  <2>1. UNCHANGED <<pc, cancelled, fetch, response, thread, pass, static, scoring, rendered,
                    browser, result, extractFree, renderFree>>
    BY <1>1 DEF vars, own
  <2>2. TypeOK' /\ SlotsAreHeld' /\ ResponsesAreClosed'
    BY <2>1 DEF IInv, TypeOK, SlotsAreHeld, ResponsesAreClosed
  <2> QED
    BY <2>1, <2>2
       DEF IInv, EvidenceIsKept, ScoreIsExplained, Unfinished, Stopping, SignalsReported, ScoringPays
<1> QED
  BY <1>1, FetchKeeps, ExtractKeeps, RenderKeeps, AiKeeps, CancelKeeps, CancelTooLateKeeps
     DEF Next, Progress
-----------------------------------------------------------------------------
\* A step moves at most one analysis.
LEMMA OneMoves ==
  ASSUME [Next]_vars
  PROVE  pc' = pc \/ \E a \in Analyses : \E to : pc' = [pc EXCEPT ![a] = to]
<1>1. ASSUME NEW a \in Analyses, Progress(a) \/ Cancel(a) \/ CancelTooLate(a)
      PROVE  pc' = pc \/ \E to : pc' = [pc EXCEPT ![a] = to]
  <2>1. CASE Cancel(a) \/ CancelTooLate(a)
    BY <2>1 DEF Cancel, CancelTooLate, Moves
  <2>2. CASE \/ HostPasses(a) \/ HostIsBlocked(a) \/ FetchRaises(a) \/ RequestFails(a)
             \/ ResponseArrives(a) \/ BodyIsRead(a) \/ ResponseCloses(a)
    BY <2>2 DEF HostPasses, HostIsBlocked, FetchRaises, RequestFails, ResponseArrives,
                BodyIsRead, ResponseCloses, AfterFetch, CloseFails, Returns, Moves
  <2>3. CASE \/ EntersExtract(a) \/ ThreadStarts(a) \/ Extracted(a) \/ ExtractRaises(a)
             \/ OrphanEnds(a)
    BY <2>3 DEF EntersExtract, ThreadStarts, Extracted, ExtractRaises, OrphanEnds,
                StaticScored, MergedScored, Moves
  <2>4. CASE \/ RenderRefused(a) \/ TargetPasses(a) \/ EntersRender(a) \/ BrowserOpens(a)
             \/ RenderEnds(a) \/ BrowserCloses(a) \/ AiAnswers(a)
    BY <2>4 DEF RenderRefused, TargetPasses, EntersRender, BrowserOpens, RenderEnds,
                BrowserCloses, AfterRender, CloseRaises, AiAnswers, Returns, Moves
  <2> QED
    BY <1>1, <2>1, <2>2, <2>3, <2>4 DEF Progress
<1> QED
  BY <1>1 DEF Next, vars, own

At(stages, K) == {b \in Analyses : stages[b] \in K}

\* The holders of a pool, seen from one step to the next: the same, one more while
\* there was room, or one less.
LEMMA HoldersMove ==
  ASSUME IInv, [Next]_vars, NEW K, NEW Size \in Nat,
         NEW H, H = At(pc, K), NEW G, G = At(pc', K), Cardinality(G) <= Size
  PROVE  \/ G = H
         \/ \E c \in Analyses : c \notin H /\ Cardinality(H) < Size /\ G = H \cup {c}
         \/ \E c \in Analyses : c \in H /\ G = H \ {c}
<1> USE DEF At
<1>1. pc \in [Analyses -> Stages]
  BY DEF IInv, TypeOK
<1>2. CASE pc' = pc
  BY <1>2
<1>3. ASSUME NEW a \in Analyses, NEW to, pc' = [pc EXCEPT ![a] = to]
      PROVE  \/ G = H
             \/ \E c \in Analyses : c \notin H /\ Cardinality(H) < Size /\ G = H \cup {c}
             \/ \E c \in Analyses : c \in H /\ G = H \ {c}
  <2>1. CASE to \in K /\ pc[a] \notin K
    <3>1. a \notin H /\ G = H \cup {a}
      BY <1>1, <1>3, <2>1
    <3>2. IsFiniteSet(H)
      BY PoolsAssumption, FS_Subset
    <3>3. Cardinality(G) = Cardinality(H) + 1 /\ Cardinality(H) \in Nat
      BY <3>1, <3>2, FS_AddElement, FS_CardinalityType
    <3>4. Cardinality(H) < Size
      BY <3>3
    <3> QED
      BY <3>1, <3>4
  <2>2. CASE to \notin K /\ pc[a] \in K
    <3>1. a \in H /\ G = H \ {a}
      BY <1>1, <1>3, <2>2
    <3> QED
      BY <3>1
  <2>3. CASE to \in K <=> pc[a] \in K
    BY <1>1, <1>3, <2>3
  <2> QED
    BY <2>1, <2>2, <2>3
<1> QED
  BY <1>2, <1>3, OneMoves
-----------------------------------------------------------------------------
\* The inductive invariant holds whatever fails and is cancelled.
THEOREM Invariance == Spec => []IInv
  BY Starts, StepKeeps, PTL DEF Spec

\* Type correctness: no pool has fewer than no slots or more than it was given.
THEOREM TypeCorrect == Spec => []TypeOK
<1>1. IInv => TypeOK
  BY DEF IInv
<1> QED
  BY <1>1, Invariance, PTL

\* The two semaphores of extract.py and render.py add up on every way out of
\* analyze_content, and no browser stays open without a slot.
THEOREM PoolsAddUp == Spec => []SlotsAreHeld
<1>1. IInv => SlotsAreHeld
  BY DEF IInv
<1> QED
  BY <1>1, Invariance, PTL

\* The response of fetch_page is closed on every way out of it.
THEOREM ResponsesEnd == Spec => []ResponsesAreClosed
<1>1. IInv => ResponsesAreClosed
  BY DEF IInv
<1> QED
  BY <1>1, Invariance, PTL

\* The reasons of a callback account for the score of the content stage, for any
\* weights, any cap and any pages.
THEOREM ReasonsAccountForTheScore == Spec => []ScoreIsExplained
<1>1. IInv => ScoreIsExplained
  BY DEF IInv
<1> QED
  BY <1>1, Invariance, PTL

\* What a page hides once it is rendered, _merge_features reports and score_content
\* pays for nevertheless, for any weights and any cap.
THEOREM RenderingKeepsEvidence == Spec => []RenderingHidesNothing
<1>1. ASSUME IInv, NEW a \in Analyses, pc[a] = "done", result[a].fetched
      PROVE  /\ SignalsOf(static[a]) \cap Evidence \subseteq result[a].signals
             /\ result[a].score >= Cap(EvidencePoints(Counted(SignalsOf(static[a]))))
  <2> DEFINE due == Cap(EvidencePoints(Counted(SignalsOf(static[a]))))
  <2>1. result[a].signals = scoring[a].signals /\ result[a].score >= scoring[a].score
    BY <1>1 DEF IInv, SignalsReported, EvidenceIsKept
  <2>2. /\ SignalsOf(static[a]) \cap Evidence \subseteq scoring[a].signals
        /\ scoring[a].score >= due
    BY <1>1 DEF IInv, ScoringPays, Pays
  <2>3. static[a] \in Features /\ scoring[a].score \in Int /\ result[a].score \in Int
    <3>1. ContentCap \in Nat
      BY WeightsAssumption
    <3> QED
      BY <1>1, <3>1 DEF IInv, TypeOK, Scorings, Results, NoResult
  <2>4. due \in Int
    BY DueIsNatural
  <2> HIDE DEF due
  <2>5. result[a].score >= due
    BY <2>1, <2>2, <2>3, <2>4
  <2> QED
    BY <2>1, <2>2, <2>5 DEF due
<1>2. IInv => RenderingHidesNothing
  BY <1>1 DEF RenderingHidesNothing
<1> QED
  BY <1>2, Invariance, PTL

\* Where handlers of fetch_page, render_page or infer end a cancellation as a result,
\* no page is parsed and no browser opened for that analysis any more, whatever its
\* pages and the sizes of the pools.
THEOREM NothingStartsForTheCancelled == Spec => []CancelledStartsNothing
<1>1. IInv => CancelledStartsNothing
  BY DEF IInv, Stopping, Winding, Ended, CancelledStartsNothing
<1> QED
  BY <1>1, Invariance, PTL
-----------------------------------------------------------------------------
\* What is in either pool at the start, and that it never holds more than its size.
LEMMA PoolsFit ==
  IInv => /\ Cardinality({a \in Analyses : pc[a] = "extract"}) <= ExtractSlots
          /\ Cardinality({a \in Analyses : pc[a] \in {"render", "closing"}}) <= RenderSlots
<1> SUFFICES ASSUME IInv
             PROVE  /\ Cardinality({a \in Analyses : pc[a] = "extract"}) <= ExtractSlots
                    /\ Cardinality({a \in Analyses : pc[a] \in {"render", "closing"}}) <= RenderSlots
  OBVIOUS
<1> DEFINE Parsing == {a \in Analyses : pc[a] = "extract"}
           Drawing == {a \in Analyses : pc[a] \in {"render", "closing"}}
<1>1. Cardinality(Parsing) \in Nat /\ Cardinality(Drawing) \in Nat
  BY PoolsAssumption, FS_Subset, FS_CardinalityType
<1>2. /\ extractFree + Cardinality(Parsing) = ExtractSlots
      /\ renderFree + Cardinality(Drawing) = RenderSlots
  BY DEF IInv, SlotsAreHeld
<1>3. extractFree \in Nat /\ renderFree \in Nat /\ ExtractSlots \in Nat /\ RenderSlots \in Nat
  BY PoolsAssumption DEF IInv, TypeOK
<1> HIDE DEF Parsing, Drawing
<1>4. Cardinality(Parsing) <= ExtractSlots /\ Cardinality(Drawing) <= RenderSlots
  BY <1>1, <1>2, <1>3
<1> QED
  BY <1>4 DEF Parsing, Drawing

LEMMA PoolsFitNext ==
  IInv' => (/\ Cardinality({a \in Analyses : pc[a] = "extract"}) <= ExtractSlots
            /\ Cardinality({a \in Analyses : pc[a] \in {"render", "closing"}}) <= RenderSlots)'
  BY PoolsFit, PTL

LEMMA SameCardinality ==
  ASSUME NEW S
  PROVE  ExtractPool!Cardinality(S) = Cardinality(S) /\ RenderPool!Cardinality(S) = Cardinality(S)
  BY DEF ExtractPool!Cardinality, RenderPool!Cardinality, Cardinality

LEMMA ExtractPoolStep ==
  ASSUME IInv, IInv', [Next]_vars
  PROVE  [ExtractPool!Next]_{a \in Analyses : pc[a] = "extract"}
<1>1. ExtractSlots \in Nat
  BY PoolsAssumption
<1>2. Cardinality({a \in Analyses : pc'[a] = "extract"}) <= ExtractSlots
  BY PoolsFitNext
<1> DEFINE H == {a \in Analyses : pc[a] = "extract"}
           G == {a \in Analyses : pc'[a] = "extract"}
<1>3. H = At(pc, {"extract"}) /\ G = At(pc', {"extract"})
  BY DEF At
<1>4. \/ G = H
      \/ \E c \in Analyses : c \notin H /\ Cardinality(H) < ExtractSlots /\ G = H \cup {c}
      \/ \E c \in Analyses : c \in H /\ G = H \ {c}
  <2>1. Cardinality(G) <= ExtractSlots
    BY <1>2
  <2> HIDE DEF H, G
  <2> QED
    BY <1>1, <2>1, <1>3, HoldersMove
<1>5. \/ G = H
      \/ \E c \in Analyses : \/ c \notin H /\ ExtractPool!Cardinality(H) < ExtractSlots
                                /\ G = H \cup {c}
                             \/ c \in H /\ G = H \ {c}
  <2> HIDE DEF H, G
  <2> QED
    BY <1>4, SameCardinality
<1> QED
  BY <1>5 DEF ExtractPool!Next, ExtractPool!Enter, ExtractPool!Leave

LEMMA RenderPoolStep ==
  ASSUME IInv, IInv', [Next]_vars
  PROVE  [RenderPool!Next]_{a \in Analyses : pc[a] \in {"render", "closing"}}
<1>1. RenderSlots \in Nat
  BY PoolsAssumption
<1> DEFINE H == {a \in Analyses : pc[a] \in {"render", "closing"}}
           G == {a \in Analyses : pc'[a] \in {"render", "closing"}}
<1>2. Cardinality(G) <= RenderSlots
  BY PoolsFitNext
<1>3. \/ G = H
      \/ \E c \in Analyses : c \notin H /\ Cardinality(H) < RenderSlots /\ G = H \cup {c}
      \/ \E c \in Analyses : c \in H /\ G = H \ {c}
  <2>1. H = At(pc, {"render", "closing"}) /\ G = At(pc', {"render", "closing"})
    BY DEF At
  <2> HIDE DEF H, G
  <2> QED
    BY <1>1, <1>2, <2>1, HoldersMove
<1>4. \/ G = H
      \/ \E c \in Analyses : \/ c \notin H /\ RenderPool!Cardinality(H) < RenderSlots
                                /\ G = H \cup {c}
                             \/ c \in H /\ G = H \ {c}
  <2> HIDE DEF H, G
  <2> QED
    BY <1>3, SameCardinality
<1> QED
  BY <1>4 DEF RenderPool!Next, RenderPool!Enter, RenderPool!Leave

\* extract.py's and render.py's handling of slots, threads and browsers implements
\* two plain semaphores, with as many slots as the settings say.
THEOREM PoolsAreImplemented == Spec => ImplementsPools
<1>1. Init => ExtractPool!Init /\ RenderPool!Init
  BY DEF Init, ExtractPool!Init, RenderPool!Init
<1> QED
  BY <1>1, ExtractPoolStep, RenderPoolStep, Invariance, PTL DEF Spec, ImplementsPools, ExtractPool!Spec, RenderPool!Spec
-----------------------------------------------------------------------------
(* No analysis is for ever.                                                *)

\* The steps an analysis has left at each stage, by the longest way: the static
\* page, the browser, the rendered page, the provider.  Entering the extraction
\* also sets a thread to work.
StageLeft(stage, twice, opened) ==
  CASE stage = "resolve" -> 18
    [] stage = "request" -> 17
    [] stage = "body" -> 16
    [] stage = "closeBody" -> 15
    [] stage = "awaitExtract" -> IF twice THEN 5 ELSE 14
    [] stage = "extract" -> IF twice THEN 2 ELSE 11
    [] stage = "target" -> 10
    [] stage = "awaitRender" -> 9
    [] stage = "render" -> IF opened THEN 7 ELSE 8
    [] stage = "closing" -> 6
    [] stage = "ai" -> 1
    [] OTHER -> 0

ThreadLeft(state) == CASE state = "queued" -> 2 [] state = "running" -> 1 [] OTHER -> 0

\* With the one cancellation that may still come.
Left(a) ==
  StageLeft(pc[a], pass[a] = 2, browser[a]) + ThreadLeft(thread[a])
    + (IF cancelled[a] THEN 0 ELSE 1)

course(a) == <<pc[a], cancelled[a], thread[a], pass[a], browser[a]>>

StageOf(a) == StageLeft(pc[a], pass[a] = 2, browser[a])

\* The steps left are counted in whole numbers.
LEMMA CountsAreWhole ==
  ASSUME NEW stage, NEW twice, NEW opened, NEW state
  PROVE  StageLeft(stage, twice, opened) \in Nat /\ ThreadLeft(state) \in Nat
BY DEF StageLeft, ThreadLeft

\* Fewer steps at the stage, or in the thread, are fewer steps.
LEMMA StepsFall ==
  ASSUME NEW a \in Analyses, cancelled'[a] = cancelled[a],
         StageOf(a)' + ThreadLeft(thread'[a]) < StageOf(a) + ThreadLeft(thread[a])
  PROVE  Left(a)' < Left(a)
<1>1. /\ StageOf(a) \in Nat /\ StageOf(a)' \in Nat
      /\ ThreadLeft(thread[a]) \in Nat /\ ThreadLeft(thread'[a]) \in Nat
  BY CountsAreWhole DEF StageOf
<1> QED
  BY <1>1 DEF Left, StageOf

\* The fetch goes from stage to stage.
LEMMA FetchCounts ==
  ASSUME TypeOK, NEW a \in Analyses,
         \/ HostPasses(a) \/ HostIsBlocked(a) \/ FetchRaises(a) \/ RequestFails(a)
         \/ ResponseArrives(a) \/ BodyIsRead(a) \/ ResponseCloses(a)
  PROVE  Left(a)' < Left(a)
<1>1. /\ UNCHANGED <<thread, pass, browser, cancelled>>
      /\ \/ pc[a] = "resolve" /\ pc'[a] \in {"request", "done", "raised"}
         \/ pc[a] = "request" /\ pc'[a] \in {"body", "done"}
         \/ pc[a] = "body" /\ pc'[a] = "closeBody"
         \/ pc[a] = "closeBody" /\ pc'[a] \in {"cancelled", "awaitExtract", "done"}
  BY DEF TypeOK, HostPasses, HostIsBlocked, FetchRaises, RequestFails, ResponseArrives, BodyIsRead,
         ResponseCloses, AfterFetch, CloseFails, Returns, Moves, analysed
<1>2. StageOf(a)' < StageOf(a)
  BY <1>1 DEF StageOf, StageLeft
<1>3. StageOf(a) \in Nat /\ StageOf(a)' \in Nat /\ ThreadLeft(thread[a]) \in Nat
  BY CountsAreWhole DEF StageOf
<1> QED
  BY <1>1, <1>2, <1>3, StepsFall

\* The extraction: a slot, a thread, its features; or it is not needed any more.
LEMMA ExtractCounts ==
  ASSUME TypeOK, NEW a \in Analyses,
         EntersExtract(a) \/ ThreadStarts(a) \/ Extracted(a) \/ ExtractRaises(a) \/ OrphanEnds(a)
  PROVE  Left(a)' < Left(a)
<1>1. UNCHANGED <<pass, browser, cancelled>>
  BY DEF EntersExtract, ThreadStarts, Extracted, ExtractRaises, OrphanEnds, fetched
<1>2. \/ pc[a] = "awaitExtract" /\ pc'[a] = "extract" /\ thread'[a] = "queued"
      \/ pc'[a] = pc[a] /\ thread[a] = "queued" /\ thread'[a] = "running"
      \/ pc'[a] = pc[a] /\ thread[a] = "running" /\ thread'[a] = "none"
      \/ /\ pc[a] = "extract" /\ pc'[a] \in {"target", "ai", "raised"} /\ thread'[a] = "none"
         /\ pass[a] = 2 => pc'[a] # "target"
  BY DEF TypeOK, EntersExtract, ThreadStarts, Extracted, StaticScored, MergedScored,
         ExtractRaises, OrphanEnds, Moves
<1>3. ThreadLeft("queued") = 2 /\ ThreadLeft("running") = 1 /\ ThreadLeft("none") = 0
  BY DEF ThreadLeft
<1>4. StageOf(a) \in Nat /\ StageOf(a)' \in Nat /\ ThreadLeft(thread[a]) \in Nat
  BY CountsAreWhole DEF StageOf
<1>5. CASE pc[a] = "awaitExtract" /\ pc'[a] = "extract" /\ thread'[a] = "queued"
  <2>1. StageOf(a)' + 3 = StageOf(a)
    BY <1>1, <1>5 DEF StageOf, StageLeft
  <2> QED
    BY <1>1, <1>3, <1>4, <1>5, <2>1, StepsFall
<1>6. CASE pc'[a] = pc[a]
  <2>1. StageOf(a)' = StageOf(a)
    BY <1>1, <1>6 DEF StageOf
  <2>2. ThreadLeft(thread'[a]) < ThreadLeft(thread[a])
    BY <1>2, <1>3, <1>6
  <2>3. ThreadLeft(thread'[a]) \in Nat
    BY CountsAreWhole
  <2> QED
    BY <1>1, <1>4, <2>1, <2>2, <2>3, StepsFall
<1>7. CASE /\ pc[a] = "extract" /\ pc'[a] \in {"target", "ai", "raised"} /\ thread'[a] = "none"
           /\ pass[a] = 2 => pc'[a] # "target"
  <2>1. StageOf(a)' < StageOf(a)
    BY <1>1, <1>7 DEF StageOf, StageLeft
  <2> QED
    BY <1>1, <1>3, <1>4, <1>7, <2>1, StepsFall
<1> QED
  BY <1>2, <1>5, <1>6, <1>7

\* The rendering, which leads to the second extraction only once.
LEMMA RenderCounts ==
  ASSUME TypeOK, NEW a \in Analyses,
         \/ RenderRefused(a) \/ TargetPasses(a) \/ EntersRender(a) \/ BrowserOpens(a)
         \/ RenderEnds(a) \/ BrowserCloses(a)
  PROVE  Left(a)' < Left(a)
<1>1. UNCHANGED <<thread, cancelled>>
  BY DEF RenderRefused, TargetPasses, EntersRender, BrowserOpens, RenderEnds, BrowserCloses,
         fetched, extraction
<1>2. StageOf(a)' < StageOf(a)
  <2>1. CASE RenderRefused(a) \/ TargetPasses(a) \/ EntersRender(a) \/ RenderEnds(a)
    <3>1. /\ UNCHANGED <<pass, browser>>
          /\ \/ pc[a] = "target" /\ pc'[a] \in {"ai", "raised", "awaitRender"}
             \/ pc[a] = "awaitRender" /\ pc'[a] = "render"
             \/ pc[a] = "render" /\ pc'[a] = "closing"
      BY <2>1 DEF TypeOK, RenderRefused, TargetPasses, EntersRender, RenderEnds, Moves, extraction
    <3> QED
      BY <3>1 DEF StageOf, StageLeft
  <2>2. CASE BrowserOpens(a)
    <3>1. /\ pc[a] = "render" /\ pc' = pc /\ pass' = pass /\ ~browser[a] /\ browser'[a]
      BY <2>2 DEF TypeOK, BrowserOpens, extraction
    <3> QED
      BY <3>1 DEF StageOf, StageLeft
  <2>3. CASE BrowserCloses(a)
    <3>1. /\ pc[a] = "closing"
          /\ \/ pc'[a] \in {"cancelled", "ai"}
             \/ pc'[a] = "awaitExtract" /\ pass'[a] = 2
      BY <2>3 DEF TypeOK, BrowserCloses, AfterRender, CloseRaises, Moves
    <3> QED
      BY <3>1 DEF StageOf, StageLeft
  <2> QED
    BY <2>1, <2>2, <2>3
<1>3. StageOf(a) \in Nat /\ StageOf(a)' \in Nat /\ ThreadLeft(thread[a]) \in Nat
  BY CountsAreWhole DEF StageOf
<1> QED
  BY <1>1, <1>2, <1>3, StepsFall

\* The provider answers once, and a cancellation is delivered once.
LEMMA EndCounts ==
  ASSUME TypeOK, NEW a \in Analyses, AiAnswers(a) \/ Cancel(a) \/ CancelTooLate(a)
  PROVE  Left(a)' < Left(a)
<1>1. /\ StageOf(a) \in Nat /\ StageOf(a)' \in Nat
      /\ ThreadLeft(thread[a]) \in Nat /\ ThreadLeft(thread'[a]) \in Nat
  BY CountsAreWhole DEF StageOf
<1>2. CASE AiAnswers(a)
  <2>1. UNCHANGED <<thread, pass, browser, cancelled>> /\ pc[a] = "ai" /\ pc'[a] = "done"
    BY <1>2 DEF TypeOK, AiAnswers, Returns, Moves, analysed
  <2>2. StageOf(a)' < StageOf(a)
    BY <2>1 DEF StageOf, StageLeft
  <2> QED
    BY <1>1, <2>1, <2>2, StepsFall
<1>3. CASE Cancel(a)
  <2>1. /\ UNCHANGED <<pass, browser>> /\ pc'[a] = Unwinds(pc[a])
        /\ thread'[a] = IF thread[a] = "queued" THEN "none" ELSE thread[a]
        /\ ~cancelled[a] /\ cancelled'[a]
    BY <1>3 DEF TypeOK, Cancel, DropQueued, Moves
  <2>2. StageOf(a)' <= StageOf(a)
    BY <2>1 DEF TypeOK, Stages, Unwinds, StageOf, StageLeft
  <2>3. ThreadLeft(thread'[a]) <= ThreadLeft(thread[a])
    BY <2>1 DEF ThreadLeft
  <2> QED
    BY <1>1, <2>1, <2>2, <2>3 DEF Left, StageOf
<1>4. CASE CancelTooLate(a)
  <2>1. UNCHANGED <<pc, thread, pass, browser>> /\ ~cancelled[a] /\ cancelled'[a]
    BY <1>4 DEF TypeOK, CancelTooLate, analysed
  <2>2. StageOf(a)' = StageOf(a)
    BY <2>1 DEF StageOf
  <2> QED
    BY <1>1, <2>1, <2>2 DEF Left, StageOf
<1> QED
  BY <1>2, <1>3, <1>4

\* What another analysis does is not counted.
LEMMA OthersCountNothing ==
  ASSUME TypeOK, NEW a \in Analyses, NEW b \in Analyses \ {a},
         Progress(b) \/ Cancel(b) \/ CancelTooLate(b)
  PROVE  UNCHANGED course(a)
<1>1. CASE \/ HostPasses(b) \/ HostIsBlocked(b) \/ FetchRaises(b) \/ RequestFails(b)
           \/ ResponseArrives(b) \/ BodyIsRead(b) \/ ResponseCloses(b) \/ AiAnswers(b)
  BY <1>1 DEF TypeOK, course, HostPasses, HostIsBlocked, FetchRaises, RequestFails,
              ResponseArrives, BodyIsRead, ResponseCloses, AfterFetch, CloseFails, AiAnswers,
              Returns, Moves,
              analysed
<1>2. CASE EntersExtract(b) \/ ThreadStarts(b) \/ Extracted(b) \/ ExtractRaises(b) \/ OrphanEnds(b)
  BY <1>2 DEF TypeOK, course, EntersExtract, ThreadStarts, Extracted, StaticScored, MergedScored,
              ExtractRaises, OrphanEnds, Moves, fetched
<1>3. CASE \/ RenderRefused(b) \/ TargetPasses(b) \/ EntersRender(b) \/ BrowserOpens(b)
           \/ RenderEnds(b) \/ BrowserCloses(b)
  BY <1>3 DEF TypeOK, course, RenderRefused, TargetPasses, EntersRender, BrowserOpens, RenderEnds,
              BrowserCloses, AfterRender, CloseRaises, Moves, fetched, extraction
<1>4. CASE Cancel(b) \/ CancelTooLate(b)
  BY <1>4 DEF TypeOK, course, Cancel, CancelTooLate, DropQueued, Moves, fetched, analysed
<1> QED
  BY <1>1, <1>2, <1>3, <1>4 DEF Progress

\* What an analysis does counts.
LEMMA EveryStepCounts ==
  ASSUME TypeOK, NEW a \in Analyses, [Next]_vars, ~UNCHANGED course(a)
  PROVE  Left(a)' < Left(a)
<1>1. ~UNCHANGED vars
  BY DEF course, vars, own
<1>2. PICK b \in Analyses : Progress(b) \/ Cancel(b) \/ CancelTooLate(b)
  BY <1>1 DEF Next
<1>3. b = a
  BY <1>2, OthersCountNothing
<1> QED
  BY <1>2, <1>3, FetchCounts, ExtractCounts, RenderCounts, EndCounts DEF Progress

\* An analysis of a page has at most 19 steps to take, its thread's and one
\* cancellation among them, and takes one of them each time: nothing in
\* analyze_content polls, and the rendered page is not rendered again, however
\* many analyses compete for the slots and whatever fails.
THEOREM NoPageIsEndless ==
  ASSUME NEW a \in Analyses
  PROVE  /\ Spec => [](Left(a) \in 0..19)
         /\ Spec => [][Left(a)' < Left(a)]_(course(a))
<1>1. Init => Left(a) \in 0..19
  BY DEF Init, Left, StageLeft, ThreadLeft
<1>2. IInv /\ [Next]_vars => [Left(a)' < Left(a)]_(course(a))
  BY EveryStepCounts DEF IInv
<1>3. IInv /\ IInv' /\ [Next]_vars /\ Left(a) \in 0..19 => (Left(a) \in 0..19)'
  <2> SUFFICES ASSUME IInv, IInv', [Next]_vars, Left(a) \in 0..19
               PROVE  (Left(a) \in 0..19)'
    OBVIOUS
  <2>1. Left(a)' \in Nat
    BY CountsAreWhole DEF Left
  <2>2. Left(a)' <= Left(a)
    <3>1. CASE UNCHANGED course(a)
      BY <3>1 DEF course, Left
    <3>2. CASE ~UNCHANGED course(a)
      BY <3>2, <2>1, EveryStepCounts DEF IInv
    <3> QED
      BY <3>1, <3>2
  <2> QED
    BY <2>1, <2>2
<1> QED
  BY <1>1, <1>2, <1>3, Invariance, PTL DEF Spec
=============================================================================
