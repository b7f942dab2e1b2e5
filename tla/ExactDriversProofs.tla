-------------------------- MODULE ExactDriversProofs --------------------------
(***************************************************************************)
(* The drivers of the exact layer, for any worlds and any manifest: their  *)
(* control, what their rows say of the estimators, what they charge.       *)
(***************************************************************************)
EXTENDS ExactDrivers, EstimatorProofs

-----------------------------------------------------------------------------
(* The control of the drivers *)

\* A row as a driver records it: its match rules out a wrong answer; V001 has
\* no gate of the environment.
IsRow(r) ==
  /\ r.environment \in BOOLEAN /\ r.matches \in BOOLEAN
  /\ r.answers \subseteq Answers
  /\ \A e \in DOMAIN r.gates : r.gates[e] \in Codes
  /\ r.matches => "wrong" \notin r.answers
  /\ study = "v001" => r.environment

\* The rows, and how many there can be at each point.
RowsInv ==
  /\ recorded \in Seq(RecordedRows)
  /\ \A r \in RecordedRows : IsRow(r)
  /\ phase \in {"calibrate", "problems"} => Len(recorded) < ManifestRows

\* Nothing is decided before the end.
Undecided == phase # "ended" => verdict = NoDecision

DriverInv == DriverTypeOK /\ RowsInv /\ Undecided /\ NothingPassesOnFailure

-----------------------------------------------------------------------------
LEMMA GateCodes ==
  /\ \A b, c, e, m : TargetGate(b, c, e, m) \in Codes
  /\ \A b : RetentionGate(b) \in Codes
  /\ \A s, t, c, o, b, p, q : CostGate(s, t, c, o, b, p, q) \in Codes
  <1>1. ASSUME NEW b, NEW c, NEW e, NEW m
        PROVE  TargetGate(b, c, e, m) \in Codes
    <2> DEFINE declared ==
                 CASE m.updated = "all_including_prefix"
                        /\ m.contrast \in {"local_sibling", "selected_contrast"} -> "T003"
                   [] m.contrast = "truncated_continuation" -> "T004"
                   [] m.contrast = "partial_retention" -> "T005"
                   [] OTHER -> "T002"
    <2>1. declared \in Codes
      BY Zenon DEF Codes
    <2>2. TargetGate(b, c, e, m) \in {"T001", "pass", declared}
      BY Zenon DEF TargetGate
    <2> QED
      BY <2>1, <2>2 DEF Codes
  <1>2. \A b : RetentionGate(b) \in Codes
    BY DEF RetentionGate, Codes
  <1>3. \A s, t, c, o, b, p, q : CostGate(s, t, c, o, b, p, q) \in Codes
    BY Zenon DEF CostGate, Codes
  <1> QED
    BY <1>1, <1>2, <1>3

LEMMA MeasuredType ==
  ASSUME NEW w \in Worlds
  PROVE  /\ Measured[w].environment \in BOOLEAN
         /\ \A e \in DOMAIN Measured[w].gates : Measured[w].gates[e] \in Codes
  <1>1. Measured[w].environment = EnvironmentPasses(w) /\ Measured[w].gates = MomentRows(w)
    BY DEF Measured
  <1>2. EnvironmentPasses(w) \in BOOLEAN
    BY DEF EnvironmentPasses
  <1>3. \A e \in DOMAIN MomentRows(w) : MomentRows(w)[e] \in Codes
    BY GateCodes DEF MomentRows
  <1> QED
    BY <1>1, <1>2, <1>3

LEMMA Appended ==
  ASSUME NEW s, s \in Seq(Range(s)), NEW r, NEW t, t = Append(s, r)
  PROVE  t \in Seq(Range(t)) /\ Range(t) = Range(s) \cup {r} /\ Len(t) = Len(s) + 1
  <1>1. t \in [1..(Len(s) + 1) -> Range(s) \cup {r}]
    <2> DEFINE R == Range(s)
    <2>1. s \in Seq(R \cup {r}) /\ r \in R \cup {r}
      OBVIOUS
    <2> HIDE DEF R
    <2>2. t \in Seq(R \cup {r}) /\ Len(t) = Len(s) + 1 /\ Len(s) \in Nat
      BY <2>1
    <2>3. t \in [1..(Len(s) + 1) -> R \cup {r}]
      BY <2>2, LenProperties
    <2> QED
      BY <2>3 DEF R
  <1>2. \A k \in 1..Len(s) : t[k] = s[k]
    OBVIOUS
  <1>3. t[Len(s) + 1] = r /\ DOMAIN t = 1..(Len(s) + 1) /\ DOMAIN s = 1..Len(s) /\ Len(t) = Len(s) + 1
    OBVIOUS
  <1>4. Range(t) = Range(s) \cup {r}
    BY <1>1, <1>2, <1>3 DEF Range
  <1> QED
    BY <1>1, <1>3, <1>4

LEMMA DriverInitInv == DriverInit => DriverInv
  <1>1. Range(<< >>) = {}
    BY DEF Range
  <1> QED
  BY <1>1, DriverAssumption
     DEF DriverInit, DriverInv, DriverTypeOK, RowsInv, Undecided, NothingPassesOnFailure,
         Passing, NoDecision, NoCases, RecordedRows

\* A row is added at the end.
LEMMA RowAdded ==
  ASSUME DriverInv, phase = "problems", study' = study, NEW r, IsRow(r),
         recorded' = Append(recorded, r), phase' \in {"designed", "decide", "problems"},
         phase' = "problems" => Len(recorded') # ManifestRows,
         verdict' = verdict, exactly' = exactly, designed' = designed,
         drawn' \in Worlds
  PROVE  DriverInv'
  <1> USE DriverAssumption
  <1>1. recorded' \in Seq(RecordedRows') /\ RecordedRows' = RecordedRows \cup {r} /\ Len(recorded') = Len(recorded) + 1
    BY Appended DEF DriverInv, RowsInv, RecordedRows
  <1>2. RowsInv'
    BY <1>1 DEF DriverInv, RowsInv, IsRow
  <1>3. DriverTypeOK'
    BY <1>1, <1>2 DEF DriverTypeOK, RowsInv, IsRow, DriverInv
  <1>4. Undecided' /\ NothingPassesOnFailure'
    BY DEF DriverInv, Undecided, NothingPassesOnFailure, Passing, NoDecision
  <1> QED
    BY <1>2, <1>3, <1>4 DEF DriverInv

\* A step that leaves the rows alone and is not the last.
LEMMA RowsKept ==
  ASSUME DriverInv, UNCHANGED <<study, recorded, verdict>>, phase # "ended",
         phase' \in {"calibrate", "problems", "designed", "fraction", "decide", "ended"},
         phase' \in {"calibrate", "problems"} => phase \in {"calibrate", "problems"},
         drawn' \in Worlds \cup {NoWorld}, exactly' \in BOOLEAN
  PROVE  DriverInv'
  <1>1. RowsInv'
    BY DEF DriverInv, RowsInv, IsRow, RecordedRows
  <1>2. DriverTypeOK'
    BY <1>1 DEF DriverTypeOK, RowsInv, IsRow, DriverInv, RecordedRows
  <1>3. Undecided' /\ NothingPassesOnFailure'
    BY DEF DriverInv, Undecided, NothingPassesOnFailure, Passing, NoDecision
  <1> QED
    BY <1>1, <1>2, <1>3 DEF DriverInv

\* Integrity dominates what is claimed.
LEMMA DecidedType ==
  ASSUME NEW integrity \in BOOLEAN, NEW claims,
         \A c \in DOMAIN claims : claims[c] \in {"pass", "fail"}
  PROVE  /\ \A c \in DOMAIN Decided(integrity, claims) :
              Decided(integrity, claims)[c] \in {"pass", "fail", "invalid"}
         /\ (\E c \in DOMAIN Decided(integrity, claims) :
               Decided(integrity, claims)[c] = "pass") => integrity
  BY DEF Decided

LEMMA DecisionKeepsInv ==
  ASSUME DriverInv, phase = "decide", UNCHANGED <<study, drawn, recorded, designed, exactly>>,
         phase' = "ended",
         \A c \in DOMAIN verdict'.claims : verdict'.claims[c] \in {"pass", "fail", "invalid"},
         NothingPassesOnFailure'
  PROVE  DriverInv'
  BY DEF DriverInv, RowsInv, DriverTypeOK, Undecided, IsRow, RecordedRows

LEMMA M0ProblemKeepsInv == ASSUME DriverInv, M0Problem PROVE DriverInv'
  <1>1. PICK w \in Worlds, e \in Answers, b \in Answers :
          LET m == Measured[w] IN
          /\ drawn' = w
          /\ recorded' = Append(recorded,
               Row(m.environment, {e, b}, Matches(m.enumeration, e) /\ Matches(m.bellman, b), m.gates))
    BY DEF M0Problem
  <1> DEFINE m == Measured[w]
             r == Row(m.environment, {e, b}, Matches(m.enumeration, e) /\ Matches(m.bellman, b), m.gates)
  <1>2. IsRow(r)
    <2>1. (Matches(m.enumeration, e) /\ Matches(m.bellman, b)) \in BOOLEAN
      OBVIOUS
    <2>2. Matches(m.enumeration, e) /\ Matches(m.bellman, b) => "wrong" \notin {e, b}
      BY DEF Matches
    <2> QED
      BY <2>1, <2>2, MeasuredType DEF IsRow, Row, M0Problem
  <1> QED
    BY <1>1, <1>2, RowAdded DEF M0Problem, AfterRow

LEMMA V001ProblemKeepsInv == ASSUME DriverInv, V001Problem PROVE DriverInv'
  <1>1. PICK w \in Worlds, e \in Answers :
          LET H == Decisions(w)
              matches == Matches(Measured[w].enumeration, e)
              cost == CostGate(DenseSpec(6), {}, PcRsgCycle(H), H, H, 1, CycleBudget)
              fits == Feasible(CycleBudget, H) /\ Feasible(CycleBudget * H, PcRsgCycle(H))
          IN /\ drawn' = w
             /\ recorded' = IF fits THEN Append(recorded, Row(TRUE, {e}, matches, [cost |-> cost]))
                            ELSE recorded
             /\ phase' = IF fits THEN AfterRow(recorded', "decide") ELSE "ended"
    BY DEF V001Problem
  <1> DEFINE H == Decisions(w)
             matches == Matches(Measured[w].enumeration, e)
             cost == CostGate(DenseSpec(6), {}, PcRsgCycle(H), H, H, 1, CycleBudget)
             fits == Feasible(CycleBudget, H) /\ Feasible(CycleBudget * H, PcRsgCycle(H))
             r == Row(TRUE, {e}, matches, [cost |-> cost])
  <1>2. CASE fits
    <2>1. IsRow(r)
      <3>1. matches \in BOOLEAN
        BY DEF Matches
      <3>2. matches => "wrong" \notin {e}
        BY DEF Matches
      <3>3. cost \in Codes
        BY GateCodes
      <3> HIDE DEF matches, cost
      <3> QED
        BY <3>1, <3>2, <3>3 DEF IsRow, Row
    <2>2. recorded' = Append(recorded, r) /\ phase' = AfterRow(recorded', "decide") /\ drawn' = w
      BY <1>1, <1>2
    <2> HIDE DEF r, fits
    <2> QED
      BY <2>1, <2>2, RowAdded DEF V001Problem, AfterRow
  <1>3. CASE ~fits
    BY <1>1, <1>3, RowsKept DEF V001Problem, DriverInv, DriverTypeOK
  <1> QED
    BY <1>2, <1>3

LEMMA M0DecideKeepsInv == ASSUME DriverInv, M0Decide PROVE DriverInv'
  <1>1. PICK narrow \in BOOLEAN :
          verdict' = [claims |-> M0Claims(narrow), published |-> "nan" \notin designed.focalAnswers]
    BY DEF M0Decide
  <1> DEFINE denseOk == \A r \in RecordedRows : r.gates.dense = "pass"
             integrity == denseOk /\ exactly /\ \A r \in RecordedRows : r.matches /\ r.environment
             claims == [dense_unbiased |-> PassIf(denseOk), propagated_rejected |-> "pass",
                        paired_positive |-> PassIf(narrow), fraction_exact |-> PassIf(exactly)]
  <1>2. verdict'.claims = Decided(integrity, claims)
        /\ verdict'.published = ("nan" \notin designed.focalAnswers)
    BY <1>1 DEF M0Claims
  <1>3. \A c \in DOMAIN claims : claims[c] \in {"pass", "fail"}
    BY DEF PassIf
  <1>4. integrity \in BOOLEAN
    OBVIOUS
  <1>5. integrity => \A r \in RecordedRows : r.environment /\ "wrong" \notin r.answers
    <2>1. RowsInv
      BY DEF DriverInv
    <2> QED
      BY <2>1 DEF RowsInv, IsRow
  <1> HIDE DEF integrity, claims
  <1>6. NothingPassesOnFailure'
    <2>1. study' = "m0" /\ RecordedRows' = RecordedRows /\ designed' = designed
      BY DEF M0Decide, RecordedRows
    <2>2. (\E c \in DOMAIN Decided(integrity, claims) : Decided(integrity, claims)[c] = "pass")
             => integrity
      BY <1>3, <1>4, DecidedType
    <2>3. Passing' => integrity /\ "nan" \notin designed.focalAnswers
      BY <1>2, <2>2 DEF Passing
    <2> QED
      BY <1>5, <2>1, <2>3 DEF NothingPassesOnFailure
  <1> QED
    BY <1>2, <1>3, <1>4, <1>6, DecidedType, DecisionKeepsInv DEF M0Decide

LEMMA V001DecideKeepsInv == ASSUME DriverInv, V001Decide PROVE DriverInv'
  <1> DEFINE integrity == \A r \in RecordedRows : r.matches /\ r.gates.cost = "pass"
             claims == [utility_failure |-> "fail",
                        calibration_accurate |-> PassIf(designed.unbiased)]
  <1>1. verdict'.claims = Decided(integrity, claims) /\ verdict'.published = V001Publishes
    BY DEF V001Decide, V001Claims
  <1>2. \A c \in DOMAIN claims : claims[c] \in {"pass", "fail"}
    BY DEF PassIf
  <1>3. integrity \in BOOLEAN
    OBVIOUS
  <1>4. integrity => \A r \in RecordedRows : r.environment /\ "wrong" \notin r.answers
    BY DEF DriverInv, RowsInv, IsRow, V001Decide
  <1> HIDE DEF integrity, claims
  <1>5. NothingPassesOnFailure'
    BY <1>1, <1>2, <1>3, <1>4, DecidedType
       DEF NothingPassesOnFailure, Passing, V001Decide, V001Publishes, RecordedRows
  <1> QED
    BY <1>1, <1>2, <1>3, <1>5, DecidedType, DecisionKeepsInv DEF V001Decide

LEMMA DriverNextKeepsInv == DriverInv /\ [DriverNext]_driverVars => DriverInv'
  <1> SUFFICES ASSUME DriverInv, [DriverNext]_driverVars PROVE DriverInv'
    OBVIOUS
  <1>1. CASE M0Problem
    BY <1>1, M0ProblemKeepsInv
  <1>2. CASE M0Designed \/ M0Fraction \/ OracleDies \/ V001Calibrate
    <2>1. CASE M0Designed
      BY <2>1, RowsKept DEF M0Designed, DriverInv, DriverTypeOK
    <2>2. CASE M0Fraction
      BY <2>2, RowsKept DEF M0Fraction, DriverInv, DriverTypeOK
    <2>3. CASE OracleDies
      BY <2>3, RowsKept DEF OracleDies, DriverInv, DriverTypeOK
    <2>4. CASE V001Calibrate
      BY <2>4, RowsKept DEF V001Calibrate, DriverInv, DriverTypeOK
    <2> QED
      BY <1>2, <2>1, <2>2, <2>3, <2>4
  <1>3. CASE M0Decide
    BY <1>3, M0DecideKeepsInv
  <1>4. CASE V001Problem
    BY <1>4, V001ProblemKeepsInv
  <1>5. CASE V001Decide
    BY <1>5, V001DecideKeepsInv
  <1>6. CASE UNCHANGED driverVars
    BY <1>6 DEF driverVars, DriverInv, DriverTypeOK, RowsInv, RecordedRows, IsRow, Undecided,
                NothingPassesOnFailure, Passing
  <1> QED
    BY <1>1, <1>2, <1>3, <1>4, <1>5, <1>6 DEF DriverNext

LEMMA DriverInductive == DriverSpec => []DriverInv
  BY DriverInitInv, DriverNextKeepsInv, PTL DEF DriverSpec

\* Every reachable state of a driver is well typed: its loop leaves the rows of
\* the manifest where they end.
THEOREM DriversTypeCorrect == DriverSpec => []DriverTypeOK
  <1>1. DriverInv => DriverTypeOK
    BY DEF DriverInv
  <1> QED
    BY <1>1, DriverInductive, PTL

\* No claim of a published package passes if an oracle gave a wrong answer or a
\* world was degenerate in any row, whatever the oracles do (m0.py, v001.py).
THEOREM PassesOnlyOnSoundRows == DriverSpec => []NothingPassesOnFailure
  <1>1. DriverInv => NothingPassesOnFailure
    BY DEF DriverInv
  <1> QED
    BY <1>1, DriverInductive, PTL

-----------------------------------------------------------------------------
(* The oracles *)

LEMMA DrawnWorlds ==
  ASSUME NEW w \in Worlds
  PROVE  /\ IsWorld(w)
         /\ Measured[w].enumeration = (EnumerationGradient(w) = Gradient(w))
         /\ Measured[w].bellman = (BellmanGradient(w) = Gradient(w))
  <1>1. IsWorld(w)
    BY DriverAssumption DEF IsFractionWorld
  <1>2. /\ Measured[w].enumeration = (EnumerationGradient(w) = Gradient(w))
        /\ Measured[w].bellman = (BellmanGradient(w) = Gradient(w))
    BY DEF Measured
  <1> QED
    BY <1>1, <1>2

\* Three independent computations of the gradient of any world, with any number
\* of decisions, any probabilities and any rewards, are one: bit patterns
\* (oracles/enumeration), backward values (oracles/bellman) and paths; and each
\* coordinate is the local target of its decision (estimands).
THEOREM IndependentOraclesAgree == DriverSpec => []OraclesAgree
  <1>1. DriverInv => OraclesAgree
    <2> SUFFICES ASSUME DriverInv, drawn # NoWorld PROVE OraclesAgree
      BY DEF OraclesAgree
    <2>1. drawn \in Worlds
      BY DEF DriverInv, DriverTypeOK
    <2>2. IsWorld(drawn)
      BY <2>1, DrawnWorlds
    <2>3. EnumerationGradient(drawn) = Gradient(drawn)
      BY <2>2, EnumerationAgrees
    <2>4. BellmanGradient(drawn) = Gradient(drawn)
      BY <2>2, BellmanAgrees
    <2>5. \A t \in Steps(drawn) : LocalTarget(drawn, t)[t] = Gradient(drawn)[t]
      BY <2>2, LocalAgrees
    <2>6. Measured[drawn].enumeration /\ Measured[drawn].bellman
      BY <2>1, <2>3, <2>4, DrawnWorlds
    <2> QED
      BY <2>5, <2>6 DEF OraclesAgree
  <1> QED
    BY <1>1, DriverInductive, PTL


-----------------------------------------------------------------------------
(* The focal world *)

\* The actions at the times of S as signs.
Signs(a, S) == [s \in S |-> 2 * a[s] - 1]
Noise(a) == ProductOf(Signs(a, FocalNoise))
Effects(a) == SumFunction(Signs(a, (1..FocalSteps) \ FocalNoise))

LEMMA HalfUnit == Unit \div 2 \in Int /\ 2 * (Unit \div 2) = Unit
  BY UnitAssumption, DriverAssumption

LEMMA SignsType ==
  ASSUME NEW S \in SUBSET (1..FocalSteps), NEW a \in History(FocalSteps)
  PROVE  /\ IsFiniteSet(S) /\ Signs(a, S) \in [S -> Int]
         /\ ProductOf(Signs(a, S)) \in Int /\ SumFunction(Signs(a, S)) \in Int
  <1>1. IsFiniteSet(S)
    <2>1. 1 \in Int /\ FocalSteps \in Int
      BY DriverAssumption
    <2> QED
      BY <2>1, FS_Interval, FS_Subset
  <1>2. Signs(a, S) \in [S -> Int]
    <2>1. \A s \in S : a[s] \in Int
      BY DEF History, Bit
    <2> QED
      BY <2>1 DEF Signs
  <1> QED
    BY <1>1, <1>2, ProductType, SumType

LEMMA FocalFacts ==
  /\ IsWorld(FocalWorld) /\ Decisions(FocalWorld) = FocalSteps
  /\ Steps(FocalWorld) = 1..FocalSteps /\ Actions(FocalWorld) = History(FocalSteps)
  /\ \A t \in 1..FocalSteps : FocalWorld.chance[t] = Unit \div 2
  /\ \A a \in History(FocalSteps) : FocalWorld.reward[a] = 20 * Noise(a) + Effects(a)
  <1> DEFINE H == FocalSteps
             c == [t \in 1..H |-> Unit \div 2]
             r == [a \in [1..H -> Bit] |-> 20 * Noise(a) + Effects(a)]
  <1>1. FocalWorld = [chance |-> c, reward |-> r]
    BY DEF FocalWorld, Noise, Effects, Signs
  <1>2. H \in Nat
    BY DriverAssumption
  <1>3. c \in Seq(Int) /\ Len(c) = H /\ \A t \in 1..H : c[t] = Unit \div 2
    <2>1. c \in [1..H -> Int]
      BY HalfUnit
    <2>2. DOMAIN c = 1..H
      OBVIOUS
    <2> QED
      BY <1>2, <2>1, <2>2, LenProperties
  <1>4. r \in [[1..H -> Bit] -> Int] /\ \A a \in [1..H -> Bit] : r[a] = 20 * Noise(a) + Effects(a)
    <2>1. \A a \in [1..H -> Bit] : Noise(a) \in Int /\ Effects(a) \in Int
      BY SignsType, DriverAssumption DEF Noise, Effects, History
    <2>2. \A x, y \in Int : 20 * x + y \in Int
      OBVIOUS
    <2> QED
      BY <2>1, <2>2
  <1> HIDE DEF c, r
  <1> QED
    BY <1>1, <1>2, <1>3, <1>4 DEF IsWorld, Decisions, Steps, Actions, History

\* The other action at a noise time turns the noise around.
LEMMA NoiseFlips ==
  ASSUME NEW s \in FocalNoise, NEW a \in History(FocalSteps)
  PROVE  Noise(Put(a, s, 0)) = 0 - Noise(Put(a, s, 1))
  <1> DEFINE N == FocalNoise
             E == N \ {s}
             f(x) == Signs(Put(a, s, x), N)
             g == Signs(a, E)
             p == ProductOf(g)
  <1>1. FocalSteps \in Nat /\ s \in 1..FocalSteps /\ N \in SUBSET (1..FocalSteps) /\ E \in SUBSET (1..FocalSteps)
    BY DriverAssumption
  <1>2. IsFiniteSet(N) /\ g \in [E -> Int] /\ p \in Int
    BY <1>1, SignsType
  <1>3. ASSUME NEW x \in Bit PROVE Noise(Put(a, s, x)) = (2 * x - 1) * p
    <2>1. Put(a, s, x) \in History(FocalSteps) /\ Put(a, s, x)[s] = x
          /\ \A i \in 1..FocalSteps : i # s => Put(a, s, x)[i] = a[i]
      BY <1>1, Setting
    <2>2. f(x) \in [N -> Int] /\ f(x)[s] = 2 * x - 1 /\ \A i \in E : g[i] = f(x)[i]
      <3>1. f(x) \in [N -> Int]
        BY <1>1, <2>1, SignsType
      <3>2. f(x)[s] = 2 * x - 1
        BY <2>1 DEF Signs
      <3>3. \A i \in E : i \in 1..FocalSteps /\ i # s /\ i \in N
        BY <1>1
      <3>4. \A i \in E : g[i] = f(x)[i]
        BY <2>1, <3>3 DEF Signs
      <3> QED
        BY <3>1, <3>2, <3>4
    <2>3. ProductOf(f(x)) = f(x)[s] * p
      <3> DEFINE F == f(x)
      <3>1. F \in [N -> Int] /\ E = N \ {s} /\ \A i \in E : g[i] = F[i]
        BY <2>2
      <3> HIDE DEF F, g
      <3>2. E = N \ {s}
        OBVIOUS
      <3> HIDE DEF E
      <3>3. ProductOf(F) = F[s] * ProductOf(g)
        <4>1. s \in N /\ IsFiniteSet(N) /\ g \in [E -> Int]
          BY <1>2
        <4> HIDE DEF N
        <4> QED
          BY ONLY <3>1, <3>2, <4>1, ProductTake
      <3> QED
        BY <3>3 DEF F
    <2> QED
      BY <2>2, <2>3 DEF Noise
  <1>4. Noise(Put(a, s, 0)) = (2 * 0 - 1) * p /\ Noise(Put(a, s, 1)) = (2 * 1 - 1) * p
    BY <1>3 DEF Bit
  <1> HIDE DEF p
  <1> QED
    BY <1>2, <1>4

\* The noise of M0's focal world has no gradient, so that the estimators of the
\* matched-cost positive may leave its times out (m0.py, noise_times).
THEOREM NoiseHasNoGradient ==
  ASSUME NEW t \in FocalNoise PROVE Gradient(FocalWorld)[t] = 0
  <1> DEFINE w == FocalWorld
             A == History(FocalSteps)
             Pay == Payoff(w, t)
             PS == [a \in A |-> Noise(a) * Score(w, a, t)]
             S == [a \in A |-> Effects(a)]
             SS == [a \in A |-> Effects(a) * Score(w, a, t)]
             Z == [a \in A |-> 0]
             c == Unit \div 2
  <1>1. /\ IsWorld(w) /\ Steps(w) = 1..FocalSteps /\ Actions(w) = A
        /\ FocalNoise \in SUBSET (1..FocalSteps) /\ t \in 1..FocalSteps /\ FocalSteps \in Nat
    BY FocalFacts, DriverAssumption
  <1>2. \A a \in A : Noise(a) \in Int /\ Effects(a) \in Int
    BY <1>1, SignsType DEF Noise, Effects
  <1>3. \A a \in A : Score(w, a, t) \in Int
    BY <1>1, ScoreAt
  <1>4. PS \in [A -> Int] /\ S \in [A -> Int] /\ SS \in [A -> Int] /\ Z \in [A -> Int]
    <2>1. \A a \in A : Noise(a) * Score(w, a, t) \in Int /\ Effects(a) * Score(w, a, t) \in Int
      BY <1>2, <1>3
    <2> QED
      BY <1>2, <2>1
  <1>5. /\ \A a \in A : PS[a] = Noise(a) * Score(w, a, t)
        /\ \A a \in A : S[a] = Effects(a) /\ SS[a] = Effects(a) * Score(w, a, t) /\ Z[a] = 0
    OBVIOUS
  <1>6. /\ \A a \in A : Pay[a] = (20 * Noise(a) + Effects(a)) * Score(w, a, t)
        /\ Pay \in [A -> Int] /\ Gradient(w)[t] = Expect(w, Pay)
    <2>1. \A a \in A : Pay[a] = w.reward[a] * Score(w, a, t)
      BY <1>1 DEF Payoff
    <2> QED
      BY <1>1, <2>1, FocalFacts, GradientIsExpect
  <1>7. c \in Int /\ Chance(w, t, 0) = c /\ Chance(w, t, 1) = c
        /\ \A s \in FocalNoise : Chance(w, s, 0) = c /\ Chance(w, s, 1) = c
    <2>1. ASSUME NEW s \in FocalNoise PROVE Chance(w, s, 0) = c /\ Chance(w, s, 1) = c
      <3>1. Chance(w, s, 1) = c /\ Chance(w, s, 0) = Unit - c
        BY <1>1, ChanceFacts, FocalFacts
      <3>2. Unit - c = c
        BY HalfUnit
      <3> QED
        BY <3>1, <3>2
    <2> QED
      BY <2>1, HalfUnit
  <1> HIDE DEF w, Pay, PS, S, SS, Z, c
  <1>8. Expect(w, SS) = 0
    <2>1. ASSUME NEW a \in A, NEW x \in Bit PROVE S[Put(a, t, x)] = S[a]
      <3> DEFINE R == (1..FocalSteps) \ FocalNoise
      <3>1. Put(a, t, x) \in A /\ \A i \in 1..FocalSteps : i # t => Put(a, t, x)[i] = a[i]
        BY <1>1, Setting
      <3>2. \A i \in R : Put(a, t, x)[i] = a[i]
        BY <3>1
      <3>3. Signs(Put(a, t, x), R) = Signs(a, R)
        BY <3>2 DEF Signs
      <3> QED
        BY <1>5, <3>1, <3>3 DEF Effects
    <2>2. Ignores(w, t, S)
      BY <1>1, <1>4, <2>1 DEF Ignores
    <2>3. \A a \in Actions(w) : SS[a] = S[a] * Score(w, a, t)
      BY <1>1, <1>5
    <2>4. SS \in [Actions(w) -> Int]
      BY <1>1, <1>4
    <2> QED
      BY <1>1, <2>2, <2>3, <2>4, ExpectScore
  <1>9. Expect(w, PS) = 0
    <2>1. PICK s \in FocalNoise : s # t
      <3>1. CASE FocalNoise = {t}
        BY <3>1, FS_Singleton, DriverAssumption
      <3> QED
        BY <3>1
    <2>2. ASSUME NEW a \in A
          PROVE  Z[a] = Chance(w, s, 0) * PS[Put(a, s, 0)] + Chance(w, s, 1) * PS[Put(a, s, 1)]
      <3> DEFINE m == Noise(Put(a, s, 1))
                 v == Score(w, a, t)
      <3>1. 0 \in Bit /\ 1 \in Bit /\ s \in 1..FocalSteps
        BY <1>1 DEF Bit
      <3>2. Put(a, s, 0) \in A /\ Put(a, s, 1) \in A
        BY <1>1, <3>1, Setting
      <3>3. Score(w, Put(a, s, 0), t) = v /\ Score(w, Put(a, s, 1), t) = v
        <4>1. s \in Steps(w) /\ t \in Steps(w) \ {s} /\ a \in Actions(w) /\ IsWorld(w)
          BY <1>1, <2>1, <3>1
        <4> QED
          BY <3>1, <4>1, ScoreAt
      <3>4. Noise(Put(a, s, 0)) = 0 - m /\ m \in Int /\ v \in Int
        BY <1>2, <1>3, <3>2, NoiseFlips
      <3>5. PS[Put(a, s, 0)] = (0 - m) * v /\ PS[Put(a, s, 1)] = m * v
        BY <1>5, <3>2, <3>3, <3>4
      <3> HIDE DEF m, v
      <3>6. 0 = c * ((0 - m) * v) + c * (m * v)
        BY ONLY <1>7, <3>4
      <3> QED
        BY <1>5, <1>7, <3>5, <3>6
    <2>3. Averages(w, s, PS, Z)
      BY <1>1, <1>4, <2>2 DEF Averages
    <2>4. Expect(w, Z) = Unit * Expect(w, PS)
      BY <1>1, <2>3, ExpectStep
    <2>5. Expect(w, Z) = 0
      <3>1. Combines(Actions(w), Z, Z, 0, 0, Z)
        BY <1>1, <1>4, <1>5 DEF Combines
      <3>2. Expect(w, Z) = 0 * Expect(w, Z) + 0 * Expect(w, Z) /\ Expect(w, Z) \in Int
        BY <1>1, <1>4, <3>1, ExpectLinear, ExpectType
      <3> QED
        BY <3>2
    <2>6. Expect(w, PS) \in Int
      BY <1>1, <1>4, ExpectType
    <2>7. Unit \in Nat \ {0}
      BY UnitAssumption
    <2>8. \A u \in Nat \ {0}, e \in Int : u * e = 0 => e = 0
      OBVIOUS
    <2> QED
      BY <2>4, <2>5, <2>6, <2>7, <2>8
  <1>10. Expect(w, Pay) = 20 * Expect(w, PS) + 1 * Expect(w, SS)
    <2>1. ASSUME NEW a \in A PROVE Pay[a] = 20 * PS[a] + 1 * SS[a]
      <3> DEFINE x == Noise(a)
                 y == Effects(a)
                 z == Score(w, a, t)
      <3>1. x \in Int /\ y \in Int /\ z \in Int
        BY <1>2, <1>3
      <3>2. Pay[a] = (20 * x + y) * z /\ PS[a] = x * z /\ SS[a] = y * z
        BY <1>5, <1>6
      <3> HIDE DEF x, y, z
      <3>3. (20 * x + y) * z = 20 * (x * z) + 1 * (y * z)
        BY ONLY <3>1
      <3> QED
        BY <3>2, <3>3
    <2>2. Combines(Actions(w), PS, SS, 20, 1, Pay)
      BY <1>1, <1>4, <1>6, <2>1 DEF Combines
    <2> QED
      BY <1>1, <2>2, ExpectLinear
  <1>11. Gradient(w)[t] = 0
    BY <1>6, <1>8, <1>9, <1>10
  <1> QED
    BY <1>11 DEF w

LEMMA FocalIsUnbiased == FocalUnbiased
  <1>1. \A t \in Steps(FocalWorld) \cap FocalNoise : Gradient(FocalWorld)[t] = 0
    BY NoiseHasNoGradient
  <1> QED
    BY <1>1, FocalFacts, PairedUnbiased, UncoupledUnbiased DEF FocalUnbiased

LEMMA GatePasses == ASSUME NEW b, b, NEW e, NEW m PROVE TargetGate(b, e, e, m) = "pass"
  BY Zenon DEF TargetGate

LEMMA GateBlamesPropagation ==
  ASSUME NEW b, ~b, NEW e, NEW m, m.updated = "all_including_prefix",
         m.contrast \in {"local_sibling", "selected_contrast"}
  PROVE  TargetGate(b, e, e, m) = "T003"
  <1> DEFINE declared ==
               CASE m.updated = "all_including_prefix"
                      /\ m.contrast \in {"local_sibling", "selected_contrast"} -> "T003"
                 [] m.contrast = "truncated_continuation" -> "T004"
                 [] m.contrast = "partial_retention" -> "T005"
                 [] OTHER -> "T002"
  <1>1. m.contrast # "truncated_continuation" /\ m.contrast # "partial_retention"
    OBVIOUS
  <1>2. declared = "T003"
    BY <1>1, Zenon
  <1> HIDE DEF declared
  <1>3. TargetGate(b, e, e, m) = declared
    BY Zenon DEF TargetGate, declared
  <1> QED
    BY <1>2, <1>3

LEMMA GateFindsBias ==
  ASSUME NEW b, ~b, NEW e, NEW m, m.updated # "all_including_prefix",
         m.contrast \notin {"truncated_continuation", "partial_retention"}
  PROVE  TargetGate(b, e, e, m) = "T002"
  <1> DEFINE declared ==
               CASE m.updated = "all_including_prefix"
                      /\ m.contrast \in {"local_sibling", "selected_contrast"} -> "T003"
                 [] m.contrast = "truncated_continuation" -> "T004"
                 [] m.contrast = "partial_retention" -> "T005"
                 [] OTHER -> "T002"
  <1>1. m.contrast # "truncated_continuation" /\ m.contrast # "partial_retention"
    OBVIOUS
  <1>2. declared = "T002"
    BY <1>1, Zenon
  <1> HIDE DEF declared
  <1>3. TargetGate(b, e, e, m) = declared
    BY Zenon DEF TargetGate, declared
  <1> QED
    BY <1>2, <1>3

\* What the verdicts of a row are, whatever the world.
LEMMA RowOf ==
  ASSUME NEW w \in Worlds
  PROVE  LET g == Gradient(w)
             gates == MomentRows(w)
             mid == (Decisions(w) \div 2) + 1
             alone == \A t \in Steps(w) \ {mid} : g[t] = 0
         IN /\ \A e \in {"dense", "dense_optimal_constant", "uniform_hh",
                         "local_sibling_local_estimand"} : gates[e] = "pass"
            /\ gates.local_sibling_as_full = IF alone THEN "pass" ELSE "T002"
            /\ gates.propagated_sibling = IF alone THEN "pass" ELSE "T003"
            /\ gates.bpo_like = IF alone /\ g[mid] = 0 THEN "pass" ELSE "T003"
  <1> DEFINE g == Gradient(w)
             gates == MomentRows(w)
             mid == (Decisions(w) \div 2) + 1
             alone == \A t \in Steps(w) \ {mid} : g[t] = 0
             dense == Mechanism("none", "all")
             hh == Mechanism("none", "single_sampled")
             local == Mechanism("local_sibling", "single_branch")
             prop == Mechanism("local_sibling", "all_including_prefix")
             bpo == Mechanism("selected_contrast", "all_including_prefix")
             le == "local_decision_gradient"
             U(d) == Unbiased(w, d, g)
             L == Unbiased(w, LocalDist(w, mid), LocalTarget(w, mid))
  <1>1. IsWorld(w) /\ Decisions(w) \in Nat /\ Decisions(w) >= 2 /\ mid \in Steps(w)
    <2>1. IsWorld(w) /\ Decisions(w) >= 2
      BY DriverAssumption DEF IsFractionWorld
    <2>2. Decisions(w) \in Nat /\ Steps(w) = 1..Decisions(w)
      BY <2>1, WorldFacts
    <2> QED
      BY <2>1, <2>2
  <1>2. /\ gates.dense = TargetGate(U(DenseDist(w)), Full, Full, dense)
        /\ gates.dense_optimal_constant = TargetGate(U(OptimalConstantDist(w)), Full, Full, dense)
        /\ gates.uniform_hh = TargetGate(U(HansenHurwitzDist(w, UniformOdds(w))), Full, Full, hh)
        /\ gates.local_sibling_local_estimand = TargetGate(L, le, le, local)
        /\ gates.local_sibling_as_full = TargetGate(U(LocalDist(w, mid)), Full, Full, local)
        /\ gates.propagated_sibling = TargetGate(U(PropagatedDist(w, mid)), Full, Full, prop)
        /\ gates.bpo_like = TargetGate(U(BpoLikeDist(w)), Full, Full, bpo)
    BY DEF MomentRows
  <1>3. /\ hh.updated = "single_sampled" /\ hh.contrast = "none"
        /\ local.updated = "single_branch" /\ local.contrast = "local_sibling"
        /\ prop.updated = "all_including_prefix" /\ prop.contrast = "local_sibling"
        /\ bpo.updated = "all_including_prefix" /\ bpo.contrast = "selected_contrast"
    BY DEF Mechanism
  <1>4. U(DenseDist(w)) /\ U(OptimalConstantDist(w)) /\ U(HansenHurwitzDist(w, UniformOdds(w))) /\ L
    BY <1>1, DenseUnbiased, OptimalConstantUnbiased, UniformHansenUnbiased, LocalVerdict
  <1>5. (U(LocalDist(w, mid)) <=> alone) /\ (U(PropagatedDist(w, mid)) <=> alone)
    <2>1. Alone(w, mid) <=> alone
      BY DEF Alone
    <2> QED
      BY <1>1, <2>1, LocalVerdict, PropagatedVerdict
  <1>6. U(BpoLikeDist(w)) <=> alone /\ g[mid] = 0
    <2>1. U(BpoLikeDist(w)) <=> \A u \in Steps(w) : g[u] = 0
      BY <1>1, BpoVerdict
    <2>2. (\A u \in Steps(w) : g[u] = 0) <=> alone /\ g[mid] = 0
      <3> HIDE DEF g, mid
      <3> QED
        BY ONLY <1>1 DEF alone
    <2> QED
      BY <2>1, <2>2
  <1> HIDE DEF g, gates, mid, alone, dense, hh, local, prop, bpo, U, L, le
  <1>7. /\ gates.dense = "pass" /\ gates.dense_optimal_constant = "pass"
        /\ gates.uniform_hh = "pass" /\ gates.local_sibling_local_estimand = "pass"
    <2>1. /\ TargetGate(U(DenseDist(w)), Full, Full, dense) = "pass"
          /\ TargetGate(U(OptimalConstantDist(w)), Full, Full, dense) = "pass"
      BY ONLY <1>4, GatePasses, Zenon
    <2>2. /\ TargetGate(U(HansenHurwitzDist(w, UniformOdds(w))), Full, Full, hh) = "pass"
          /\ TargetGate(L, le, le, local) = "pass"
      BY ONLY <1>4, GatePasses, Zenon
    <2> QED
      BY ONLY <1>2, <2>1, <2>2, Zenon
  <1>8. gates.local_sibling_as_full = IF alone THEN "pass" ELSE "T002"
    BY <1>2, <1>3, <1>5, GatePasses, GateFindsBias
  <1>9. gates.propagated_sibling = IF alone THEN "pass" ELSE "T003"
    BY <1>2, <1>3, <1>5, GatePasses, GateBlamesPropagation
  <1>10. gates.bpo_like = IF alone /\ g[mid] = 0 THEN "pass" ELSE "T003"
    BY <1>2, <1>3, <1>6, GatePasses, GateBlamesPropagation
  <1>11. \A e \in {"dense", "dense_optimal_constant", "uniform_hh",
                   "local_sibling_local_estimand"} : gates[e] = "pass"
    BY <1>7
  <1> QED
    BY <1>8, <1>9, <1>10, <1>11 DEF g, gates, mid, alone

-----------------------------------------------------------------------------
(* The rows of M0 *)

\* The row recorded last is of the world drawn, and everything that is
\* calibrated or found of the focal world holds.
TellInv ==
  /\ study = "m0" /\ drawn # NoWorld =>
       recorded # << >> /\ recorded[Len(recorded)].gates = MomentRows(drawn)
  /\ "unbiased" \in DOMAIN designed /\ designed.unbiased

LEMMA TellInvInductive ==
  /\ DriverInit => TellInv
  /\ DriverInv /\ TellInv /\ [DriverNext]_driverVars => TellInv'
  <1>1. DriverInit => TellInv
    BY DEF DriverInit, TellInv, NoCases
  <1>2. ASSUME DriverInv, TellInv, [DriverNext]_driverVars PROVE TellInv'
    <2> USE <1>2
    <2>1. CASE M0Problem
      <3>1. PICK w \in Worlds, e \in Answers, b \in Answers :
              LET m == Measured[w] IN
              /\ drawn' = w
              /\ recorded' = Append(recorded,
                   Row(m.environment, {e, b}, Matches(m.enumeration, e) /\ Matches(m.bellman, b), m.gates))
        BY <2>1 DEF M0Problem
      <3> DEFINE m == Measured[w]
                 r == Row(m.environment, {e, b}, Matches(m.enumeration, e) /\ Matches(m.bellman, b), m.gates)
      <3>2. r.gates = MomentRows(w)
        BY DEF Row, Measured
      <3>3. recorded \in Seq(RecordedRows)
        BY DEF DriverInv, RowsInv
      <3>4. recorded' = Append(recorded, r) /\ drawn' = w
        BY <3>1
      <3> HIDE DEF r
      <3>5. recorded' # << >> /\ recorded'[Len(recorded')] = r
        BY <3>3, <3>4
      <3> QED
        BY <2>1, <3>2, <3>4, <3>5 DEF M0Problem, TellInv
    <2>2. CASE M0Designed
      BY <2>2, FocalIsUnbiased DEF M0Designed, TellInv
    <2>3. CASE M0Fraction \/ M0Decide \/ OracleDies \/ V001Decide
      BY <2>3 DEF M0Fraction, M0Decide, OracleDies, V001Decide, TellInv
    <2>4. CASE V001Calibrate
      <3>1. PICK w \in Worlds : designed' = [designed EXCEPT !.unbiased = @ /\ Calibrated[w]]
        BY <2>4 DEF V001Calibrate
      <3>2. Calibrated[w]
        BY DrawnWorlds, UniformResidualUnbiased DEF Calibrated
      <3>3. "unbiased" \in DOMAIN designed' /\ designed'.unbiased
        BY <3>1, <3>2 DEF TellInv
      <3> QED
        BY <2>4, <3>3 DEF V001Calibrate, TellInv
    <2>5. CASE V001Problem
      BY <2>5 DEF V001Problem, TellInv
    <2>6. CASE UNCHANGED driverVars
      BY <2>6 DEF driverVars, TellInv
    <2> QED
      BY <2>1, <2>2, <2>3, <2>4, <2>5, <2>6 DEF DriverNext
  <1> QED
    BY <1>1, <1>2

\* Whatever the worlds that M0 and V001 draw, with any number of decisions, any
\* probabilities and any rewards: a row says of the estimators in dense.py,
\* hh_ht.py, sibling.py and bpo_like.py what the gradient alone decides, and the
\* estimators of the matched-cost positive and pc_rsg's are unbiased.
THEOREM RowsTellTheGradient == DriverSpec => []RowsTell
  <1>1. DriverInv /\ TellInv => RowsTell
    <2> SUFFICES ASSUME DriverInv, TellInv PROVE RowsTell
      OBVIOUS
    <2>1. ASSUME study = "m0", drawn # NoWorld
          PROVE  LET g == Gradient(drawn)
                     gates == recorded[Len(recorded)].gates
                     mid == (Decisions(drawn) \div 2) + 1
                     alone == \A t \in Steps(drawn) \ {mid} : g[t] = 0
                 IN /\ Measured[drawn].pairs
                    /\ \A e \in {"dense", "dense_optimal_constant", "uniform_hh",
                                 "local_sibling_local_estimand"} : gates[e] = "pass"
                    /\ gates.local_sibling_as_full = IF alone THEN "pass" ELSE "T002"
                    /\ gates.propagated_sibling = IF alone THEN "pass" ELSE "T003"
                    /\ gates.bpo_like = IF alone /\ g[mid] = 0 THEN "pass" ELSE "T003"
      <3>1. drawn \in Worlds
        BY <2>1 DEF DriverInv, DriverTypeOK
      <3>2. recorded[Len(recorded)].gates = MomentRows(drawn)
        BY <2>1 DEF TellInv
      <3>3. Measured[drawn].pairs
        <4>1. IsWorld(drawn)
          BY <3>1, DrawnWorlds
        <4>2. Unbiased(drawn, RlooDist(drawn), Gradient(drawn))
          BY <4>1, RlooUnbiased
        <4>3. Unbiased(drawn, PairedDist(drawn, {}), Gradient(drawn))
          BY <4>1, PairedUnbiased
        <4> QED
          BY <3>1, <4>2, <4>3 DEF Measured
      <3> QED
        BY <3>1, <3>2, <3>3, RowOf
    <2>2. designed.unbiased
      BY DEF TellInv
    <2> QED
      BY <2>1, <2>2 DEF RowsTell
  <1> QED
    BY <1>1, DriverInductive, TellInvInductive, PTL DEF DriverSpec

-----------------------------------------------------------------------------
(* The costs *)

LEMMA IntervalFinite == ASSUME NEW d \in Int, NEW e \in Int PROVE IsFiniteSet(d..e)
  BY FS_Interval

\* A sum of c over an interval.
LEMMA SumOfConstant ==
  ASSUME NEW d \in Int, NEW c \in Int
  PROVE  \A n \in Nat : SumFunction([t \in d..(d + n - 1) |-> c]) = n * c
  <1> DEFINE X == {n \in Nat : SumFunction([t \in d..(d + n - 1) |-> c]) = n * c}
  <1>1. 0 \in X
    <2> DEFINE f == [t \in d..(d + 0 - 1) |-> c]
    <2>1. DOMAIN f = {}
      OBVIOUS
    <2> HIDE DEF f
    <2>2. SumFunction(f) = 0
      BY <2>1, SumEmpty
    <2>3. SumFunction(f) = 0 * c
      BY <2>2
    <2> QED
      BY <2>3 DEF f
  <1>2. ASSUME NEW n \in Nat, n \in X PROVE n + 1 \in X
    <2> DEFINE D == d..(d + (n + 1) - 1)
               E == d..(d + n - 1)
               f == [t \in D |-> c]
               g == [t \in E |-> c]
    <2>1. IsFiniteSet(D)
      BY IntervalFinite
    <2>2. E = D \ {d + n} /\ d + n \in D
      OBVIOUS
    <2>3. f \in [D -> Int] /\ g \in [E -> Int] /\ (\A t \in E : g[t] = f[t]) /\ f[d + n] = c
      BY <2>2
    <2>4. SumFunction(g) = n * c
      BY <1>2
    <2> HIDE DEF D, E, f, g
    <2>5. SumFunction(f) = f[d + n] + SumFunction(g)
      BY ONLY <2>1, <2>2, <2>3, SumTake
    <2>6. SumFunction(f) = (n + 1) * c
      BY <2>3, <2>4, <2>5
    <2> QED
      BY <2>6 DEF f, D
  <1> HIDE DEF X
  <1>3. Nat \subseteq X
    BY <1>1, <1>2, NatSetInduction
  <1> QED
    BY <1>3 DEF X

\* Adding c to every term of a sum over an interval.
Shifted(d, n, c, D, f, g) ==
  /\ d \in Int /\ n \in Nat /\ c \in Int /\ D = d..(d + n - 1)
  /\ f \in [D -> Int] /\ g \in [D -> Int] /\ \A t \in D : g[t] = f[t] + c

LEMMA SumShift ==
  ASSUME NEW d, NEW n, NEW c, NEW D, NEW f, NEW g, Shifted(d, n, c, D, f, g)
  PROVE  SumFunction(f) \in Int /\ SumFunction(g) = SumFunction(f) + n * c
  <1> DEFINE k == [t \in D |-> c]
  <1>0. /\ d \in Int /\ n \in Nat /\ c \in Int /\ D = d..(d + n - 1)
        /\ f \in [D -> Int] /\ g \in [D -> Int] /\ \A t \in D : g[t] = f[t] + c
    BY DEF Shifted
  <1>1. IsFiniteSet(D)
    <2>1. d + n - 1 \in Int
      BY <1>0
    <2> QED
      BY <1>0, <2>1, IntervalFinite
  <1>2. k \in [D -> Int] /\ f \in [D -> Int] /\ g \in [D -> Int] /\ \A t \in D : g[t] = f[t] + k[t]
    BY <1>0
  <1>3. SumFunction(k) = n * c
    BY <1>0, SumOfConstant
  <1> HIDE DEF k
  <1>4. SumFunction(g) = SumFunction(f) + SumFunction(k)
    BY ONLY <1>1, <1>2, SumAdd
  <1>5. SumFunction(f) \in Int
    BY <1>1, <1>2, SumType
  <1> QED
    BY <1>3, <1>4, <1>5

\* Totals of one, and of three terms.
LEMMA OneTerm ==
  ASSUME NEW D, NEW x, D = {x}, NEW f \in [D -> Int] PROVE SumFunction(f) = f[x]
  <1> DEFINE E == {}
             g == [y \in E |-> 0]
  <1>1. IsFiniteSet(D) /\ x \in D /\ D \ {x} = E
    BY FS_Singleton
  <1>2. g \in [E -> Int] /\ (\A y \in E : g[y] = f[y]) /\ DOMAIN g = {}
    OBVIOUS
  <1> HIDE DEF g
  <1>3. SumFunction(g) = 0
    BY <1>2, SumEmpty
  <1>4. g \in [D \ {x} -> Int] /\ \A y \in D \ {x} : g[y] = f[y]
    BY <1>1, <1>2
  <1>5. SumFunction(f) = f[x] + SumFunction(g)
    BY <1>1, <1>4, SumTake
  <1>6. f[x] \in Int
    BY <1>1
  <1> QED
    BY <1>3, <1>5, <1>6

OfThree(D, x, y, z) == D = {x, y, z} /\ x # y /\ x # z /\ y # z

LEMMA ThreeTerms ==
  ASSUME NEW i, NEW j, NEW k, NEW D, OfThree(D, i, j, k), NEW f \in [D -> Int]
  PROVE  SumFunction(f) = f[i] + f[j] + f[k]
  <1> DEFINE E == {j, k}
             F == {k}
             g == [u \in E |-> f[u]]
             h == [u \in F |-> f[u]]
  <1>0. D = {i, j, k} /\ i # j /\ i # k /\ j # k
    BY DEF OfThree
  <1>1. IsFiniteSet(F) /\ E = F \cup {j} /\ D = E \cup {i}
    BY <1>0, FS_Singleton
  <1>2. IsFiniteSet(E) /\ IsFiniteSet(D)
    BY <1>1, FS_AddElement
  <1>3. D \ {i} = E /\ E \ {j} = F /\ i \in D /\ j \in E
    BY <1>0
  <1>4. g \in [E -> Int] /\ h \in [F -> Int] /\ (\A u \in E : g[u] = f[u]) /\ \A u \in F : h[u] = g[u]
    BY <1>0
  <1>5. f[i] \in Int /\ f[j] \in Int /\ f[k] \in Int /\ g[j] = f[j] /\ h[k] = f[k]
    BY <1>0
  <1>6. F = {k}
    OBVIOUS
  <1> HIDE DEF E, F, g, h
  <1>7. SumFunction(f) = f[i] + SumFunction(g)
    <2>1. i \in D
      BY <1>3
    <2>2. g \in [D \ {i} -> Int] /\ \A u \in D \ {i} : g[u] = f[u]
      BY <1>3, <1>4
    <2> QED
      BY ONLY <1>2, <2>1, <2>2, SumTake, f \in [D -> Int]
  <1>8. SumFunction(g) = g[j] + SumFunction(h)
    <2>1. j \in E
      BY <1>3
    <2>0. IsFiniteSet(E) /\ g \in [E -> Int]
      BY <1>2, <1>4
    <2>2. h \in [E \ {j} -> Int] /\ \A u \in E \ {j} : h[u] = g[u]
      BY <1>3, <1>4
    <2> QED
      BY ONLY <2>0, <2>1, <2>2, SumTake
  <1>9. SumFunction(h) = h[k]
    BY <1>4, <1>6, OneTerm
  <1> QED
    BY <1>5, <1>7, <1>8, <1>9

-----------------------------------------------------------------------------
(* The calculators *)

LEMMA DenseTotal ==
  ASSUME NEW h \in Nat PROVE CycleTotal(DenseSpec(h)) = h
  <1> DEFINE r == Breakdown(DenseSpec(h))
             D == {"full_rollout"}
  <1>1. r = [full_rollout |-> h]
    BY Zenon DEF Breakdown, DenseSpec
  <1>2. D = {"full_rollout"} /\ r \in [D -> Int] /\ r["full_rollout"] = h
    BY <1>1
  <1> HIDE DEF r, D
  <1>3. SumFunction(r) = h
    BY <1>2, OneTerm
  <1> QED
    BY <1>3 DEF CycleTotal, r

LEMMA BranchingTotal ==
  ASSUME NEW h \in Nat, NEW d \in Nat, NEW k \in Nat
  PROVE  CycleTotal(BranchingSpec(h, d, k)) = d + k * (h - d) + (k - 1)
  <1> DEFINE r == Breakdown(BranchingSpec(h, d, k))
             D == {"prefix", "suffixes", "restores"}
  <1> DEFINE m == k * (h - d)
  <1>1. r = [prefix |-> d, suffixes |-> m, restores |-> k - 1]
    BY Zenon DEF Breakdown, BranchingSpec
  <1>2. d \in Int /\ m \in Int /\ k - 1 \in Int
    OBVIOUS
  <1> HIDE DEF m
  <1>3. /\ r \in [D -> Int]
        /\ r["prefix"] = d /\ r["suffixes"] = m /\ r["restores"] = k - 1
    BY <1>1, <1>2
  <1>4. OfThree(D, "prefix", "suffixes", "restores")
    BY DEF OfThree
  <1> HIDE DEF r, D
  <1>5. SumFunction(r) = r["prefix"] + r["suffixes"] + r["restores"]
    BY ONLY <1>3, <1>4, ThreeTerms
  <1> QED
    BY <1>3, <1>5 DEF CycleTotal, r, m

Suffixes(h, d) == [t \in d..(h - 1) |-> h - t]

LEMMA SuffixesType ==
  ASSUME NEW h \in Nat, NEW d \in Nat
  PROVE  Suffixes(h, d) \in [d..(h - 1) -> Int] /\ SumFunction(Suffixes(h, d)) \in Int
  <1>1. Suffixes(h, d) \in [d..(h - 1) -> Int]
    BY DEF Suffixes
  <1>2. d \in Int /\ h - 1 \in Int
    OBVIOUS
  <1> QED
    BY <1>1, <1>2, IntervalFinite, SumType

LEMMA PairedTotal ==
  ASSUME NEW h \in Nat, NEW d \in Nat
  PROVE  CycleTotal(PairedSpec(h, d)) = h + SumFunction(Suffixes(h, d)) + (h - d)
  <1> DEFINE r == Breakdown(PairedSpec(h, d))
             D == {"full_rollout", "sibling_continuations", "restores"}
             s == SumFunction(Suffixes(h, d))
  <1>1. r = [full_rollout |-> h, sibling_continuations |-> s, restores |-> h - d]
    BY Zenon DEF Breakdown, PairedSpec, Suffixes
  <1>2. h \in Int /\ s \in Int /\ h - d \in Int
    BY SuffixesType
  <1>3. /\ r \in [D -> Int]
        /\ r["full_rollout"] = h /\ r["sibling_continuations"] = s /\ r["restores"] = h - d
    BY <1>1, <1>2
  <1>4. OfThree(D, "full_rollout", "sibling_continuations", "restores")
    BY DEF OfThree
  <1> HIDE DEF r, D, s
  <1>5. SumFunction(r) = r["full_rollout"] + r["sibling_continuations"] + r["restores"]
    BY ONLY <1>3, <1>4, ThreeTerms
  <1> QED
    BY <1>3, <1>5 DEF CycleTotal, r, s

-----------------------------------------------------------------------------
(* What the drivers charge *)

LEMMA ResidualCharge ==
  ASSUME NEW h \in Nat \ {0}
  PROVE  PcRsgCycle(h) = h * CycleTotal(DenseSpec(h)) + (2 * h + 1)
                         + SumFunction([t \in 1..(h - 1) |-> CycleTotal(BranchingSpec(h, t, 2))])
  <1> DEFINE D == 0..(h - 1)
             E == 1..(h - 1)
             f == [t \in D |-> t + 2 * (h - t) + 1]
             g == [t \in E |-> CycleTotal(BranchingSpec(h, t, 2))]
  <1>1. PcRsgCycle(h) = h * h + SumFunction(f)
    BY DEF PcRsgCycle
  <1>2. f \in [D -> Int] /\ f[0] = 2 * h + 1 /\ 0 \in D
    OBVIOUS
  <1>3. \A t \in E : t \in D /\ t # 0 /\ g[t] = f[t] /\ g[t] \in Int
    <2>1. ASSUME NEW t \in E PROVE CycleTotal(BranchingSpec(h, t, 2)) = t + 2 * (h - t) + 1
      <3>1. h \in Nat /\ t \in Nat /\ 2 \in Nat
        OBVIOUS
      <3>2. CycleTotal(BranchingSpec(h, t, 2)) = t + 2 * (h - t) + (2 - 1)
        BY <3>1, BranchingTotal
      <3> QED
        BY <3>1, <3>2
    <2> QED
      BY <2>1
  <1>4. \A t \in D : t # 0 => t \in E
    OBVIOUS
  <1>5. g \in [D \ {0} -> Int] /\ \A t \in D \ {0} : g[t] = f[t]
    <2>1. D \ {0} = E
      BY <1>3, <1>4
    <2>2. g \in [E -> Int]
      BY <1>3
    <2> QED
      BY <1>3, <2>1, <2>2
  <1>6. IsFiniteSet(D)
    <2>1. 0 \in Int /\ h - 1 \in Int
      OBVIOUS
    <2> QED
      BY <2>1, IntervalFinite
  <1>7. g \in [E -> Int] /\ IsFiniteSet(E)
    <2>1. 1 \in Int /\ h - 1 \in Int
      OBVIOUS
    <2> QED
      BY <1>3, <2>1, IntervalFinite
  <1>8. CycleTotal(DenseSpec(h)) = h
    BY DenseTotal
  <1> HIDE DEF D, E, f, g
  <1>9. SumFunction(f) = f[0] + SumFunction(g)
    <2>1. f \in [D -> Int] /\ 0 \in D
      BY <1>2
    <2> QED
      BY ONLY <1>5, <1>6, <2>1, SumTake
  <1>10. SumFunction(g) \in Int
    BY <1>7, SumType
  <1> QED
    BY <1>1, <1>2, <1>8, <1>9, <1>10 DEF g, E

LEMMA PairedCharge ==
  ASSUME NEW h \in Nat \ {0} PROVE PairedCycleInM0(h) >= CycleTotal(PairedSpec(h, 0))
  <1> DEFINE D == 0..(0 + h - 1)
             f == Suffixes(h, 0)
             g == [t \in D |-> t + 2 * (h - t) + 1]
             s == SumFunction(f)
  <1>1. D = 0..(h - 1)
    OBVIOUS
  <1>2. PairedCycleInM0(h) = SumFunction(g)
    BY <1>1 DEF PairedCycleInM0
  <1>3. f \in [D -> Int] /\ g \in [D -> Int] /\ \A t \in D : g[t] = f[t] + (h + 1)
    <2>1. \A t \in D : t + 2 * (h - t) + 1 = (h - t) + (h + 1)
      OBVIOUS
    <2> QED
      BY <1>1, <2>1 DEF Suffixes
  <1>4. h \in Nat /\ h + 1 \in Int /\ 0 \in Int /\ D = 0..(0 + h - 1)
    OBVIOUS
  <1> HIDE DEF D, f, g
  <1>5. s \in Int /\ SumFunction(g) = s + h * (h + 1)
    <2>1. Shifted(0, h, h + 1, D, f, g)
      BY <1>3, <1>4 DEF Shifted
    <2> QED
      BY <2>1, SumShift
  <1>6. CycleTotal(PairedSpec(h, 0)) = h + s + (h - 0)
    BY PairedTotal DEF f
  <1> HIDE DEF s
  <1>7. h * (h + 1) >= h + h
    <2>1. h * (h - 1) >= 0
      OBVIOUS
    <2> QED
      BY <2>1
  <1>8. h * (h + 1) \in Int
    OBVIOUS
  <1> QED
    BY <1>2, <1>5, <1>6, <1>7, <1>8

LEMMA BucketCharge ==
  ASSUME NEW h \in Nat, NEW d \in 0..(h - 1)
  PROVE  /\ BucketCycle(h, TRUE, d, 2) = CycleTotal(PairedSpec(h, d))
         /\ \A k \in Nat \ {0, 1} : BucketCycle(h, FALSE, d, k) = CycleTotal(BranchingSpec(h, d, k))
  <1> DEFINE n == h - d
             D == d..(d + n - 1)
             f == Suffixes(h, d)
             g == [t \in D |-> (h - t) + 1]
             s == SumFunction(f)
  <1>1. D = d..(h - 1) /\ n \in Nat /\ d \in Nat /\ h \in Nat
    OBVIOUS
  <1>2. BucketCycle(h, TRUE, d, 2) = h + SumFunction(g)
    BY <1>1 DEF BucketCycle
  <1>3. f \in [D -> Int] /\ g \in [D -> Int] /\ \A t \in D : g[t] = f[t] + 1
    BY <1>1 DEF Suffixes
  <1>4. d \in Int /\ 1 \in Int /\ D = d..(d + n - 1)
    OBVIOUS
  <1>5. \A k \in Nat \ {0, 1} : BucketCycle(h, FALSE, d, k) = CycleTotal(BranchingSpec(h, d, k))
    BY <1>1, BranchingTotal DEF BucketCycle
  <1>6. n = h - d
    OBVIOUS
  <1> HIDE DEF D, f, g, n
  <1>7. s \in Int /\ SumFunction(g) = s + n * 1
    <2>1. Shifted(d, n, 1, D, f, g)
      BY <1>1, <1>3, <1>4 DEF Shifted
    <2> QED
      BY <2>1, SumShift
  <1>8. CycleTotal(PairedSpec(h, d)) = h + s + (h - d)
    BY <1>1, PairedTotal DEF f
  <1> HIDE DEF s
  <1>9. BucketCycle(h, TRUE, d, 2) = CycleTotal(PairedSpec(h, d))
    <2>1. h \in Int /\ d \in Int /\ s \in Int /\ n = h - d
      BY <1>1, <1>6, <1>7
    <2>2. h + (s + n * 1) = h + s + (h - d)
      BY ONLY <2>1
    <2> QED
      BY <1>2, <1>7, <1>8, <2>2
  <1> QED
    BY <1>5, <1>9

LEMMA BudgetAgrees ==
  ASSUME NEW h \in Nat \ {0}, NEW b \in Nat
  PROVE  Cycles(b, h) = CompleteCycles(DenseSpec(h), b).n
  <1>1. CycleTotal(DenseSpec(h)) = h
    BY DenseTotal
  <1>2. b < h => b \div h = 0
    <2> SUFFICES ASSUME b < h PROVE b \div h = 0
      OBVIOUS
    <2>1. b = h * 0 + b /\ 0 <= b /\ b < h
      OBVIOUS
    <2> QED
      BY <2>1
  <1> QED
    BY <1>1, <1>2 DEF Cycles, CompleteCycles

LEMMA PairedInDomain == ASSUME NEW h \in Nat, NEW d \in 0..(h - 1) PROVE InDomain(PairedSpec(h, d))
  <1>1. h > 0 /\ 0 <= d /\ d < h
    OBVIOUS
  <1> DEFINE s == PairedSpec(h, d)
  <1>2. s.id = "paired_replay_all_v1" /\ s.horizon = h /\ s.depth = d
    BY DEF PairedSpec
  <1> HIDE DEF s
  <1>3. InDomain(s) = (s.horizon > 0 /\ 0 <= s.depth /\ s.depth < s.horizon)
    BY <1>2, Zenon DEF InDomain
  <1> QED
    BY <1>1, <1>2, <1>3 DEF s

\* Whatever the horizon, the depth and the width: what v001.py, m0.py and d002.py
\* charge a cycle is what the calculator of its mechanism (schema.py) counts, or
\* more, and a budget has room for as many.
THEOREM EveryCycleCovered ==
  ASSUME NEW h \in Nat \ {0}
  PROVE  /\ PcRsgCycle(h) = h * CycleTotal(DenseSpec(h)) + (2 * h + 1)
                            + SumFunction([t \in 1..(h - 1) |-> CycleTotal(BranchingSpec(h, t, 2))])
         /\ PairedCycleInM0(h) >= CycleTotal(PairedSpec(h, 0))
         /\ Cycles(CycleBudget, h) = CompleteCycles(DenseSpec(h), CycleBudget).n
         /\ \A d \in 0..(h - 1) :
              /\ InDomain(PairedSpec(h, d))
              /\ BucketCycle(h, TRUE, d, 2) = CycleTotal(PairedSpec(h, d))
              /\ \A k \in Nat \ {0, 1} : BucketCycle(h, FALSE, d, k) = CycleTotal(BranchingSpec(h, d, k))
  <1>1. CycleBudget \in Nat
    BY DriverAssumption
  <1>2. \A d \in 0..(h - 1) :
          /\ InDomain(PairedSpec(h, d))
          /\ BucketCycle(h, TRUE, d, 2) = CycleTotal(PairedSpec(h, d))
          /\ \A k \in Nat \ {0, 1} : BucketCycle(h, FALSE, d, k) = CycleTotal(BranchingSpec(h, d, k))
    BY BucketCharge, PairedInDomain
  <1> QED
    BY <1>1, <1>2, ResidualCharge, PairedCharge, BudgetAgrees

\* So what the runs check of horizons up to 6 holds in every state.
THEOREM CostsAlwaysCovered == DriverSpec => []CostsCovered
  <1>1. CostsCovered
    <2> SUFFICES ASSUME NEW h \in 1..6
                 PROVE  /\ PcRsgCycle(h) = h * CycleTotal(DenseSpec(h)) + (2 * h + 1)
                             + SumFunction([t \in 1..(h - 1) |-> CycleTotal(BranchingSpec(h, t, 2))])
                        /\ PairedCycleInM0(h) >= CycleTotal(PairedSpec(h, 0))
                        /\ Cycles(CycleBudget, h) = CompleteCycles(DenseSpec(h), CycleBudget).n
                        /\ \A d \in 0..(h - 1) :
                             /\ InDomain(PairedSpec(h, d))
                             /\ BucketCycle(h, TRUE, d, 2) = CycleTotal(PairedSpec(h, d))
                             /\ \A k \in {2, 4, 8} :
                                  InDomain(BranchingSpec(h, d, k)) =>
                                    BucketCycle(h, FALSE, d, k) = CycleTotal(BranchingSpec(h, d, k))
      BY DEF CostsCovered
    <2>1. h \in Nat \ {0}
      OBVIOUS
    <2>2. \A k \in {2, 4, 8} : k \in Nat \ {0, 1}
      OBVIOUS
    <2> QED
      BY <2>1, <2>2, EveryCycleCovered
  <1> QED
    BY <1>1, PTL
==============================================================================
