-------------------------- MODULE RateControlProofs --------------------------
(***************************************************************************)
(* What RateControl guarantees for any set of peers, any thresholds of     *)
(* time and any ratios and rates a report may carry.  The rate's bounds    *)
(* come first, since a raise is only known to raise while the rate is      *)
(* within them; the invariant of the evacuation windows is independent.    *)
(***************************************************************************)
EXTENDS RateControl, TLAPS

Delays == {"low", "mid", "high"}

(***************************************************************************)
(* The factors and the integer arithmetic of the estimator.                *)
(***************************************************************************)

(* The table of kCongestTier1..4 gives one of four factors, and the three that *)
(* count as a deep drop are the ones up to kEvacTrigger.                       *)
LEMMA TierFactors ==
    ASSUME NEW x \in Nat
    PROVE  /\ TierFactor(x) \in {50, 65, 75, 90}
           /\ TierFactor(x) <= EvacTrigger => TierFactor(x) \in {50, 65, 75}
<1>1. CASE x >= 500
  BY <1>1 DEF TierFactor, EvacTrigger
<1>2. CASE x >= 200 /\ x < 500
  BY <1>2 DEF TierFactor, EvacTrigger
<1>3. CASE x >= 50 /\ x < 200
  BY <1>3 DEF TierFactor, EvacTrigger
<1>4. CASE x < 50
  BY <1>4 DEF TierFactor, EvacTrigger
<1> QED
  BY <1>1, <1>2, <1>3, <1>4

(* The strength of a signal is one of the ratios the report carries. *)
LEMMA StrengthIsRatio ==
    ASSUME NEW s \in Signal
    PROVE  Strength(s) \in Nat
<1>1. s.late \in LateRatios /\ s.ce \in CeRatios
  BY Zenon DEF Signal
<1>2. LateRatios \subseteq Nat /\ CeRatios \subseteq Nat
  BY RateAssumption
<1>3. s.late \in Nat /\ s.ce \in Nat
  BY <1>1, <1>2, Zenon
<1> QED
  BY <1>3 DEF Strength, Larger

(* A cut by a factor below one, rounded down and floored at kMinBtlBps, stays *)
(* between the floor and the seed.                                            *)
LEMMA CutInBounds ==
    ASSUME NEW b \in Nat, b <= Seed, NEW f \in {50, 65, 75, 90}
    PROVE  Larger((b * f) \div 100, MinBtl) \in MinBtl..Seed
<1>1. (b * f) \div 100 \in Nat /\ (b * f) \div 100 <= b
  <2>1. f \in 0..100 /\ b * f \in Nat
    OBVIOUS
  <2>2. b * f <= b * 100
    BY <2>1
  <2> QED
    BY <2>1, <2>2
<1> QED
  BY <1>1, RateAssumption DEF Larger

(* A recovery step never lowers a rate that is within its bounds, and leaves it *)
(* between the floor and the seed, whatever receive rate caps it.               *)
LEMMA RaiseInBounds ==
    ASSUME btl \in 1..Seed, NEW s \in Signal
    PROVE  Raised(s) \in MinBtl..Seed /\ Raised(s) >= btl
<1> DEFINE cap == IF s.recv > 0 /\ ~s.pacer
                  THEN Smaller(Seed, Larger(btl, (s.recv * 12) \div 10)) ELSE Seed
<1>1. s.recv \in Nat /\ (s.recv * 12) \div 10 \in Nat
  <2>1. s.recv \in RecvRates
    BY Zenon DEF Signal
  <2>2. RecvRates \subseteq Nat
    BY RateAssumption
  <2>3. s.recv \in Nat
    BY <2>1, <2>2, Zenon
  <2> QED
    BY <2>3
<1>2. cap \in btl..Seed
  BY <1>1, RateAssumption DEF Smaller, Larger
<1>3. (btl * 3) \div 2 \in Nat /\ (btl * 3) \div 2 >= btl
  BY RateAssumption
<1>4. Raised(s) = Larger(Smaller((btl * 3) \div 2, cap), MinBtl)
  BY DEF Raised
<1> HIDE DEF cap
<1> QED
  BY <1>2, <1>3, <1>4, RateAssumption DEF Larger, Smaller

(***************************************************************************)
(* What one report does to the estimator.                                  *)
(***************************************************************************)

RateType == btl \in 1..Seed /\ (~calibrated => btl >= MinBtl)

EstimateType ==
    /\ step \in 0..2 /\ probe \in {0, ProbeExtra}
    /\ drops \in 0..MaxDrops /\ factor \in {50, 65, 75, 100} /\ dropAge \in 0..SlowTicks

(* A congested report cuts the rate within its bounds, one that lets it recover *)
(* never lowers it, and any other one leaves it alone.                          *)
LEMMA Adjusted ==
    ASSUME RateType, NEW s \in Signal, NEW d \in Delays, NEW evac \in BOOLEAN,
           Adjust(s, d, evac)
    PROVE  /\ btl' \in 1..Seed /\ (btl' >= MinBtl \/ btl' = btl)
           /\ btl' < btl => Congested(s, d)
           /\ evac => btl' = btl
<1>1. CASE Congested(s, d) /\ ~evac /\ s.over /\ Drop(s)
  <2>1. TierFactor(Strength(s)) \in {50, 65, 75, 90}
    BY StrengthIsRatio, TierFactors
  <2>2. Lowered(TierFactor(Strength(s))) \in MinBtl..Seed
    BY <2>1, CutInBounds, RateAssumption DEF Lowered, RateType
  <2>3. btl' \in MinBtl..Seed
    BY <1>1, <2>2 DEF Drop
  <2> QED
    BY <1>1, <2>3, RateAssumption
<1>2. CASE ~Congested(s, d) /\ ~evac /\ Recover(s)
  <2>1. Raised(s) \in MinBtl..Seed /\ Raised(s) >= btl
    BY RaiseInBounds DEF RateType
  <2>2. btl' = Raised(s) \/ btl' = btl
    BY <1>2 DEF Recover
  <2> QED
    BY <1>2, <2>1, <2>2, RateAssumption DEF RateType
<1>3. CASE UNCHANGED btl
  BY <1>3 DEF RateType
<1> QED
  BY <1>1, <1>2, <1>3 DEF Adjust

(* A report keeps the estimator's types: a deep drop is one of three factors, and *)
(* the recovery counter returns to zero from its last step.                       *)
LEMMA AdjustedType ==
    ASSUME EstimateType, NEW s \in Signal, NEW d \in Delays, NEW evac \in BOOLEAN,
           Adjust(s, d, evac)
    PROVE  EstimateType'
<1> USE DEF EstimateType
<1>1. CASE Drop(s)
  <2>1. step' \in 0..2 /\ probe' \in {0, ProbeExtra}
    BY <1>1 DEF Drop
  <2>2. CASE TierFactor(Strength(s)) <= EvacTrigger
    <3>1. TierFactor(Strength(s)) \in {50, 65, 75}
      BY <2>2, StrengthIsRatio, TierFactors
    <3>2. /\ drops < MaxDrops /\ drops' = drops + 1
          /\ factor' = TierFactor(Strength(s)) /\ dropAge' = 0
      BY <1>1, <2>2 DEF Drop
    <3> QED
      BY <2>1, <3>1, <3>2, RateAssumption
  <2>3. CASE ~(TierFactor(Strength(s)) <= EvacTrigger)
    BY <1>1, <2>1, <2>3 DEF Drop
  <2> QED
    BY <2>2, <2>3
<1>2. CASE Recover(s)
  <2>1. UNCHANGED <<drops, factor, dropAge>>
    BY <1>2 DEF Recover
  <2>2. step' \in 0..2 /\ probe' \in {0, ProbeExtra}
    BY <1>2 DEF Recover
  <2> QED
    BY <2>1, <2>2
<1>3. CASE UNCHANGED <<btl, step, probe, drops, factor, dropAge>>
  BY <1>3
<1> QED
  BY <1>1, <1>2, <1>3 DEF Adjust

(***************************************************************************)
(* The rate in its bounds.                                                 *)
(***************************************************************************)

(* Every step keeps the rate in its bounds; only the start-up probe may bring *)
(* it below the floor, and says so.                                          *)
LEMMA RateStep ==
    ASSUME TypeOK, RateInBounds, [Next]_vars
    PROVE  RateInBounds'
<1> USE DEF RateInBounds
<1>1. ASSUME NEW s \in Signal, NEW d \in Delays, OnReport(s, d)
      PROVE  RateInBounds'
  <2>1. inEvac \in BOOLEAN /\ Adjust(s, d, inEvac)
    BY <1>1, Zenon DEF OnReport, TypeOK
  <2>2. btl' \in 1..Seed /\ (btl' >= MinBtl \/ btl' = btl)
    BY <2>1, Adjusted DEF RateType
  <2>3. calibrated' = calibrated
    BY <1>1 DEF OnReport
  <2> QED
    BY <2>2, <2>3
<1>2. CASE SetSeedAndClamp
  <2>1. CASE UNCHANGED <<btl, calibrated>>
    BY <2>1
  <2>2. ASSUME NEW r \in ProbeRates, calibrated' = TRUE, btl' = Clamped(r)
        PROVE  RateInBounds'
    <3>1. r \in Nat /\ Seed \in Nat
      BY RateAssumption
    <3>2. Clamped(r) \in 1..Seed
      BY <3>1 DEF Clamped, Smaller, Larger
    <3> QED
      BY <2>2, <3>2
  <2> QED
    BY <1>2, <2>1, <2>2 DEF SetSeedAndClamp
<1>3. CASE OnReportTimeout
  <2>1. CongestFactor \in {50, 65, 75, 90} /\ btl \in Nat /\ btl <= Seed
    BY RateAssumption DEF CongestFactor
  <2>2. CASE StallDrop
    <3>1. btl' \in MinBtl..Seed
      BY <2>1, <2>2, CutInBounds DEF StallDrop
    <3> QED
      BY <3>1, RateAssumption
  <2>3. CASE UNCHANGED btl
    BY <1>3, <2>3 DEF OnReportTimeout
  <2> QED
    BY <1>3, <2>2, <2>3 DEF OnReportTimeout
<1>4. CASE UNCHANGED <<btl, calibrated>>
  BY <1>4
<1> QED
  BY <1>1, <1>2, <1>3, <1>4
  DEF Next, Reports, Delays, BeginReport, ReadWindow, Handshake, StartPoll, SeeEdge, StartEvac,
      Poll, SendKeyframe, CountStalled, ReadFreeze, Tick, vars, estVars

(***************************************************************************)
(* The type invariant.                                                     *)
(***************************************************************************)

EvacType ==
    /\ mode \in 0..2 /\ kfSent \in BOOLEAN /\ frozen \in BOOLEAN
    /\ freeze \in 0..Larger(FreezeTicks, HoldTicks) /\ slowLeft \in 0..SlowTicks
    /\ processed \in 0..MaxDrops

FlagType ==
    /\ stall \in BOOLEAN /\ calibrated \in BOOLEAN /\ congested \in BOOLEAN
    /\ delay \in {"low", "mid", "high"}

ThreadType ==
    /\ have \in [Peers -> BOOLEAN] /\ silence \in [Peers -> 0..TimeoutTicks]
    /\ pc \in [Pollers -> {"idle", "report", "probe", "poll", "evac"} \cup Peers]
    /\ inEvac \in BOOLEAN /\ reactor \in {"idle", "stalled", "cut"}
    /\ edge \in [Pollers -> 0..MaxDrops]

HistType ==
    /\ stallDrops \in Nat /\ overtaken \subseteq {"receiver", "reactor"}
    /\ raced \in BOOLEAN /\ evacs \in [1..MaxDrops -> Nat]

(* The type invariant is these parts and the type of the rate. *)
LEMMA TypeParts ==
    TypeOK <=> btl \in Nat /\ EstimateType /\ EvacType /\ FlagType /\ ThreadType /\ HistType
BY Zenon DEF TypeOK, EstimateType, EvacType, FlagType, ThreadType, HistType

(* The estimator's numbers keep their types. *)
LEMMA EstimateStep ==
    ASSUME EstimateType, ThreadType, [Next]_vars
    PROVE  EstimateType'
<1>1. ASSUME NEW s \in Signal, NEW d \in Delays, OnReport(s, d)
      PROVE  EstimateType'
  <2>1. inEvac \in BOOLEAN /\ Adjust(s, d, inEvac)
    BY <1>1, Zenon DEF OnReport, ThreadType
  <2> QED
    BY <2>1, AdjustedType
<1>2. CASE OnReportTimeout
  BY <1>2 DEF OnReportTimeout, StallDrop, EstimateType
<1>3. CASE Tick
  BY <1>3, RateAssumption DEF Tick, EstimateType
<1>4. CASE UNCHANGED <<step, probe, drops, factor, dropAge>>
  BY <1>4 DEF EstimateType
<1> QED
  BY <1>1, <1>2, <1>3, <1>4
  DEF Next, Reports, Delays, BeginReport, ReadWindow, Handshake, SetSeedAndClamp, StartPoll,
      SeeEdge, StartEvac, Poll, SendKeyframe, CountStalled, ReadFreeze, vars, estVars

(* The window's state keeps its types: in particular a keyframe sent in a fast *)
(* window may stretch the freeze, never shorten it.                           *)
LEMMA EvacStep ==
    ASSUME EvacType, ThreadType, [Next]_vars
    PROVE  EvacType'
<1> USE DEF EvacType
<1>1. ASSUME NEW p \in Peers, ReadWindow(p)
      PROVE  EvacType'
  <2>1. mode' \in 0..2
    BY <1>1 DEF ReadWindow
  <2>2. kfSent' \in BOOLEAN
    BY <1>1, Zenon DEF ReadWindow
  <2>3. UNCHANGED <<freeze, frozen, slowLeft, processed>>
    BY <1>1 DEF ReadWindow
  <2> QED
    BY <2>1, <2>2, <2>3
<1>2. ASSUME NEW t \in Pollers, StartEvac(t)
      PROVE  EvacType'
  <2>1. mode' \in 0..2 /\ slowLeft' \in 0..SlowTicks
    BY <1>2, RateAssumption DEF StartEvac
  <2>2. freeze' \in 0..Larger(FreezeTicks, HoldTicks)
    BY <1>2, RateAssumption DEF StartEvac, Larger
  <2>3. kfSent' \in BOOLEAN /\ frozen' \in BOOLEAN
    BY <1>2, Zenon DEF StartEvac
  <2>4. processed' \in 0..MaxDrops
    BY <1>2 DEF StartEvac, MarkProcessed, ThreadType
  <2> QED
    BY <2>1, <2>2, <2>3, <2>4
<1>3. ASSUME NEW t \in Pollers, Poll(t)
      PROVE  EvacType'
  <2>1. mode' \in 0..2 /\ UNCHANGED <<freeze, slowLeft, processed, kfSent>>
    BY <1>3 DEF Poll, EndOfFast
  <2>2. frozen' \in BOOLEAN
    BY <1>3, Zenon DEF Poll
  <2> QED
    BY <2>1, <2>2
<1>4. CASE SendKeyframe
  <2>1. freeze' \in 0..Larger(FreezeTicks, HoldTicks)
    BY <1>4, RateAssumption DEF SendKeyframe, Larger
  <2>2. kfSent' \in BOOLEAN /\ frozen' \in BOOLEAN
    BY <1>4 DEF SendKeyframe
  <2> QED
    BY <1>4, <2>1, <2>2 DEF SendKeyframe
<1>5. CASE Tick
  <2>1. freeze' \in 0..Larger(FreezeTicks, HoldTicks) /\ slowLeft' \in 0..SlowTicks
    BY <1>5, RateAssumption DEF Tick, Sooner, Larger
  <2> QED
    BY <1>5, <2>1 DEF Tick
<1>6. CASE UNCHANGED evacVars
  BY <1>6 DEF evacVars
<1> QED
  BY <1>1, <1>2, <1>3, <1>4, <1>5, <1>6
  DEF Next, Reports, Delays, BeginReport, OnReport, Handshake, SetSeedAndClamp, StartPoll,
      SeeEdge, CountStalled, ReadFreeze, OnReportTimeout, vars

(* The flags of the estimator. *)
LEMMA FlagStep ==
    ASSUME FlagType, [Next]_vars
    PROVE  FlagType'
<1> USE DEF FlagType
<1>1. ASSUME NEW s \in Signal, NEW d \in Delays, OnReport(s, d)
      PROVE  FlagType'
  <2>1. delay' \in {"low", "mid", "high"}
    BY <1>1, Zenon DEF OnReport, Delays
  <2>2. congested' \in BOOLEAN
    <3>1. congested' = Congested(s, d)
      BY <1>1, Zenon DEF OnReport
    <3> QED
      BY <3>1, Zenon DEF Congested
  <2>3. stall' \in BOOLEAN /\ calibrated' \in BOOLEAN
    BY <1>1, Zenon DEF OnReport
  <2> QED
    BY <2>1, <2>2, <2>3, Zenon
<1>2. CASE SetSeedAndClamp
  <2>1. calibrated' \in BOOLEAN
    BY <1>2, Zenon DEF SetSeedAndClamp
  <2>2. UNCHANGED <<stall, delay, congested>>
    BY <1>2, Zenon DEF SetSeedAndClamp
  <2> QED
    BY <2>1, <2>2, Zenon
<1>3. CASE OnReportTimeout
  <2>1. stall' \in BOOLEAN
    BY <1>3, Zenon DEF OnReportTimeout, StallDrop
  <2>2. UNCHANGED <<calibrated, delay, congested>>
    BY <1>3, Zenon DEF OnReportTimeout
  <2> QED
    BY <2>1, <2>2, Zenon
<1>4. CASE UNCHANGED <<stall, calibrated, congested, delay>>
  BY <1>4, Zenon
<1> QED
  BY <1>1, <1>2, <1>3, <1>4
  DEF Next, Reports, Delays, BeginReport, ReadWindow, Handshake, StartPoll, SeeEdge, StartEvac,
      Poll, SendKeyframe, CountStalled, ReadFreeze, Tick, vars, estVars

(* What the threads are doing, and what is known of the peers' reports. *)
LEMMA ThreadStep ==
    ASSUME ThreadType, EstimateType, [Next]_vars
    PROVE  ThreadType'
<1> USE DEF ThreadType, Pollers
<1>1. ASSUME NEW p \in Peers, BeginReport(p)
      PROVE  ThreadType'
  BY <1>1 DEF BeginReport
<1>2. ASSUME NEW p \in Peers, Handshake(p)
      PROVE  ThreadType'
  BY <1>2, RateAssumption DEF Handshake, threads
<1>3. ASSUME NEW s \in Signal, NEW d \in Delays, OnReport(s, d)
      PROVE  ThreadType'
  <2>1. inEvac' = FALSE /\ UNCHANGED <<have, silence, edge, reactor>>
    BY <1>3, Zenon DEF OnReport
  <2>2. pc' = [pc EXCEPT !["receiver"] = "probe"]
    BY <1>3, Zenon DEF OnReport
  <2> QED
    BY <2>1, <2>2
<1>4. CASE SetSeedAndClamp
  BY <1>4 DEF SetSeedAndClamp
<1>5. CASE StartPoll
  BY <1>5 DEF StartPoll
<1>6. ASSUME NEW t \in Pollers, SeeEdge(t)
      PROVE  ThreadType'
  BY <1>6 DEF SeeEdge, EstimateType
<1>7. ASSUME NEW t \in Pollers, StartEvac(t)
      PROVE  ThreadType'
  BY <1>7, RateAssumption DEF StartEvac
<1>8. ASSUME NEW t \in Pollers, Poll(t)
      PROVE  ThreadType'
  BY <1>8 DEF Poll
<1>9. CASE Tick
  <2>1. \A p \in Peers : Older(silence[p]) \in 0..TimeoutTicks
    BY RateAssumption DEF Older
  <2> QED
    BY <1>9, <2>1 DEF Tick, threads
<1>10. ASSUME NEW p \in Peers, ReadWindow(p)
       PROVE  ThreadType'
  <2>1. inEvac' \in BOOLEAN
    <3>1. inEvac' = InWindow(mode')
      BY <1>10, Zenon DEF ReadWindow
    <3> QED
      BY <3>1, Zenon DEF InWindow
  <2>2. /\ pc' = [pc EXCEPT !["receiver"] = "report"]
        /\ silence' = [silence EXCEPT ![p] = 0] /\ UNCHANGED <<have, edge, reactor>>
    BY <1>10, Zenon DEF ReadWindow
  <2> QED
    BY <2>1, <2>2, RateAssumption
<1>11. CASE CountStalled \/ ReadFreeze \/ OnReportTimeout
  <2>1. UNCHANGED <<have, silence, pc, inEvac, edge>>
    BY <1>11, Zenon DEF CountStalled, ReadFreeze, OnReportTimeout
  <2>2. reactor' \in {"idle", "stalled", "cut"}
    BY <1>11, Zenon DEF CountStalled, ReadFreeze, OnReportTimeout
  <2> QED
    BY <2>1, <2>2
<1>12. CASE UNCHANGED <<have, silence, threads>>
  BY <1>12 DEF threads
<1> QED
  BY <1>1, <1>2, <1>3, <1>4, <1>5, <1>6, <1>7, <1>8, <1>9, <1>10, <1>11, <1>12
  DEF Next, Reports, Delays, SendKeyframe, vars

(* The histories. *)
LEMMA HistStep ==
    ASSUME HistType, ThreadType, [Next]_vars
    PROVE  HistType'
<1> USE DEF HistType
<1>1. ASSUME NEW s \in Signal, NEW d \in Delays, OnReport(s, d)
      PROVE  HistType'
  BY <1>1 DEF OnReport
<1>2. ASSUME NEW t \in Pollers, SeeEdge(t)
      PROVE  HistType'
  <2>1. raced' \in BOOLEAN
    BY <1>2, Zenon DEF SeeEdge
  <2> QED
    BY <1>2, <2>1 DEF SeeEdge
<1>3. ASSUME NEW t \in Pollers, StartEvac(t)
      PROVE  HistType'
  <2>1. evacs' = evacs \/ evacs' = [evacs EXCEPT ![edge[t]] = @ + 1]
    BY <1>3 DEF StartEvac
  <2>2. evacs' \in [1..MaxDrops -> Nat]
    BY <2>1
  <2> QED
    BY <1>3, <2>2 DEF StartEvac, Overtaken
<1>4. CASE OnReportTimeout
  BY <1>4 DEF OnReportTimeout
<1>5. CASE SendKeyframe
  BY <1>5 DEF SendKeyframe, Overtaken
<1>6. CASE UNCHANGED histVars
  BY <1>6 DEF histVars
<1> QED
  BY <1>1, <1>2, <1>3, <1>4, <1>5, <1>6
  DEF Next, Reports, Delays, BeginReport, ReadWindow, Handshake, SetSeedAndClamp, StartPoll,
      Poll, CountStalled, ReadFreeze, Tick, histVars, vars

(* The state the transport starts in. *)
LEMMA InitialState ==
    Init => TypeOK /\ RateInBounds
<1> SUFFICES ASSUME Init PROVE TypeOK /\ RateInBounds
  OBVIOUS
<1> USE RateAssumption DEF Init
<1>1. RateInBounds /\ EstimateType
  BY DEF RateInBounds, EstimateType, ProbeExtra
<1>2. FlagType
  BY ZenonT(40) DEF FlagType
<1>3. EvacType
  <2>1. kfSent \in BOOLEAN /\ frozen \in BOOLEAN
    BY ZenonT(40)
  <2>2. mode \in 0..2 /\ slowLeft \in 0..SlowTicks /\ processed \in 0..MaxDrops
    OBVIOUS
  <2>3. freeze \in 0..Larger(FreezeTicks, HoldTicks)
    BY DEF Larger
  <2> QED
    BY <2>1, <2>2, <2>3, ZenonT(40) DEF EvacType
<1>4. ThreadType
  <2>1. have \in [Peers -> BOOLEAN]
    <3>1. have = [p \in Peers |-> FALSE]
      BY ZenonT(40)
    <3> QED
      BY <3>1
  <2>2. silence \in [Peers -> 0..TimeoutTicks] /\ edge \in [Pollers -> 0..MaxDrops]
    OBVIOUS
  <2>3. pc \in [Pollers -> {"idle", "report", "probe", "poll", "evac"} \cup Peers]
    OBVIOUS
  <2>4. inEvac \in BOOLEAN /\ reactor \in {"idle", "stalled", "cut"}
    BY ZenonT(40)
  <2> QED
    BY <2>1, <2>2, <2>3, <2>4, ZenonT(40) DEF ThreadType
<1>6. HistType
  <2>1. raced \in BOOLEAN
    BY ZenonT(40)
  <2>2. /\ stallDrops \in Nat /\ evacs \in [1..MaxDrops -> Nat]
        /\ overtaken \subseteq {"receiver", "reactor"}
    OBVIOUS
  <2> QED
    BY <2>1, <2>2, ZenonT(40) DEF HistType
<1>5. btl \in Nat
  OBVIOUS
<1> QED
  BY <1>1, <1>2, <1>3, <1>4, <1>5, <1>6, TypeParts

(* The two together are inductive. *)
THEOREM TypeAndRate ==
    Spec => [](TypeOK /\ RateInBounds)
<1>1. ASSUME TypeOK, RateInBounds, [Next]_vars
      PROVE  TypeOK' /\ RateInBounds'
  <2>1. EstimateType /\ EvacType /\ FlagType /\ ThreadType /\ HistType
    BY <1>1, TypeParts
  <2>2. RateInBounds'
    BY <1>1, RateStep
  <2>3. EstimateType' /\ EvacType' /\ FlagType' /\ ThreadType' /\ HistType'
    BY <1>1, <2>1, EstimateStep, EvacStep, FlagStep, ThreadStep, HistStep
  <2>4. (btl \in Nat)'
    BY <2>2 DEF RateInBounds
  <2>5. TypeOK'
    BY <2>3, <2>4, Zenon DEF TypeOK, EstimateType, EvacType, FlagType, ThreadType, HistType
  <2> QED
    BY <2>2, <2>5
<1> QED
  BY InitialState, <1>1, PTL DEF Spec

(* Every variable keeps its type, in particular the recovery counter of *)
(* bandwidth.cpp and the freeze a keyframe stretches.                    *)
THEOREM TypeCorrect ==
    Spec => []TypeOK
BY TypeAndRate, PTL

(* Whatever the reports, the stalls, the probe and the windows do, the rate    *)
(* stays between kMinBtlBps (one, once the probe has clamped it) and the seed. *)
THEOREM RateStaysInBounds ==
    Spec => []RateInBounds
BY TypeAndRate, PTL
(***************************************************************************)
(* Why the rate falls.                                                     *)
(***************************************************************************)

(* A stall cuts once: after one cut the flag stays up until a report. *)
StalledOnce == stallDrops \in 0..1 /\ (stallDrops = 1 => stall)

(* Only the reactor counts a stall cut, and a report lowers the flag and the *)
(* count together.                                                           *)
LEMMA StalledOnceStep ==
    ASSUME StalledOnce, [Next]_vars
    PROVE  StalledOnce'
<1> USE DEF StalledOnce
<1>1. ASSUME NEW s \in Signal, NEW d \in Delays, OnReport(s, d)
      PROVE  StalledOnce'
  BY <1>1 DEF OnReport
<1>2. CASE OnReportTimeout
  BY <1>2 DEF OnReportTimeout, StallDrop
<1>3. CASE UNCHANGED <<stall, stallDrops>>
  BY <1>3
<1> QED
  BY <1>1, <1>2, <1>3
  DEF Next, Reports, Delays, BeginReport, ReadWindow, Handshake, SetSeedAndClamp, StartPoll,
      SeeEdge, StartEvac, Poll, SendKeyframe, CountStalled, ReadFreeze, Tick, vars, estVars,
      histVars

(* A thread that is about to move the rate has seen no freeze: if one runs now, *)
(* it was set since, and the history says so.                                   *)
FreezeSeen ==
    /\ pc["receiver"] = "report" /\ ~inEvac /\ freeze > 0 => "receiver" \in overtaken
    /\ reactor = "cut" /\ freeze > 0 => "reactor" \in overtaken

(* Only StartEvac and SendKeyframe set a freeze, and both mark the threads they *)
(* overtake; time only shortens it.                                            *)
LEMMA FreezeSeenStep ==
    ASSUME TypeOK, FreezeSeen, [Next]_vars
    PROVE  FreezeSeen'
<1> USE DEF FreezeSeen
<1>0. /\ freeze \in Nat /\ pc \in [Pollers -> {"idle", "report", "probe", "poll", "evac"} \cup Peers]
      /\ "receiver" \in Pollers /\ "receiver" # "app"
  BY RateAssumption DEF TypeOK, Pollers, Larger
<1>1. ASSUME NEW p \in Peers, BeginReport(p)
      PROVE  FreezeSeen'
  <2>1. p # "report"
    BY RateAssumption
  <2>2. pc'["receiver"] = p
    BY <1>0, <1>1 DEF BeginReport
  <2>3. UNCHANGED <<freeze, reactor, overtaken>>
    BY <1>1 DEF BeginReport, evacVars, histVars
  <2> QED
    BY <2>1, <2>2, <2>3
<1>2. ASSUME NEW p \in Peers, ReadWindow(p)
      PROVE  FreezeSeen'
  <2>1. inEvac' = InWindow(mode')
    BY <1>2, Zenon DEF ReadWindow
  <2>2. freeze > 0 => inEvac'
    BY <2>1 DEF InWindow
  <2>3. UNCHANGED <<freeze, reactor, overtaken>>
    BY <1>2 DEF ReadWindow, histVars
  <2> QED
    BY <2>2, <2>3
<1>3. ASSUME NEW s \in Signal, NEW d \in Delays, OnReport(s, d)
      PROVE  FreezeSeen'
  <2>1. pc'["receiver"] = "probe"
    BY <1>0, <1>3 DEF OnReport
  <2>2. UNCHANGED <<freeze, reactor>> /\ overtaken' = overtaken \ {"receiver"}
    BY <1>3 DEF OnReport, evacVars
  <2> QED
    BY <2>1, <2>2
<1>4. CASE SetSeedAndClamp
  <2>1. pc'["receiver"] = "poll"
    BY <1>0, <1>4 DEF SetSeedAndClamp
  <2>2. UNCHANGED <<freeze, reactor, overtaken>>
    BY <1>4 DEF SetSeedAndClamp, evacVars, histVars
  <2> QED
    BY <2>1, <2>2
<1>5. CASE StartPoll
  <2>1. pc'["receiver"] = pc["receiver"]
    BY <1>0, <1>5 DEF StartPoll
  <2>2. UNCHANGED <<freeze, inEvac, reactor, overtaken>>
    BY <1>5 DEF StartPoll, evacVars, histVars
  <2> QED
    BY <2>1, <2>2
<1>6. ASSUME NEW t \in Pollers, SeeEdge(t) \/ Poll(t)
      PROVE  FreezeSeen'
  <2>1. pc'["receiver"] = pc["receiver"] \/ pc'["receiver"] = "evac" \/ pc'["receiver"] = "idle"
    BY <1>0, <1>6 DEF SeeEdge, Poll
  <2>2. UNCHANGED <<freeze, inEvac, reactor, overtaken>>
    BY <1>6 DEF SeeEdge, Poll, evacVars, histVars
  <2> QED
    BY <2>1, <2>2
<1>7. ASSUME NEW t \in Pollers, StartEvac(t)
      PROVE  FreezeSeen'
  <2>1. pc'["receiver"] = pc["receiver"] \/ pc'["receiver"] = "idle"
    BY <1>0, <1>7 DEF StartEvac
  <2>2. UNCHANGED <<inEvac, reactor>>
    BY <1>7 DEF StartEvac
  <2>3. UNCHANGED <<freeze, overtaken>> \/ overtaken' = overtaken \cup Overtaken
    BY <1>7 DEF StartEvac
  <2> QED
    BY <2>1, <2>2, <2>3 DEF Overtaken
<1>8. CASE SendKeyframe
  <2>1. UNCHANGED <<pc, inEvac, reactor>> /\ overtaken' = overtaken \cup Overtaken
    BY <1>8 DEF SendKeyframe, threads
  <2> QED
    BY <2>1 DEF Overtaken
<1>9. CASE CountStalled
  <2>1. reactor' = "stalled" /\ UNCHANGED <<freeze, pc, inEvac, overtaken>>
    BY <1>9 DEF CountStalled, evacVars, histVars
  <2> QED
    BY <2>1
<1>10. CASE ReadFreeze
  <2>1. /\ reactor' = "cut" => freeze = 0
        /\ UNCHANGED <<freeze, pc, inEvac, overtaken>>
    BY <1>10 DEF ReadFreeze, NotFrozen, evacVars, histVars
  <2> QED
    BY <1>0, <2>1
<1>11. CASE OnReportTimeout
  <2>1. reactor' = "idle" /\ UNCHANGED <<freeze, pc, inEvac>> /\ overtaken' = overtaken \ {"reactor"}
    BY <1>11 DEF OnReportTimeout, evacVars
  <2> QED
    BY <2>1
<1>12. CASE Tick
  <2>1. freeze' > 0 => freeze > 0
    BY <1>0, <1>12 DEF Tick, Sooner
  <2>2. UNCHANGED <<pc, inEvac, reactor, overtaken>>
    BY <1>12 DEF Tick, threads, histVars
  <2> QED
    BY <2>1, <2>2
<1>13. CASE UNCHANGED <<freeze, pc, inEvac, reactor, overtaken>>
  BY <1>13
<1> QED
  BY <1>1, <1>2, <1>3, <1>4, <1>5, <1>6, <1>7, <1>8, <1>9, <1>10, <1>11, <1>12, <1>13
  DEF Next, Reports, Delays, Handshake, vars, evacVars, histVars, threads

(* A cut comes from a congested report, from a stall or from the probe, a stall  *)
(* cuts once between two reports, and during a freeze only the probe cuts, or a  *)
(* thread that had looked for the freeze before it was set.                      *)
THEOREM FallsForAReason ==
    Spec => RateFallsForAReason
<1> DEFINE Fall ==
      /\ btl' < btl => \/ calibrated' # calibrated
                       \/ congested' /\ pc'["receiver"] # pc["receiver"]
                       \/ stallDrops' # stallDrops
      /\ stallDrops' <= 1
      /\ freeze > 0 => btl' = btl \/ calibrated' # calibrated \/ Raced
<1>1. ASSUME TypeOK, RateInBounds, StalledOnce, FreezeSeen, [Next]_vars
      PROVE  Fall
  <2>0. btl \in 1..Seed /\ stallDrops' <= 1 /\ stallDrops' \in 0..1 /\ freeze \in Nat /\ Seed \in Nat
    <3>1. stallDrops' \in 0..1
      BY <1>1, StalledOnceStep DEF StalledOnce
    <3>2. freeze \in Nat
      BY <1>1, RateAssumption DEF TypeOK, Larger
    <3> QED
      BY <1>1, <3>1, <3>2, RateAssumption DEF RateInBounds
  <2>1. ASSUME NEW s \in Signal, NEW d \in Delays, OnReport(s, d)
        PROVE  Fall
    <3>1. inEvac \in BOOLEAN /\ Adjust(s, d, inEvac)
      BY <1>1, <2>1, Zenon DEF OnReport, TypeOK
    <3>2. (btl' < btl => Congested(s, d)) /\ (inEvac => btl' = btl)
      BY <1>1, <3>1, Adjusted DEF RateType, RateInBounds
    <3>3. congested' = Congested(s, d)
      BY <2>1, Zenon DEF OnReport
    <3>4. pc["receiver"] = "report" /\ pc'["receiver"] = "probe"
      BY <1>1, <2>1 DEF OnReport, TypeOK, Pollers
    <3>5. freeze > 0 => inEvac \/ "receiver" \in overtaken
      BY <1>1, <3>4 DEF FreezeSeen
    <3> QED
      BY <2>0, <3>2, <3>3, <3>4, <3>5 DEF Raced
  <2>2. CASE SetSeedAndClamp
    <3>1. btl' = btl \/ calibrated' # calibrated
      BY <2>2 DEF SetSeedAndClamp
    <3> QED
      BY <2>0, <3>1
  <2>3. CASE OnReportTimeout
    <3>1. UNCHANGED btl \/ stallDrops' = stallDrops + 1
      BY <2>3 DEF OnReportTimeout
    <3>2. UNCHANGED btl \/ stallDrops' # stallDrops
      BY <1>1, <3>1 DEF StalledOnce
    <3>3. reactor = "cut" /\ reactor' = "idle"
      BY <2>3 DEF OnReportTimeout
    <3>4. freeze > 0 => "reactor" \in overtaken
      BY <1>1, <3>3 DEF FreezeSeen
    <3> QED
      BY <2>0, <3>2, <3>3, <3>4 DEF Raced
  <2>4. CASE UNCHANGED btl
    BY <2>0, <2>4
  <2> QED
    BY <1>1, <2>1, <2>2, <2>3, <2>4
    DEF Next, Reports, Delays, BeginReport, ReadWindow, Handshake, StartPoll, SeeEdge, StartEvac,
        Poll, SendKeyframe, CountStalled, ReadFreeze, Tick, vars, estVars
<1>2. Init => StalledOnce /\ FreezeSeen
  BY DEF Init, StalledOnce, FreezeSeen
<1>3. Spec => [](StalledOnce /\ FreezeSeen)
  BY <1>2, StalledOnceStep, FreezeSeenStep, TypeAndRate, PTL DEF Spec
<1>4. [][Fall]_vars <=> RateFallsForAReason
  BY DEF RateFallsForAReason
<1> HIDE DEF Fall
<1> QED
  BY <1>1, <1>3, <1>4, TypeAndRate, PTL DEF Spec

(***************************************************************************)
(* One window for each deep drop.                                          *)
(***************************************************************************)

(* As long as the threads have not raced at most one of them is about to mark a *)
(* drop.  That drop is younger than the one marked last, no window has been     *)
(* opened for any drop younger than that one, and none is yet to come that the  *)
(* estimator has not counted.                                                   *)
WindowInv ==
    /\ \A t \in Pollers : edge[t] # 0 <=> pc[t] = "evac"
    /\ \A t \in Pollers : edge[t] <= drops
    /\ processed <= drops
    /\ ~raced =>
         /\ \A t, u \in Pollers : edge[t] # 0 /\ edge[u] # 0 => t = u
         /\ \A t \in Pollers : edge[t] # 0 => edge[t] > processed
         /\ \A n \in 1..MaxDrops : n > processed => evacs[n] = 0
         /\ \A n \in 1..MaxDrops : evacs[n] <= 1

(* A drop is noticed when no other is pending, marked when its window opens, and *)
(* new drops are younger than both.                                              *)
LEMMA WindowStep ==
    ASSUME TypeOK, WindowInv, [Next]_vars
    PROVE  WindowInv'
<1> USE DEF WindowInv, Pollers
<1>0. /\ drops \in Nat /\ processed \in Nat /\ MaxDrops \in Nat
      /\ edge \in [Pollers -> 0..MaxDrops] /\ evacs \in [1..MaxDrops -> Nat]
      /\ pc \in [Pollers -> {"idle", "report", "probe", "poll", "evac"} \cup Peers]
      /\ drops \in 0..MaxDrops
  BY RateAssumption DEF TypeOK
<1>1. ASSUME NEW p \in Peers, BeginReport(p)
      PROVE  WindowInv'
  <2>1. p # "evac"
    BY RateAssumption
  <2> QED
    BY <1>0, <1>1, <2>1 DEF BeginReport, estVars, evacVars, histVars
<1>2. ASSUME NEW s \in Signal, NEW d \in Delays, OnReport(s, d)
      PROVE  WindowInv'
  <2>1. Adjust(s, d, inEvac)
    BY <1>2 DEF OnReport
  <2>2. drops' = drops \/ drops' = drops + 1
    BY <2>1 DEF Adjust, Drop, Recover
  <2>3. UNCHANGED <<processed, edge, raced, evacs>>
    BY <1>2 DEF OnReport, evacVars
  <2>4. pc["receiver"] = "report" /\ pc' = [pc EXCEPT !["receiver"] = "probe"]
    BY <1>2 DEF OnReport
  <2> QED
    BY <1>0, <2>2, <2>3, <2>4
<1>3. CASE SetSeedAndClamp
  BY <1>0, <1>3 DEF SetSeedAndClamp, evacVars, histVars
<1>4. CASE StartPoll
  BY <1>0, <1>4 DEF StartPoll, estVars, evacVars, histVars
<1>5. ASSUME NEW t \in Pollers, SeeEdge(t)
      PROVE  WindowInv'
  <2>1. /\ pc[t] = "poll" /\ drops # processed
        /\ pc' = [pc EXCEPT ![t] = "evac"] /\ edge' = [edge EXCEPT ![t] = drops]
        /\ UNCHANGED <<drops, processed, evacs>>
        /\ ~raced' => ~raced /\ \A u \in Pollers : edge[u] = 0
    BY <1>5 DEF SeeEdge, IsEdge, estVars, evacVars
  <2> QED
    BY <1>0, <2>1
<1>6. ASSUME NEW t \in Pollers, StartEvac(t)
      PROVE  WindowInv'
  <2>1. /\ pc[t] = "evac"
        /\ pc' = [pc EXCEPT ![t] = "idle"] /\ edge' = [edge EXCEPT ![t] = 0]
        /\ processed' = edge[t] /\ UNCHANGED <<drops, raced>>
        /\ evacs' = IF raced THEN evacs ELSE [evacs EXCEPT ![edge[t]] = @ + 1]
    BY <1>6 DEF StartEvac, MarkProcessed, estVars
  <2>2. edge[t] \in 1..MaxDrops /\ edge[t] <= drops
    BY <1>0, <2>1
  <2>3. ASSUME ~raced
        PROVE  /\ edge[t] > processed /\ evacs[edge[t]] = 0
               /\ evacs' = [evacs EXCEPT ![edge[t]] = 1]
               /\ \A u \in Pollers : edge'[u] = 0
    <3>1. edge[t] > processed
      BY <2>2, <2>3
    <3>2. evacs[edge[t]] = 0
      BY <2>2, <2>3, <3>1
    <3>3. evacs' = [evacs EXCEPT ![edge[t]] = 1]
      BY <1>0, <2>1, <2>3, <3>2
    <3>4. \A u \in Pollers : edge[u] # 0 => u = t
      BY <2>2, <2>3
    <3>5. \A u \in Pollers : edge'[u] = 0
      BY <1>0, <2>1, <3>4
    <3> QED
      BY <3>1, <3>2, <3>3, <3>5
  <2> QED
    BY <1>0, <2>1, <2>2, <2>3
<1>7. ASSUME NEW t \in Pollers, Poll(t)
      PROVE  WindowInv'
  BY <1>0, <1>7 DEF Poll, estVars, histVars
<1>8. ASSUME NEW p \in Peers, ReadWindow(p)
      PROVE  WindowInv'
  <2>1. p # "evac"
    BY RateAssumption
  <2>2. UNCHANGED <<drops, processed, edge, raced, evacs>>
    BY <1>8 DEF ReadWindow, estVars, histVars
  <2>3. pc["receiver"] = p /\ pc' = [pc EXCEPT !["receiver"] = "report"]
    BY <1>8 DEF ReadWindow
  <2> QED
    BY <1>0, <2>1, <2>2, <2>3
<1>9. CASE UNCHANGED <<drops, processed, pc, edge, raced, evacs>>
  BY <1>9
<1> QED
  BY <1>1, <1>2, <1>3, <1>4, <1>5, <1>6, <1>7, <1>8, <1>9
  DEF Next, Reports, Delays, Handshake, SendKeyframe, CountStalled, ReadFreeze, OnReportTimeout,
      Tick, estVars, evacVars, histVars, threads, vars

(* A deep drop opens at most one window, as long as the two threads that poll the *)
(* capacity do not overlap between noticing a drop and marking it.                *)
THEOREM DropOpensOneWindow ==
    Spec => []OneWindowPerDrop
<1>1. Init => WindowInv
  BY RateAssumption DEF Init, WindowInv
<1>2. Spec => []WindowInv
  BY <1>1, WindowStep, TypeCorrect, PTL DEF Spec
<1>3. WindowInv => OneWindowPerDrop
  BY DEF WindowInv, OneWindowPerDrop
<1> QED
  BY <1>2, <1>3, PTL
=============================================================================
