----------------------------- MODULE RateControl -----------------------------
(***************************************************************************)
(* The sender's rate control: BandwidthEstimator (on_report,               *)
(* on_report_timeout, set_seed_and_clamp), the stall detection of          *)
(* check_report_timeouts, and the evacuation windows that                  *)
(* video_capacity_bps opens and closes after a deep drop.                  *)
(*                                                                         *)
(* Rates are integers in an arbitrary unit and factors are percentages.    *)
(* The ratios of a report are per mille; late stands for the larger of the *)
(* late and the loss ratio, since the code only ever uses that maximum.    *)
(* The smoothed queueing delay is kept as the class of its value against   *)
(* the two thresholds.  Time is counted in ticks.                          *)
(***************************************************************************)
EXTENDS Integers, FiniteSets

CONSTANTS
    Peers,
    MinBtl,          \* kMinBtlBps
    Seed,            \* initial_bandwidth_bytes, at least MinBtl
    LateRatios,      \* late (or loss) ratios a report may carry, per mille
    CeRatios,        \* CE ratios a report may carry, per mille
    RecvRates,       \* receive rates a report may carry (0: none)
    ProbeRates,      \* probe results a report may carry, already divided by 8
    SlowTicks,       \* slowdown_window_ms
    FreezeTicks,     \* kEvacFreezeTotal
    HoldTicks,       \* kKeyframeHoldTotal
    TimeoutTicks,    \* 3 report intervals
    MaxDrops         \* bound: deep drops

ASSUME RateAssumption ==
    /\ Peers \cap {"idle", "report", "probe", "poll", "evac"} = {}
    /\ MinBtl \in Nat \ {0} /\ Seed \in Nat /\ Seed >= MinBtl
    /\ LateRatios \subseteq 0..1000 /\ CeRatios \subseteq 0..1000
    /\ RecvRates \subseteq Nat /\ ProbeRates \subseteq Nat
    /\ SlowTicks \in Nat \ {0} /\ FreezeTicks \in Nat \ {0}
    /\ HoldTicks \in Nat /\ TimeoutTicks \in Nat \ {0}
    /\ MaxDrops \in Nat

\* Thresholds and factors of bandwidth.hpp and transport.cpp.
LateThreshold   == 20
CeThreshold     == 10
RecoverLate     == 5
ProbeExtra      == 2
EvacTrigger     == 80
EvacFastMax     == 60
CongestFactor   == 50

VARIABLES
    \* BandwidthEstimator
    btl,           \* m_btl_bw
    step,          \* m_recover_step
    probe,         \* m_fec_probe_extra
    stall,         \* m_report_stall
    calibrated,    \* m_seed_calibrated
    delay,         \* class of m_delay_ewma
    congested,     \* m_congested
    drops,         \* m_last_congest_at: number of the latest deep drop, 0 for none
    factor,        \* m_last_congest_factor
    dropAge,       \* ticks since that drop
    \* evacuation state of the transport
    mode,          \* m_evac_mode: 0 none, 1 fast, 2 slow
    kfSent,        \* m_evac_keyframe_sent
    freeze,        \* ticks until m_evac_freeze_until_ns (0: past or unset)
    frozen,        \* m_evac_freeze_until_ns is not 0
    slowLeft,      \* ticks until m_evac_slow_deadline
    processed,     \* m_evac_processed_cong
    \* report bookkeeping per peer
    have,          \* m_have_late_report
    silence,       \* ticks since m_last_report_at, at most TimeoutTicks
    \* threads
    pc,            \* what the receiver thread and the application are doing
    inEvac,        \* in_evac, as handle_report has read it
    edge,          \* the drop each of them has read as unprocessed
    reactor,       \* where the reactor is in check_report_timeouts
    \* history, for the properties only
    stallDrops,    \* stall drops since the last report
    overtaken,     \* threads that have read that no freeze runs, and one was set since
    raced,         \* a thread has seen a drop while the other was about to mark one
    evacs          \* evacuations started for each drop, as long as ~raced

estVars  == <<btl, step, probe, stall, calibrated, delay, congested, drops, factor, dropAge>>
evacVars == <<mode, kfSent, freeze, frozen, slowLeft, processed>>
threads  == <<pc, inEvac, edge, reactor>>
histVars == <<stallDrops, overtaken, raced, evacs>>
vars     == <<estVars, evacVars, have, silence, threads, histVars>>

Pollers == {"receiver", "app"}

Init ==
    /\ btl = Seed /\ step = 0 /\ probe = 0 /\ stall = FALSE /\ calibrated = FALSE
    /\ delay = "low" /\ congested = FALSE /\ drops = 0 /\ factor = 100 /\ dropAge = 0
    /\ mode = 0 /\ kfSent = FALSE /\ freeze = 0 /\ frozen = FALSE /\ slowLeft = 0
    /\ processed = 0
    /\ have = [p \in Peers |-> FALSE]
    /\ silence = [p \in Peers |-> TimeoutTicks]
    /\ pc = [t \in Pollers |-> "idle"] /\ edge = [t \in Pollers |-> 0]
    /\ inEvac = FALSE /\ reactor = "idle"
    /\ stallDrops = 0 /\ overtaken = {} /\ raced = FALSE
    /\ evacs = [d \in 1..MaxDrops |-> 0]

Larger(a, b)  == IF a >= b THEN a ELSE b
Smaller(a, b) == IF a <= b THEN a ELSE b

-----------------------------------------------------------------------------
(* BandwidthEstimator *)

Signal == [late : LateRatios, ce : CeRatios, pacer : BOOLEAN, over : BOOLEAN, recv : RecvRates]

\* EWMA of the queueing delay: one report cannot bring it from above 20 ms to
\* below 10 ms, everything else can happen.
DelayStep(d) == d \in {"low", "mid", "high"} /\ ~(delay = "high" /\ d = "low")

Congested(s, d) ==
    \/ d = "high" /\ ~s.pacer
    \/ s.late > LateThreshold /\ ~s.pacer
    \/ s.ce > CeThreshold

Recovered(s, d) == d = "low" /\ s.late < RecoverLate /\ ~s.pacer

Strength(s) == IF s.pacer THEN s.ce ELSE Larger(s.late, s.ce)

\* The table kCongestTier1..4.
TierFactor(x) ==
    CASE x >= 500 -> 50
      [] x >= 200 /\ x < 500 -> 65
      [] x >= 50 /\ x < 200 -> 75
      [] OTHER -> 90

\* Mutant: the floor is forgotten.
Lowered_NoFloor(f) == (btl * f) \div 100

Lowered(f) == Larger((btl * f) \div 100, MinBtl)

\* One recovery step: half as much again, up to the seed and, when the pacer is
\* not limiting, up to 1.2 times what the peer receives.
Raised(s) ==
    LET cap == IF s.recv > 0 /\ ~s.pacer
               THEN Smaller(Seed, Larger(btl, (s.recv * 12) \div 10)) ELSE Seed
    IN  Larger(Smaller((btl * 3) \div 2, cap), MinBtl)

Drop(s) ==
    LET f == TierFactor(Strength(s)) IN
    /\ btl' = Lowered(f)
    /\ step' = 0 /\ probe' = 0
    /\ IF f <= EvacTrigger
       THEN drops < MaxDrops /\ drops' = drops + 1 /\ factor' = f /\ dropAge' = 0
       ELSE UNCHANGED <<drops, factor, dropAge>>

\* Mutant: after the second step the recovery stays there.
Recover_Stuck(s) ==
    /\ UNCHANGED <<drops, factor, dropAge>>
    /\ \/ step = 0 /\ btl' = Raised(s) /\ step' = 1
          /\ probe' = IF s.ce < CeThreshold THEN ProbeExtra ELSE 0
       \/ step = 1 /\ btl' = Raised(s) /\ step' = 2 /\ probe' = 0
       \/ step = 2 /\ UNCHANGED <<btl, step, probe>>

\* Mutant: the third step does not start over.
Recover_NoWrap(s) ==
    /\ UNCHANGED <<drops, factor, dropAge>>
    /\ IF step = 0 /\ s.ce < CeThreshold THEN probe' = ProbeExtra ELSE probe' = 0
    /\ step' = step + 1
    /\ btl' = Raised(s)

Recover(s) ==
    /\ UNCHANGED <<drops, factor, dropAge>>
    /\ \/ step = 0 /\ btl' = Raised(s) /\ step' = 1
          /\ probe' = IF s.ce < CeThreshold THEN ProbeExtra ELSE 0
       \/ step = 1 /\ btl' = Raised(s) /\ step' = 2 /\ probe' = 0
       \/ step = 2 /\ step' = 0 /\ UNCHANGED <<btl, probe>>

\* on_report once the delay class d is known.
Adjust(s, d, evac) ==
    \/ Congested(s, d) /\ ~evac /\ s.over /\ Drop(s)
    \/ ~Congested(s, d) /\ ~evac /\ (s.pacer \/ Recovered(s, d)) /\ Recover(s)
    \/ /\ \/ evac
          \/ Congested(s, d) /\ ~s.over
          \/ ~Congested(s, d) /\ ~s.pacer /\ ~Recovered(s, d)
       /\ UNCHANGED <<btl, step, probe, drops, factor, dropAge>>

-----------------------------------------------------------------------------
(* The receiver thread: handle_report *)

\* Report::handle notes that the peer has reported; m_last_report_at follows
\* later, under a lock of its own.
BeginReport(p) ==
    /\ pc["receiver"] = "idle"
    /\ pc' = [pc EXCEPT !["receiver"] = p]
    /\ have' = [have EXCEPT ![p] = TRUE]
    /\ UNCHANGED <<estVars, evacVars, silence, inEvac, edge, reactor, histVars>>

InWindow(m) == (m = 2 /\ slowLeft > 0) \/ freeze > 0

\* handle_report up to the estimator: the peer's silence ends, a fast window
\* whose keyframe went out ends, and the thread reads whether a window is open.
ReadWindow(p) ==
    LET done == mode = 1 /\ kfSent
        m    == IF done THEN 0 ELSE mode
    IN
    /\ pc["receiver"] = p
    /\ pc' = [pc EXCEPT !["receiver"] = "report"]
    /\ silence' = [silence EXCEPT ![p] = 0]
    /\ mode' = m
    /\ kfSent' = IF done THEN FALSE ELSE kfSent
    /\ inEvac' = InWindow(m)
    /\ UNCHANGED <<estVars, freeze, frozen, slowLeft, processed, have, edge, reactor, histVars>>

\* BandwidthEstimator::on_report, with what was read before.
OnReport(s, d) ==
    /\ pc["receiver"] = "report"
    /\ pc' = [pc EXCEPT !["receiver"] = "probe"]
    /\ s.recv = 0 => s.over
    /\ DelayStep(d)
    /\ stall' = FALSE
    /\ delay' = d
    /\ congested' = Congested(s, d)
    /\ Adjust(s, d, inEvac)
    /\ stallDrops' = 0
    /\ inEvac' = FALSE
    /\ overtaken' = overtaken \ {"receiver"}
    /\ UNCHANGED <<calibrated, evacVars, have, silence, edge, reactor, raced, evacs>>

Clamped(r) == Smaller(btl, Larger(r, 1))

\* set_seed_and_clamp, when the report carries a probe result; then the thread
\* turns to notify_video_capacity.
SetSeedAndClamp ==
    /\ pc["receiver"] = "probe"
    /\ pc' = [pc EXCEPT !["receiver"] = "poll"]
    /\ \/ UNCHANGED <<btl, calibrated>>
       \/ \E r \in ProbeRates : ~calibrated /\ calibrated' = TRUE /\ btl' = Clamped(r)
    /\ UNCHANGED <<step, probe, stall, delay, congested, drops, factor, dropAge, evacVars, have,
                   silence, inEvac, edge, reactor, histVars>>

-----------------------------------------------------------------------------
(* video_capacity_bps, on the receiver thread and on the application's *)

StartPoll ==
    /\ pc["app"] = "idle"
    /\ pc' = [pc EXCEPT !["app"] = "poll"]
    /\ UNCHANGED <<estVars, evacVars, have, silence, inEvac, edge, reactor, histVars>>

IsEdge == drops # processed /\ dropAge < SlowTicks

\* A drop not yet processed is noticed.
SeeEdge(t) ==
    /\ pc[t] = "poll" /\ IsEdge
    /\ pc' = [pc EXCEPT ![t] = "evac"]
    /\ edge' = [edge EXCEPT ![t] = drops]
    /\ raced' = (raced \/ \E u \in Pollers : edge[u] # 0)
    /\ UNCHANGED <<estVars, evacVars, have, silence, inEvac, reactor, stallDrops, overtaken, evacs>>

\* Mutant: the drop is not marked as processed.
MarkProcessed_Not(t) == processed

MarkProcessed(t) == edge[t]

\* The threads that are about to move the rate, having read that no freeze runs.
Overtaken ==
    {t \in {"receiver", "reactor"} :
        IF t = "receiver" THEN pc[t] = "report" /\ ~inEvac ELSE reactor = "cut"}

\* The window is opened: clear the queues, reset the token debt, freeze and ask
\* for a keyframe (fast), or take the snapshot and set the deadline (slow).
StartEvac(t) ==
    /\ pc[t] = "evac"
    /\ pc' = [pc EXCEPT ![t] = "idle"]
    /\ edge' = [edge EXCEPT ![t] = 0]
    /\ \/ /\ factor <= EvacFastMax
          /\ kfSent' = FALSE /\ freeze' = FreezeTicks /\ frozen' = TRUE /\ mode' = 1
          /\ overtaken' = overtaken \cup Overtaken
          /\ UNCHANGED slowLeft
       \/ /\ factor > EvacFastMax
          /\ slowLeft' = SlowTicks /\ mode' = 2
          /\ UNCHANGED <<kfSent, freeze, frozen, overtaken>>
    /\ processed' = MarkProcessed(t)
    /\ evacs' = IF raced THEN evacs ELSE [evacs EXCEPT ![edge[t]] = @ + 1]
    /\ UNCHANGED <<estVars, have, silence, inEvac, reactor, stallDrops, raced>>

EndOfFast ==
    /\ mode' = IF kfSent THEN mode ELSE 0
    /\ UNCHANGED slowLeft

\* No edge: look after the window that is open.
Poll(t) ==
    /\ pc[t] = "poll" /\ ~IsEdge
    /\ pc' = [pc EXCEPT ![t] = "idle"]
    /\ \/ /\ mode = 1 /\ frozen /\ freeze = 0
          /\ frozen' = FALSE
          /\ EndOfFast
       \/ /\ mode = 2 /\ slowLeft = 0
          /\ mode' = 0
          /\ UNCHANGED <<frozen, slowLeft>>
       \/ /\ ~(mode = 1 /\ frozen /\ freeze = 0) /\ ~(mode = 2 /\ slowLeft = 0)
          /\ UNCHANGED <<mode, frozen, slowLeft>>
    /\ UNCHANGED <<estVars, kfSent, freeze, processed, have, silence, inEvac, edge, reactor,
                   histVars>>

\* send_message of a keyframe.
SendKeyframe ==
    /\ mode = 1
    /\ kfSent' = TRUE
    /\ freeze' = Larger(freeze, HoldTicks)
    /\ frozen' = TRUE
    /\ overtaken' = overtaken \cup Overtaken
    /\ UNCHANGED <<estVars, mode, slowLeft, processed, have, silence, threads, stallDrops, raced,
                   evacs>>

-----------------------------------------------------------------------------
(* The reactor: check_report_timeouts *)

Stalled(p) == have[p] /\ silence[p] >= TimeoutTicks

StallDrop ==
    /\ ~stall
    /\ btl' = Larger((btl * CongestFactor) \div 100, MinBtl)
    /\ stall' = TRUE /\ step' = 0 /\ probe' = 0

\* Mutant: the freeze is not looked at.
NotFrozen_Always == TRUE

NotFrozen == freeze = 0

\* The stalled peers are counted under the peers' lock ...
CountStalled ==
    /\ reactor = "idle"
    /\ Peers # {} /\ \A p \in Peers : Stalled(p)
    /\ reactor' = "stalled"
    /\ UNCHANGED <<estVars, evacVars, have, silence, pc, inEvac, edge, histVars>>

\* ... the freeze is read after it is released ...
ReadFreeze ==
    /\ reactor = "stalled"
    /\ reactor' = IF NotFrozen THEN "cut" ELSE "idle"
    /\ UNCHANGED <<estVars, evacVars, have, silence, pc, inEvac, edge, histVars>>

\* ... and on_report_timeout cuts the rate, unless this stall has done so before.
OnReportTimeout ==
    /\ reactor = "cut"
    /\ reactor' = "idle"
    /\ \/ StallDrop /\ stallDrops' = stallDrops + 1
       \/ stall /\ UNCHANGED <<btl, stall, step, probe, stallDrops>>
    /\ overtaken' = overtaken \ {"reactor"}
    /\ UNCHANGED <<calibrated, delay, congested, drops, factor, dropAge, evacVars, have, silence,
                   pc, inEvac, edge, raced, evacs>>

\* handle_handshake or handle_handshake_ack on a known peer: m_last_report_at is
\* set to the clock's epoch, which is as long ago as can be.
Handshake(p) ==
    /\ pc["receiver"] = "idle"
    /\ silence' = [silence EXCEPT ![p] = TimeoutTicks]
    /\ UNCHANGED <<estVars, evacVars, have, threads, histVars>>

Older(n)  == IF n < TimeoutTicks THEN n + 1 ELSE n
Sooner(n) == IF n > 0 THEN n - 1 ELSE 0

Tick ==
    /\ freeze' = Sooner(freeze) /\ slowLeft' = Sooner(slowLeft)
    /\ dropAge' = IF dropAge < SlowTicks THEN dropAge + 1 ELSE dropAge
    /\ silence' = [p \in Peers |-> Older(silence[p])]
    /\ UNCHANGED <<btl, step, probe, stall, calibrated, delay, congested, drops, factor, mode,
                   kfSent, frozen, processed, have, threads, histVars>>

-----------------------------------------------------------------------------
Reports == \E s \in Signal, d \in {"low", "mid", "high"} : OnReport(s, d)

Next ==
    \/ \E p \in Peers : BeginReport(p) \/ ReadWindow(p) \/ Handshake(p)
    \/ Reports
    \/ SetSeedAndClamp
    \/ StartPoll
    \/ \E t \in Pollers : SeeEdge(t) \/ StartEvac(t) \/ Poll(t)
    \/ SendKeyframe
    \/ CountStalled \/ ReadFreeze \/ OnReportTimeout
    \/ Tick

Spec == Init /\ [][Next]_vars

\* The receiver thread, as long as reports keep coming.
ReceiverThread ==
    \/ \E p \in Peers : BeginReport(p) \/ ReadWindow(p)
    \/ Reports \/ SetSeedAndClamp
    \/ SeeEdge("receiver") \/ StartEvac("receiver") \/ Poll("receiver")

(* Reports keep coming, each is handled to its end, and time passes. *)
Fairness == WF_vars(ReceiverThread) /\ WF_vars(Tick)

FairSpec == Spec /\ Fairness

-----------------------------------------------------------------------------
(* Properties *)

\* Every variable keeps its type: in particular the recovery step counter of
\* bandwidth.cpp wraps before its third step.
TypeOK ==
    /\ btl \in Nat /\ step \in 0..2 /\ probe \in {0, ProbeExtra}
    /\ stall \in BOOLEAN /\ calibrated \in BOOLEAN /\ congested \in BOOLEAN
    /\ delay \in {"low", "mid", "high"}
    /\ drops \in 0..MaxDrops /\ factor \in {50, 65, 75, 100} /\ dropAge \in 0..SlowTicks
    /\ mode \in 0..2 /\ kfSent \in BOOLEAN /\ frozen \in BOOLEAN
    /\ freeze \in 0..Larger(FreezeTicks, HoldTicks) /\ slowLeft \in 0..SlowTicks
    /\ processed \in 0..MaxDrops
    /\ have \in [Peers -> BOOLEAN] /\ silence \in [Peers -> 0..TimeoutTicks]
    /\ pc \in [Pollers -> {"idle", "report", "probe", "poll", "evac"} \cup Peers]
    /\ inEvac \in BOOLEAN /\ reactor \in {"idle", "stalled", "cut"}
    /\ overtaken \subseteq {"receiver", "reactor"}
    /\ edge \in [Pollers -> 0..MaxDrops] /\ stallDrops \in Nat /\ raced \in BOOLEAN
    /\ evacs \in [1..MaxDrops -> Nat]

(* Whatever reports, stalls, probes and windows do in whatever order, the rate *)
(* stays at or below the configured seed, above zero, and at or above          *)
(* kMinBtlBps as long as no probe has clamped it.                              *)
RateInBounds == btl \in 1..Seed /\ (~calibrated => btl >= MinBtl)

\* The thread whose step moves the rate had read the freeze before one was set.
Raced == \/ pc'["receiver"] # pc["receiver"] /\ "receiver" \in overtaken
         \/ reactor' # reactor /\ "reactor" \in overtaken

(* The rate falls for a reason and once for each: a report that finds the link *)
(* congested (however low the receive rate of a calm one), a stall, or the     *)
(* start-up probe.  A stall lowers it once, a second cut needs a report in     *)
(* between (tight_design.md).  While the freeze of a fast window runs only the *)
(* probe moves it, but for one race: handle_report and check_report_timeouts   *)
(* read the freeze before they move the rate, and a thread that sets the       *)
(* freeze in between comes too late.                                           *)
RateFallsForAReason ==
    [][/\ btl' < btl => \/ calibrated' # calibrated
                        \/ congested' /\ pc'["receiver"] # pc["receiver"]
                        \/ stallDrops' # stallDrops
       /\ stallDrops' <= 1
       /\ freeze > 0 => btl' = btl \/ calibrated' # calibrated \/ Raced]_vars

(* Every deep drop opens at most one window, unless a thread notices one while   *)
(* the other is still about to mark one (m_evac_processed_cong, which nothing    *)
(* guards): the two may then hold the same drop, and a thread that marks an      *)
(* older drop last makes the younger one look new again.                         *)
OneWindowPerDrop == ~raced => \A d \in 1..MaxDrops : evacs[d] <= 1

\* What the receive rates in use let the rate climb to.
Target == CHOOSE t \in 0..Seed :
            /\ \A r \in RecvRates \ {0} : t <= (r * 12) \div 10
            /\ t = Seed \/ \E r \in RecvRates \ {0} : t = (r * 12) \div 10

(* When from some point on every report finds the link clear, the rate climbs   *)
(* back as far as the receive rates let it, to the seed at most, through        *)
(* windows, roundings and the pause after two steps.  (For reports without an   *)
(* intermediate late ratio.)                                                   *)
RateRecovers == <>[](~congested /\ delay = "low" /\ ~stall) => <>[](btl >= Target)
=============================================================================
