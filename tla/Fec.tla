-------------------------------- MODULE Fec --------------------------------
(***************************************************************************)
(* Forward error correction: how many parity fragments the Fragmenter adds *)
(* to a message (fragmenter.cpp), how ReedSolomon computes them and how it *)
(* recovers data fragments from them (fec.cpp), and the decision of        *)
(* Reassembler::try_assemble that calls it.                                *)
(*                                                                         *)
(* The code treats every byte position of the fragments alike, so a        *)
(* fragment is one byte here.  The field is the real GF(2^8).  Late ratios *)
(* are in thousandths.  One message at a time is encoded, loses any of its *)
(* fragments and is decoded, one column of the elimination per step.       *)
(***************************************************************************)
EXTENDS Integers, FiniteSets, SequencesExt, Bitwise

CONSTANTS
    Payloads,     \* messages: sequences of bytes, one per data fragment
    LateRatios,   \* late ratios a report may carry
    Extras,       \* channel_fec_extra of a channel
    Probes,       \* fec_probe_extra
    Losses,       \* bound: the sets of data fragments that may be lost, and
    MaxArrived    \* bound: how many parity fragments may arrive, of a message
                  \* with that number of data fragments

ASSUME FecAssumption ==
    /\ \A p \in Payloads : Len(p) \in 1..255 /\ \A i \in 1..Len(p) : p[i] \in 0..255
    /\ LateRatios \subseteq 0..1000 /\ Extras \subseteq Nat /\ Probes \subseteq Nat
    /\ \A p \in Payloads : (\A m \in Losses[Len(p)] : m \subseteq 1..Len(p)) /\ MaxArrived[Len(p)] \in Nat

-----------------------------------------------------------------------------
(* The field *)

\* One step of GfTables: twice x, reduced by the field polynomial 0x11D
Doubled == [x \in 1..255 |-> IF x < 128 THEN 2 * x ELSE (2 * x) ^^ 285]

\* What x is after i rounds of the loop in GfTables
Rounds[i \in 0..254] == IF i = 0 THEN 1 ELSE Doubled[Rounds[i - 1]]

\* GfTables::exp, without the second half that saves the code a modulo
Exp == [i \in 0..254 |-> Rounds[i]]

Power(i) == Exp[i % 255]

\* GfTables::log
Log == [x \in 1..255 |-> CHOOSE i \in 0..254 : Exp[i] = x]

gf_mul(a, b) == IF a = 0 \/ b = 0 THEN 0 ELSE Power(Log[a] + Log[b])

gf_inv(a) == Power(255 - Log[a])

gf_pow(a, e) ==
    CASE e = 0 -> 1
      [] e # 0 /\ a = 0 -> 0
      [] OTHER -> Power(Log[a] * e)

\* Mutant: the coefficients start at zero, so the first fragment is protected
\* by the first parity fragment only.
coef_FromZero(p, j) == gf_pow(j % 256, p)

\* Parity fragment p against data fragment j, both counted from 0
coef(p, j) == gf_pow((j + 1) % 256, p)

SumOf(f) == FoldLeft(LAMBDA s, x : s ^^ x, 0, f)

\* What parity fragment p of the data fragments d is, restricted to those in js
Combined(d, p, js) == SumOf([j \in 1..Len(d) |-> IF j \in js THEN gf_mul(coef(p, j - 1), d[j]) ELSE 0])

\* ReedSolomon::encode_into
Encoded(d, n) == [p \in 1..n |-> Combined(d, p - 1, 1..Len(d))]

-----------------------------------------------------------------------------
VARIABLES
    haveReport,  \* m_have_late_report
    late,        \* m_peer_late_ratio
    disabled,    \* m_fec_disable
    stage,       \* m_fec_stage
    phase,       \* of the message under way
    payload,     \* its data fragments, as sent
    parities,    \* its parity fragments
    got,         \* numbers of the data fragments that arrived
    gotParity,   \* numbers of the parity fragments that arrived, from 0
    a, syn, col, \* the equations being solved and the next column
    out          \* data fragments as recovered

report  == <<haveReport, late, disabled>>
message == <<payload, parities>>
arrived == <<got, gotParity>>
system  == <<a, syn, col>>
vars    == <<report, stage, phase, message, arrived, system, out>>

NoMessage == payload' = <<>> /\ parities' = <<>>
NoneYet   == got' = {} /\ gotParity' = {}
NoSystem  == a' = <<>> /\ syn' = <<>> /\ col' = 0

Init ==
    /\ haveReport = FALSE /\ late = 0 /\ disabled \in BOOLEAN /\ stage = 0
    /\ phase = "idle" /\ payload = <<>> /\ parities = <<>>
    /\ got = {} /\ gotParity = {}
    /\ a = <<>> /\ syn = <<>> /\ col = 0 /\ out = <<>>

-----------------------------------------------------------------------------
(* The Fragmenter *)

\* A report sets the late ratio, and a smoothed RTT beyond 200 ms or more than
\* 1 % of CE marks turn parity off altogether (handle_report).
Report ==
    /\ phase = "idle"
    /\ haveReport' = TRUE /\ late' \in LateRatios /\ disabled' \in BOOLEAN
    /\ UNCHANGED <<stage, phase, message, arrived, system, out>>

\* Mutant: the formula's stage is left at a ratio above the one that enters it.
NextStage_NoHysteresis(s, r) ==
    CASE s = 0 /\ r > 3    -> 1
      [] s = 1 /\ r > 12   -> 2
      [] s = 1 /\ r <= 0   -> 0
      [] s = 2 /\ r < 25   -> 1
      [] OTHER             -> s

NextStage(s, r) ==
    CASE s = 0 /\ r > 3    -> 1
      [] s = 1 /\ r > 12   -> 2
      [] s = 1 /\ r <= 0   -> 0
      [] s = 2 /\ r < 8    -> 1
      [] OTHER             -> s

\* A fifth of the data fragments, rounded up, which is at least one
ParityCap(n) == (n + 4) \div 5

\* compute_parity_count_for: the entropy formula of stage 2 gives something
\* between one and the cap.
StageParities(s, n) ==
    CASE s = 0 -> {0}
      [] s = 1 -> {1}
      [] s = 2 -> 1..ParityCap(n)

\* Parity fragments of a message of n data fragments before the extras
BaseParities(s, n) ==
    CASE disabled -> {0}
      [] ~disabled /\ ~haveReport -> {2}
      [] OTHER -> StageParities(s, n)

Least(m, n) == IF m < n THEN m ELSE n

\* Fragmenter::fragment_and_send
FragmentAndSend ==
    /\ phase = "idle"
    /\ stage' = IF disabled \/ ~haveReport THEN stage ELSE NextStage(stage, late)
    /\ \E d \in Payloads, extra \in Extras, probe \in Probes :
        \E base \in BaseParities(stage', Len(d)) :
            /\ payload' = d
            /\ parities' = Encoded(d, Least(base + extra + probe, Len(d)))
    /\ phase' = "sent"
    /\ UNCHANGED <<report, arrived, system, out>>

\* The network loses any of the fragments.
Arrive ==
    /\ phase = "sent"
    /\ \E m \in Losses[Len(payload)] : got' = (1..Len(payload)) \ m
    /\ gotParity' \in SUBSET (0..(Len(parities) - 1))
    /\ Cardinality(gotParity') <= MaxArrived[Len(payload)]
    /\ phase' = "arrived"
    /\ UNCHANGED <<report, stage, message, system, out>>

-----------------------------------------------------------------------------
(* Reassembler::try_assemble and ReedSolomon::decode *)

Missing == (1..Len(payload)) \ got

Ascending(s) == SetToSortSeq(s, <)

Kept == [j \in 1..Len(payload) |-> IF j \in got THEN payload[j] ELSE 0]

Whole ==
    /\ Missing = {}
    /\ out' = payload /\ phase' = "delivered"
    /\ UNCHANGED system

\* Too many are missing for the parity sent, or so far for the parity received.
Short ==
    /\ Cardinality(Missing) > Cardinality(gotParity)
    /\ phase' = IF Cardinality(Missing) > Len(parities) THEN "hopeless" ELSE "waiting"
    /\ UNCHANGED <<system, out>>

\* The first parity fragments that came are used, as many as are missing.
UsedParities == SubSeq(Ascending(gotParity), 1, Cardinality(Missing))

\* Mutant: what the fragments at hand contribute stays in the equations.
Syndrome_Raw(p) == parities[p + 1]

\* A parity fragment less what the fragments at hand contribute to it
Syndrome(p) == parities[p + 1] ^^ Combined(Kept, p, got)

SetUp ==
    /\ Missing # {} /\ Cardinality(Missing) <= Cardinality(gotParity)
    /\ a' = [r \in 1..Cardinality(Missing) |->
              [c \in 1..Cardinality(Missing) |-> coef(UsedParities[r], Ascending(Missing)[c] - 1)]]
    /\ syn' = [r \in 1..Cardinality(Missing) |-> Syndrome(UsedParities[r])]
    /\ col' = 1 /\ phase' = "solving"
    /\ UNCHANGED out

TryAssemble ==
    /\ phase = "arrived"
    /\ Whole \/ Short \/ SetUp
    /\ UNCHANGED <<report, stage, message, arrived>>

Pivots == {r \in col..Len(a) : a[r][col] # 0}

Singular ==
    /\ phase = "solving" /\ col <= Len(a) /\ Pivots = {}
    /\ phase' = "singular"
    /\ UNCHANGED <<report, stage, message, arrived, system, out>>

Swapped(f, r, s) == [f EXCEPT ![r] = f[s], ![s] = f[r]]

\* One column: bring the pivot up, make it 1, clear the column elsewhere.
Eliminate ==
    LET n     == Len(a)
        pivot == CHOOSE r \in Pivots : \A q \in Pivots : r <= q
        b     == Swapped(a, pivot, col)
        t     == Swapped(syn, pivot, col)
        inv   == gf_inv(b[col][col])
        row   == [j \in 1..n |-> gf_mul(b[col][j], inv)]
        value == gf_mul(t[col], inv)
    IN /\ phase = "solving" /\ col <= n /\ Pivots # {}
       /\ a' = [r \in 1..n |->
                 IF r = col THEN row ELSE [j \in 1..n |-> b[r][j] ^^ gf_mul(b[r][col], row[j])]]
       /\ syn' = [r \in 1..n |->
                 IF r = col THEN value ELSE t[r] ^^ gf_mul(b[r][col], value)]
       /\ col' = col + 1
       /\ UNCHANGED <<report, stage, phase, message, arrived, out>>

\* The unknowns have their values: fill them in and deliver.
FillIn ==
    /\ phase = "solving" /\ col > Len(a)
    /\ out' = [j \in 1..Len(payload) |->
                IF j \in got THEN payload[j]
                ELSE syn[CHOOSE c \in 1..Len(a) : Ascending(Missing)[c] = j]]
    /\ phase' = "delivered"
    /\ UNCHANGED <<report, stage, message, arrived, system>>

Decode == TryAssemble \/ Singular \/ Eliminate \/ FillIn

Finished == phase \in {"delivered", "hopeless", "waiting", "singular"}

NextMessage ==
    /\ Finished
    /\ phase' = "idle" /\ out' = <<>> /\ NoMessage /\ NoneYet /\ NoSystem
    /\ UNCHANGED <<report, stage>>

Next == Report \/ FragmentAndSend \/ Arrive \/ Decode \/ NextMessage

Spec == Init /\ [][Next]_vars

-----------------------------------------------------------------------------
(* Properties *)

\* A message that is delivered is the one that was sent, whichever fragments
\* were lost and whichever parity fragments stood in for them
\* (ReedSolomon::encode_into and decode).
DecodedExactly == phase = "delivered" => out = payload

\* The elimination fails only when the parity fragments it uses are not
\* consecutive, so never with a single data fragment missing and never with
\* parity fragments 0 to m - 1 at hand; with two missing only when 3, 5 or 17
\* divides the distance of the two it uses (coef and the pivot search in decode).
FailsOnlyWithGaps ==
    phase = "singular" =>
        LET first == UsedParities[1]
            final == UsedParities[Len(UsedParities)]
        IN /\ final - first >= Cardinality(Missing)
           /\ Cardinality(Missing) = 2 => \E d \in {3, 5, 17} : (final - first) % d = 0

\* The hysteresis of m_fec_stage works: a ratio that has just moved the stage
\* does not move it back with the next message.
StageSettles == [][stage' # stage => NextStage(stage', late) # stage]_vars

\* As many parity fragments as data fragments are missing are enough, whichever
\* they are (the comment above the elimination in fec.cpp, and try_assemble's).
\* The code does not have this property.
EnoughParitiesDecode == phase # "singular"
=============================================================================
