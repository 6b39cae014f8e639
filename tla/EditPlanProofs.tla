--------------------------- MODULE EditPlanProofs ----------------------------
(***************************************************************************)
(* EditPlan for every source length, trim, padding and loss: the slack of  *)
(* approval, the two roundings and the tolerance of acceptance fit         *)
(* together.  The inductive invariant carries each stage's inequality to   *)
(* the stage that relies on it.                                            *)
(***************************************************************************)
EXTENDS EditPlan, TLAPS

Stages == {"source", "registered", "approved", "rendered", "accepted", "refused"}

Trims == [start : Nat, end : Nat]

Types ==
  /\ stage \in Stages
  /\ source \in Nat
  /\ registered \in Int
  /\ plan \in Trims
  /\ render \in [length : Int, faithful : BOOLEAN]

(* A tie included, a rounding moves a length by half a millisecond.        *)
Near(ms, length) == 10 * ms - length <= 5 /\ length - 10 * ms <= 5

(* What each stage leaves for the later ones.                              *)
Registration == stage # "source" => Near(registered, source)

Approval ==
  stage \notin {"source", "registered"} =>
    plan.start < plan.end /\ plan.end <= 10 * registered + 500

Rendering ==
  stage \in {"rendered", "accepted", "refused"} /\ render.faithful =>
    \E padding \in Paddings : render.length = Available + padding

IInv ==
  /\ Types
  /\ Registration
  /\ Approval
  /\ Rendering
  /\ ApprovedIsBuildable
  /\ AcceptedCoversPlan

(* round(duration, 3) on either side of a tie (media.py, probe).           *)
LEMMA RoundedNear ==
  ASSUME NEW length \in Int, NEW ms \in Rounded(length)
  PROVE  ms \in Int /\ Near(ms, length)
  BY DEF Rounded, Near, Abs

LEMMA AvailableType ==
  ASSUME source \in Nat, plan \in Trims
  PROVE  Available \in Nat
  BY DEF Available, Trims

(* However the plan exceeds the source, the source holds all of the trim   *)
(* but the slack and one rounding.                                         *)
LEMMA AvailableNearRequested ==
  ASSUME Types, Registration, Approval, Available > 0,
         stage \notin {"source", "registered"}
  PROVE  Available <= Requested /\ Requested - Available <= 505
  BY DEF Types, Trims, Registration, Approval, Near, Available, Requested

(* A faithful render of a millisecond or more matches, however it rounds.  *)
LEMMA FaithfulMatches ==
  ASSUME Types, Registration, Approval,
         stage \notin {"source", "registered"},
         Available >= 10,
         NEW padding \in Paddings, render.length = Available + padding,
         NEW ms \in Rounded(render.length)
  PROVE  ms > 0 /\ Matches(ms)
<1>1. padding \in Nat /\ padding <= 1495
  BY EditPlanAssumption, PaddingAssumption
<1>2. Available \in Nat /\ Requested \in Int
  BY AvailableType DEF Types, Trims, Requested
<1>3. ms \in Int /\ Near(ms, Available + padding)
  BY <1>1, <1>2, RoundedNear
<1>4. Available <= Requested /\ Requested - Available <= 505
  BY <1>2, AvailableNearRequested
<1>5. ms > 0
  BY <1>1, <1>2, <1>3 DEF Near
<1>6. Abs(10 * ms - Requested) <= 1500
  BY <1>1, <1>2, <1>3, <1>4 DEF Near, Abs
<1>7. Tolerance >= 75000 /\ Tolerance \in Int
  BY <1>2 DEF Tolerance
<1>8. Abs(10 * ms - Requested) \in Int
  BY <1>2, <1>3 DEF Abs
<1>9. Matches(ms)
  BY <1>6, <1>7, <1>8 DEF Matches
<1>10. QED
  BY <1>5, <1>9

(* What matches is short of the request by the tolerance and a rounding.   *)
LEMMA MatchCovers ==
  ASSUME Types, NEW ms \in Rounded(render.length), ms > 0, Matches(ms)
  PROVE  /\ 50 * (Requested - render.length) <= Tolerance + 250
         /\ render.length > 0
<1>1. render.length \in Int /\ Requested \in Int
  BY DEF Types, Trims, Requested
<1>2. ms \in Int /\ Near(ms, render.length)
  BY <1>1, RoundedNear
<1>3. Tolerance \in Int
  BY <1>1 DEF Tolerance
<1>4. 50 * (Requested - 10 * ms) <= Tolerance
  BY <1>1, <1>2, <1>3 DEF Matches, Abs
<1>5. QED
  BY <1>1, <1>2, <1>3, <1>4 DEF Near

LEMMA InitInv == Init => IInv
  BY EditPlanAssumption
  DEF Init, IInv, Types, Stages, Trims, NoTrim, NoRender, Registration,
      Approval, Rendering, ApprovedIsBuildable, AcceptedCoversPlan

LEMMA NextInv == IInv /\ [Next]_vars => IInv'
<1> SUFFICES ASSUME IInv, [Next]_vars
             PROVE  IInv'
  OBVIOUS
<1>1. CASE Register
  <2>1. registered' \in Int /\ Near(registered', source)
    BY <1>1, RoundedNear DEF Register, IInv, Types
  <2>2. QED
    BY <1>1, <2>1
    DEF Register, IInv, Types, Stages, Near, Registration, Approval,
        Rendering, ApprovedIsBuildable, AcceptedCoversPlan
<1>2. ASSUME NEW start \in Points, NEW end \in Points,
             Approve([start |-> start, end |-> end])
      PROVE  IInv'
  <2>1. start \in Nat /\ end \in Nat
    BY EditPlanAssumption
  <2>2. plan' \in Trims /\ plan'.start < plan'.end
                        /\ plan'.end <= 10 * registered + 500
    BY <1>2, <2>1 DEF Approve, ValidPlan, WithinSlackOf, Trims
  <2>3. QED
    BY <1>2, <2>2
    DEF Approve, IInv, Types, Stages, Near, Registration, Approval,
        Rendering, ApprovedIsBuildable, AcceptedCoversPlan
<1>3. CASE Render
  <2>1. Available \in Nat /\ Available' = Available
    BY <1>3, AvailableType DEF Render, IInv, Types, Available
  <2>2. render' \in [length : Int, faithful : BOOLEAN]
    <3>1. CASE \E padding \in Paddings :
                 render' = [length |-> Available + padding, faithful |-> TRUE]
      <4>1. PICK padding \in Paddings :
              render' = [length |-> Available + padding, faithful |-> TRUE]
        BY <3>1
      <4>2. Available + padding \in Int
        BY <2>1, EditPlanAssumption
      <4>3. QED
        BY <4>1, <4>2
    <3>2. CASE \E loss \in Losses :
                 render' = [length |-> Available - loss, faithful |-> FALSE]
      <4>1. PICK loss \in Losses :
              render' = [length |-> Available - loss, faithful |-> FALSE]
        BY <3>2
      <4>2. Available - loss \in Int
        BY <2>1, EditPlanAssumption
      <4>3. QED
        BY <4>1, <4>2
    <3>3. QED
      BY <1>3, <3>1, <3>2 DEF Render
  <2>3. render'.faithful =>
          \E padding \in Paddings : render'.length = Available' + padding
    BY <1>3, <2>1 DEF Render
  <2>4. QED
    BY <1>3, <2>2, <2>3
    DEF Render, IInv, Types, Stages, Near, Registration, Approval,
        Rendering, ApprovedIsBuildable, AcceptedCoversPlan
<1>4. CASE Accept
  <2>1. PICK ms \in Rounded(render.length) :
          stage' = IF ms > 0 /\ Matches(ms) THEN "accepted" ELSE "refused"
    BY <1>4 DEF Accept
  <2>2. /\ Available' = Available
        /\ Requested' = Requested /\ Tolerance' = Tolerance
    BY <1>4 DEF Accept, Available, Requested, Tolerance
  <2>3. Available \in Nat
    BY AvailableType DEF IInv, Types
  <2>4. ApprovedIsBuildable'
    <3> SUFFICES ASSUME stage' = "refused", render.faithful, Available >= 10
                 PROVE  FALSE
      BY <1>4, <2>2, <2>3 DEF Accept, ApprovedIsBuildable
    <3>1. PICK padding \in Paddings : render.length = Available + padding
      BY <1>4 DEF IInv, Rendering, Accept
    <3>2. ms > 0 /\ Matches(ms)
      BY <1>4, <3>1, FaithfulMatches DEF IInv, Accept
    <3>3. QED
      BY <2>1, <3>2
  <2>5. AcceptedCoversPlan'
    <3> SUFFICES ASSUME stage' = "accepted"
                 PROVE  /\ 50 * (Requested - render.length) <= Tolerance + 250
                        /\ render.length > 0
      BY <1>4, <2>2 DEF Accept, AcceptedCoversPlan
    <3>1. ms > 0 /\ Matches(ms)
      BY <2>1
    <3>2. QED
      BY <3>1, MatchCovers DEF IInv
  <2>6. Types' /\ Registration' /\ Approval' /\ Rendering'
    BY <1>4, <2>1, <2>2
    DEF Accept, IInv, Types, Stages, Near, Registration, Approval, Rendering
  <2>7. QED
    BY <2>4, <2>5, <2>6 DEF IInv
<1>5. CASE UNCHANGED vars
  BY <1>5
  DEF vars, IInv, Types, Registration, Approval, Rendering, Near, Available,
      ApprovedIsBuildable, AcceptedCoversPlan, Requested, Tolerance
<1>6. QED
  BY <1>1, <1>2, <1>3, <1>4, <1>5 DEF Next

LEMMA InvHolds == Spec => []IInv
  BY InitInv, NextInv, PTL DEF Spec

(* An approved trim of which the source holds a millisecond is never        *)
(* refused for its duration when the encoder was faithful, for every source *)
(* and plan (media.py, validate_plan_against_source against                 *)
(* validate_render_duration).                                               *)
THEOREM PlanBuildable == Spec => []ApprovedIsBuildable
<1>1. IInv => ApprovedIsBuildable
  BY DEF IInv
<1>2. QED
  BY <1>1, InvHolds, PTL

(* An accepted render lacks no more of its plan than the tolerance and one  *)
(* rounding, whatever an encoder did (media.py, validate_render_duration).  *)
THEOREM PlanCovered == Spec => []AcceptedCoversPlan
<1>1. IInv => AcceptedCoversPlan
  BY DEF IInv
<1>2. QED
  BY <1>1, InvHolds, PTL

=============================================================================
