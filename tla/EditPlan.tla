------------------------------ MODULE EditPlan -------------------------------
(***************************************************************************)
(* One trim on its way from the registered source to the accepted master   *)
(* (media.py): the duration ffprobe reports, rounded to milliseconds; the  *)
(* plan approved against it; the render; the check of its duration.        *)
(* Lengths are tenths of a millisecond, except what probe returned, which  *)
(* is milliseconds.  A rounding tie may go either way: it is a float's.    *)
(***************************************************************************)
EXTENDS Integers

CONSTANTS Lengths,     \* of sources, in tenths of a millisecond
          Points,      \* where a trim may start or end
          Paddings,    \* what codec frames add to a render
          Losses       \* what a render cut short lacks

ASSUME EditPlanAssumption ==
  Lengths \cup Points \cup Paddings \cup Losses \subseteq Nat

(* The fixed tolerance less one rounding: more than the longest codec frame *)
(* of ordinary footage, less than a video frame at six frames a second.    *)
ASSUME PaddingAssumption == \A padding \in Paddings : padding <= 1495

VARIABLES stage,       \* how far the trim got
          source,      \* the source's length
          registered,  \* its probed duration
          plan,        \* the approved trim
          render       \* its length, and whether the encoder was faithful

vars == <<stage, source, registered, plan, render>>

NoTrim == [start |-> 0, end |-> 0]
NoRender == [length |-> 0, faithful |-> TRUE]

Init ==
  /\ stage = "source"
  /\ source \in Lengths
  /\ registered = 0
  /\ plan = NoTrim
  /\ render = NoRender

Abs(x) == IF x < 0 THEN -x ELSE x

(* round(float(duration), 3) *)
Rounded(length) ==
  {ms \in {length \div 10, length \div 10 + 1} : 2 * Abs(10 * ms - length) <= 10}

Register ==
  /\ stage = "source"
  /\ registered' \in Rounded(source)
  /\ stage' = "registered"
  /\ UNCHANGED <<source, plan, render>>

WithinSlackOf(p, ms, slack) == p.end <= 10 * ms + slack

(* validate_plan, validate_plan_against_source *)
ValidPlanAnywhere(p) == p.start < p.end

ValidPlan(p) == p.start < p.end /\ WithinSlackOf(p, registered, 500)

Approve(p) ==
  /\ stage = "registered"
  /\ ValidPlan(p)
  /\ plan' = p
  /\ stage' = "approved"
  /\ UNCHANGED <<source, registered, render>>

(* What the source holds of the trim. *)
Available ==
  LET end == IF plan.end < source THEN plan.end ELSE source
  IN IF end > plan.start THEN end - plan.start ELSE 0

Render ==
  /\ stage = "approved"
  /\ \/ \E padding \in Paddings :
          render' = [length |-> Available + padding, faithful |-> TRUE]
     \/ \E loss \in Losses :
          /\ loss < Available
          /\ render' = [length |-> Available - loss, faithful |-> FALSE]
  /\ stage' = "rendered"
  /\ UNCHANGED <<source, registered, plan>>

Requested == plan.end - plan.start

(* max(0.15, 2%) of the requested range, in fiftieths of a tenth.          *)
Tolerance == IF Requested > 75000 THEN Requested ELSE 75000

NotTooLong(ms) == 50 * (10 * ms - Requested) <= Tolerance

Matches(ms) == 50 * Abs(10 * ms - Requested) <= Tolerance

(* technical_checks: a positive duration; validate_render_duration.        *)
Accept ==
  /\ stage = "rendered"
  /\ \E ms \in Rounded(render.length) :
       stage' = IF ms > 0 /\ Matches(ms) THEN "accepted" ELSE "refused"
  /\ UNCHANGED <<source, registered, plan, render>>

Next ==
  \/ Register
  \/ \E start \in Points, end \in Points : Approve([start |-> start, end |-> end])
  \/ Render
  \/ Accept

Spec == Init /\ [][Next]_vars

-----------------------------------------------------------------------------
(* Properties *)

(* Approving is final, so a plan of at least a millisecond of the source   *)
(* has a render that is accepted: slack, both roundings and the padding of *)
(* codecs add up to less than the tolerance.                               *)
ApprovedIsBuildable ==
  stage = "refused" => ~render.faithful \/ Available < 10

(* What is accepted lacks no more of the approved range than the tolerance *)
(* and one rounding, although its length was compared with a range that    *)
(* may exceed the source.                                                  *)
AcceptedCoversPlan ==
  stage = "accepted" => /\ 50 * (Requested - render.length) <= Tolerance + 250
                        /\ render.length > 0

(* architecture.md: "its end time cannot exceed the registered source      *)
(* duration".                                                              *)
PlanEndsInSource ==
  stage # "source" => plan.end <= 10 * registered

=============================================================================
