----------------------------- MODULE MCRelease ------------------------------
(* Two commits declare the version; the first is tagged twice, once under  *)
(* another name.  The third still declares another version.                *)
EXTENDS ReleaseRun

CONSTANTS c1, c2, c3, t1, t2, t3, u1

MCTarget ==
  [t \in TagObjects |-> CASE t = t2 -> c2 [] t = t3 -> c3 [] OTHER -> c1]

MCNamed == [t \in TagObjects |-> t # u1]

(* Everything but CI going wrong; and CI in every order, for one push.      *)
MCScenes ==
  {[refs |-> {t1, t2, t3, u1, c1}, pushes |-> 3, ci |-> 0, lapses |-> 1,
    faults |-> 2],
   [refs |-> {t1, t3}, pushes |-> 1, ci |-> 2, lapses |-> 0, faults |-> 0]}

MCDeclares == [c \in Commits |-> c # c3]

=============================================================================
