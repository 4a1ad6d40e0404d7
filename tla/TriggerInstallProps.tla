-------------------------- MODULE TriggerInstallProps --------------------------
(***************************************************************************)
(* What installTrigger leaves behind, and one thing its comment says that  *)
(* does not hold of installs that overlap.                                 *)
(***************************************************************************)
EXTENDS TriggerInstall

OnePerDay == \A d \in 1..Days : Cardinality({t \in triggers : t.day = d}) = 1

(* "It is safe to re-run" (Scheduler.installTrigger): whatever was there,  *)
(* whatever earlier installs died of, an install that has the project to   *)
(* itself and ends well leaves one trigger for each day.                   *)
SoloInstallHeals ==
    \A x \in Install : solo[x] /\ pc[x] = "ok" => OnePerDay

(* "A half-installed set must not pass silently": when nobody is at work   *)
(* any more, and the install that ended last was content, each day has its *)
(* one trigger, though installs overlapped and others miscounted and threw.*)
(* (An install that stops half way, killed or thrown out of deleteTrigger, *)
(* can make up the count of those it overlaps with the wrong days; hence   *)
(* the exception.)                                                         *)
LastWordIsTrue ==
    /\ Busy = {}
    /\ latest = "ok"
    /\ \A x \in Install : pc[x] # "dead"
    => OnePerDay

-----------------------------------------------------------------------------
(* Scheduler.js: "re-running this can never create duplicate triggers".    *)
NoDuplicates == Busy = {} /\ latest # "none"
                   => \A s, t \in Alerts : s.day = t.day => s = t
===============================================================================
