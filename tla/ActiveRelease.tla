---------------------------- MODULE ActiveRelease ----------------------------
(***************************************************************************)
(* What the release installer promises the launcher: one active release,   *)
(* one fallback, and an atomic switch that can be taken back while the new *)
(* release is on probation.  0 is the factory application.                 *)
(***************************************************************************)
EXTENDS Naturals

VARIABLES active, fallback, probation

Init == active = 0 /\ fallback = 0 /\ probation = FALSE

\* The release that is active becomes the fallback of the switch to come.
Prepare ==
  /\ ~probation
  /\ fallback' = active
  /\ UNCHANGED <<active, probation>>

Activate ==
  /\ ~probation
  /\ fallback = active
  /\ active' > active
  /\ probation' = TRUE
  /\ UNCHANGED fallback

RollBack ==
  /\ probation
  /\ active' = fallback
  /\ probation' = FALSE
  /\ UNCHANGED fallback

\* Probation ends with the new release in place: it passed its health check, or
\* the device lost power before the verdict, or the rollback could not re-point
\* the link.
Settle ==
  /\ probation
  /\ probation' = FALSE
  /\ UNCHANGED <<active, fallback>>

Next == Prepare \/ Activate \/ RollBack \/ Settle

Spec == Init /\ [][Next]_<<active, fallback, probation>>
=============================================================================
