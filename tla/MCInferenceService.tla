------------------------- MODULE MCInferenceService -------------------------
(***************************************************************************)
(* Instances of InferenceService for TLC: the submissions a run considers. *)
(***************************************************************************)
EXTENDS InferenceService

(* Everything the two producers can create.                                *)
AllKinds == PossibleSubmissions

(* One submission of each kind that differs in some step: the backend only *)
(* matters to a malformed message.                                         *)
DistinctKinds ==
    {s \in PossibleSubmissions : s.backend = "ecs" \/ s.payload = "malformed"}
=============================================================================
