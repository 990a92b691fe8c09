---------------------------- MODULE MCEcsWorker ----------------------------
(***************************************************************************)
(* Instances of EcsWorker for TLC: the submissions a run considers.        *)
(***************************************************************************)
EXTENDS EcsWorker

Ecs(origin, payload) == [origin |-> origin, backend |-> "ecs", payload |-> payload]

(* A request that may succeed or fail transiently, and messages that the   *)
(* worker handles in the other ways, from elsewhere.                       *)
Mixed == {Ecs("api", "valid"), Ecs("foreign", "invalid"), Ecs("foreign", "malformed")}

(* A request beside a message whose body is not an object.                 *)
Poisoned == {Ecs("api", "valid"), Ecs("foreign", "not_an_object")}
=============================================================================
