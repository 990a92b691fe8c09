----------------------------- MODULE MCDelivery -----------------------------
(***************************************************************************)
(* Instances of Delivery for TLC: the test cases a run considers.          *)
(***************************************************************************)
EXTENDS Delivery

EcsOnly == <<"ecs-fargate">>
=============================================================================
