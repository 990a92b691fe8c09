--------------------------- MODULE MCLambdaWorker ---------------------------
(***************************************************************************)
(* Instances of LambdaWorker for TLC: the submissions a run considers.     *)
(***************************************************************************)
EXTENDS LambdaWorker

Lambda(origin, payload) == [origin |-> origin, backend |-> "lambda", payload |-> payload]

(* A request that may succeed or fail transiently, and a message that      *)
(* cannot succeed.                                                         *)
Neighbours == {Lambda("api", "valid"), Lambda("foreign", "malformed")}
=============================================================================
