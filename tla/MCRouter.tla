------------------------------ MODULE MCRouter ------------------------------
(***************************************************************************)
(* Instances of Router for TLC: the events a run considers.  One feature   *)
(* and two steps stand for eight and 365; every length and step count next *)
(* to a limit occurs.                                                      *)
(***************************************************************************)
EXTENDS Router

Lists(lengths, items) == [type: {"list"}, len: lengths, item: items]
Strings == [type: {"str"}, len: 0..2, item: {"numeral", "text", "unstorable"}]
Other == [type |-> "other", len |-> 0, item |-> "number"]

FeatureValues == {NoVector, Other} \cup Strings \cup Lists(0..2, Items)
StepValues ==
    {NoSteps, [type |-> "text", n |-> 0], [type |-> "infinite", n |-> 0]}
        \cup [type: {"whole"}, n: -1..(MaxSteps + 1)]
ExogValues ==
    {NoVector, Other} \cup Strings \cup Lists(0..(MaxSteps + 1), Items)

TabularBodies ==
    {[EmptyBody EXCEPT !.features = f, !.pred_x_csv = c, !.weights = w] :
        f \in FeatureValues, c \in {NoVector, Other} \cup Strings, w \in FeatureValues}
ForecastBodies ==
    {[EmptyBody EXCEPT !.steps = s, !.exog = x] : s \in StepValues, x \in ExogValues}

Submission(backend, model) == <<"api", "backend", backend, "model", model>>

Posts(bodies, model) ==
    [method: {"POST"}, path: {Submission("lambda", model)},
     encoding: {"object"}, body: bodies]

(* Every other shape of an event, with one good body where it has one.     *)
GoodBody ==
    [EmptyBody EXCEPT !.steps = [type |-> "whole", n |-> 1]]

Paths ==
    {<<>>, <<"api">>, <<"api", "health">>, <<"health">>, <<"api", "api">>,
     <<"api", "requests">>, <<"api", "requests", "known">>,
     <<"api", "requests", "other">>, <<"requests", "known", "more">>,
     <<"backend", "lambda", "model", "arima">>,
     <<"api", "model", "lambda", "backend", "arima">>,
     Submission("lambda", "arima"), Submission("ecs-fargate", "arima"),
     Submission("lambda", "prophet"), Submission("gpu", "arima")}

OtherEvents ==
    [method: {"GET", "POST"}, path: Paths, encoding: Encodings, body: {GoodBody}]

MCEvents ==
    OtherEvents
        \cup Posts(TabularBodies, "weighted") \cup Posts(TabularBodies, "xgboost")
        \cup Posts(ForecastBodies, "arima") \cup Posts(ForecastBodies, "sarima")
=============================================================================
