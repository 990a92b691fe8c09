----------------------------- MODULE Validation -----------------------------
(***************************************************************************)
(* What the models make of a request body: validate_input of the four      *)
(* models (common/models/*.py) and parse_features.  It is run twice, by    *)
(* submit on the caller's JSON and by process on what submit made of it.   *)
(*                                                                         *)
(* Of a JSON value the model keeps what these functions look at: its type, *)
(* its length, and how the first element converts that decides (or, if all *)
(* convert, the first that DynamoDB would refuse).                         *)
(***************************************************************************)
EXTENDS Integers

CONSTANTS
    NumFeatures,  \* NUM_FEATURES, 8 in the code
    MaxSteps      \* MAX_STEPS, 365 in the code

ASSUME NumFeaturesAssumption == NumFeatures \in Nat \ {0}
ASSUME MaxStepsAssumption == MaxSteps \in Nat \ {0}

Models == {"weighted", "xgboost", "arima", "sarima"}

(*   number      a number that DynamoDB stores;                            *)
(*   numeral     a string float() converts to one;                         *)
(*   unstorable  float() gives infinity, NaN, or more than DynamoDB holds; *)
(*   text        float() raises TypeError or ValueError; in exog, numpy    *)
(*               makes no array of numbers of it: a word, null, a row of   *)
(*               such, rows of different lengths.  A row of numbers is a   *)
(*               number;                                                   *)
(*   huge        an integer over the range of a float: OverflowError.      *)
Items == {"number", "numeral", "unstorable", "text", "huge"}

(* "none" is an absent key or null, "other" any type but list and string;  *)
(* the length of a string is the number of its non-empty parts.            *)
Vectors == [type: {"none", "other", "list", "str"}, len: Nat, item: Items]

NoVector == [type |-> "none", len |-> 0, item |-> "number"]

(* "whole" stands for whatever int() takes: an integer, a float with that  *)
(* integer part, a string of digits.  "infinite" is the literal Infinity.  *)
StepCounts == [type: {"none", "whole", "text", "infinite"}, n: Int]

NoSteps == [type |-> "none", n |-> 0]

AllBodies == [features: Vectors, pred_x_csv: Vectors, weights: Vectors,
              steps: StepCounts, exog: Vectors]

EmptyBody == [features |-> NoVector, pred_x_csv |-> NoVector,
              weights |-> NoVector, steps |-> NoSteps, exog |-> NoVector]

(* The exception that leaves validate_input, and what it returns without.  *)
Errors == {"none", "InvalidRequestError", "OverflowError"}
Returns(input) == [error |-> "none", input |-> input]
Raises(error) == [error |-> error, input |-> EmptyBody]

----------------------------------------------------------------------------
(* [float(v) for v in raw]                                                 *)
FloatsError(v) ==
    CASE v.item = "text" -> "InvalidRequestError"
      [] v.item = "huge" -> "OverflowError"
      [] OTHER -> "none"

Floats(v) ==
    [type |-> "list", len |-> v.len,
     item |-> IF v.item = "unstorable" THEN "unstorable" ELSE "number"]

VectorError(v, types) ==
    IF v.type \notin types \/ v.len # NumFeatures
    THEN "InvalidRequestError"
    ELSE FloatsError(v)

(* parse_features: "features", or else the legacy "pred_x_csv".            *)
RawFeatures(body) ==
    IF body.features.type # "none" THEN body.features ELSE body.pred_x_csv

FeaturesError(body) ==
    VectorError(RawFeatures(body),
                IF body.features.type # "none" THEN {"list", "str"} ELSE {"str"})

WithFeatures(body) ==
    [EmptyBody EXCEPT !.features = Floats(RawFeatures(body))]

ValidateXGBoost(body) ==
    IF FeaturesError(body) # "none"
    THEN Raises(FeaturesError(body))
    ELSE Returns(WithFeatures(body))

\* Mutant: no weights become an empty list.
ValidateWeighted_EmptyWeights(body) ==
    CASE FeaturesError(body) # "none" -> Raises(FeaturesError(body))
      [] body.weights.type = "none" ->
            Returns([WithFeatures(body) EXCEPT !.weights.type = "list"])
      [] VectorError(body.weights, {"list"}) # "none" ->
            Raises(VectorError(body.weights, {"list"}))
      [] OTHER -> Returns([WithFeatures(body) EXCEPT !.weights = Floats(body.weights)])

ValidateWeighted(body) ==
    IF FeaturesError(body) # "none" THEN Raises(FeaturesError(body))
    ELSE IF body.weights.type = "none" THEN Returns(WithFeatures(body))
    ELSE IF VectorError(body.weights, {"list"}) # "none"
         THEN Raises(VectorError(body.weights, {"list"}))
    ELSE Returns([WithFeatures(body) EXCEPT !.weights = Floats(body.weights)])

(* TimeSeriesForecastModel: the elements of exog are not looked at.        *)
StepsError(steps) ==
    CASE steps.type = "infinite" -> "OverflowError"
      [] steps.type = "whole" /\ steps.n \in 1..MaxSteps -> "none"
      [] OTHER -> "InvalidRequestError"

\* Mutant: exog may be shorter than the forecast.
ExogAccepted_Shorter(model, body) ==
    \/ body.exog.type = "none"
    \/ /\ model = "sarima"
       /\ body.exog.type = "list"
       /\ body.exog.len <= body.steps.n

ExogAccepted(model, body) ==
    \/ body.exog.type = "none"
    \/ /\ model = "sarima"
       /\ body.exog.type = "list"
       /\ body.exog.len = body.steps.n

ValidateTimeSeries(model, body) ==
    IF StepsError(body.steps) # "none" THEN Raises(StepsError(body.steps))
    ELSE IF ~ExogAccepted(model, body) THEN Raises("InvalidRequestError")
    ELSE Returns([EmptyBody EXCEPT !.steps = body.steps,
                                   !.exog = IF body.exog.type = "none"
                                            THEN NoVector
                                            ELSE body.exog])

ValidateInput(model, body) ==
    CASE model = "weighted" -> ValidateWeighted(body)
      [] model = "xgboost" -> ValidateXGBoost(body)
      [] model \in {"arima", "sarima"} -> ValidateTimeSeries(model, body)

----------------------------------------------------------------------------
(* put_item refuses a number DynamoDB does not hold.  Those of exog are    *)
(* the caller's: a huge integer is one, and numerals and text are strings. *)
Storable(body) ==
    /\ body.features.item # "unstorable"
    /\ body.weights.item # "unstorable"
    /\ body.exog.item \notin {"unstorable", "huge"}

(* Whether predict, with its artifact, gets from the input to a result: it *)
(* multiplies or hands over the features as they are (and zip would drop   *)
(* what is too long), but converts exog, numerals included, and wants as   *)
(* many rows as steps.  The columns an artifact wants are not modelled.    *)
Numbers(v) == v.type = "list" /\ v.len = NumFeatures /\ v.item = "number"

Computes(model, input) ==
    /\ model \in {"weighted", "xgboost"} => Numbers(input.features)
    /\ model = "weighted" => input.weights.type = "none" \/ Numbers(input.weights)
    /\ model \in {"arima", "sarima"} =>
          /\ input.steps.type = "whole" /\ input.steps.n >= 1
          /\ \/ input.exog.type = "none"
             \/ /\ input.exog.type = "list"
                /\ input.exog.len = input.steps.n
                /\ input.exog.item \in {"number", "numeral"}
=============================================================================
