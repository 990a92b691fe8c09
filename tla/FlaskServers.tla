---------------------------- MODULE FlaskServers ----------------------------
(***************************************************************************)
(* The two inference servers the notebooks put into a container, as        *)
(* functions from a request to the status it is answered with:             *)
(* scripts/container_sarima_inference.py and                               *)
(* scripts/container_sm_xgboost_ca_housing_inference.py.  An exception no  *)
(* one catches is Flask's 500.                                             *)
(***************************************************************************)
EXTENDS Integers

(* A body is no JSON, JSON that is no object, or an object.  What stands   *)
(* for a number in a field may also be one of these: no such field, a      *)
(* list, a text that is no number; the rest of the negative numbers are    *)
(* values that only one field distinguishes.                               *)
Shapes == {"malformed", "array", "object"}
Absent == -1
Unfit == -2
Text == -3
Infinite == -4  \* steps
Scalar == -5    \* exog
Ragged == -6    \* exog, rows of different lengths
Empty == -7     \* pred_x_csv, the empty string

StepsGiven == {Absent, Unfit, Text, Infinite, 0, 1, 5, 365, 366}
ExogGiven == {Absent, Scalar, Ragged, 0, 1, 5, 365, 366}  \* its rows
CsvGiven == {Absent, Empty, Unfit, Text, 1, 8, 9}         \* its columns

SarimaRequests ==
    [shape : {"object"}, steps : StepsGiven, exog : ExogGiven]
        \cup [shape : Shapes, steps : {Absent}, exog : {Absent}]

XgboostRequests ==
    [shape : {"object"}, csv : CsvGiven] \cup [shape : Shapes, csv : {Absent}]

(* parse_request_data; handler answers ValueError, which a decoding error  *)
(* is too, with 400 and catches nothing else.                              *)
ParseSteps(request) ==
    CASE request.shape = "malformed" -> 400
      [] request.shape = "array" -> 500
      [] request.steps \in {Absent, Text} -> 400
      [] request.steps \in {Unfit, Infinite} -> 500
      [] OTHER -> 200

(* forecast.  The models the notebook trains have no exogenous variables,  *)
(* so get_forecast ignores what it is given of them.                       *)
\* Mutant: the length of exog is not compared.
Forecast_AnyExog(steps, exog) ==
    CASE steps < 1 \/ steps > 365 -> 400
      [] exog = Scalar -> 500
      [] exog = Ragged -> 400
      [] OTHER -> 200

Forecast(steps, exog) ==
    CASE steps < 1 \/ steps > 365 -> 400
      [] exog = Scalar -> 500
      [] exog = Ragged -> 400
      [] exog \notin {Absent, Scalar, Ragged, steps} -> 400
      [] OTHER -> 200

SarimaAnswers(request) ==
    LET parsed == ParseSteps(request)
    IN  IF parsed = 200 THEN Forecast(request.steps, request.exog) ELSE parsed

(* Parsing, json errors included, is outside any try.                      *)
ParseCsv(request) ==
    IF request.shape = "object" THEN 200 ELSE 500

(* predict: an empty frame and a ValueError, XGBoostError being one, are   *)
(* 400; columns that are missing count as missing values.                  *)
Predict(csv) ==
    CASE csv \in {Absent, Empty} -> 400
      [] csv = Unfit -> 500
      [] csv = Text \/ csv = 9 -> 400
      [] OTHER -> 200

XgboostAnswers(request) ==
    LET parsed == ParseCsv(request)
    IN  IF parsed = 200 THEN Predict(request.csv) ELSE parsed

(* The module of xgboost loads a native artifact, or else unpickles it and *)
(* takes the booster out of a wrapper; that of sarima unpickles only.      *)
LoadsXgboost(kind) == kind \in {"native", "pickled"}
LoadsSarima(kind) == kind \in {"arima", "sarima"}
=============================================================================
