---------------------------- MODULE RouterProofs ----------------------------
(***************************************************************************)
(* Proofs about Validation and Router: for every number of features, every *)
(* limit on the steps and every set of events, the worker's validation of  *)
(* a message gives back exactly what submit recorded.                      *)
(***************************************************************************)
EXTENDS Router, TLAPS

(* What a validation accepts is of the form the models predict from.       *)
Normal(model, input) ==
    /\ input \in AllBodies
    /\ input.pred_x_csv = NoVector
    /\ \/ /\ model \in {"weighted", "xgboost"}
          /\ input.features.type = "list"
          /\ input.features.len = NumFeatures
          /\ input.features.item \in {"number", "unstorable"}
          /\ \/ input.weights = NoVector
             \/ /\ model = "weighted"
                /\ input.weights.type = "list"
                /\ input.weights.len = NumFeatures
                /\ input.weights.item \in {"number", "unstorable"}
          /\ input.steps = NoSteps
          /\ input.exog = NoVector
       \/ /\ model \in {"arima", "sarima"}
          /\ input.features = NoVector
          /\ input.weights = NoVector
          /\ input.steps.type = "whole"
          /\ input.steps.n \in 1..MaxSteps
          /\ \/ input.exog = NoVector
             \/ /\ model = "sarima"
                /\ input.exog.type = "list"
                /\ input.exog.len = input.steps.n

LEMMA SameFields ==
    ASSUME NEW a \in AllBodies, NEW b \in AllBodies,
           a.features = b.features, a.pred_x_csv = b.pred_x_csv,
           a.weights = b.weights, a.steps = b.steps, a.exog = b.exog
    PROVE  a = b
BY DEF AllBodies

LEMMA DefaultsTyped ==
    EmptyBody \in AllBodies /\ NoVector \in Vectors /\ NoSteps \in StepCounts
BY DEF EmptyBody, AllBodies, NoVector, NoSteps, Vectors, StepCounts, Items

LEMMA FloatsTyped ==
    ASSUME NEW v \in Vectors, FloatsError(v) = "none"
    PROVE  /\ Floats(v) \in Vectors
           /\ Floats(v).type = "list"
           /\ Floats(v).len = v.len
           /\ Floats(v).item \in {"number", "unstorable"}
BY DEF Floats, Vectors, Items

LEMMA FloatsStable ==
    ASSUME NEW v \in Vectors, v.type = "list", v.item \in {"number", "unstorable"}
    PROVE  FloatsError(v) = "none" /\ Floats(v) = v
BY DEF Floats, FloatsError, Vectors, Items

(* Every result of a validation is normal.                                 *)
LEMMA ValidatedIsNormal ==
    ASSUME NEW model \in Models, NEW body \in AllBodies,
           ValidateInput(model, body).error = "none"
    PROVE  Normal(model, ValidateInput(model, body).input)
<1> DEFINE v == ValidateInput(model, body)
<1>r. RawFeatures(body) \in Vectors
    BY DEF RawFeatures, AllBodies
<1>1. ASSUME FeaturesError(body) = "none"
      PROVE  /\ Floats(RawFeatures(body)) \in Vectors
             /\ Floats(RawFeatures(body)).type = "list"
             /\ Floats(RawFeatures(body)).len = NumFeatures
             /\ Floats(RawFeatures(body)).item \in {"number", "unstorable"}
    <2>1. FloatsError(RawFeatures(body)) = "none" /\ RawFeatures(body).len = NumFeatures
        BY <1>1 DEF FeaturesError, VectorError
    <2> QED
        BY <1>r, <2>1, FloatsTyped
<1>2. CASE model = "xgboost"
    <2>1. FeaturesError(body) = "none" /\ v.input = WithFeatures(body)
        BY <1>2 DEF ValidateInput, ValidateXGBoost, Raises, Returns, Errors,
                    FeaturesError, VectorError, FloatsError
    <2> QED
        BY <1>2, <1>1, DefaultsTyped, <2>1 DEF WithFeatures, Normal, EmptyBody, AllBodies
<1>3. CASE model = "weighted"
    <2>1. v = ValidateWeighted(body)
        BY <1>3 DEF ValidateInput
    <2>2. FeaturesError(body) = "none"
        BY <2>1 DEF ValidateWeighted, Raises
    <2>3. CASE body.weights.type = "none"
        <3>1. v.input = WithFeatures(body)
            BY <2>1, <2>2, <2>3 DEF ValidateWeighted, Returns
        <3> QED
            BY <1>3, <1>1, DefaultsTyped, <2>2, <3>1 DEF WithFeatures, Normal, EmptyBody, AllBodies
    <2>4. CASE body.weights.type # "none"
        <3>1. /\ VectorError(body.weights, {"list"}) = "none"
              /\ v.input = [WithFeatures(body) EXCEPT !.weights = Floats(body.weights)]
            BY <2>1, <2>2, <2>4 DEF ValidateWeighted, Returns, Raises
        <3>2. FloatsError(body.weights) = "none" /\ body.weights.len = NumFeatures
            BY <3>1 DEF VectorError
        <3>3. /\ Floats(body.weights) \in Vectors
              /\ Floats(body.weights).type = "list"
              /\ Floats(body.weights).len = NumFeatures
              /\ Floats(body.weights).item \in {"number", "unstorable"}
            BY <3>2, FloatsTyped DEF AllBodies
        <3> QED
            BY <1>3, <1>1, DefaultsTyped, <2>2, <3>1, <3>3
            DEF WithFeatures, Normal, EmptyBody, AllBodies
    <2> QED
        BY <2>3, <2>4
<1>4. CASE model \in {"arima", "sarima"}
    <2>1. v = ValidateTimeSeries(model, body)
        BY <1>4 DEF ValidateInput
    <2>2. StepsError(body.steps) = "none" /\ ExogAccepted(model, body)
        BY <2>1 DEF ValidateTimeSeries, Raises
    <2>3. v.input = [EmptyBody EXCEPT !.steps = body.steps,
                                      !.exog = IF body.exog.type = "none"
                                               THEN NoVector
                                               ELSE body.exog]
        BY <2>1, <2>2 DEF ValidateTimeSeries, Returns
    <2>4. body.steps.type = "whole" /\ body.steps.n \in 1..MaxSteps
        BY <2>2 DEF StepsError
    <2>5. body.exog.type # "none" =>
              model = "sarima" /\ body.exog.type = "list" /\ body.exog.len = body.steps.n
        BY <2>2 DEF ExogAccepted
    <2> QED
        BY <1>4, DefaultsTyped, <2>3, <2>4, <2>5 DEF Normal, EmptyBody, AllBodies
<1> QED
    BY <1>2, <1>3, <1>4 DEF Models

(* A validation of what is normal changes nothing.                         *)
LEMMA NormalIsStable ==
    ASSUME NEW model \in Models, NEW input, Normal(model, input)
    PROVE  ValidateInput(model, input) = Returns(input)
<1>0. input \in AllBodies
    BY DEF Normal
<1>1. CASE model \in {"weighted", "xgboost"}
    <2>1. /\ input.features \in Vectors
          /\ input.features.type = "list"
          /\ input.features.len = NumFeatures
          /\ input.features.item \in {"number", "unstorable"}
        BY <1>0, <1>1 DEF Normal, AllBodies
    <2>2. RawFeatures(input) = input.features
        BY <2>1 DEF RawFeatures
    <2>3. FloatsError(input.features) = "none" /\ Floats(input.features) = input.features
        BY <2>1, FloatsStable
    <2>4. FeaturesError(input) = "none"
        BY <2>1, <2>2, <2>3 DEF FeaturesError, VectorError
    <2>5. WithFeatures(input) = [EmptyBody EXCEPT !.features = input.features]
        BY <2>2, <2>3 DEF WithFeatures
    <2>6. CASE input.weights = NoVector
        <3>1. input = WithFeatures(input)
            BY <1>0, <1>1, <2>5, <2>6 DEF Normal, EmptyBody, AllBodies
        <3> QED
            BY <1>1, <2>4, <2>6, <3>1
            DEF ValidateInput, ValidateWeighted, ValidateXGBoost, NoVector
    <2>7. CASE input.weights # NoVector
        <3>1. /\ model = "weighted"
              /\ input.weights \in Vectors
              /\ input.weights.type = "list"
              /\ input.weights.len = NumFeatures
              /\ input.weights.item \in {"number", "unstorable"}
            BY <1>0, <1>1, <2>7 DEF Normal, AllBodies
        <3>2. FloatsError(input.weights) = "none" /\ Floats(input.weights) = input.weights
            BY <3>1, FloatsStable
        <3>3. VectorError(input.weights, {"list"}) = "none"
            BY <3>1, <3>2 DEF VectorError
        <3>4. input = [WithFeatures(input) EXCEPT !.weights = input.weights]
            <4> DEFINE e == [WithFeatures(input) EXCEPT !.weights = input.weights]
            <4>1. WithFeatures(input) \in AllBodies
                BY <2>1, <2>5, DefaultsTyped DEF AllBodies
            <4>2. e \in AllBodies
                BY <4>1, <3>1 DEF AllBodies
            <4>3. /\ e.features = input.features
                  /\ e.pred_x_csv = NoVector
                  /\ e.weights = input.weights
                  /\ e.steps = NoSteps
                  /\ e.exog = NoVector
                BY <2>5 DEF EmptyBody
            <4>4. /\ input.pred_x_csv = NoVector
                  /\ input.steps = NoSteps
                  /\ input.exog = NoVector
                BY <1>1 DEF Normal
            <4> QED
                BY <1>0, <4>2, <4>3, <4>4, SameFields
        <3>5. ValidateInput(model, input) = ValidateWeighted(input)
            BY <3>1 DEF ValidateInput
        <3>6. input.weights.type # "none"
            BY <3>1
        <3>7. ValidateWeighted(input)
                  = Returns([WithFeatures(input) EXCEPT !.weights = Floats(input.weights)])
            BY <2>4, <3>3, <3>6 DEF ValidateWeighted
        <3> QED
            BY <3>2, <3>4, <3>5, <3>7
    <2> QED
        BY <2>6, <2>7
<1>2. CASE model \in {"arima", "sarima"}
    <2>1. StepsError(input.steps) = "none"
        BY <1>2 DEF Normal, StepsError
    <2>2. ExogAccepted(model, input)
        BY <1>2 DEF Normal, ExogAccepted, NoVector
    <2>3. input = [EmptyBody EXCEPT !.steps = input.steps,
                                    !.exog = IF input.exog.type = "none"
                                             THEN NoVector
                                             ELSE input.exog]
        <3> DEFINE e == [EmptyBody EXCEPT !.steps = input.steps, !.exog = input.exog]
        <3>1. input.exog.type = "none" => input.exog = NoVector
            BY <1>2 DEF Normal
        <3>2. e \in AllBodies
            BY <1>0, DefaultsTyped DEF AllBodies
        <3>3. /\ e.features = NoVector
              /\ e.pred_x_csv = NoVector
              /\ e.weights = NoVector
              /\ e.steps = input.steps
              /\ e.exog = input.exog
            BY DEF EmptyBody
        <3>4. /\ input.pred_x_csv = NoVector
              /\ input.features = NoVector
              /\ input.weights = NoVector
            BY <1>2 DEF Normal
        <3>5. input = e
            BY <1>0, <3>2, <3>3, <3>4, SameFields
        <3> QED
            BY <3>1, <3>5
    <2>4. ValidateInput(model, input) = ValidateTimeSeries(model, input)
        BY <1>2 DEF ValidateInput
    <2>5. ValidateTimeSeries(model, input)
              = Returns([EmptyBody EXCEPT !.steps = input.steps,
                                          !.exog = IF input.exog.type = "none"
                                                   THEN NoVector
                                                   ELSE input.exog])
        BY <2>1, <2>2 DEF ValidateTimeSeries
    <2> QED
        BY <2>3, <2>4, <2>5
<1> QED
    BY <1>1, <1>2 DEF Models

(* Validating twice is validating once, for all four models.               *)
THEOREM ValidationIdempotent ==
    ASSUME NEW model \in Models, NEW body \in AllBodies,
           ValidateInput(model, body).error = "none"
    PROVE  ValidateInput(model, ValidateInput(model, body).input)
               = Returns(ValidateInput(model, body).input)
BY ValidatedIsNormal, NormalIsStable

----------------------------------------------------------------------------
(* What the message is made of, on its way from submit to the worker.      *)
RecordIsGood ==
    /\ Model \in Models
    /\ Normal(Model, record)
    /\ Storable(record)

RouterInv ==
    /\ event \in Events
    /\ at \in {"router", "submit"} => message = NoInput /\ worker = NoInput
    /\ at = "saved" => RecordIsGood
    /\ message # NoInput => message = record /\ RecordIsGood
    /\ RevalidationStable

LEMMA RouterInvInit == Init => RouterInv
BY DEF Init, RouterInv, RecordIsGood, RevalidationStable

LEMMA RouterInvStep ==
    ASSUME RouterInv, [Next]_vars
    PROVE  RouterInv'
<1> USE DEF RouterInv, RecordIsGood, RevalidationStable
<1>m. event' = event => Model' = Model
    BY DEF Model, Segments
<1>1. CASE Get
    BY <1>1, <1>m DEF Get, Answered, Answer
<1>2. CASE NoRoute
    BY <1>2, <1>m DEF NoRoute, Answered, Answer
<1>3. CASE ParseBody
    BY <1>3, <1>m DEF ParseBody, Answered, Answer
<1>4. CASE Refuse
    BY <1>4, <1>m DEF Refuse, Answered, Answer
<1>5. CASE SaveRefused
    BY <1>5, <1>m DEF SaveRefused, Accepts, Answered, Answer
<1>6. CASE Save
    <2>1. Model \in Models /\ Validated.error = "none" /\ event.body \in AllBodies
        BY <1>6, EventsAssumption DEF Save, Accepts, UnknownRoute
    <2>2. Normal(Model, Validated.input)
        BY <2>1, ValidatedIsNormal DEF Validated
    <2> QED
        BY <1>6, <1>m, <2>1, <2>2 DEF Save, Accepts
<1>7. CASE Publish
    BY <1>7, <1>m DEF Publish, Answer
<1>8. CASE Process
    <2>1. ValidateInput(Model, message) = Returns(record)
        BY <1>8, NormalIsStable DEF Process
    <2> QED
        BY <1>8, <1>m, <2>1 DEF Process
<1>9. CASE UNCHANGED vars
    BY <1>9, <1>m DEF vars
<1> QED
    BY <1>1, <1>2, <1>3, <1>4, <1>5, <1>6, <1>7, <1>8, <1>9 DEF Next

(* What submit accepted, the worker's validation accepts and leaves as it  *)
(* is: no request is answered 202 and then FAILED as invalid.              *)
THEOREM Revalidation == Spec => []RevalidationStable
<1>1. RouterInv => RevalidationStable
    BY DEF RouterInv
<1> QED
    BY <1>1, RouterInvInit, RouterInvStep, PTL DEF Spec

(* Whatever reaches predict, predict can compute with, unless it is an     *)
(* exog whose entries are no numbers.                                      *)
THEOREM Predictable == Spec => []PredictableInput
<1>1. RouterInv => PredictableInput
    <2> SUFFICES ASSUME Model \in Models, Normal(Model, message), Storable(message)
                 PROVE  /\ \/ Computes(Model, message)
                           \/ /\ Model = "sarima"
                              /\ message.exog.type = "list"
                              /\ message.exog.item = "text"
                        /\ message.steps.n <= MaxSteps
        BY DEF RouterInv, RecordIsGood, PredictableInput
    <2>1. CASE Model \in {"weighted", "xgboost"}
        <3>1. Numbers(message.features) /\ message.steps = NoSteps
            BY <2>1 DEF Normal, Storable, Numbers
        <3>2. /\ message.weights.type = "none" \/ Numbers(message.weights)
              /\ message.weights.type # "none" => Model = "weighted"
            BY <2>1 DEF Normal, Storable, Numbers, NoVector
        <3>3. Computes(Model, message)
            BY <2>1, <3>1, <3>2 DEF Computes
        <3> QED
            BY <3>1, <3>3, MaxStepsAssumption DEF NoSteps
    <2>2. CASE Model \in {"arima", "sarima"}
        <3>1. message.steps.type = "whole" /\ message.steps.n \in 1..MaxSteps
            BY <2>2 DEF Normal
        <3>2. CASE message.exog = NoVector
            BY <2>2, <3>1, <3>2, MaxStepsAssumption DEF Computes, NoVector
        <3>3. CASE message.exog # NoVector
            <4>1. /\ Model = "sarima"
                  /\ message.exog.type = "list"
                  /\ message.exog.len = message.steps.n
                BY <2>2, <3>3 DEF Normal
            <4>2. message.exog.item \in {"number", "numeral", "text"}
                BY DEF Normal, Storable, AllBodies, Vectors, Items
            <4> QED
                BY <3>1, <4>1, <4>2, MaxStepsAssumption DEF Computes
        <3> QED
            BY <3>2, <3>3
    <2> QED
        BY <2>1, <2>2 DEF Models
<1> QED
    BY <1>1, RouterInvInit, RouterInvStep, PTL DEF Spec
----------------------------------------------------------------------------
(* The answers.  What has no record yet differs from every record.         *)
LEMMA NoInputIsNoBody == NoInput \notin AllBodies
<1> SUFFICES ASSUME NoInput \in AllBodies
             PROVE  FALSE
    OBVIOUS
<1>1. DOMAIN NoInput = {"none"}
    BY DEF NoInput
<1>2. DOMAIN NoInput = {"features", "pred_x_csv", "weights", "steps", "exog"}
    BY DEF AllBodies
<1> QED
    BY <1>1, <1>2

LEMMA ValidateInputTyped ==
    ASSUME NEW model \in Models, NEW body \in AllBodies
    PROVE  /\ ValidateInput(model, body).error \in Errors
           /\ ValidateInput(model, body).error = "none" =>
                 ValidateInput(model, body).input \in AllBodies
<1>1. StepsError(body.steps) \in Errors
    BY DEF StepsError, Errors
<1>2. /\ FeaturesError(body) \in Errors
      /\ VectorError(body.weights, {"list"}) \in Errors
    BY DEF FeaturesError, VectorError, FloatsError, Errors
<1>3. ValidateInput(model, body).error \in Errors
    BY <1>1, <1>2 DEF Models, ValidateInput, ValidateWeighted, ValidateXGBoost,
       ValidateTimeSeries, Returns, Raises, Errors
<1> QED
    BY <1>3, ValidatedIsNormal DEF Normal

LEMMA RouterTypeInit == Init => RouterTypeOK
BY DEF Init, RouterTypeOK, Places, Inputs

(* An event is in the router until something answers it, and what answers  *)
(* it gives a code.                                                        *)
LEMMA RouterTypeStep ==
    ASSUME RouterTypeOK, RouterInv, [Next]_vars
    PROVE  RouterTypeOK'
<1> USE DEF RouterTypeOK, Places, Codes
<1>1. CASE Get
    BY <1>1 DEF Get, Answered, Answer
<1>2. CASE NoRoute
    BY <1>2 DEF NoRoute, Answered, Answer
<1>3. CASE ParseBody
    BY <1>3 DEF ParseBody, Answered, Answer
<1>4. CASE Refuse
    BY <1>4 DEF Refuse, Answered, Answer
<1>5. CASE SaveRefused
    BY <1>5 DEF SaveRefused, Accepts, Answered, Answer
<1>6. CASE Save
    <2>1. Validated.input \in AllBodies
        BY <1>6, EventsAssumption, ValidateInputTyped
        DEF Save, Accepts, UnknownRoute, Validated
    <2> QED
        BY <1>6, <2>1 DEF Save, Accepts, Inputs
<1>7. CASE Publish
    BY <1>7 DEF Publish, Answer
<1>8. CASE Process
    <2>1. /\ ValidateInput(Model, message) = Returns(record)
          /\ record \in AllBodies
        BY <1>8, NormalIsStable DEF Process, RouterInv, RecordIsGood, Normal
    <2>2. worker' \in [error: Errors, input: AllBodies]
        BY <1>8, <2>1 DEF Process, Returns, Errors
    <2> QED
        BY <1>8, <2>2 DEF Process
<1>9. CASE UNCHANGED vars
    BY <1>9 DEF vars
<1> QED
    BY <1>1, <1>2, <1>3, <1>4, <1>5, <1>6, <1>7, <1>8, <1>9 DEF Next

(* Every event that leaves the router has an answer, whatever it asked for *)
(* and however it was encoded, and an answer is given only on leaving it.  *)
THEOREM RouterTypeCorrect == Spec => []RouterTypeOK
<1>1. Init => RouterTypeOK /\ RouterInv
    BY RouterTypeInit, RouterInvInit
<1>2. RouterTypeOK /\ RouterInv /\ [Next]_vars => (RouterTypeOK /\ RouterInv)'
    BY RouterTypeStep, RouterInvStep
<1> QED
    BY <1>1, <1>2, PTL DEF Spec

(* Before submit has saved there is no record, and what the answer tells   *)
(* of the record and the message is so in every state.                     *)
TraceInv ==
    /\ at \in {"router", "submit"} => record = NoInput
    /\ AnswerTellsTrace

LEMMA TraceInvInit == Init => TraceInv
BY DEF Init, TraceInv, AnswerTellsTrace

LEMMA TraceInvStep ==
    ASSUME RouterTypeOK, RouterInv, TraceInv, [Next]_vars
    PROVE  TraceInv'
<1> USE DEF TraceInv, AnswerTellsTrace, RouterTypeOK
<1>m. event' = event => Backend' = Backend
    BY DEF Backend, Segments
<1>1. CASE Get
    BY <1>1, <1>m DEF Get, Answered, Answer
<1>2. CASE NoRoute
    BY <1>2, <1>m DEF NoRoute, Answered, Answer
<1>3. CASE ParseBody
    BY <1>3, <1>m DEF ParseBody, Answered, Answer
<1>4. CASE Refuse
    BY <1>4, <1>m DEF Refuse, Answered, Answer
<1>5. CASE SaveRefused
    BY <1>5, <1>m DEF SaveRefused, Accepts, Answered, Answer
<1>6. CASE Save
    BY <1>6, <1>m DEF Save, Accepts
<1>7. CASE Publish
    <2>1. record # NoInput
        BY <1>7, NoInputIsNoBody DEF Publish, RouterInv, RecordIsGood, Normal
    <2>2. answer = 0 /\ message = NoInput
        BY <1>7 DEF Publish
    <2> QED
        BY <1>7, <1>m, <2>1, <2>2 DEF Publish, Answer
<1>8. CASE Process
    BY <1>8, <1>m DEF Process
<1>9. CASE UNCHANGED vars
    BY <1>9, <1>m DEF vars
<1> QED
    BY <1>1, <1>2, <1>3, <1>4, <1>5, <1>6, <1>7, <1>8, <1>9 DEF Next

(* 202 means a message and nothing else does; a refusal leaves a record    *)
(* behind only as the 404 of a backend without a queue.                    *)
THEOREM AnswersTellTheTrace == Spec => []AnswerTellsTrace
<1> DEFINE I == RouterTypeOK /\ RouterInv /\ TraceInv
<1>1. Init => I
    BY RouterTypeInit, RouterInvInit, TraceInvInit
<1>2. I /\ [Next]_vars => I'
    BY RouterTypeStep, RouterInvStep, TraceInvStep
<1>3. I => AnswerTellsTrace
    BY DEF TraceInv
<1> QED
    BY <1>1, <1>2, <1>3, PTL DEF Spec
=============================================================================
