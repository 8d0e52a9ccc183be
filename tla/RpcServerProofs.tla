--------------------------- MODULE RpcServerProofs ---------------------------
(***************************************************************************)
(* What holds of RpcServer for any number of requests, any calls and any    *)
(* registered methods.                                                     *)
(***************************************************************************)
EXTENDS RpcServer, TLAPS

Failing == {"setData", "marshal"}

\* Where a request is says what it has: an error object if its handler has
\* failed, a result if it has succeeded, never both, nor one that the handlers
\* of its method do not reply with; and an answer that is not yet given, or the
\* time-out's, as long as it is served.
StageAt(r) ==
  /\ failure[r] # "none" => pc[r] \in Failing \union {"done"} /\ reply[r] = "none"
  /\ reply[r] # "none" => pc[r] \in {"encode", "done"}
  /\ pc[r] \in Failing => failure[r] \in ErrorObject
  /\ pc[r] = "encode" => reply[r] \in {"list", "text"}
  /\ pc[r] \in Serving => answer[r].kind \in {"none", "timeout"}
  /\ pc[r] = "idle" => answer[r].kind = "none"
  /\ answer[r].kind # "response" => answer[r].response = EmptyResponse
  /\ pc[r] \in {"handler", "encode"} \union Failing => Decoded(r)
  /\ {failure[r], reply[r]} \subseteq {"none"} \union Outcomes(sent[r].method)

Stage == TypeOK /\ \A r \in Request : StageAt(r)

\* No step of r touches what belongs to another request.
LEMMA OthersUntouched ==
  ASSUME TypeOK, NEW r \in Request, NEW q \in Request, q # r,
         Arrive(r) \/ ServeHTTP(r) \/ Handler(r) \/ Timeout(r)
  PROVE  /\ UNCHANGED <<pc[q], sent[q], failure[q], reply[q], words[q]>>
         /\ UNCHANGED <<copied[q], answer[q], before[q]>>
<1> USE DEF TypeOK, ServeHTTP, Handler, Arrive, NotAllowed, Unread, LoggingPanics,
      Undecoded, MethodMissing, ArgsMissing, CallHandler, SetWord, MarshalWord, Respond,
      Timeout, HandlerPanics, HandlerSucceeds, HandlerFails, Refuse, Panic, Unhandled,
      Finish, Goto
<1>1. UNCHANGED <<pc[q], sent[q], failure[q], reply[q], words[q]>>
  OBVIOUS
<1>2. UNCHANGED <<copied[q], answer[q], before[q]>>
  OBVIOUS
<1> QED
  BY <1>1, <1>2

\* A handler replies with a shared object, a list or a text.
LEMMA OutcomesAre ==
  \A method : Outcomes(method) \subseteq ErrorObject \union {"list", "text"}
  BY DEF Outcomes, ErrorObject

\* An answer is the first one.
LEMMA FinishIsFirst ==
  ASSUME TypeOK, NEW r \in Request, NEW given \in Answer, Finish(r, given)
  PROVE  /\ pc' = [pc EXCEPT ![r] = "done"]
         /\ answer' \in [Request -> Answer]
         /\ answer'[r] = IF answer[r].kind = "none" THEN given ELSE answer[r]
  BY DEF Finish, Goto, TypeOK

\* The answers are well formed.
LEMMA BareIsAnswer ==
  ASSUME NEW kind \in Kinds
  PROVE  /\ Bare(kind) \in Answer /\ Bare(kind).kind = kind
         /\ Bare(kind).response = EmptyResponse
  BY DEF Bare, Answer, Response, EmptyResponse, Codes, Shapes, NoText, Text

LEMMA ErrorIsResponse ==
  ASSUME NEW name \in Codes, NEW data \in Text, NEW e, e = ErrorResponse(name, data)
  PROVE  /\ e \in Response
         /\ e.id = NoRequest /\ e.code = name /\ e.result = "none"
         /\ \A r \in Request :
              /\ SetReqIdent(e, r) \in Response
              /\ SetReqIdent(e, r).id = r
              /\ SetReqIdent(e, r).code = name
              /\ SetReqIdent(e, r).result = "none"
  BY DEF ErrorResponse, SetReqIdent, Response, Shapes

\* What is made of a reply that is an error object: that error and no result.
LEMMA ErrorStaysError ==
  ASSUME TypeOK, NEW r \in Request, failure[r] \in ErrorObject
  PROVE  SetReqIdent(NewResponse(Marshalled(r)), r) =
           [id |-> r, code |-> ErrorName(failure[r]), text |-> copied[r],
            result |-> "none"]
<1> DEFINE json == Marshalled(r)
<1>1. json = [shape |-> "object", code |-> ErrorName(failure[r]), text |-> copied[r],
              result |-> "none"]
  BY DEF Marshalled, ErrorObject
<1> HIDE DEF json
<1>2. /\ Decode(json).code = ErrorName(failure[r])
      /\ Decode(json).text = copied[r]
  BY <1>1 DEF Decode, EmptyResponse
<1>3. ErrorName(failure[r]) \in Codes \ {"none"} /\ copied[r] \in Text
  BY DEF ErrorName, Codes, TypeOK
<1>4. NewResponse(json) = ErrorResponse(ErrorName(failure[r]), copied[r])
  BY <1>2, <1>3 DEF NewResponse
<1>5. NewResponse(json) = [id |-> NoRequest, code |-> ErrorName(failure[r]),
                           text |-> copied[r], result |-> "none"]
  BY <1>3, <1>4 DEF ErrorResponse
<1> QED
  BY <1>5 DEF SetReqIdent, json

\* And of one that is a list or a text: that result and no error.
LEMMA ResultStaysResult ==
  ASSUME NEW r \in Request, failure[r] = "none", reply[r] \in {"list", "text"}
  PROVE  SetReqIdent(NewResponse(Marshalled(r)), r) =
           [id |-> r, code |-> "none", text |-> NoText, result |-> reply[r]]
<1> DEFINE json == Marshalled(r)
<1>1. json = [shape |-> reply[r], code |-> "none", text |-> NoText, result |-> "none"]
  BY DEF Marshalled
<1> HIDE DEF json
<1>2. Decode(json) = EmptyResponse
  BY <1>1 DEF Decode
<1>3. NewResponse(json) =
        [id |-> NoRequest, code |-> "none", text |-> NoText, result |-> reply[r]]
  BY <1>1, <1>2 DEF NewResponse, EmptyResponse
<1> QED
  BY <1>3 DEF SetReqIdent, json

LEMMA StageInit == Init => Stage
<1> SUFFICES ASSUME Init PROVE Stage
  OBVIOUS
<1>1. TypeOK
  BY BareIsAnswer DEF Init, TypeOK, Serving, NoText, Text, Kinds
<1>2. ASSUME NEW r \in Request PROVE StageAt(r)
  <2>1. answer[r].kind = "none" /\ answer[r].response = EmptyResponse
    BY BareIsAnswer DEF Init, Kinds
  <2> QED
    BY <2>1 DEF Init, StageAt, Serving, Failing
<1> QED
  BY <1>1, <1>2 DEF Stage

\* Every way to end without a reply of the handler, and every way to answer
\* one, keeps the types and stages.
LEMMA FinishStage ==
  ASSUME Stage, NEW r \in Request, NEW given \in Answer, Finish(r, given), Unhandled,
         given.kind # "response" => given.response = EmptyResponse
  PROVE  TypeOK' /\ StageAt(r)'
<1>1. /\ pc' = [pc EXCEPT ![r] = "done"]
      /\ answer' \in [Request -> Answer]
      /\ answer'[r] = IF answer[r].kind = "none" THEN given ELSE answer[r]
  BY FinishIsFirst DEF Stage
<1>2. TypeOK'
  BY <1>1 DEF Stage, TypeOK, Unhandled
<1>3. pc'[r] = "done" /\ UNCHANGED <<sent, failure, reply>>
  BY <1>1 DEF Stage, TypeOK, Unhandled
<1>4. answer'[r].kind # "response" => answer'[r].response = EmptyResponse
  BY <1>1 DEF Stage, StageAt
<1> QED
  BY <1>2, <1>3, <1>4 DEF Stage, StageAt, Serving, Failing

\* The step a request takes keeps the types, and its own stage.
LEMMA OwnStage ==
  ASSUME Stage, NEW r \in Request,
         Arrive(r) \/ ServeHTTP(r) \/ Handler(r) \/ Timeout(r)
  PROVE  TypeOK' /\ StageAt(r)'
<1>0. TypeOK /\ StageAt(r)
  BY DEF Stage
<1>a. NoText \in Text /\ NoRequest \notin Request
  BY NoRequestAssumption DEF NoText, Text
<1>1. ASSUME Arrive(r) PROVE TypeOK' /\ StageAt(r)'
  <2>1. pc'[r] = "serve" /\ UNCHANGED <<sent, failure, reply, answer>>
    BY <1>0, <1>1 DEF Arrive, Goto, TypeOK
  <2>2. StageAt(r)'
    BY <1>0, <1>1, <2>1 DEF Arrive, StageAt, Serving, Failing
  <2> QED
    BY <1>0, <1>1, <2>2 DEF Arrive, Goto, TypeOK, Serving
<1>2. ASSUME NEW response \in Response, Refuse(r, response) PROVE TypeOK' /\ StageAt(r)'
  <2>1. Responded(response) \in Answer /\ Responded(response).kind = "response"
    BY DEF Responded, Answer, Kinds
  <2> QED
    BY <1>2, <2>1, FinishStage DEF Refuse
<1>3. CASE NotAllowed(r) \/ Unread(r) \/ Undecoded(r)
  <2>1. \E name \in Codes : Refuse(r, ErrorResponse(name, NoText))
    BY <1>3 DEF NotAllowed, Unread, Undecoded, Codes
  <2> QED
    BY <1>2, <1>a, <2>1, ErrorIsResponse
<1>4. CASE MethodMissing(r)
  <2>1. SetReqIdent(ErrorResponse("Method not found", NoText), r) \in Response
    BY <1>a, ErrorIsResponse DEF Codes
  <2> QED
    BY <1>2, <1>4, <2>1 DEF MethodMissing
<1>5. CASE LoggingPanics(r) \/ ArgsMissing(r) \/ HandlerPanics(r)
  <2>1. Panic(r) /\ Unhandled
    BY <1>5 DEF LoggingPanics, ArgsMissing, HandlerPanics
  <2> QED
    BY <2>1, FinishStage, BareIsAnswer DEF Panic, Kinds
<1>6. ASSUME CallHandler(r) PROVE TypeOK' /\ StageAt(r)'
  <2>1. pc'[r] = "handler" /\ UNCHANGED <<sent, failure, reply, answer>> /\ Decoded(r)'
    BY <1>0, <1>6 DEF CallHandler, Goto, TypeOK, Decoded
  <2>2. StageAt(r)'
    BY <1>0, <1>6, <2>1 DEF CallHandler, StageAt, Serving, Failing
  <2> QED
    BY <1>0, <1>6, <2>2 DEF CallHandler, Goto, TypeOK, Serving
<1>7. ASSUME HandlerSucceeds(r) PROVE TypeOK' /\ StageAt(r)'
  <2>1. PICK outcome \in Outcomes(sent[r].method) \ ErrorObject :
          reply' = [reply EXCEPT ![r] = outcome]
    BY <1>7 DEF HandlerSucceeds
  <2>2. outcome \in {"list", "text"}
    BY <2>1, OutcomesAre
  <2>3. pc' = [pc EXCEPT ![r] = "encode"] /\ UNCHANGED <<sent, failure, answer>>
    BY <1>7 DEF HandlerSucceeds, Goto
  <2>4. pc'[r] = "encode" /\ reply'[r] = outcome /\ failure[r] = "none" /\ Decoded(r)'
    BY <1>0, <1>7, <2>1, <2>3 DEF HandlerSucceeds, StageAt, TypeOK, Failing, Decoded
  <2>5. StageAt(r)'
    BY <1>0, <1>7, <2>1, <2>2, <2>3, <2>4 DEF HandlerSucceeds, StageAt, Serving, Failing
  <2> QED
    BY <1>0, <1>7, <2>1, <2>2, <2>3, <2>5 DEF HandlerSucceeds, TypeOK, Serving
<1>8. ASSUME HandlerFails(r) PROVE TypeOK' /\ StageAt(r)'
  <2>1. PICK e \in Outcomes(sent[r].method) \intersect ErrorObject :
          failure' = [failure EXCEPT ![r] = e]
    BY <1>8 DEF HandlerFails
  <2>2. pc' = [pc EXCEPT ![r] = "setData"] /\ UNCHANGED <<sent, reply, answer>>
    BY <1>8 DEF HandlerFails, Goto
  <2>3. pc'[r] = "setData" /\ failure'[r] = e /\ reply[r] = "none" /\ Decoded(r)'
    BY <1>0, <1>8, <2>1, <2>2 DEF HandlerFails, StageAt, TypeOK, Failing, Decoded
  <2>4. StageAt(r)'
    BY <1>0, <1>8, <2>1, <2>2, <2>3 DEF HandlerFails, StageAt, Serving, Failing
  <2> QED
    BY <1>0, <1>8, <2>1, <2>2, <2>4 DEF HandlerFails, TypeOK, Serving
<1>9. ASSUME NEW w \in Word, SetWord(r, w) PROVE TypeOK' /\ StageAt(r)'
  <2>1. Data' \in [ErrorObject -> Text]
    BY <1>0, <1>9 DEF SetWord, TypeOK, Text
  <2>2. pc' \in [Request -> {"idle", "done"} \union Serving]
        /\ pc'[r] \in Failing /\ words' \in [Request -> SUBSET Word]
    BY <1>0, <1>9 DEF SetWord, Goto, TypeOK, Failing, Serving
  <2>3. UNCHANGED <<sent, failure, reply, copied, answer, before>> /\ pc[r] = "setData"
    BY <1>9 DEF SetWord
  <2>4. StageAt(r)'
    BY <1>0, <2>2, <2>3 DEF StageAt, Serving, Failing, Decoded
  <2> QED
    BY <1>0, <2>1, <2>2, <2>3, <2>4 DEF TypeOK
<1>10. ASSUME NEW w \in Word, MarshalWord(r, w) PROVE TypeOK' /\ StageAt(r)'
  <2>1. Data[failure[r]][w] \in Request \union {NoRequest}
    BY <1>0, <1>10 DEF MarshalWord, TypeOK, Text, StageAt, Failing
  <2>2. copied' \in [Request -> Text]
    BY <1>0, <1>10, <2>1 DEF MarshalWord, TypeOK, Text
  <2>3. UNCHANGED <<pc, sent, failure, reply, answer, Data, before>>
        /\ words' \in [Request -> SUBSET Word]
    BY <1>0, <1>10 DEF MarshalWord, TypeOK
  <2>4. StageAt(r)'
    BY <1>0, <2>3 DEF StageAt, Decoded
  <2> QED
    BY <1>0, <2>2, <2>3, <2>4 DEF TypeOK
<1>11. CASE Respond(r)
  <2>1. SetReqIdent(NewResponse(Marshalled(r)), r) \in Response
    <3>1. CASE pc[r] = "encode"
      <4>1. reply[r] \in {"list", "text"} /\ failure[r] = "none"
        BY <1>0, <3>1 DEF StageAt, Failing
      <4>2. [id |-> r, code |-> "none", text |-> NoText, result |-> reply[r]] \in Response
        BY <1>a, <4>1 DEF Response, Codes, Shapes
      <4> QED
        BY <4>1, <4>2, ResultStaysResult
    <3>2. CASE pc[r] = "marshal"
      <4>1. failure[r] \in ErrorObject /\ copied[r] \in Text
        BY <1>0, <3>2 DEF StageAt, Failing, TypeOK
      <4>2. ErrorName(failure[r]) \in Codes
        BY DEF ErrorName, Codes
      <4>3. [id |-> r, code |-> ErrorName(failure[r]), text |-> copied[r],
             result |-> "none"] \in Response
        BY <4>1, <4>2 DEF Response, Shapes
      <4> QED
        BY <1>0, <4>1, <4>3, ErrorStaysError
    <3> QED
      BY <1>11, <3>1, <3>2 DEF Respond
  <2>2. Responded(SetReqIdent(NewResponse(Marshalled(r)), r)) \in Answer
        /\ Responded(SetReqIdent(NewResponse(Marshalled(r)), r)).kind = "response"
    BY <2>1 DEF Responded, Answer, Kinds
  <2> QED
    BY <1>11, <2>2, FinishStage DEF Respond
<1>12. CASE Timeout(r)
  <2>1. answer' \in [Request -> Answer] /\ answer'[r] = Bare("timeout")
        /\ UNCHANGED <<pc, sent, failure, reply, words, copied, Data, before>>
    BY <1>0, <1>12, BareIsAnswer DEF Timeout, TypeOK, Kinds
  <2>2. answer'[r].kind = "timeout" /\ answer'[r].response = EmptyResponse
    BY <2>1, BareIsAnswer DEF Kinds
  <2>3. StageAt(r)'
    BY <1>0, <1>12, <2>1, <2>2 DEF Timeout, StageAt, Serving, Decoded
  <2> QED
    BY <1>0, <2>1, <2>3 DEF TypeOK
<1> QED
  BY <1>1, <1>3, <1>4, <1>5, <1>6, <1>7, <1>8, <1>9, <1>10, <1>11, <1>12
  DEF ServeHTTP, Handler

LEMMA StageNext == Stage /\ [Next]_vars => Stage'
<1> SUFFICES ASSUME Stage, [Next]_vars PROVE Stage'
  OBVIOUS
<1>1. CASE UNCHANGED vars
  BY <1>1 DEF vars, Stage, TypeOK, StageAt, Decoded
<1>2. ASSUME NEW r \in Request, Arrive(r) \/ ServeHTTP(r) \/ Handler(r) \/ Timeout(r)
      PROVE  Stage'
  <2>1. TypeOK' /\ StageAt(r)'
    BY <1>2, OwnStage
  <2>2. ASSUME NEW q \in Request, q # r PROVE StageAt(q)'
    BY <1>2, <2>2, OthersUntouched DEF Stage, StageAt, Decoded
  <2> QED
    BY <2>1, <2>2 DEF Stage
<1> QED
  BY <1>1, <1>2 DEF Next

\* The variables keep their types, whatever the calls and the methods.
THEOREM RpcTypeCorrect == Spec => []TypeOK
<1>1. Stage => TypeOK
  BY DEF Stage
<1> QED
  BY StageInit, StageNext, <1>1, PTL DEF Spec
-----------------------------------------------------------------------------
(* Whose text an error bears.                                              *)

\* q failed as r did, and was not done when r arrived.
Peer(r, q) == q \in Request \ before[r] /\ failure[q] = failure[r]

\* Both words of the object a request has written, and both of the copy it
\* takes, are always a peer's: who writes to the object is not done.
TextAt(r) ==
  /\ before[r] \subseteq {q \in Request : pc[q] = "done"}
  /\ pc[r] = "setData" => \A w \in Word \ words[r] : Peer(r, Data[failure[r]][w])
  /\ pc[r] = "marshal" => \A w \in Word : Peer(r, Data[failure[r]][w])
  /\ pc[r] = "marshal" => \A w \in Word \ words[r] : Peer(r, copied[r][w])
  /\ failure[r] # "none" /\ answer[r].response.code = ErrorName(failure[r]) =>
       \A w \in Word : Peer(r, answer[r].response.text[w])

TextInv == \A r \in Request : TextAt(r)

LEMMA TextInit == Init => TextInv
  BY DEF Init, TextInv, TextAt

\* Nobody has been told of an error by a request that is served.
LEMMA ServingIsSilent ==
  ASSUME Stage, NEW r \in Request, pc[r] \in Serving \union {"idle"}
  PROVE  answer[r].response.code = "none"
  BY DEF Stage, StageAt, EmptyResponse, Serving

\* A step is one request's.
Step(p) == Arrive(p) \/ ServeHTTP(p) \/ Handler(p) \/ Timeout(p)

\* A request that has failed keeps its error and what it knew of the others,
\* and one that is done stays done.
LEMMA FailedKeeps ==
  ASSUME Stage, NEW p \in Request, Step(p), NEW r \in Request
  PROVE  /\ failure[r] # "none" => UNCHANGED <<failure[r], before[r]>>
         /\ pc[r] = "done" => pc'[r] = "done"
<1>0. TypeOK /\ StageAt(r)
  BY DEF Stage
<1>1. CASE p # r
  BY <1>0, <1>1, OthersUntouched DEF Step
<1>2. CASE p = r
  BY <1>0, <1>2
  DEF Step, StageAt, Failing, Serving, TypeOK, ServeHTTP, Handler, Arrive, NotAllowed,
      Unread, LoggingPanics, Undecoded, MethodMissing, ArgsMissing, CallHandler, SetWord, MarshalWord,
      Respond, Timeout, HandlerPanics, HandlerSucceeds, HandlerFails, Refuse, Panic, Unhandled,
      Finish, Goto
<1> QED
  BY <1>1, <1>2

\* A peer stays one.
LEMMA PeerStays ==
  ASSUME Stage, NEW p \in Request, Step(p), NEW r \in Request, failure[r] # "none",
         NEW q, Peer(r, q)
  PROVE  Peer(r, q)'
<1>1. q \in Request /\ failure[q] # "none"
  BY DEF Peer
<1> QED
  BY <1>1, FailedKeeps DEF Peer

\* A word of the object that a failing request has written stays a peer's.
LEMMA WordStays ==
  ASSUME Stage, TextInv, NEW p \in Request, Step(p),
         NEW r \in Request, pc[r] \in Failing, NEW w \in Word,
         Peer(r, Data[failure[r]][w])
  PROVE  Peer(r, Data[failure[r]][w])'
<1>0. failure[r] \in ErrorObject /\ failure[r] # "none"
  BY DEF Stage, StageAt, ErrorObject
<1>1. failure'[r] = failure[r]
  BY <1>0, FailedKeeps
<1>2. CASE UNCHANGED Data
  BY <1>0, <1>1, <1>2, PeerStays
<1>3. ASSUME NEW v \in Word, SetWord(p, v) PROVE Peer(r, Data[failure[r]][w])'
  <2>1. CASE failure[p] = failure[r] /\ v = w
    <3>1. Data'[failure[r]][w] = p
      BY <1>0, <1>3, <2>1 DEF SetWord, Stage, TypeOK, Text
    <3>2. Peer(r, p)
      BY <1>3, <2>1 DEF SetWord, TextInv, TextAt, Peer
    <3> QED
      BY <1>0, <1>1, <3>1, <3>2, PeerStays
  <2>2. CASE ~(failure[p] = failure[r] /\ v = w)
    <3>1. Data'[failure[r]][w] = Data[failure[r]][w]
      BY <1>0, <1>3, <2>2 DEF SetWord, Stage, TypeOK, Text
    <3> QED
      BY <1>0, <1>1, <3>1, PeerStays
  <2> QED
    BY <2>1, <2>2
<1>4. UNCHANGED Data \/ \E v \in Word : SetWord(p, v)
  BY DEF Step, ServeHTTP, Handler, Arrive, NotAllowed, Unread, LoggingPanics, Undecoded, MethodMissing,
      ArgsMissing, CallHandler, MarshalWord, Respond, Timeout, HandlerPanics,
      HandlerSucceeds, HandlerFails, Refuse, Panic, Unhandled
<1> QED
  BY <1>2, <1>3, <1>4

\* Another request's step leaves the texts of r a peer's.
LEMMA OtherText ==
  ASSUME Stage, TextInv, NEW p \in Request, Step(p), NEW r \in Request, r # p
  PROVE  TextAt(r)'
<1>0. TypeOK /\ TextAt(r) /\ StageAt(r)
  BY DEF Stage, TextInv
<1>1. /\ UNCHANGED <<pc[r], sent[r], failure[r], reply[r], words[r]>>
      /\ UNCHANGED <<copied[r], answer[r], before[r]>>
  BY <1>0, OthersUntouched DEF Step
<1>2. before'[r] \subseteq {q \in Request : pc'[q] = "done"}
  BY <1>0, <1>1, FailedKeeps DEF TextAt
<1>3. ASSUME pc'[r] \in Failing PROVE failure[r] # "none"
  BY <1>0, <1>1, <1>3 DEF StageAt, ErrorObject
<1>4. ASSUME pc'[r] = "setData", NEW w \in Word \ words'[r]
      PROVE  Peer(r, Data[failure[r]][w])'
  BY <1>0, <1>1, <1>4, WordStays DEF TextAt, Failing
<1>5. ASSUME pc'[r] = "marshal", NEW w \in Word
      PROVE  Peer(r, Data[failure[r]][w])'
  BY <1>0, <1>1, <1>5, WordStays DEF TextAt, Failing
<1>6. ASSUME pc'[r] = "marshal", NEW w \in Word \ words'[r]
      PROVE  Peer(r, copied[r][w])'
  BY <1>0, <1>1, <1>3, <1>6, PeerStays DEF TextAt, Failing
<1>7. ASSUME failure'[r] # "none", answer'[r].response.code = ErrorName(failure'[r]),
             NEW w \in Word
      PROVE  Peer(r, answer[r].response.text[w])'
  BY <1>0, <1>1, <1>7, PeerStays DEF TextAt
<1> QED
  BY <1>2, <1>4, <1>5, <1>6, <1>7 DEF TextAt
\* So does its own.
LEMMA OwnText ==
  ASSUME Stage, TextInv, NEW r \in Request, Step(r)
  PROVE  TextAt(r)'
<1>0. TypeOK /\ TextAt(r) /\ StageAt(r)
  BY DEF Stage, TextInv
<1>1. before'[r] \subseteq {q \in Request : pc'[q] = "done"}
  <2>1. before'[r] \subseteq {q \in Request : pc[q] = "done"}
    BY <1>0
    DEF TextAt, TypeOK, Step, ServeHTTP, Handler, Arrive, NotAllowed, Unread, LoggingPanics, Undecoded,
      MethodMissing, ArgsMissing, CallHandler, SetWord, MarshalWord, Respond, Timeout,
      HandlerPanics, HandlerSucceeds, HandlerFails, Refuse, Panic, Unhandled
  <2> QED
    BY <2>1, FailedKeeps
<1>2. ErrorName(failure[r]) # "none" /\ ErrorName(failure'[r]) # "none"
  BY DEF ErrorName
<1>3. CASE UNCHANGED failure /\ pc'[r] \notin Failing /\ failure[r] = "none"
  BY <1>1, <1>3 DEF TextAt, Failing
<1>4. CASE Arrive(r) \/ (\E response : Refuse(r, response)) \/ LoggingPanics(r)
           \/ ArgsMissing(r) \/ CallHandler(r) \/ HandlerPanics(r) \/ HandlerSucceeds(r)
  <2>1. pc[r] \in {"idle", "serve", "handler"} /\ UNCHANGED failure
    BY <1>4
    DEF Arrive, Refuse, LoggingPanics, ArgsMissing, CallHandler, HandlerPanics,
      HandlerSucceeds, Unhandled
  <2>2. pc'[r] \in {"serve", "handler", "encode", "done"}
    BY <1>0, <1>4
    DEF TypeOK, Arrive, Refuse, LoggingPanics, ArgsMissing, CallHandler, HandlerPanics,
      HandlerSucceeds, Panic, Finish, Goto
  <2> QED
    BY <1>0, <1>3, <2>1, <2>2 DEF StageAt, Failing
<1>5. CASE HandlerFails(r)
  <2>1. answer'[r].response.code # ErrorName(failure'[r])
    BY <1>2, <1>5, ServingIsSilent DEF HandlerFails, Serving
  <2>2. pc'[r] = "setData" /\ words'[r] = Word
    BY <1>0, <1>5 DEF HandlerFails, Goto, TypeOK
  <2> QED
    BY <1>1, <2>1, <2>2 DEF TextAt
<1>6. ASSUME NEW w \in Word, SetWord(r, w) PROVE TextAt(r)'
  <2>0. failure[r] \in ErrorObject /\ failure[r] # "none" /\ UNCHANGED <<failure, answer, before>>
    BY <1>0, <1>6 DEF SetWord, StageAt, Failing, ErrorObject
  <2>1. Peer(r, Data[failure[r]][w])'
    <3>1. Data'[failure[r]][w] = r
      BY <1>0, <1>6, <2>0 DEF SetWord, TypeOK, Text
    <3>2. r \notin before[r]
      BY <1>0, <1>6 DEF SetWord, TextAt
    <3> QED
      BY <2>0, <3>1, <3>2 DEF Peer
  <2>2. ASSUME NEW v \in Word \ words[r] PROVE Peer(r, Data[failure[r]][v])'
    BY <1>0, <1>6, <2>2, WordStays DEF SetWord, TextAt, Failing
  <2>3. CASE words[r] = {w}
    <3>1. pc'[r] = "marshal" /\ words'[r] = Word
      BY <1>0, <1>6, <2>3 DEF SetWord, Goto, TypeOK
    <3>2. answer'[r].response.code # ErrorName(failure'[r])
      BY <1>2, <1>6, <2>0, ServingIsSilent DEF SetWord, Serving
    <3> QED
      BY <1>1, <2>1, <2>2, <2>3, <3>1, <3>2 DEF TextAt
  <2>4. CASE words[r] # {w}
    <3>1. pc'[r] = "setData" /\ words'[r] = words[r] \ {w}
      BY <1>0, <1>6, <2>4 DEF SetWord, Goto, TypeOK
    <3>2. answer'[r].response.code # ErrorName(failure'[r])
      BY <1>2, <1>6, <2>0, ServingIsSilent DEF SetWord, Serving
    <3> QED
      BY <1>1, <2>1, <2>2, <3>1, <3>2 DEF TextAt
  <2> QED
    BY <2>3, <2>4
<1>7. ASSUME NEW w \in Word, MarshalWord(r, w) PROVE TextAt(r)'
  <2>0. UNCHANGED <<pc, failure, answer, Data, before>> /\ failure[r] # "none"
        /\ words'[r] = words[r] \ {w} /\ pc[r] = "marshal"
    BY <1>0, <1>7 DEF MarshalWord, StageAt, Failing, ErrorObject, TypeOK
  <2>1. answer[r].response.code # ErrorName(failure[r])
    BY <1>2, <2>0, ServingIsSilent DEF Serving
  <2>2. copied'[r] = [copied[r] EXCEPT ![w] = Data[failure[r]][w]] /\ copied[r] \in Text
    BY <1>0, <1>7 DEF MarshalWord, TypeOK
  <2>3. \A v \in Word \ words'[r] : Peer(r, copied'[r][v])
    BY <1>0, <2>0, <2>2 DEF TextAt, Text
  <2>4. \A q : Peer(r, q) => Peer(r, q)'
    BY <2>0 DEF Peer
  <2>5. \A v \in Word \ words'[r] : Peer(r, copied[r][v])'
    BY <2>0, <2>3 DEF Peer
  <2>6. \A v \in Word : Peer(r, Data[failure[r]][v])'
    BY <1>0, <2>0 DEF TextAt, Peer
  <2> QED
    BY <1>1, <2>0, <2>1, <2>5, <2>6 DEF TextAt
<1>8. CASE Respond(r)
  <2>1. CASE pc[r] = "encode"
    BY <1>0, <1>3, <1>8, <2>1 DEF Respond, Finish, Goto, Unhandled, TypeOK, StageAt, Failing
  <2>2. CASE pc[r] = "marshal"
    <3>0. /\ UNCHANGED <<failure, before>> /\ pc'[r] = "done" /\ failure[r] \in ErrorObject
          /\ \A w \in Word : Peer(r, copied[r][w])
      BY <1>0, <1>8, <2>2
      DEF Respond, Finish, Goto, Unhandled, TypeOK, TextAt, StageAt, Failing
    <3>1. CASE answer'[r] = answer[r]
      BY <1>1, <1>2, <2>2, <3>0, <3>1, ServingIsSilent DEF TextAt, Serving
    <3>2. CASE answer'[r].response.text = copied[r]
      BY <1>1, <3>0, <3>2 DEF TextAt, Peer
    <3>3. \/ answer'[r] = answer[r]
          \/ answer'[r].response = SetReqIdent(NewResponse(Marshalled(r)), r)
      BY <1>0, <1>8 DEF Respond, Responded, Finish, TypeOK
    <3> QED
      BY <1>0, <3>0, <3>1, <3>2, <3>3, ErrorStaysError
  <2> QED
    BY <1>8, <2>1, <2>2 DEF Respond
<1>9. CASE Timeout(r)
  <2>1. answer'[r].response.code # ErrorName(failure'[r])
    BY <1>0, <1>2, <1>9, BareIsAnswer DEF Timeout, TypeOK, EmptyResponse, Kinds
  <2>2. UNCHANGED <<pc, failure, words, copied, Data, before>>
    BY <1>9 DEF Timeout
  <2> QED
    BY <1>0, <1>1, <2>1, <2>2 DEF TextAt, Peer
<1> QED
  BY <1>4, <1>5, <1>6, <1>7, <1>8, <1>9
  DEF Step, ServeHTTP, Handler, NotAllowed, Unread, Undecoded, MethodMissing

LEMMA TextNext == Stage /\ TextInv /\ [Next]_vars => TextInv'
<1> SUFFICES ASSUME Stage, TextInv, [Next]_vars, NEW r \in Request PROVE TextAt(r)'
  BY DEF TextInv
<1>1. CASE UNCHANGED vars
  BY <1>1 DEF vars, TextInv, TextAt, Peer
<1>2. ASSUME NEW p \in Request, Step(p) PROVE TextAt(r)'
  BY <1>2, OwnText, OtherText
<1> QED
  BY <1>1, <1>2 DEF Next, Step

\* The text of an error is of a request that failed with that error while
\* this one was served, in both its words, whatever the requests race for.
THEOREM TextsAreConcurrent == Spec => []TextIsConcurrent
<1>1. TextInv => TextIsConcurrent
  BY DEF TextInv, TextAt, Peer, TextIsConcurrent
<1> QED
  BY StageInit, StageNext, TextInit, TextNext, <1>1, PTL DEF Spec
-----------------------------------------------------------------------------
(* An answer is the request's own.                                         *)

OwnAt(r) ==
  answer[r].kind = "response" =>
    /\ answer[r].response.result = reply[r]
    /\ answer[r].response.code = "none" <=> reply[r] # "none"
    /\ failure[r] # "none" => answer[r].response.code = ErrorName(failure[r])
    /\ answer[r].response.id = r <=>
         Replied(r) \/ (Decoded(r) /\ answer[r].response.code = "Method not found")

\* What is answered is what the handler replied with, decoded and encoded.
LEMMA RespondIsOwn ==
  ASSUME Stage, NEW r \in Request, Respond(r)
  PROVE  OwnAt(r)'
<1>0. TypeOK /\ StageAt(r)
  BY DEF Stage
<1> DEFINE response == SetReqIdent(NewResponse(Marshalled(r)), r)
<1>1. UNCHANGED <<sent, failure, reply>>
  BY DEF Respond, Unhandled
<1>2. \/ answer'[r] = answer[r] /\ answer[r].kind # "response"
      \/ answer'[r].response = response
  BY <1>0 DEF Respond, Responded, Finish, TypeOK, StageAt, Serving
<1>3. CASE pc[r] = "encode"
  <2>1. reply[r] \in {"list", "text"} /\ failure[r] = "none"
    BY <1>0, <1>3 DEF StageAt, Failing
  <2>2. response = [id |-> r, code |-> "none", text |-> NoText, result |-> reply[r]]
    BY <2>1, ResultStaysResult
  <2>3. CASE answer'[r].response = response
    <3>1. /\ answer'[r].response.id = r /\ answer'[r].response.code = "none"
          /\ answer'[r].response.result = reply[r]
      BY <2>2, <2>3
    <3> QED
      BY <1>1, <2>1, <3>1 DEF OwnAt, Replied
  <2> QED
    BY <1>2, <2>3 DEF OwnAt
<1>4. CASE pc[r] = "marshal"
  <2>1. failure[r] \in ErrorObject /\ failure[r] # "none" /\ reply[r] = "none"
    BY <1>0, <1>4 DEF StageAt, Failing, ErrorObject
  <2>2. response = [id |-> r, code |-> ErrorName(failure[r]), text |-> copied[r],
                    result |-> "none"]
    BY <1>0, <2>1, ErrorStaysError
  <2>3. ErrorName(failure[r]) # "none"
    BY DEF ErrorName
  <2>4. CASE answer'[r].response = response
    <3>1. /\ answer'[r].response.id = r
          /\ answer'[r].response.code = ErrorName(failure[r])
          /\ answer'[r].response.result = "none"
      BY <2>2, <2>4
    <3> QED
      BY <1>1, <2>1, <2>3, <3>1 DEF OwnAt, Replied
  <2> QED
    BY <1>2, <2>4 DEF OwnAt
<1> QED
  BY <1>3, <1>4 DEF Respond

\* An error that ServeHTTP answers with is not of a handler.
LEMMA RefuseIsOwn ==
  ASSUME Stage, NEW r \in Request, NEW e, Refuse(r, e),
         e.code # "none", e.result = "none",
         e.id = r <=> Decoded(r) /\ e.code = "Method not found"
  PROVE  OwnAt(r)'
<1>0. TypeOK /\ StageAt(r)
  BY DEF Stage
<1>1. UNCHANGED <<sent, failure, reply>> /\ failure[r] = "none" /\ reply[r] = "none"
  BY <1>0 DEF Refuse, Unhandled, StageAt, Failing
<1>2. \/ answer'[r] = answer[r] /\ answer[r].kind # "response"
      \/ answer'[r].response = e
  BY <1>0 DEF Refuse, Responded, Finish, TypeOK, StageAt, Serving
<1>3. CASE answer'[r].response = e
  BY <1>1, <1>3 DEF OwnAt, Replied, Decoded
<1> QED
  BY <1>2, <1>3 DEF OwnAt

LEMMA OwnNext ==
  ASSUME Stage, NEW r \in Request, OwnAt(r), Step(r)
  PROVE  OwnAt(r)'
<1>0. TypeOK /\ StageAt(r)
  BY DEF Stage
<1>1. CASE UNCHANGED <<sent, failure, reply, answer>>
  BY <1>1 DEF OwnAt, Replied, Decoded
<1>2. CASE HandlerFails(r) \/ HandlerSucceeds(r)
  <2>1. answer'[r].kind # "response"
    BY <1>0, <1>2 DEF HandlerFails, HandlerSucceeds, StageAt, Serving
  <2> QED
    BY <2>1 DEF OwnAt
<1>3. CASE Timeout(r)
  <2>1. answer'[r].kind = "timeout"
    BY <1>0, <1>3, BareIsAnswer DEF Timeout, TypeOK, Kinds
  <2> QED
    BY <2>1 DEF OwnAt
<1>4. CASE LoggingPanics(r) \/ ArgsMissing(r) \/ HandlerPanics(r)
  <2>1. Panic(r) /\ pc[r] \in Serving
    BY <1>4 DEF LoggingPanics, ArgsMissing, HandlerPanics, Serving
  <2>2. answer'[r].kind # "response"
    BY <1>0, <2>1, BareIsAnswer DEF Panic, Finish, TypeOK, Kinds, StageAt
  <2> QED
    BY <2>2 DEF OwnAt
<1>5. NoText \in Text /\ r # NoRequest
  BY NoRequestAssumption DEF NoText, Text
<1>6. CASE NotAllowed(r) \/ Unread(r) \/ Undecoded(r)
  <2>1. ASSUME NEW name \in Codes \ {"none"}, Refuse(r, ErrorResponse(name, NoText)),
               ~(Decoded(r) /\ name = "Method not found")
        PROVE  OwnAt(r)'
    <3> DEFINE e == ErrorResponse(name, NoText)
    <3>1. e.id = NoRequest /\ e.code = name /\ e.result = "none"
      BY <1>5, ErrorIsResponse
    <3>2. Refuse(r, e)
      BY <2>1
    <3> HIDE DEF e
    <3> QED
      BY <1>5, <2>1, <3>1, <3>2, RefuseIsOwn
  <2>2. CASE NotAllowed(r)
    BY <2>1, <2>2 DEF NotAllowed, Codes, Decoded
  <2>3. CASE Unread(r)
    BY <2>1, <2>3 DEF Unread, Codes
  <2>4. CASE Undecoded(r)
    BY <2>1, <2>4 DEF Undecoded, Codes
  <2> QED
    BY <1>6, <2>2, <2>3, <2>4
<1>7. CASE MethodMissing(r)
  <2> DEFINE e == SetReqIdent(ErrorResponse("Method not found", NoText), r)
  <2>1. e.id = r /\ e.code = "Method not found" /\ e.result = "none"
    <3>1. \A name \in Codes :
            /\ SetReqIdent(ErrorResponse(name, NoText), r).id = r
            /\ SetReqIdent(ErrorResponse(name, NoText), r).code = name
            /\ SetReqIdent(ErrorResponse(name, NoText), r).result = "none"
      BY <1>5, ErrorIsResponse
    <3>2. "Method not found" \in Codes
      BY DEF Codes
    <3> QED
      BY <3>1, <3>2
  <2>2. Decoded(r) /\ Refuse(r, e)
    BY <1>7 DEF MethodMissing
  <2> HIDE DEF e
  <2> QED
    BY <2>1, <2>2, RefuseIsOwn
<1>8. CASE Respond(r)
  BY <1>8, RespondIsOwn
<1>9. \/ UNCHANGED <<sent, failure, reply, answer>>
      \/ HandlerFails(r) \/ HandlerSucceeds(r) \/ Timeout(r) \/ LoggingPanics(r)
      \/ ArgsMissing(r) \/ HandlerPanics(r) \/ NotAllowed(r) \/ Unread(r)
      \/ Undecoded(r) \/ MethodMissing(r) \/ Respond(r)
  BY DEF Step, ServeHTTP, Handler, Arrive, CallHandler, SetWord, MarshalWord
<1> QED
  BY <1>1, <1>2, <1>3, <1>4, <1>6, <1>7, <1>8, <1>9

\* A response says what the handler of its own call replied with, an error as
\* that error and a result as that result, although the reply is decoded as a
\* response and encoded again; and it has the id of its request, unless the
\* request was not read or could not be decoded.
THEOREM RepliesAreOwn == Spec => []OwnReply
<1> DEFINE Own == \A r \in Request : OwnAt(r)
<1>1. Init => Own
  BY BareIsAnswer DEF Init, OwnAt, Kinds
<1>2. Stage /\ Own => OwnReply
  BY DEF Stage, StageAt, OwnAt, OwnReply
<1>3. Stage /\ Own /\ [Next]_vars => Own'
  <2> SUFFICES ASSUME Stage, Own, [Next]_vars, NEW r \in Request PROVE OwnAt(r)'
    OBVIOUS
  <2>1. OwnAt(r) /\ TypeOK
    BY DEF Stage
  <2>2. CASE UNCHANGED vars
    BY <2>1, <2>2 DEF vars, OwnAt, Replied, Decoded
  <2>3. ASSUME NEW p \in Request, Step(p), p # r PROVE OwnAt(r)'
    BY <2>1, <2>3, OthersUntouched DEF Step, OwnAt, Replied, Decoded
  <2> QED
    BY <2>1, <2>2, <2>3, OwnNext DEF Next, Step
<1> HIDE DEF Own
<1> QED
  BY StageInit, StageNext, <1>1, <1>2, <1>3, PTL DEF Spec
=============================================================================
