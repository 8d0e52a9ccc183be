------------------------------ MODULE RpcServer ------------------------------
(***************************************************************************)
(* The HTTP JSON-RPC server of rpc/rpcutil: the way of a request from      *)
(* ServeHTTP through the lookup of its method and its handler to the       *)
(* answer, with panics, the time-out and the error objects of types/errno, *)
(* which all requests share.  What a handler does before it replies is in  *)
(* SyncBlockAndLogs and LogQuery; here it replies in any of its ways.      *)
(***************************************************************************)
EXTENDS Naturals, Sequences

CONSTANTS
  Request,    \* the HTTP requests; also their JSON-RPC ids
  NoRequest,  \* no request: the id 0, and the author of an empty text
  Calls,      \* what clients send: records [verb, json, method, params]
  Methods     \* the methods of the type that StartRPC registers

ASSUME NoRequestAssumption == NoRequest \notin Request

\* The global objects a handler can reply with.
ErrorObject == {"InvalidParams", "SystemError"}

\* A string is two words of memory.  Whose text a word belongs to is all that
\* is kept of it.
Word == {"ptr", "len"}
Text == [Word -> Request \union {NoRequest}]
NoText == [w \in Word |-> NoRequest]

VARIABLES
  pc,       \* where each request is
  sent,     \* what its client sent
  failure,  \* the shared object *reply leads to, or "none"
  reply,    \* what else *reply is: a "list" of logs, a "text", or "none"
  words,    \* words of the string being written or read that remain
  copied,   \* the text json.Marshal has read so far
  answer,   \* what the client was answered
  Data      \* field Data of the shared objects

\* History variable: the requests that had been served when this one started.
VARIABLE before

vars == <<pc, sent, failure, reply, words, copied, answer, Data, before>>

\* A jsonResponse: the id, the code (told by its message) and the Data of the
\* error, and the shape of the result.
Codes == {"none", "Method not found", "Invalid Request", "Internal error",
          "Invalid params"}
Shapes == {"none", "list", "text", "object"}
Response ==
  [id : Request \union {NoRequest}, code : Codes, text : Text, result : Shapes]
EmptyResponse ==
  [id |-> NoRequest, code |-> "none", text |-> NoText, result |-> "none"]

\* A client gets a response, the text of the time-out, an empty body, or its
\* connection is closed.
Kinds == {"none", "response", "timeout", "empty", "closed"}
Answer == [kind : Kinds, response : Response]
Bare(kind) == [kind |-> kind, response |-> EmptyResponse]
Responded(response) == [kind |-> "response", response |-> response]

Serving == {"serve", "handler", "setData", "marshal", "encode"}

TypeOK ==
  /\ pc \in [Request -> {"idle", "done"} \union Serving]
  /\ sent \in [Request -> Calls]
  /\ failure \in [Request -> ErrorObject \union {"none"}]
  /\ reply \in [Request -> {"none", "list", "text"}]
  /\ words \in [Request -> SUBSET Word]
  /\ copied \in [Request -> Text]
  /\ answer \in [Request -> Answer]
  /\ Data \in [ErrorObject -> Text]
  /\ before \in [Request -> SUBSET Request]

Init ==
  /\ pc = [r \in Request |-> "idle"]
  /\ sent \in [Request -> Calls]
  /\ failure = [r \in Request |-> "none"]
  /\ reply = [r \in Request |-> "none"]
  /\ words = [r \in Request |-> {}]
  /\ copied = [r \in Request |-> NoText]
  /\ answer = [r \in Request |-> Bare("none")]
  /\ Data = [e \in ErrorObject |-> NoText]
  /\ before = [r \in Request |-> {}]

-----------------------------------------------------------------------------
(* Register, and the lookup of a method.                                   *)

\* suitableMethod: exported, receiver and two arguments, the second of them a
\* pointer, one result, which is an error.
SuitableMethod(m) ==
  m.exported /\ m.numIn = 3 /\ m.reply = "pointer" /\ m.out = <<"error">>

SuitableMethods == {m.name : m \in {n \in Methods : SuitableMethod(n)}}

\* parseFromRPCMethod: of a method with exactly one underscore, what follows
\* it, with 32 subtracted from the code of its first character.  What precedes
\* it is not looked at.  Any other method gets the service "", which is not
\* registered.
HandlersOf(method) ==
  IF Len(method) # 2 THEN {}
  ELSE {h \in SuitableMethods : /\ h.rest = method[2].rest
                                /\ h.initial + 32 = method[2].initial}

\* What the handler of a method puts in *reply.
Outcomes(method) ==
  UNION {IF h.rest = "etLogs" THEN {"list", "InvalidParams"}
                              ELSE {"text", "InvalidParams", "SystemError"} :
           h \in HandlersOf(method)}

\* Bug: an object that has no message of its own.
ErrorUnnamed(e) == IF e = "SystemError" THEN e ELSE "Invalid params"

\* The message that goes with the code of an object.
ErrorName(e) == IF e = "SystemError" THEN "Internal error" ELSE "Invalid params"

-----------------------------------------------------------------------------
(* The codec.                                                              *)

\* json.Unmarshal into a jsonResponse, its error ignored: only an object has
\* the fields, and the id "000000" of types.Responses is no number.
Decode(json) ==
  IF json.shape = "object"
  THEN [EmptyResponse EXCEPT !.code = json.code, !.text = json.text,
                             !.result = json.result]
  ELSE EmptyResponse

\* NewResponse with an error.
ErrorResponse(name, data) ==
  [id |-> NoRequest, code |-> name, text |-> data, result |-> "none"]

\* Bug: the error of the decoded reply is not looked at.
NewResponseUnchecked(json) ==
  [EmptyResponse EXCEPT !.result =
     IF Decode(json).result # "none" THEN Decode(json).result ELSE json.shape]

\* NewResponse without an error: what decodes as a response with an error or
\* a result gives that; anything else is the result as it is.
NewResponse(json) ==
  LET res == Decode(json)
  IN  IF res.code # "none" THEN ErrorResponse(res.code, res.text)
      ELSE [EmptyResponse EXCEPT !.result =
              IF res.result # "none" THEN res.result ELSE json.shape]

SetReqIdent(response, r) == [response EXCEPT !.id = r]

\* json.Marshal of *reply: a types.Response, of whose object a copy was made,
\* or the list or the text.
Marshalled(r) ==
  IF failure[r] = "none"
  THEN [shape |-> reply[r], code |-> "none", text |-> NoText, result |-> "none"]
  ELSE [shape |-> "object", code |-> ErrorName(failure[r]), text |-> copied[r],
        result |-> "none"]

-----------------------------------------------------------------------------
Goto(r, label) == pc' = [pc EXCEPT ![r] = label]

\* ServeHTTP returns: what it wrote reaches the client, unless the client was
\* answered before.
Finish(r, given) ==
  /\ Goto(r, "done")
  /\ answer' = [answer EXCEPT ![r] = IF @.kind = "none" THEN given ELSE @]

\* A panic is recovered in ServeHTTP before anything was written.  It is
\* logged then, and that may panic again: net/http closes the connection.
Panic(r) == Finish(r, Bare("empty")) \/ Finish(r, Bare("closed"))

Arrive(r) ==
  /\ pc[r] = "idle"
  /\ Goto(r, "serve")
  /\ before' = [before EXCEPT ![r] = {q \in Request : pc[q] = "done"}]
  /\ UNCHANGED <<sent, failure, reply, words, copied, answer, Data>>

\* The requests that ServeHTTP answers without a handler.
Unhandled == UNCHANGED <<sent, failure, reply, words, copied, Data, before>>

Refuse(r, response) ==
  pc[r] = "serve" /\ Finish(r, Responded(response)) /\ Unhandled

NotAllowed(r) ==
  /\ sent[r].verb # "POST"
  /\ Refuse(r, ErrorResponse("Method not found", NoText))

\* Reading the body fails: the client is gone, or sent less than it promised.
Unread(r) ==
  /\ sent[r].verb = "POST"
  /\ Refuse(r, ErrorResponse("Internal error", NoText))

\* Both are logged, and the logger may panic (Logger!Panic).
LoggingPanics(r) == pc[r] = "serve" /\ Panic(r) /\ Unhandled

Undecoded(r) ==
  /\ sent[r].verb = "POST"
  /\ ~sent[r].json
  /\ Refuse(r, ErrorResponse("Invalid Request", NoText))

Decoded(r) == sent[r].verb = "POST" /\ sent[r].json

MethodMissing(r) ==
  /\ Decoded(r)
  /\ HandlersOf(sent[r].method) = {}
  /\ Refuse(r, SetReqIdent(ErrorResponse("Method not found", NoText), r))

\* req.Args[0] of no arguments.
ArgsMissing(r) ==
  /\ pc[r] = "serve"
  /\ Decoded(r)
  /\ HandlersOf(sent[r].method) # {}
  /\ sent[r].params = 0
  /\ Panic(r)
  /\ Unhandled

CallHandler(r) ==
  /\ pc[r] = "serve"
  /\ Decoded(r)
  /\ HandlersOf(sent[r].method) # {}
  /\ sent[r].params > 0
  /\ Goto(r, "handler")
  /\ UNCHANGED <<sent, failure, reply, words, copied, answer, Data, before>>

-----------------------------------------------------------------------------
(* The end of a handler, and the encoding of its reply.                    *)

\* GetLogs can panic (LogQuery!Panic), and both handlers log.
HandlerPanics(r) == pc[r] = "handler" /\ Panic(r) /\ Unhandled

HandlerSucceeds(r) ==
  /\ pc[r] = "handler"
  /\ \E outcome \in Outcomes(sent[r].method) \ ErrorObject :
       reply' = [reply EXCEPT ![r] = outcome]
  /\ Goto(r, "encode")
  /\ UNCHANGED <<sent, failure, words, copied, answer, Data, before>>

\* Bug: the error object is returned as it is.
HandlerFailsSilently(r) ==
  /\ pc[r] = "handler"
  /\ \E e \in Outcomes(sent[r].method) \intersect ErrorObject :
       failure' = [failure EXCEPT ![r] = e]
  /\ words' = [words EXCEPT ![r] = Word]
  /\ Goto(r, "marshal")
  /\ UNCHANGED <<sent, reply, copied, answer, Data, before>>

HandlerFails(r) ==
  /\ pc[r] = "handler"
  /\ \E e \in Outcomes(sent[r].method) \intersect ErrorObject :
       failure' = [failure EXCEPT ![r] = e]
  /\ words' = [words EXCEPT ![r] = Word]
  /\ Goto(r, "setData")
  /\ UNCHANGED <<sent, reply, copied, answer, Data, before>>

\* types.InvalidParams.Data = ..., one word after the other, in the order the
\* compiler chose; the handler then returns with a pointer to the object.
SetWord(r, w) ==
  /\ pc[r] = "setData"
  /\ w \in words[r]
  /\ Data' = [Data EXCEPT ![failure[r]][w] = r]
  /\ IF words[r] = {w}
     THEN Goto(r, "marshal") /\ words' = [words EXCEPT ![r] = Word]
     ELSE UNCHANGED pc /\ words' = [words EXCEPT ![r] = @ \ {w}]
  /\ UNCHANGED <<sent, failure, reply, copied, answer, before>>

\* NewResponse marshals the object the pointer leads to, and so copies it.
MarshalWord(r, w) ==
  /\ pc[r] = "marshal"
  /\ w \in words[r]
  /\ words' = [words EXCEPT ![r] = @ \ {w}]
  /\ copied' = [copied EXCEPT ![r][w] = Data[failure[r]][w]]
  /\ UNCHANGED <<pc, sent, failure, reply, answer, Data, before>>

\* The bytes are decoded and encoded again with the id of the request.
Respond(r) ==
  /\ pc[r] = "encode" \/ (pc[r] = "marshal" /\ words[r] = {})
  /\ Finish(r, Responded(SetReqIdent(NewResponse(Marshalled(r)), r)))
  /\ Unhandled

\* Bug: the time-out covers the reading of the request only.
TimeoutReading(r) ==
  /\ pc[r] = "serve"
  /\ answer[r].kind = "none"
  /\ answer' = [answer EXCEPT ![r] = Bare("timeout")]
  /\ UNCHANGED <<pc, sent, failure, reply, words, copied, Data, before>>

\* http.TimeoutHandler, 300 seconds after the request arrived.
Timeout(r) ==
  /\ pc[r] \in Serving
  /\ answer[r].kind = "none"
  /\ answer' = [answer EXCEPT ![r] = Bare("timeout")]
  /\ UNCHANGED <<pc, sent, failure, reply, words, copied, Data, before>>

ServeHTTP(r) ==
  \/ NotAllowed(r) \/ Unread(r) \/ LoggingPanics(r) \/ Undecoded(r)
  \/ MethodMissing(r) \/ ArgsMissing(r) \/ CallHandler(r)
  \/ \E w \in Word : SetWord(r, w) \/ MarshalWord(r, w)
  \/ Respond(r)

Handler(r) == HandlerPanics(r) \/ HandlerSucceeds(r) \/ HandlerFails(r)

Next ==
  \E r \in Request : Arrive(r) \/ ServeHTTP(r) \/ Handler(r) \/ Timeout(r)

Spec == Init /\ [][Next]_vars

\* A goroutine that does not wait for anything keeps running, and the timer of
\* the time-out fires.  Nothing is assumed of the handlers: their queries and
\* calls of the node have no deadline.
Fairness ==
  \A r \in Request : WF_vars(ServeHTTP(r)) /\ WF_vars(Timeout(r))

FairSpec == Spec /\ Fairness

-----------------------------------------------------------------------------
(* Properties.                                                             *)

\* The text of an error may be another request's, or be mixed of two, since
\* all requests share one object.  But it was written for a request that
\* failed with that error, and whose goroutine had not ended when this request
\* arrived.  (That of a request whose time is out goes on, and may still write.)
TextIsConcurrent ==
  \A r \in Request : LET a == answer[r].response IN
    failure[r] # "none" /\ a.code = ErrorName(failure[r]) =>
      \A w \in Word :
        /\ a.text[w] \in Request \ before[r]
        /\ failure[a.text[w]] = failure[r]

\* The handler of r has replied.
Replied(r) == failure[r] # "none" \/ reply[r] # "none"

\* A response says what the handler of its own call put in *reply, although
\* that is decoded as a response and encoded again on the way: an error as
\* that error and no result, a list or text as the result and no error.  Only
\* an error comes without a reply.  A response has the id of the request, but
\* for those to a request that was not read or could not be decoded.
OwnReply ==
  \A r \in Request : LET a == answer[r].response IN
    answer[r].kind = "response" =>
      /\ a.result = reply[r]
      /\ a.code = "none" <=> reply[r] # "none"
      /\ failure[r] # "none" => a.code = ErrorName(failure[r])
      /\ {failure[r], reply[r]} \subseteq {"none"} \union Outcomes(sent[r].method)
      /\ a.id = r <=>
           Replied(r) \/ (Decoded(r) /\ a.code = "Method not found")

\* Every request that arrived is answered, also when its handler never ends.
Answered == \A r \in Request : pc[r] = "serve" ~> answer[r].kind # "none"
=============================================================================
