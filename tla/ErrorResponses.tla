--------------------------- MODULE ErrorResponses ---------------------------
(***************************************************************************)
(* The answer to a request that raised (src/infrastructure/web/            *)
(* global_exceptions_handler.py and src/infrastructure/exceptions.py).     *)
(*                                                                         *)
(* An exception is [type, status, words]: its class, the status it carries *)
(* (0 when it carries none) and the words the handlers look for in its     *)
(* text.  The handlers try isinstance in a fixed order, so a class answers *)
(* like the first of its bases that has a branch.                          *)
(***************************************************************************)
EXTENDS Integers

\* The exceptions of exceptions.py and their status.
StatusOf ==
  [QuotaExceeded |-> 429, JSONParsing |-> 502, ContentSafety |-> 400, LLMGateway |-> 502,
   RateLimit |-> 429, UnsupportedImageType |-> 415, ImageTooLarge |-> 413,
   PersonaRequired |-> 400, InitialMessageRequired |-> 400, ChatReadOnly |-> 400,
   ContextWindowExceeded |-> 413, InvalidLorebook |-> 422, SummaryNotFound |-> 404,
   SummaryChapterStale |-> 409, SummaryNotEditable |-> 409]

\* The classes an exception is an instance of, as far as they have a branch.
Bases(type) ==
  IF type \in DOMAIN StatusOf THEN {"BaseAPIException"}
  ELSE IF type = "JSONDecodeError" THEN {"ValueError", "JSONDecodeError"}
  ELSE IF type \in {"ResourceExhausted", "PermissionDenied", "ServiceUnavailable", "GoogleAPICallError"}
       THEN {"Google"}
  ELSE {type}

IsInstance(exc, class) == class \in Bases(exc.type)
Says(exc, word) == word \in exc.words

\* handle_google_api_exception.
GoogleStatus(exc) ==
  IF Says(exc, "quota") \/ Says(exc, "exceeded") \/ exc.type = "ResourceExhausted" THEN 429
  ELSE IF Says(exc, "rate") /\ Says(exc, "limit") THEN 429
  ELSE IF Says(exc, "permission") \/ Says(exc, "unauthenticated") \/ exc.type = "PermissionDenied" THEN 401
  ELSE IF Says(exc, "unavailable") \/ exc.type = "ServiceUnavailable" THEN 503
  ELSE 502

\* The form of ValueErrorStatus that does not look at the text.
ValueErrorAs400(exc) == 400

\* A lookup that fails in a gateway is a ValueError that says so.
ValueErrorStatus(exc) == IF Says(exc, "not found") THEN 404 ELSE 400

\* global_exception_handler, up to the status of the response.  Its branch
\* for JSONDecodeError is never reached: that is a ValueError.
Status(exc) ==
  CASE IsInstance(exc, "BaseAPIException") -> StatusOf[exc.type]
    [] IsInstance(exc, "InvalidCredentialsError") -> 401
    [] IsInstance(exc, "HTTPException") -> exc.status
    [] IsInstance(exc, "ValueError") -> ValueErrorStatus(exc)
    [] IsInstance(exc, "NoResultFound") -> 404
    [] IsInstance(exc, "MultipleResultsFound") -> 500
    [] IsInstance(exc, "IntegrityError") -> 409
    [] IsInstance(exc, "Google") -> GoogleStatus(exc)
    [] OTHER -> 500

\* register_exception_handlers: what is not registered goes through
\* ServerErrorMiddleware, and the connection is closed after the answer.
Registered ==
  {"BaseAPIException", "InvalidCredentialsError", "HTTPException", "ValueError", "NoResultFound",
   "MultipleResultsFound", "IntegrityError", "JSONDecodeError"}

KeepsConnection(exc) == Bases(exc.type) \cap Registered # {}

-----------------------------------------------------------------------------
\* A row that is not there, or not any more, is a 404 whichever gateway
\* misses it: some raise a ValueError with a text, some use scalar_one.
MissingIs404(exc) ==
  (exc.type \in {"NoResultFound", "SummaryNotFound"} \/ (exc.type = "ValueError" /\ Says(exc, "not found")))
     => Status(exc) = 404

\* An answer that blames the client, or the data of his request, leaves his
\* connection usable.
BlamedClientStays(exc) == (Status(exc) < 500 /\ ~IsInstance(exc, "Google")) => KeepsConnection(exc)

\* What a response says is what happened, whoever raised it.
ErrorKeepsMeaning(exc) == MissingIs404(exc) /\ BlamedClientStays(exc)
=============================================================================
