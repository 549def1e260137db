---------------------------- MODULE InferStream ----------------------------
(***************************************************************************)
(* One POST /infer from arrival to the end of its response: postInfer and  *)
(* joinContexts in src/internal/httpapi, Infer in                          *)
(* src/internal/manager/inference.go after admission, and the Generate of  *)
(* the two adapters that reads the event stream of a llama-server.         *)
(*                                                                         *)
(* Concurrent with the handler: the client may disconnect, the server may  *)
(* shut down, timers fire, the goroutine of joinContexts relays, and the   *)
(* upstream server sends lines, stalls, closes or fails.  Ensuring the     *)
(* model and admission are one step here; Manager and Admission have them. *)
(***************************************************************************)
EXTENDS Naturals, Sequences

CONSTANTS
    Tokens,         \* token texts
    CloseMayFail,   \* the session's Close may return an error
    MaxLines        \* bound: lines that the upstream server sends

ASSUME CloseAssumption == CloseMayFail \in BOOLEAN
ASSUME LinesAssumption == MaxLines \in Nat

VARIABLES
    mode,           \* how the server is configured
    hpc,            \* next step of the handler goroutine
    reqDone,        \* r.Context() is done
    baseDone,       \* serverBaseCtx is done
    watcher,        \* the goroutine of joinContexts
    ctxErr,         \* Err() of the context given to Infer
    reqExpired,     \* the deadline that Generate adds has passed
    tok,            \* the fragment that onToken is called with
    acc,            \* the tokens in the strings.Builder b
    err,            \* errRet of Infer
    closed,         \* what sess.Close() did
    out,            \* lines written to the ResponseWriter, oldest first
    sent,           \* how many of them have left the process
    conn,           \* the connection: "up" or, after a failed write, "down"
    status,         \* status code of the response, 0 before there is one
    recorded,       \* statusRecorder.status, the label of the metrics
    lines           \* number of upstream lines so far

ctxVars == <<reqDone, baseDone, watcher, ctxErr, reqExpired>>
respVars == <<out, sent, conn, status, recorded>>
vars == <<mode, hpc, ctxVars, tok, acc, err, closed, respVars, lines>>

CtxErrs == {"canceled", "deadline"}
Refusals == {"notFound", "unavailable", "budget", "busy", "other"}
Errors == CtxErrs \cup Refusals
Codes == {400, 404, 415, 429, 500, 503, 507}
Generating == {"do", "read", "token"}
Running == {"admit", "final", "close", "answer", "returned"} \cup Generating

\* server: llamaServerAdapter, otherwise llamaSubprocessAdapter, which has no
\* timeout of its own.
Modes == {m \in [server : BOOLEAN, inferTimeout : BOOLEAN, reqTimeout : BOOLEAN] :
            m.reqTimeout => m.server}

\* A line of the response: a token, the final line with the content, or the
\* JSON error object.
Line(kind, content) == [kind |-> kind, content |-> content]

TypeOK ==
    /\ mode \in Modes
    /\ hpc \in {"idle", "done"} \cup Running
    /\ {reqDone, baseDone, reqExpired} \subseteq BOOLEAN
    /\ watcher \in {"none", "waiting", "gone"}
    /\ ctxErr \in {"nil"} \cup CtxErrs
    /\ tok \in Seq(Tokens) /\ Len(tok) <= 1
    /\ acc \in Seq(Tokens)
    /\ err \in {"nil"} \cup Errors
    /\ closed \in {"open", "ok", "failed"}
    /\ out \in Seq([kind : {"token", "final", "error"}, content : Seq(Tokens)])
    /\ sent \in 0..Len(out)
    /\ conn \in {"up", "down"}
    /\ status \in {0, 200} \cup Codes
    /\ recorded \in {200} \cup Codes
    /\ lines \in 0..MaxLines

Init ==
    /\ mode \in Modes
    /\ hpc = "idle"
    /\ reqDone = FALSE /\ baseDone = FALSE /\ reqExpired = FALSE
    /\ watcher = "none"
    /\ ctxErr = "nil"
    /\ tok = <<>> /\ acc = <<>>
    /\ err = "nil"
    /\ closed = "open"
    /\ out = <<>> /\ sent = 0
    /\ conn = "up"
    /\ status = 0 /\ recorded = 200
    /\ lines = 0

-----------------------------------------------------------------------------
(* Writing the response.                                                   *)

\* Flush reaches the connection only through a ResponseWriter that is an
\* http.Flusher.  MetricsMiddleware passes a statusRecorder on, which embeds
\* the ResponseWriter interface and so has no Flush.
Flushable == FALSE

\* writeAll and safeFlush: the first write fixes the status.
WriteLine(l) ==
    /\ conn = "up"
    /\ out' = Append(out, l)
    /\ sent' = IF Flushable THEN Len(out) + 1 ELSE sent
    /\ status' = IF status = 0 THEN 200 ELSE status
    /\ UNCHANGED <<conn, recorded>>

\* w.Write fails; so does every later write.
WriteFails ==
    /\ conn' = "down"
    /\ UNCHANGED <<out, sent, status, recorded>>

\* writeJSONError: the recorder takes the code even when the status line has
\* been sent with the first token.
WriteError(code) ==
    /\ recorded' = code
    /\ \/ /\ conn = "up"
          /\ status' = IF status = 0 THEN code ELSE status
          /\ out' = Append(out, Line("error", <<>>))
       \/ /\ conn = "down"
          /\ UNCHANGED <<status, out>>
    /\ UNCHANGED <<sent, conn>>

-----------------------------------------------------------------------------
(* postInfer up to Infer, and Infer up to sess.Generate.                   *)

\* Wrong content type, bad JSON, or no prompt.
Reject(code) ==
    /\ hpc = "idle"
    /\ code \in {400, 415}
    /\ WriteError(code)
    /\ hpc' = "returned"
    /\ UNCHANGED <<mode, ctxVars, tok, acc, err, closed, lines>>

\* joinContexts starts its goroutine, and Infer is called.
Accept ==
    /\ hpc = "idle"
    /\ hpc' = "admit"
    /\ watcher' = "waiting"
    /\ UNCHANGED <<mode, reqDone, baseDone, ctxErr, reqExpired, tok, acc, err, closed, respVars, lines>>

\* Infer fails before it has a session: in EnsureInstance, beginGeneration,
\* for want of an adapter or in Start, or because its context is done.
Refuse(e) ==
    /\ hpc = "admit"
    /\ e \in Refusals \/ (e \in CtxErrs /\ e = ctxErr)
    /\ err' = e
    /\ hpc' = "answer"
    /\ UNCHANGED <<mode, ctxVars, tok, acc, closed, respVars, lines>>

StartSession ==
    /\ hpc = "admit"
    /\ hpc' = "do"
    /\ UNCHANGED <<mode, ctxVars, tok, acc, err, closed, respVars, lines>>

-----------------------------------------------------------------------------
(* Generate.                                                               *)

\* ctx.Err() inside Generate, whose context may have a deadline of its own.
GenErr == IF ctxErr # "nil" THEN ctxErr ELSE IF reqExpired THEN "deadline" ELSE "nil"

\* Generate returns e; Infer prefers the error of its own context.
GenerateFails(e) ==
    /\ err' = IF "canceled" \in {e, ctxErr} THEN "canceled"
              ELSE IF "deadline" \in {e, ctxErr} THEN "deadline" ELSE "other"
    /\ hpc' = "close"

\* A transport error, or a status other than 2xx.
RequestFails ==
    /\ hpc = "do"
    /\ \E e \in {GenErr, "other"} \ {"nil"} : GenerateFails(e)
    /\ UNCHANGED <<mode, ctxVars, tok, acc, closed, respVars, lines>>

RequestSent ==
    /\ hpc = "do"
    /\ GenErr = "nil"
    /\ hpc' = "read"
    /\ UNCHANGED <<mode, ctxVars, tok, acc, err, closed, respVars, lines>>

\* A line arrives.
NextLine == hpc = "read" /\ lines < MaxLines /\ lines' = lines + 1

\* data: {"choices":[{"delta":{"content":t}}]}
ReadToken(t) ==
    /\ NextLine
    /\ tok' = <<t>>
    /\ hpc' = "token"
    /\ UNCHANGED <<mode, ctxVars, acc, err, closed, respVars>>

\* data: {"content":t}: a token to the server adapter, nothing to the other.
ReadRaw(t) ==
    /\ NextLine
    /\ IF mode.server THEN tok' = <<t>> /\ hpc' = "token" ELSE UNCHANGED <<tok, hpc>>
    /\ UNCHANGED <<mode, ctxVars, acc, err, closed, respVars>>

\* An empty line, an empty fragment (with or without a finish reason), or
\* something that is neither.
ReadOther ==
    /\ NextLine
    /\ UNCHANGED <<mode, hpc, tok, ctxVars, acc, err, closed, respVars>>

\* [DONE], or the stream ends without it.
ReadEnd ==
    /\ hpc = "read"
    /\ hpc' = "final"
    /\ UNCHANGED <<mode, ctxVars, tok, acc, err, closed, respVars, lines>>

\* The read fails: the transport ends it once the context is done.
ReadFails ==
    /\ hpc = "read"
    /\ \E e \in {GenErr, "other"} \ {"nil"} : GenerateFails(e)
    /\ UNCHANGED <<mode, ctxVars, tok, acc, closed, respVars, lines>>

\* onTok: the context is checked, the line is written and flushed, and the
\* token is kept for the final line.
OnToken ==
    /\ hpc = "token"
    /\ \/ /\ ctxErr = "nil"
          /\ WriteLine(Line("token", tok))
          /\ acc' = acc \o tok
          /\ hpc' = "read"
          /\ UNCHANGED err
       \/ ctxErr # "nil" /\ GenerateFails(ctxErr) /\ UNCHANGED <<acc, respVars>>
       \/ ctxErr = "nil" /\ WriteFails /\ GenerateFails("other") /\ UNCHANGED acc
    /\ tok' = <<>>
    /\ UNCHANGED <<mode, ctxVars, closed, lines>>

\* A panic of the adapter is recovered and becomes the error of Infer.
Panic ==
    /\ hpc \in Generating
    /\ err' = "other"
    /\ hpc' = "close"
    /\ tok' = <<>>
    /\ UNCHANGED <<mode, ctxVars, acc, closed, respVars, lines>>

-----------------------------------------------------------------------------
(* The end of Infer and of postInfer.                                      *)

\* The final line; both adapters leave FinalResult.Content empty.
WriteFinal ==
    /\ hpc = "final"
    /\ \/ WriteLine(Line("final", acc)) /\ UNCHANGED err
       \/ WriteFails /\ err' = "other"
    /\ hpc' = "close"
    /\ UNCHANGED <<mode, ctxVars, tok, acc, closed, lines>>

\* The deferred Close.  Its error goes to closeErr, which the return
\* statement has read before.
CloseSession ==
    /\ hpc = "close"
    /\ closed' \in IF CloseMayFail THEN {"ok", "failed"} ELSE {"ok"}
    /\ hpc' = "answer"
    /\ UNCHANGED <<mode, ctxVars, tok, acc, err, respVars, lines>>

\* Mutation: an error that has no class of its own gets no status.
Code_NoDefault(e) ==
    CASE e = "notFound" -> 404 [] e = "unavailable" -> 503
      [] e = "budget" -> 507 [] e = "busy" -> 429 [] OTHER -> 0

\* The status for an error of Infer.
Code(e) ==
    CASE e = "notFound" -> 404 [] e = "unavailable" -> 503
      [] e = "budget" -> 507 [] e = "busy" -> 429 [] OTHER -> 500

\* Mutation: an error is not answered when the joined context is done.
Answer_Silent ==
    /\ hpc = "answer"
    /\ IF err = "nil" \/ ctxErr # "nil" THEN UNCHANGED respVars ELSE WriteError(Code(err))
    /\ hpc' = "returned"
    /\ UNCHANGED <<mode, ctxVars, tok, acc, err, closed, lines>>

\* Mutation: the success path falls through to the error response.
Answer_Always ==
    /\ hpc = "answer"
    /\ IF err # "nil" /\ (reqDone \/ baseDone) THEN UNCHANGED respVars
       ELSE WriteError(Code(err))
    /\ hpc' = "returned"
    /\ UNCHANGED <<mode, ctxVars, tok, acc, err, closed, lines>>

\* Nothing is answered on success, nor when the client or the server is going
\* away.
Answer ==
    /\ hpc = "answer"
    /\ IF err = "nil" \/ reqDone \/ baseDone THEN UNCHANGED respVars
       ELSE WriteError(Code(err))
    /\ hpc' = "returned"
    /\ UNCHANGED <<mode, ctxVars, tok, acc, err, closed, lines>>

\* cancel(), and then net/http: the rest of the response goes out and the
\* context of the request ends.
Finish ==
    /\ hpc = "returned"
    /\ hpc' = "done"
    /\ ctxErr' = IF ctxErr = "nil" THEN "canceled" ELSE ctxErr
    /\ reqDone' = TRUE
    /\ status' = IF status = 0 THEN 200 ELSE status
    /\ sent' = IF conn = "up" THEN Len(out) ELSE sent
    /\ UNCHANGED <<mode, baseDone, watcher, reqExpired, tok, acc, err, closed, out, conn, recorded, lines>>

-----------------------------------------------------------------------------
(* Around the handler.                                                     *)

Disconnect ==
    /\ ~reqDone
    /\ reqDone' = TRUE
    /\ UNCHANGED <<mode, hpc, baseDone, watcher, ctxErr, reqExpired, tok, acc, err, closed, respVars, lines>>

\* baseCancel() in main.
Shutdown ==
    /\ ~baseDone
    /\ baseDone' = TRUE
    /\ UNCHANGED <<mode, hpc, reqDone, watcher, ctxErr, reqExpired, tok, acc, err, closed, respVars, lines>>

\* Mutation: the goroutine waits for the request only.
Watch_RequestOnly ==
    /\ watcher = "waiting"
    /\ reqDone
    /\ watcher' = "gone"
    /\ ctxErr' = IF ctxErr = "nil" THEN "canceled" ELSE ctxErr
    /\ UNCHANGED <<mode, hpc, reqDone, baseDone, reqExpired, tok, acc, err, closed, respVars, lines>>

\* Mutation: the goroutine waits for the server only.
Watch_ServerOnly ==
    /\ watcher = "waiting"
    /\ baseDone
    /\ watcher' = "gone"
    /\ ctxErr' = IF ctxErr = "nil" THEN "canceled" ELSE ctxErr
    /\ UNCHANGED <<mode, hpc, reqDone, baseDone, reqExpired, tok, acc, err, closed, respVars, lines>>

\* The goroutine of joinContexts: either context cancels the joined one.
Watch ==
    /\ watcher = "waiting"
    /\ reqDone \/ baseDone
    /\ watcher' = "gone"
    /\ ctxErr' = IF ctxErr = "nil" THEN "canceled" ELSE ctxErr
    /\ UNCHANGED <<mode, hpc, reqDone, baseDone, reqExpired, tok, acc, err, closed, respVars, lines>>

\* context.WithTimeout of postInfer, and that of Generate.
Expire ==
    /\ hpc \in Running
    /\ \/ /\ mode.inferTimeout /\ watcher # "none" /\ ctxErr = "nil"
          /\ ctxErr' = "deadline"
          /\ UNCHANGED reqExpired
       \/ /\ mode.reqTimeout /\ hpc \in Generating /\ ~reqExpired
          /\ reqExpired' = TRUE
          /\ UNCHANGED ctxErr
    /\ UNCHANGED <<mode, hpc, reqDone, baseDone, watcher, tok, acc, err, closed, respVars, lines>>

-----------------------------------------------------------------------------
\* What the goroutine does without the upstream server.
HandlerStep ==
    \/ \E e \in Errors : Refuse(e)
    \/ StartSession \/ RequestFails \/ RequestSent
    \/ OnToken \/ WriteFinal \/ CloseSession \/ Answer \/ Finish
    \/ (GenErr # "nil" /\ ReadFails)

Upstream ==
    \/ \E t \in Tokens : ReadToken(t) \/ ReadRaw(t)
    \/ ReadOther \/ ReadEnd \/ ReadFails \/ Panic

AtRest == hpc = "done" /\ watcher # "waiting" /\ UNCHANGED vars

Next ==
    \/ \E code \in {400, 415} : Reject(code)
    \/ Accept \/ HandlerStep \/ Upstream
    \/ Disconnect \/ Shutdown \/ Watch \/ Expire
    \/ AtRest

Spec == Init /\ [][Next]_vars

\* Goroutines run, timers fire and a transport whose context is done ends its
\* reads; the upstream server owes nothing.
FairSpec == Spec /\ WF_vars(HandlerStep) /\ WF_vars(Watch) /\ WF_vars(Expire)

-----------------------------------------------------------------------------
(* Properties.                                                             *)

\* The body is token lines followed by at most one line of another kind, and
\* a final line has exactly the content of the token lines before it, whatever
\* failed, was canceled or timed out on the way.
StreamWellFormed ==
    \A k \in 1..Len(out) :
        /\ out[k].kind # "token" => k = Len(out)
        /\ out[k].kind = "final" =>
              out[k].content = [j \in 1..(k - 1) |-> out[j].content[1]]

\* A client that is still there, of a server that stays up, gets an answer:
\* timeouts and failures are never answered with an empty body.
AnsweredUnlessCanceled ==
    hpc = "returned" /\ out = <<>> /\ conn = "up" => reqDone \/ baseDone

\* The inductive invariant behind the two: until Infer has its result the body
\* is exactly the tokens kept for the final line, an error leaves it at that,
\* and success means that the final line was written or could not be read.
TokensSoFar ==
    /\ Len(out) = Len(acc)
    /\ \A k \in 1..Len(out) : out[k] = Line("token", <<acc[k]>>)

FinalWritten ==
    /\ Len(out) = Len(acc) + 1
    /\ \A k \in 1..Len(acc) : out[k] = Line("token", <<acc[k]>>)
    /\ out[Len(out)] = Line("final", acc)

ErrorWritten ==
    /\ Len(out) = Len(acc) + 1
    /\ \A k \in 1..Len(acc) : out[k] = Line("token", <<acc[k]>>)
    /\ out[Len(out)].kind = "error"

StreamInv ==
    /\ TypeOK
    /\ hpc \in {"idle", "admit", "final"} \cup Generating => TokensSoFar /\ err = "nil"
    /\ hpc = "token" <=> Len(tok) = 1
    /\ hpc \in {"close", "answer"} =>
          IF err = "nil" THEN FinalWritten ELSE TokensSoFar
    /\ hpc \in {"returned", "done"} =>
          FinalWritten \/ ErrorWritten \/ (TokensSoFar /\ (conn = "down" \/ reqDone \/ baseDone))

\* A request ends when its client disconnects, when the server shuts down and
\* when a timeout is configured, whatever the upstream server does.
HandlerEnds ==
    hpc \in Running /\ (reqDone \/ baseDone \/ mode.inferTimeout \/ mode.reqTimeout)
        ~> hpc = "done"

\* The goroutine of joinContexts does not outlive its request for ever.
WatcherEnds == hpc = "done" ~> watcher # "waiting"

\* docs/api.md: "Final line (exactly one)", for a client that stays to read a
\* stream that began.
ExactlyOneFinal ==
    hpc = "returned" /\ status = 200 /\ conn = "up" /\ ~reqDone /\ ~baseDone
        => out[Len(out)].kind = "final"

\* The status that the metrics count is the one that the client got.
MetricMatchesResponse == hpc = "done" /\ conn = "up" => recorded = status

\* inference.go: "Return any session close error if present".
CloseErrorReturned == hpc = "answer" /\ closed = "failed" => err # "nil"

\* README: "tokens are forwarded as they are generated": a line that was
\* written leaves the process without waiting for the next one.
TokensForwarded == conn = "up" /\ sent < Len(out) ~> conn = "down" \/ sent = Len(out)
=============================================================================
