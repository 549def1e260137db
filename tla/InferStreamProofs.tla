------------------------- MODULE InferStreamProofs -------------------------
(* Proofs about module InferStream: what the body of POST /infer is, for   *)
(* any tokens, any number of upstream lines, both adapters and whatever    *)
(* disconnects, shuts down, expires, fails or panics on the way.           *)
EXTENDS InferStream, SequenceTheorems, TLAPS

\* The lines of a response.
Lines == [kind : {"token", "final", "error"}, content : Seq(Tokens)]

-----------------------------------------------------------------------------
(* What a write does to the body.                                          *)

\* Appending keeps the lines before and puts the new one last.
LEMMA AppendLine ==
    ASSUME NEW S, NEW s \in Seq(S), NEW x \in S
    PROVE  /\ Append(s, x) \in Seq(S)
           /\ Len(Append(s, x)) = Len(s) + 1
           /\ Len(s) \in Nat
           /\ \A k \in 1..Len(s) : Append(s, x)[k] = s[k]
           /\ Append(s, x)[Len(s) + 1] = x
    BY AppendProperties

\* A token line and its token keep the body and the kept tokens in step.
LEMMA TokenExtends ==
    ASSUME TypeOK, TokensSoFar, Len(tok) = 1,
           out' = Append(out, Line("token", tok)), acc' = acc \o tok
    PROVE  TokensSoFar' /\ out' \in Seq(Lines) /\ acc' \in Seq(Tokens)
<1>1. /\ tok \in Seq(Tokens) /\ acc \in Seq(Tokens) /\ out \in Seq(Lines)
      /\ tok[1] \in Tokens /\ tok = <<tok[1]>>
    <2>1. tok \in Seq(Tokens) /\ acc \in Seq(Tokens) /\ out \in Seq(Lines)
        BY DEF TypeOK, Lines
    <2>2. tok[1] \in Tokens
        <3>1. 1 \in 1..Len(tok)
            OBVIOUS
        <3> QED
            BY <2>1, <3>1, ElementOfSeq
    <2>3. /\ <<tok[1]>> \in Seq(Tokens) /\ Len(<<tok[1]>>) = 1
          /\ \A k \in 1..1 : <<tok[1]>>[k] = tok[k]
        BY <2>2
    <2>4. tok = <<tok[1]>>
        BY <2>1, <2>3, SeqEqual
    <2> QED
        BY <2>1, <2>2, <2>4
<1>2. Line("token", tok) \in Lines
    BY <1>1 DEF Line, Lines
<1>3. /\ out' \in Seq(Lines) /\ Len(out') = Len(out) + 1 /\ Len(out) \in Nat
      /\ \A k \in 1..Len(out) : out'[k] = out[k]
      /\ out'[Len(out) + 1] = Line("token", tok)
    BY <1>1, <1>2, AppendLine
<1>4. acc' = Append(acc, tok[1])
    BY <1>1, AppendIsConcat
<1>5. /\ acc' \in Seq(Tokens) /\ Len(acc') = Len(acc) + 1
      /\ \A k \in 1..Len(acc) : acc'[k] = acc[k]
      /\ acc'[Len(acc) + 1] = tok[1]
    BY <1>1, <1>4, AppendLine
<1>6. Len(out) = Len(acc) /\ \A k \in 1..Len(out) : out[k] = Line("token", <<acc[k]>>)
    BY DEF TokensSoFar
<1>7. ASSUME NEW k \in 1..Len(out') PROVE out'[k] = Line("token", <<acc'[k]>>)
    <2>1. CASE k \in 1..Len(out)
        BY <2>1, <1>3, <1>5, <1>6
    <2>2. CASE k = Len(out) + 1
        <3>1. acc'[k] = tok[1] /\ out'[k] = Line("token", tok)
            BY <2>2, <1>3, <1>5, <1>6
        <3>2. tok = <<acc'[k]>>
            BY <3>1, <1>1
        <3> QED
            BY <3>1, <3>2 DEF Line
    <2>3. k \in 1..Len(out) \/ k = Len(out) + 1
        BY <1>3
    <2> QED
        BY <2>1, <2>2, <2>3, Zenon
<1> QED
    BY <1>3, <1>5, <1>6, <1>7 DEF TokensSoFar

\* Any other line closes the body.
LEMMA LineCloses ==
    ASSUME TypeOK, TokensSoFar, NEW kind \in {"final", "error"},
           NEW c \in Seq(Tokens), out' = Append(out, Line(kind, c)), UNCHANGED acc
    PROVE  /\ out' \in Seq(Lines)
           /\ Len(out') = Len(out) + 1
           /\ kind = "final" /\ c = acc => FinalWritten'
           /\ kind = "error" => ErrorWritten'
<1>1. out \in Seq(Lines) /\ Line(kind, c) \in Lines
    BY DEF TypeOK, Line, Lines
<1>2. /\ out' \in Seq(Lines) /\ Len(out') = Len(out) + 1 /\ Len(out) \in Nat
      /\ \A k \in 1..Len(out) : out'[k] = out[k]
      /\ out'[Len(out) + 1] = Line(kind, c)
    BY <1>1, AppendLine
<1>3. Line(kind, c).kind = kind
    BY DEF Line
<1> QED
    BY <1>2, <1>3 DEF TokensSoFar, FinalWritten, ErrorWritten

\* WriteLine appends one line and fixes the status; nothing leaves early.
LEMMA WriteEffect ==
    ASSUME TypeOK, NEW l \in Lines, WriteLine(l)
    PROVE  /\ out' = Append(out, l) /\ out' \in Seq(Lines)
           /\ sent' \in 0..Len(out')
           /\ status' \in {0, 200} \cup Codes
           /\ UNCHANGED <<conn, recorded>>
<1>1. out \in Seq(Lines) /\ sent \in 0..Len(out)
    BY DEF TypeOK, Lines
<1>2. out' = Append(out, l) /\ sent' = sent
    BY DEF WriteLine, Flushable
<1>3. out' \in Seq(Lines) /\ Len(out') = Len(out) + 1 /\ Len(out) \in Nat
    BY <1>1, <1>2, AppendLine
<1>4. sent' \in 0..Len(out')
    BY <1>1, <1>2, <1>3
<1> QED
    BY <1>2, <1>3, <1>4 DEF WriteLine, TypeOK

\* WriteError appends the error object, unless the connection is down.
LEMMA ErrorEffect ==
    ASSUME TypeOK, TokensSoFar, NEW code \in Codes, WriteError(code), UNCHANGED acc
    PROVE  /\ out' \in Seq(Lines)
           /\ sent' \in 0..Len(out')
           /\ status' \in {0, 200} \cup Codes /\ recorded' \in {200} \cup Codes
           /\ UNCHANGED conn
           /\ ErrorWritten' \/ (TokensSoFar' /\ conn' = "down")
<1>1. /\ out \in Seq(Lines) /\ sent \in 0..Len(out) /\ <<>> \in Seq(Tokens)
      /\ sent' = sent /\ conn' = conn /\ recorded' = code
    BY DEF TypeOK, Lines, WriteError
<1>2. CASE conn = "up"
    <2>1. out' = Append(out, Line("error", <<>>))
        BY <1>2 DEF WriteError
    <2>2. out' \in Seq(Lines) /\ Len(out') = Len(out) + 1 /\ ErrorWritten'
        BY <1>1, <2>1, LineCloses
    <2>3. sent' \in 0..Len(out')
        BY <1>1, <2>2
    <2>4. status' \in {0, 200} \cup Codes
        BY <1>2 DEF WriteError, TypeOK
    <2> QED
        BY <1>1, <2>2, <2>3, <2>4
<1>3. CASE conn # "up"
    <2>1. UNCHANGED <<out, status>> /\ conn = "down"
        BY <1>3 DEF WriteError, TypeOK
    <2> QED
        BY <1>1, <2>1 DEF TypeOK, TokensSoFar
<1> QED
    BY <1>2, <1>3

-----------------------------------------------------------------------------
(* The inductive invariant.                                                *)

\* A body is judged by its lines and the kept tokens alone.
LEMMA BodyKept ==
    ASSUME UNCHANGED <<out, acc>>
    PROVE  /\ TokensSoFar' = TokensSoFar
           /\ FinalWritten' = FinalWritten
           /\ ErrorWritten' = ErrorWritten
    BY DEF TokensSoFar, FinalWritten, ErrorWritten

\* A request starts with an empty body.
LEMMA InvInit == Init => StreamInv
<1> SUFFICES ASSUME Init PROVE StreamInv
    OBVIOUS
<1>1. TypeOK
    <2>1. /\ <<>> \in Seq([kind : {"token", "final", "error"}, content : Seq(Tokens)])
          /\ <<>> \in Seq(Tokens) /\ Len(<<>>) = 0 /\ 0 \in 0..MaxLines
        BY LinesAssumption
    <2>2. /\ out \in Seq([kind : {"token", "final", "error"}, content : Seq(Tokens)])
          /\ tok \in Seq(Tokens) /\ acc \in Seq(Tokens)
          /\ Len(out) = 0 /\ Len(tok) = 0
        BY <2>1, Zenon DEF Init
    <2>3. /\ mode \in Modes /\ hpc = "idle" /\ watcher = "none" /\ ctxErr = "nil"
          /\ err = "nil" /\ closed = "open" /\ conn = "up"
          /\ reqDone \in BOOLEAN /\ baseDone \in BOOLEAN /\ reqExpired \in BOOLEAN
          /\ sent = 0 /\ lines = 0 /\ status = 0 /\ recorded = 200
        BY DEF Init
    <2> QED
        BY <2>1, <2>2, <2>3 DEF TypeOK
<1>2. TokensSoFar
    BY DEF Init, TokensSoFar
<1>3. hpc = "idle" /\ err = "nil" /\ Len(tok) = 0
    <2>1. Len(<<>>) = 0
        OBVIOUS
    <2> QED
        BY <2>1, Zenon DEF Init
<1> QED
    BY <1>1, <1>2, <1>3 DEF StreamInv

\* Disconnects, the shutdown, timers and the goroutine of joinContexts do not
\* touch the handler, and a done context stays done.
LEMMA AroundKeepsInv ==
    ASSUME StreamInv, Disconnect \/ Shutdown \/ Watch \/ Expire
    PROVE  StreamInv'
<1>1. /\ UNCHANGED <<mode, hpc, tok, acc, err, closed, respVars, lines>>
      /\ reqDone => reqDone'
      /\ baseDone => baseDone'
    BY DEF Disconnect, Shutdown, Watch, Expire, StreamInv, TypeOK
<1>2. TypeOK'
    <2>1. CASE Disconnect
        BY <2>1, <1>1 DEF Disconnect, StreamInv, TypeOK, respVars
    <2>2. CASE Shutdown
        BY <2>2, <1>1 DEF Shutdown, StreamInv, TypeOK, respVars
    <2>3. CASE Watch
        BY <2>3, <1>1 DEF Watch, StreamInv, TypeOK, respVars, CtxErrs
    <2>4. CASE Expire
        <3>1. /\ UNCHANGED <<reqDone, baseDone, watcher>>
              /\ ctxErr' \in {"nil"} \cup CtxErrs /\ reqExpired' \in BOOLEAN
            BY <2>4 DEF Expire, StreamInv, TypeOK, CtxErrs
        <3> QED
            BY <3>1, <1>1 DEF StreamInv, TypeOK, respVars
    <2> QED
        BY <2>1, <2>2, <2>3, <2>4
<1>3. UNCHANGED <<out, acc, conn>>
    BY <1>1 DEF respVars
<1> QED
    BY <1>1, <1>2, <1>3, BodyKept DEF StreamInv

\* Steps of the handler and lines of the upstream server that write nothing:
\* the body is still the kept tokens, and only a failure leaves Generate.
Silent ==
    \/ Accept \/ StartSession \/ RequestFails \/ RequestSent \/ Panic
    \/ ReadOther \/ ReadEnd \/ ReadFails
    \/ \E e \in Errors : Refuse(e)
    \/ \E t \in Tokens : ReadToken(t) \/ ReadRaw(t)

\* They keep the invariant.
LEMMA SilentKeepsInv ==
    ASSUME StreamInv, Silent
    PROVE  StreamInv'
<1>1. /\ hpc \in {"idle", "admit"} \cup Generating
      /\ UNCHANGED <<mode, acc, closed, respVars, reqDone, baseDone, ctxErr, reqExpired>>
      /\ \/ hpc' \in {"admit", "final"} \cup Generating /\ UNCHANGED err
         \/ hpc' \in {"close", "answer"} /\ err' \in Errors
      /\ lines' \in 0..MaxLines
      /\ watcher' \in {"none", "waiting", "gone"}
      /\ tok' \in Seq(Tokens) /\ Len(tok') <= 1
      /\ hpc' = "token" <=> Len(tok') = 1
    <2>1. CASE Accept \/ StartSession \/ RequestSent \/ ReadOther \/ ReadEnd
        BY <2>1, LinesAssumption
           DEF Accept, StartSession, RequestSent, ReadOther, ReadEnd, NextLine, StreamInv,
               TypeOK, ctxVars, Running, Generating
    <2>2. CASE RequestFails \/ ReadFails
        BY <2>2
           DEF RequestFails, ReadFails, GenerateFails, StreamInv, TypeOK, ctxVars, Running,
               Generating, Errors, CtxErrs, Refusals
    <2>3. CASE Panic
        BY <2>3 DEF Panic, StreamInv, TypeOK, ctxVars, Running, Generating, Errors, Refusals
    <2>4. CASE \E e \in Errors : Refuse(e)
        BY <2>4 DEF Refuse, StreamInv, TypeOK, ctxVars, Running, Generating
    <2>5. ASSUME NEW t \in Tokens, ReadToken(t) \/ ReadRaw(t)
          PROVE  /\ hpc = "read" /\ lines' \in 0..MaxLines
                 /\ UNCHANGED <<ctxVars, mode, acc, err, closed, respVars>>
                 /\ \/ tok' = <<t>> /\ hpc' = "token"
                    \/ UNCHANGED <<tok, hpc>>
        <3>1. /\ hpc = "read" /\ lines' \in 0..MaxLines
              /\ UNCHANGED <<ctxVars, mode, acc, err, closed, respVars>>
            BY <2>5, LinesAssumption DEF ReadToken, ReadRaw, NextLine, StreamInv, TypeOK
        <3>2. \/ tok' = <<t>> /\ hpc' = "token"
              \/ UNCHANGED <<tok, hpc>>
            BY <2>5, Zenon DEF ReadToken, ReadRaw
        <3> QED
            BY <3>1, <3>2
    <2>6. CASE \E t \in Tokens : ReadToken(t) \/ ReadRaw(t)
        <3>1. PICK t \in Tokens : ReadToken(t) \/ ReadRaw(t)
            BY <2>6
        <3>2. <<t>> \in Seq(Tokens) /\ Len(<<t>>) = 1
            OBVIOUS
        <3>3. /\ hpc = "read" /\ lines' \in 0..MaxLines
              /\ UNCHANGED <<ctxVars, mode, acc, err, closed, respVars>>
              /\ \/ tok' = <<t>> /\ hpc' = "token"
                 \/ UNCHANGED <<tok, hpc>>
            BY <3>1, <2>5
        <3>4. tok' \in Seq(Tokens) /\ Len(tok') <= 1 /\ (hpc' = "token" <=> Len(tok') = 1)
            <4>1. CASE tok' = <<t>> /\ hpc' = "token"
                <5>1. tok' \in Seq(Tokens) /\ Len(tok') = 1
                    BY <4>1, <3>2, Zenon
                <5> QED
                    BY <4>1, <5>1
            <4>2. CASE UNCHANGED <<tok, hpc>>
                BY <4>2 DEF StreamInv, TypeOK
            <4> QED
                BY <3>3, <4>1, <4>2
        <3> QED
            BY <3>3, <3>4 DEF StreamInv, TypeOK, ctxVars, Generating
    <2> QED
        BY <2>1, <2>2, <2>3, <2>4, <2>6 DEF Silent
<1>2. TypeOK'
    BY <1>1 DEF StreamInv, TypeOK, respVars, Running, Generating, Errors
<1>3. TokensSoFar' /\ UNCHANGED <<out, acc>>
    BY <1>1, BodyKept DEF StreamInv, respVars, Generating
<1>4. err = "nil"
    BY <1>1 DEF StreamInv, Generating
<1> QED
    BY <1>1, <1>2, <1>3, <1>4 DEF StreamInv, Generating, Errors, CtxErrs, Refusals

\* onTok writes the token and keeps it, or Generate fails and it does neither.
LEMMA OnTokenKeepsInv ==
    ASSUME StreamInv, OnToken
    PROVE  StreamInv'
<1>1. /\ TypeOK /\ TokensSoFar /\ err = "nil" /\ Len(tok) = 1
    BY DEF StreamInv, OnToken, Generating
<1>2. /\ UNCHANGED <<mode, reqDone, baseDone, watcher, ctxErr, reqExpired, closed, lines>>
      /\ tok' \in Seq(Tokens) /\ Len(tok') = 0
    <2>1. <<>> \in Seq(Tokens) /\ Len(<<>>) = 0
        OBVIOUS
    <2> QED
        BY <2>1, Zenon DEF OnToken, ctxVars
<1>3. CASE /\ WriteLine(Line("token", tok)) /\ acc' = acc \o tok
           /\ hpc' = "read" /\ UNCHANGED err
    <2>1. Line("token", tok) \in Lines
        BY <1>1 DEF TypeOK, Line, Lines
    <2>2. /\ out' = Append(out, Line("token", tok)) /\ out' \in Seq(Lines)
          /\ sent' \in 0..Len(out') /\ status' \in {0, 200} \cup Codes
          /\ UNCHANGED <<conn, recorded>>
        BY <1>1, <1>3, <2>1, WriteEffect
    <2>3. TokensSoFar' /\ acc' \in Seq(Tokens)
        BY <1>1, <1>3, <2>2, TokenExtends
    <2>4. TypeOK'
        BY <1>1, <1>2, <1>3, <2>2, <2>3 DEF TypeOK, Lines, Running, Generating
    <2> QED
        BY <1>1, <1>2, <1>3, <2>3, <2>4 DEF StreamInv, Generating
<1>4. CASE /\ UNCHANGED <<acc, out, sent, status, recorded>>
           /\ hpc' = "close" /\ err' \in Errors /\ conn' \in {"up", "down"}
    <2>1. TypeOK'
        BY <1>1, <1>2, <1>4 DEF TypeOK, Running
    <2>2. TokensSoFar'
        BY <1>1, <1>4, BodyKept
    <2> QED
        BY <1>2, <1>4, <2>1, <2>2 DEF StreamInv, Generating, Errors, CtxErrs, Refusals
<1> QED
    BY <1>1, <1>3, <1>4
       DEF OnToken, WriteFails, GenerateFails, respVars, TypeOK, Errors, CtxErrs, Refusals

\* The final line has what the token lines had.
LEMMA WriteFinalKeepsInv ==
    ASSUME StreamInv, WriteFinal
    PROVE  StreamInv'
<1>1. /\ TypeOK /\ TokensSoFar /\ err = "nil" /\ Len(tok) # 1
      /\ UNCHANGED <<mode, ctxVars, tok, acc, closed, lines>> /\ hpc' = "close"
    BY DEF StreamInv, WriteFinal
<1>2. CASE WriteLine(Line("final", acc)) /\ UNCHANGED err
    <2>1. Line("final", acc) \in Lines /\ acc \in Seq(Tokens)
        BY <1>1 DEF TypeOK, Line, Lines
    <2>2. /\ out' = Append(out, Line("final", acc)) /\ out' \in Seq(Lines)
          /\ sent' \in 0..Len(out') /\ status' \in {0, 200} \cup Codes
          /\ UNCHANGED <<conn, recorded>>
        BY <1>1, <1>2, <2>1, WriteEffect
    <2>3. FinalWritten'
        BY <1>1, <2>1, <2>2, LineCloses
    <2>4. TypeOK'
        BY <1>1, <1>2, <2>2 DEF TypeOK, Lines, Running, ctxVars
    <2> QED
        BY <1>1, <1>2, <2>3, <2>4 DEF StreamInv, Generating
<1>3. CASE WriteFails /\ err' = "other"
    <2>1. TypeOK'
        BY <1>1, <1>3 DEF WriteFails, TypeOK, Running, ctxVars, Errors, Refusals
    <2>2. TokensSoFar'
        BY <1>1, <1>3, BodyKept DEF WriteFails
    <2> QED
        BY <1>1, <1>3, <2>1, <2>2 DEF StreamInv, Generating
<1> QED
    BY <1>2, <1>3 DEF WriteFinal

\* Closing the session changes neither the body nor the result.
LEMMA CloseSessionKeepsInv ==
    ASSUME StreamInv, CloseSession
    PROVE  StreamInv'
<1>1. /\ TypeOK /\ hpc = "close" /\ hpc' = "answer"
      /\ closed' \in {"ok", "failed"}
      /\ UNCHANGED <<mode, ctxVars, tok, acc, err, respVars, lines>>
    BY DEF StreamInv, CloseSession
<1>2. TypeOK'
    BY <1>1 DEF TypeOK, Running, ctxVars, respVars
<1> QED
    BY <1>1, <1>2, BodyKept DEF StreamInv, Generating, respVars

\* A response that began with Reject, or with the answer to an error.
LEMMA AnswerKeepsInv ==
    ASSUME StreamInv, Answer \/ \E code \in {400, 415} : Reject(code)
    PROVE  StreamInv'
<1>1. /\ TypeOK /\ hpc \in {"idle", "answer"} /\ hpc' = "returned"
      /\ UNCHANGED <<mode, ctxVars, tok, acc, err, closed, lines>>
    BY DEF StreamInv, Answer, Reject
<1>2. Len(tok) # 1
    BY <1>1 DEF StreamInv
<1>3. ASSUME NEW code \in Codes, TokensSoFar, WriteError(code)
      PROVE  StreamInv'
    <2>1. /\ out' \in Seq(Lines)
          /\ sent' \in 0..Len(out')
          /\ status' \in {0, 200} \cup Codes /\ recorded' \in {200} \cup Codes
          /\ UNCHANGED conn
          /\ ErrorWritten' \/ (TokensSoFar' /\ conn' = "down")
        BY <1>1, <1>3, ErrorEffect
    <2>2. TypeOK'
        BY <1>1, <2>1 DEF TypeOK, Lines, Running, ctxVars
    <2> QED
        BY <1>1, <1>2, <2>1, <2>2 DEF StreamInv, Generating
<1>4. CASE UNCHANGED respVars /\ hpc = "answer"
           /\ (err = "nil" \/ reqDone \/ baseDone)
    <2>1. TypeOK'
        BY <1>1, <1>4 DEF TypeOK, Running, ctxVars, respVars
    <2>2. FinalWritten' \/ (TokensSoFar' /\ (reqDone' \/ baseDone'))
        BY <1>1, <1>4, BodyKept DEF StreamInv, ctxVars, respVars
    <2> QED
        BY <1>1, <1>2, <2>1, <2>2 DEF StreamInv, Generating
<1>5. CASE Answer /\ ~(err = "nil" \/ reqDone \/ baseDone)
    <2>1. WriteError(Code(err)) /\ Code(err) \in Codes /\ TokensSoFar
        BY <1>5 DEF Answer, Code, Codes, StreamInv
    <2> QED
        BY <2>1, <1>3
<1>6. CASE \E code \in {400, 415} : Reject(code)
    <2>1. PICK code \in {400, 415} : WriteError(code) /\ hpc = "idle"
        BY <1>6 DEF Reject
    <2>2. code \in Codes /\ TokensSoFar
        BY <2>1 DEF StreamInv, Codes
    <2> QED
        BY <2>1, <2>2, <1>3
<1> QED
    BY <1>4, <1>5, <1>6 DEF Answer

\* net/http only sends what was written.
LEMMA FinishKeepsInv ==
    ASSUME StreamInv, Finish
    PROVE  StreamInv'
<1>1. /\ TypeOK /\ hpc = "returned" /\ hpc' = "done" /\ reqDone' = TRUE
      /\ UNCHANGED <<mode, baseDone, watcher, reqExpired, tok, acc, err, closed, out, conn,
                     recorded, lines>>
      /\ ctxErr' \in {"nil"} \cup CtxErrs /\ status' \in {0, 200} \cup Codes
      /\ sent' \in 0..Len(out)
    <2>1. out \in Seq(Lines)
        BY DEF StreamInv, TypeOK, Lines
    <2>2. Len(out) \in 0..Len(out)
        BY <2>1
    <2> QED
        BY <2>2 DEF StreamInv, Finish, TypeOK, CtxErrs
<1>2. TypeOK'
    BY <1>1 DEF TypeOK, Running
<1> QED
    BY <1>1, <1>2, BodyKept DEF StreamInv, Generating

\* StreamInv is inductive.
LEMMA StepKeepsInv == StreamInv /\ [Next]_vars => StreamInv'
<1> SUFFICES ASSUME StreamInv, [Next]_vars PROVE StreamInv'
    OBVIOUS
<1>1. CASE AtRest \/ UNCHANGED vars
    <2>1. UNCHANGED vars
        BY <1>1 DEF AtRest
    <2>2. TypeOK' /\ UNCHANGED <<out, acc>>
        BY <2>1 DEF vars, ctxVars, respVars, StreamInv, TypeOK
    <2> QED
        BY <2>1, <2>2, BodyKept DEF vars, ctxVars, respVars, StreamInv
<1>2. CASE Disconnect \/ Shutdown \/ Watch \/ Expire
    BY <1>2, AroundKeepsInv
<1>3. CASE Silent
    BY <1>3, SilentKeepsInv
<1>4. CASE OnToken \/ WriteFinal \/ CloseSession \/ Finish
    BY <1>4, OnTokenKeepsInv, WriteFinalKeepsInv, CloseSessionKeepsInv, FinishKeepsInv
<1>5. CASE Answer \/ \E code \in {400, 415} : Reject(code)
    BY <1>5, AnswerKeepsInv
<1> QED
    BY <1>1, <1>2, <1>3, <1>4, <1>5 DEF Next, HandlerStep, Upstream, Silent

\* The inductive invariant holds throughout.
THEOREM StreamInvariant == Spec => []StreamInv
<1>1. Init => StreamInv
    BY InvInit
<1>2. StreamInv /\ [Next]_vars => StreamInv'
    BY StepKeepsInv
<1> QED
    BY <1>1, <1>2, PTL DEF Spec

-----------------------------------------------------------------------------
(* What it gives.                                                          *)

\* Every variable of the handler keeps its type.
THEOREM StreamTyping == Spec => []TypeOK
<1>1. StreamInv => TypeOK
    BY DEF StreamInv
<1> QED
    BY <1>1, StreamInvariant, PTL

\* A body that ends with a line of another kind than "token", or does not end
\* yet, is well formed.
LEMMA BodiesWellFormed ==
    ASSUME StreamInv, TokensSoFar \/ FinalWritten \/ ErrorWritten
    PROVE  StreamWellFormed
<1>1. acc \in Seq(Tokens) /\ Len(acc) \in Nat /\ acc = [j \in 1..Len(acc) |-> acc[j]]
    BY DEF StreamInv, TypeOK
<1>2. ASSUME NEW k \in 1..Len(out), k \in 1..Len(acc)
      PROVE  out[k].kind = "token" /\ out[k].content[1] = acc[k]
    <2>1. out[k] = Line("token", <<acc[k]>>)
        BY <1>2 DEF TokensSoFar, FinalWritten, ErrorWritten
    <2>2. <<acc[k]>>[1] = acc[k]
        OBVIOUS
    <2> QED
        BY <2>1, <2>2 DEF Line
<1>3. CASE TokensSoFar
    BY <1>2, <1>3 DEF TokensSoFar, StreamWellFormed
<1>4. CASE FinalWritten \/ ErrorWritten
    <2>1. Len(out) = Len(acc) + 1
        BY <1>4 DEF FinalWritten, ErrorWritten
    <2> SUFFICES ASSUME NEW k \in 1..Len(out)
                 PROVE  /\ out[k].kind # "token" => k = Len(out)
                        /\ out[k].kind = "final" =>
                              out[k].content = [j \in 1..(k - 1) |-> out[j].content[1]]
        BY DEF StreamWellFormed
    <2>2. CASE k \in 1..Len(acc)
        BY <2>2, <1>2
    <2>3. CASE k = Len(out)
        <3>1. [j \in 1..(k - 1) |-> out[j].content[1]] = acc
            <4>1. k - 1 = Len(acc)
                BY <2>1, <2>3, <1>1
            <4>2. \A j \in 1..Len(acc) : out[j].content[1] = acc[j]
                BY <2>1, <1>1, <1>2
            <4> QED
                BY <4>1, <4>2, <1>1
        <3>2. out[k].kind = "final" => out[k].content = acc
            BY <1>4, <2>3 DEF FinalWritten, ErrorWritten, Line
        <3> QED
            BY <2>3, <3>1, <3>2
    <2> QED
        BY <2>1, <2>2, <2>3, <1>1
<1> QED
    BY <1>3, <1>4

\* The body is token lines followed by at most one line of another kind, and
\* the final line carries exactly what the token lines before it carried.
THEOREM BodyIsWellFormed == Spec => []StreamWellFormed
<1>1. ASSUME StreamInv PROVE StreamWellFormed
    <2>1. TokensSoFar \/ FinalWritten \/ ErrorWritten
        BY <1>1 DEF StreamInv, TypeOK, Running, Generating
    <2> QED
        BY <1>1, <2>1, BodiesWellFormed
<1> QED
    BY <1>1, StreamInvariant, PTL

\* A client that stays connected to a server that stays up is answered.
THEOREM ClientIsAnswered == Spec => []AnsweredUnlessCanceled
<1>1. ASSUME StreamInv PROVE AnsweredUnlessCanceled
    <2> SUFFICES ASSUME hpc = "returned", out = <<>>, conn = "up"
                 PROVE  reqDone \/ baseDone
        BY DEF AnsweredUnlessCanceled
    <2>1. Len(out) = 0 /\ Len(acc) \in Nat
        BY <1>1 DEF StreamInv, TypeOK
    <2>2. ~FinalWritten /\ ~ErrorWritten
        BY <2>1 DEF FinalWritten, ErrorWritten
    <2> QED
        BY <1>1, <2>2 DEF StreamInv
<1> QED
    BY <1>1, StreamInvariant, PTL
=============================================================================
