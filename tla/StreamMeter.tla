------------------------------ MODULE StreamMeter ------------------------------
(***************************************************************************)
(* One streamed response: streamMeter of internal/proxy/stream.go between  *)
(* the upstream body and the copy loop of httputil.ReverseProxy.           *)
(*                                                                         *)
(* The upstream sends a script of SSE lines, two bytes each, of which the  *)
(* second is the newline; byte i belongs to line (i + 1) \div 2 and is     *)
(* written as the number i.  It may stop after any byte.  Reads return     *)
(* pieces of any size that fits the caller's buffer, so lines arrive split *)
(* at any byte.  The bytes of the timeout trailer are negative numbers.    *)
(***************************************************************************)
EXTENDS Integers, Sequences, SequencesExt

CONSTANTS
  OpenAILines, AnthropicLines,  \* lines the upstreams may send
  MaxLines,    \* lines of one stream (bound)
  BufSize,     \* the caller's buffer, in bytes
  Nil          \* no usage object, no error, no report

ASSUME StreamAssumption ==
  /\ MaxLines \in Nat /\ BufSize \in Nat \ {0}
  /\ Nil \notin {"deadline", "canceled", "eof", "error"}
  /\ \A l \in OpenAILines \cup AnthropicLines :
       l.usage # Nil => l.usage.in \in Nat /\ l.usage.out \in Nat

VARIABLES
  upstream, script, len,   \* the adapter, what it sends, and how many bytes of it
  pos,         \* bytes read from the body
  partial,     \* bytes of a line that has not ended yet
  model, inputTok, outputTok,
  pending,     \* trailer bytes not handed out yet
  ctxErr,      \* the first thing that ended the request context
  gone,        \* the connection takes no more writes
  at,          \* the copy loop
  buf, err,    \* what the last Read returned: bytes, and an error or Nil
  sent,        \* bytes written to the client
  report       \* what onDone was called with, or Nil

response == <<upstream, script, len>>
meterVars == <<partial, model, inputTok, outputTok>>
streamVars == <<response, meterVars, pos, pending, ctxErr, gone, at, buf, err, sent, report>>

Trailer == <<-3, -2, -1>>
IsNewline(b) == b > 0 /\ b % 2 = 0
Least(m, n) == IF m < n THEN m ELSE n

StreamTypeOK ==
  /\ pos \in 0..len /\ len \in 0..2 * MaxLines
  /\ inputTok \in Nat /\ outputTok \in Nat
  /\ ctxErr \in {Nil, "deadline", "canceled"}
  /\ at \in {"read", "failed", "write", "closing", "closed"}
  /\ err \in {Nil, "eof", "error"}
  /\ Len(buf) <= BufSize
  /\ gone \in BOOLEAN

StreamInit ==
  /\ upstream \in {"openai", "anthropic"}
  /\ script \in BoundedSeq(IF upstream = "openai" THEN OpenAILines ELSE AnthropicLines, MaxLines)
  /\ len \in 0..2 * Len(script)
  /\ pos = 0 /\ partial = <<>>
  /\ model = "" /\ inputTok = 0 /\ outputTok = 0
  /\ pending = <<>> /\ ctxErr = Nil /\ gone = FALSE
  /\ at = "read" /\ buf = <<>> /\ err = Nil
  /\ sent = <<>> /\ report = Nil

-----------------------------------------------------------------------------
(* Parsing, on the state m of the meter.                                   *)

ParseOpenAI(m, l) ==
  [m EXCEPT !.model = IF @ = "" THEN l.model ELSE @,
            !.in    = IF l.usage = Nil THEN @ ELSE l.usage.in,
            !.out   = IF l.usage = Nil THEN @ ELSE l.usage.out]

(* Mutant: every usage object replaces both totals.                        *)
ParseAnthropic_Replaces(m, l) ==
  [m EXCEPT !.model = IF l.type = "message_start" /\ l.model # "" THEN l.model ELSE @,
            !.in    = IF l.usage = Nil THEN @ ELSE l.usage.in,
            !.out   = IF l.usage = Nil THEN @ ELSE l.usage.out]

ParseAnthropic(m, l) ==
  CASE l.type = "message_start" ->
         [m EXCEPT !.model = IF l.model = "" THEN @ ELSE l.model,
                   !.in    = IF l.usage = Nil THEN @ ELSE l.usage.in,
                   !.out   = IF l.usage = Nil THEN @ ELSE l.usage.out]
    [] l.type = "message_delta" /\ l.usage # Nil /\ l.usage.out > 0 -> [m EXCEPT !.out = l.usage.out]
    [] OTHER -> m

(* Bytes that are not one whole line of the script are no valid event.     *)
ParseLine(m, bytes) ==
  LET last == Last(bytes) IN
  IF bytes # <<last - 1, last>> THEN m
  ELSE IF upstream = "openai" THEN ParseOpenAI(m, script[last \div 2])
  ELSE ParseAnthropic(m, script[last \div 2])

Feed(m, b) ==
  IF IsNewline(b) THEN [ParseLine(m, Append(m.partial, b)) EXCEPT !.partial = <<>>]
                  ELSE [m EXCEPT !.partial = Append(@, b)]

(* Mutant: the unfinished line of the previous Read is forgotten.          *)
Consume_DropsPartial(chunk) ==
  LET fed[i \in 0..Len(chunk)] ==
        IF i = 0 THEN [partial |-> <<>>, model |-> model, in |-> inputTok, out |-> outputTok]
                 ELSE Feed(fed[i - 1], chunk[i])
  IN  fed[Len(chunk)]

(* consume: append, and parse every line that is complete.                 *)
Consume(chunk) ==
  LET fed[i \in 0..Len(chunk)] ==
        IF i = 0 THEN [partial |-> partial, model |-> model, in |-> inputTok, out |-> outputTok]
                 ELSE Feed(fed[i - 1], chunk[i])
  IN  fed[Len(chunk)]

-----------------------------------------------------------------------------
(* Read, up to the return of the body's Read: n bytes and maybe an error.  *)
ReadBody(n, e) ==
  LET chunk == [i \in 1..n |-> pos + i]  m == Consume(chunk) IN
  /\ at = "read" /\ pending = <<>>
  /\ e = Nil => n > 0
  /\ e = "eof" => pos + n = len
  /\ pos' = pos + n
  /\ partial' = m.partial /\ model' = m.model /\ inputTok' = m.in /\ outputTok' = m.out
  /\ buf' = chunk /\ err' = e
  /\ at' = IF e = Nil THEN "write" ELSE "failed"
  /\ UNCHANGED <<response, pending, ctxErr, gone, sent, report>>

(* Mutant: the bytes that came with the error are not returned.            *)
CheckDeadline_DropsBytes ==
  /\ at = "failed"
  /\ at' = "write"
  /\ IF ctxErr = "deadline"
       THEN pending' = Trailer /\ err' = Nil /\ buf' = <<>>
       ELSE UNCHANGED <<pending, err, buf>>
  /\ UNCHANGED <<response, meterVars, pos, ctxErr, gone, sent, report>>

(* The error is looked at: after a deadline the bytes are returned without *)
(* it and the trailer follows.  An end of file that the deadline overtook  *)
(* counts as well.                                                         *)
CheckDeadline ==
  /\ at = "failed"
  /\ at' = "write"
  /\ IF ctxErr = "deadline"
       THEN pending' = Trailer /\ err' = Nil
       ELSE UNCHANGED <<pending, err>>
  /\ UNCHANGED <<response, meterVars, pos, ctxErr, gone, buf, sent, report>>

(* Mutant: the trailer waits for a buffer that holds all of it.            *)
ReadPending_Whole ==
  /\ at = "read" /\ pending # <<>>
  /\ IF Len(pending) <= BufSize
       THEN buf' = pending /\ pending' = <<>> /\ err' = "eof"
       ELSE buf' = <<>> /\ UNCHANGED <<pending, err>>
  /\ at' = "write"
  /\ UNCHANGED <<response, meterVars, pos, ctxErr, gone, sent, report>>

(* Read while the trailer is pending; its last bytes come with io.EOF.     *)
ReadPending ==
  LET n == Least(BufSize, Len(pending)) IN
  /\ at = "read" /\ pending # <<>>
  /\ buf' = SubSeq(pending, 1, n)
  /\ pending' = SubSeq(pending, n + 1, Len(pending))
  /\ err' = IF n = Len(pending) THEN "eof" ELSE Nil
  /\ at' = "write"
  /\ UNCHANGED <<response, meterVars, pos, ctxErr, gone, sent, report>>

(* The copy loop writes what it got, then stops on an error of the Read.   *)
Write ==
  /\ at = "write"
  /\ sent' = sent \o buf
  /\ at' = IF err = Nil THEN "read" ELSE "closing"
  /\ UNCHANGED <<response, meterVars, pos, pending, ctxErr, gone, buf, err, report>>

WriteFails ==
  /\ at = "write" /\ gone /\ buf # <<>>
  /\ at' = "closing"
  /\ UNCHANGED <<response, meterVars, pos, pending, ctxErr, gone, buf, err, sent, report>>

(* Mutant: usage is reported after a clean end of the stream only.         *)
Close_CleanOnly ==
  /\ at = "closing"
  /\ at' = "closed"
  /\ report' = IF err = "eof" /\ (inputTok > 0 \/ outputTok > 0)
                 THEN [model |-> model, in |-> inputTok, out |-> outputTok] ELSE Nil
  /\ UNCHANGED <<response, meterVars, pos, pending, ctxErr, gone, buf, err, sent>>

(* ReverseProxy closes the body on every way out, once.  (For a second     *)
(* Close, which nothing here calls, the code keeps a flag.)                *)
Close ==
  /\ at = "closing"
  /\ at' = "closed"
  /\ report' = IF inputTok > 0 \/ outputTok > 0
                 THEN [model |-> model, in |-> inputTok, out |-> outputTok] ELSE Nil
  /\ UNCHANGED <<response, meterVars, pos, pending, ctxErr, gone, buf, err, sent>>

(* The context: the per-key timeout or the client, whichever comes first.  *)
Deadline ==
  /\ at # "closed" /\ ctxErr = Nil
  /\ ctxErr' = "deadline"
  /\ UNCHANGED <<response, meterVars, pos, pending, gone, at, buf, err, sent, report>>

(* The client leaves, or a write to it has failed: net/http cancels the    *)
(* context.                                                                *)
ClientLeaves ==
  /\ at # "closed"
  /\ ~gone \/ ctxErr = Nil
  /\ gone' = TRUE
  /\ ctxErr' = IF ctxErr = Nil THEN "canceled" ELSE ctxErr
  /\ UNCHANGED <<response, meterVars, pos, pending, at, buf, err, sent, report>>

(* The server's WriteTimeout passes, also for a client that is still       *)
(* there: the context lives on, but writes fail from now on.               *)
WriteTimeout ==
  /\ at # "closed" /\ ~gone
  /\ gone' = TRUE
  /\ UNCHANGED <<response, meterVars, pos, pending, ctxErr, at, buf, err, sent, report>>

Readable == 0..Least(BufSize, len - pos)

StreamNext ==
  \/ \E n \in Readable, e \in {Nil, "eof", "error"} : ReadBody(n, e)
  \/ CheckDeadline \/ ReadPending \/ Write \/ WriteFails \/ Close
  \/ Deadline \/ ClientLeaves \/ WriteTimeout

(* The copy loop runs on; a Read of the body fails once the context is     *)
(* done.  The upstream itself may stall for ever.                          *)
StreamFairness ==
  /\ WF_streamVars(CheckDeadline \/ ReadPending \/ Write \/ Close)
  /\ WF_streamVars(ctxErr # Nil /\ \E n \in Readable : ReadBody(n, "error"))

StreamSpec == StreamInit /\ [][StreamNext]_streamVars /\ StreamFairness
-----------------------------------------------------------------------------
(* What should be billed for lines, without looking at how they arrived.   *)
Newest(lines, default, Has(_), Get(_)) ==
  LET hits == {i \in DOMAIN lines : Has(lines[i])} IN
  IF hits = {} THEN default ELSE Get(lines[Max(hits)])

Oldest(lines, default, Has(_), Get(_)) ==
  LET hits == {i \in DOMAIN lines : Has(lines[i])} IN
  IF hits = {} THEN default ELSE Get(lines[Min(hits)])

Start(l) == l.type = "message_start"
HasUsage(l) == l.usage # Nil
HasModel(l) == l.model # ""

OpenAIUsage(lines) ==
  [model |-> Oldest(lines, "", HasModel, LAMBDA l : l.model),
   in    |-> Newest(lines, 0, HasUsage, LAMBDA l : l.usage.in),
   out   |-> Newest(lines, 0, HasUsage, LAMBDA l : l.usage.out)]

AnthropicUsage(lines) ==
  [model |-> Newest(lines, "", LAMBDA l : Start(l) /\ HasModel(l), LAMBDA l : l.model),
   in    |-> Newest(lines, 0, LAMBDA l : Start(l) /\ HasUsage(l), LAMBDA l : l.usage.in),
   out   |-> Newest(lines, 0,
               LAMBDA l : HasUsage(l) /\ (Start(l) \/ (l.type = "message_delta" /\ l.usage.out > 0)),
               LAMBDA l : l.usage.out)]

Billable(lines) == IF upstream = "openai" THEN OpenAIUsage(lines) ELSE AnthropicUsage(lines)

(* However the stream was cut into reads and however it ended (end of      *)
(* stream, upstream error, client gone, timeout), what is billed is the    *)
(* usage of the complete lines that were read: the first model and the     *)
(* last totals of OpenAI, the last message_start and the last running      *)
(* total of Anthropic.                                                     *)
BilledAsReceived ==
  LET u == Billable(SubSeq(script, 1, pos \div 2)) IN
  at = "closed" => report = IF u.in > 0 \/ u.out > 0 THEN u ELSE Nil

(* The client gets the upstream's bytes untouched and in order, and after  *)
(* them nothing but the trailer, which only a deadline brings.  As long as *)
(* the connection takes writes (the client stays and the server's          *)
(* WriteTimeout has not passed) it carries every byte that was read and    *)
(* the whole trailer.                                                      *)
Bytes(n) == [i \in 1..n |-> i]

ClientSeesUpstream ==
  /\ sent \in {Bytes(n) : n \in 0..pos}
              \cup {Bytes(pos) \o SubSeq(Trailer, 1, n) : n \in 1..Len(Trailer)}
  /\ Len(sent) > pos => ctxErr = "deadline"
  /\ at \in {"closing", "closed"} /\ ~gone =>
       sent = Bytes(pos) \o IF err = "eof" /\ Len(buf) > 0 /\ buf[1] < 0 THEN Trailer ELSE <<>>

(* A timeout or a disconnect ends the copy and closes the body, whatever   *)
(* the upstream does: the handler does not hang on a stalled stream.       *)
CopyEnds == (ctxErr # Nil) ~> (at = "closed")
=============================================================================
