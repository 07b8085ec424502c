------------------------------- MODULE McpServe -------------------------------
(***************************************************************************)
(* `runewall mcp serve`: a loop that reads one JSON-RPC request per line   *)
(* from stdin and writes one answer per line to stdout, until stdin ends.  *)
(* Stdout is a pipe to the client: the interpreter buffers what is written *)
(* and passes it on when its buffer is full or the process ends.  Tools    *)
(* that report on policy are the reports of module Reports, check by check *)
(* on a file that `config` commands rewrite; a check that raises ends the  *)
(* process, since nothing catches it.  The CLI and the SDK make reports in *)
(* processes of their own.                                                 *)
(*                                                                         *)
(* Requests is what the client will send, by what the server does with it: *)
(* "blank" lines, "malformed" ones (not JSON, no method, a tool or an      *)
(* argument that is unknown), "static" ones (initialize, tools/list, maps) *)
(* and the kinds of reports that are tools.                                *)
(***************************************************************************)
EXTENDS Reports

CONSTANTS Server,      \* the reporter that is the server
          Requests,    \* sequence of requests
          Lockstep,    \* the client waits for an answer before it goes on
          BufferSize   \* answers the buffer of stdout holds

ASSUME BufferAssumption == BufferSize \in Nat
ASSUME RequestsAssumption ==
  Requests \in Seq({"blank", "malformed", "static", "policy_test", "policy_audit",
                    "dry_run", "release_check", "doctor"})
ASSUME ServerAssumption == Server \in Reporters

VARIABLES sent,        \* requests the client has written
          closed,      \* it has closed its end
          taken,       \* requests the server has read
          buffer,      \* answers not passed on yet: sequence of request numbers
          delivered,   \* answers the client can read
          server       \* "serving", "ended" or "crashed"

mcpVars == <<sent, closed, taken, buffer, delivered, server>>
allVars == <<configVars, reportVars, mcpVars>>

Init ==
  /\ ConfigInit /\ ReportsInit
  /\ sent = 0 /\ closed = FALSE /\ taken = 0
  /\ buffer = <<>> /\ delivered = <<>>
  /\ server = "serving"

-------------------------------------------------------------------------------
\* The requests among the first n that are answered.
Answerable(n) == {i \in 1 .. n : Requests[i] # "blank"}

\* One answer to each of the first n requests, in their order, and no other.
AnswersTo(answers, n) ==
  /\ \A i, j \in DOMAIN answers : i < j => answers[i] < answers[j]
  /\ {answers[i] : i \in DOMAIN answers} = Answerable(n)

Send ==
  /\ sent < Len(Requests) /\ ~closed
  /\ Lockstep => AnswersTo(delivered, sent)
  /\ sent' = sent + 1
  /\ UNCHANGED <<closed, taken, buffer, delivered, server, reportVars, configVars>>

Close ==
  /\ sent = Len(Requests) /\ ~closed
  /\ Lockstep => AnswersTo(delivered, sent)
  /\ closed' = TRUE
  /\ UNCHANGED <<sent, taken, buffer, delivered, server, reportVars, configVars>>

\* Write an answer: a buffer that overflows passes on a part of what it holds.
Put(answer) ==
  LET all == Append(buffer, answer) IN
  \E n \in 0 .. Len(all) :
    /\ Len(all) <= BufferSize => n = 0
    /\ delivered' = delivered \o SubSeq(all, 1, n)
    /\ buffer' = SubSeq(all, n + 1, Len(all))

\* The interpreter flushes stdout when it exits, after an exception too.
Exit(how) ==
  /\ server' = how
  /\ delivered' = delivered \o buffer /\ buffer' = <<>>

NextLine == /\ server = "serving" /\ ~Busy(Server)
            /\ taken < sent /\ taken' = taken + 1

\* Variant: a blank line is a request like any other.
ServeBlank ==
  /\ NextLine /\ Put(taken')
  /\ UNCHANGED <<server, sent, closed, reportVars, configVars>>

Serve ==
  /\ NextLine
  /\ CASE Requests[taken'] = "blank" -> UNCHANGED <<buffer, delivered, reportVars>>
       [] Requests[taken'] \in {"malformed", "static"} -> Put(taken') /\ UNCHANGED reportVars
       [] OTHER -> Begin(Server, Requests[taken']) /\ UNCHANGED <<there, reports, buffer, delivered>>
  /\ UNCHANGED <<server, sent, closed, configVars>>

\* One check of the report that was asked for; the answer follows the last.
ServeReport ==
  /\ server = "serving"
  /\ ReadOn(Server)
  /\ CASE reporter'[Server].level = "none"   -> UNCHANGED <<buffer, delivered, server>>
       [] reporter'[Server].level = "raised" -> Exit("crashed")
       [] OTHER -> Put(taken) /\ UNCHANGED server
  /\ UNCHANGED <<sent, closed, taken, there, reports, configVars>>

\* Variant: what is in the buffer is dropped when the input ends.
EndOfInputDropping ==
  /\ server = "serving" /\ ~Busy(Server) /\ closed /\ taken = sent
  /\ server' = "ended" /\ buffer' = <<>>
  /\ UNCHANGED <<sent, closed, taken, delivered, reportVars, configVars>>

EndOfInput ==
  /\ server = "serving" /\ ~Busy(Server) /\ closed /\ taken = sent
  /\ Exit("ended")
  /\ UNCHANGED <<sent, closed, taken, reportVars, configVars>>

\* The other processes.
ReportElsewhere ==
  /\ \E p \in Reporters \ {Server} :
       \/ \E kind \in Called : CallReport(p, kind)
       \/ ReadOn(p) /\ UNCHANGED <<there, reports>>
  /\ UNCHANGED <<mcpVars, configVars>>

ConfigStep == ConfigNext /\ Disturb /\ UNCHANGED mcpVars

Next == Send \/ Close \/ Serve \/ ServeReport \/ EndOfInput \/ ReportElsewhere \/ ConfigStep

Spec == Init /\ [][Next]_allVars

\* The server's loop has nothing but input to wait for; a client that has no
\* reason to wait goes on.  Nothing is assumed of the config commands.
FairSpec == Spec /\ WF_allVars(Serve) /\ WF_allVars(ServeReport) /\ WF_allVars(EndOfInput)
                 /\ WF_allVars(Send) /\ WF_allVars(Close)

-------------------------------------------------------------------------------
(***************************************************************************)
(* One answer for each request and none for a blank line, in the order of  *)
(* the requests, through malformed requests, full buffers and the end of   *)
(* the process: what the client has and what is under way is the answer to *)
(* all that the server read, but the request it is at or crashed on.       *)
(***************************************************************************)
AnswersInOrder ==
  /\ AnswersTo(delivered \o buffer, IF server = "crashed" \/ Busy(Server) THEN taken - 1 ELSE taken)
  /\ server # "serving" => buffer = <<>>

(***************************************************************************)
(* A client that does not wait for answers gets them all, unless a config  *)
(* command makes config.toml unreadable.                                   *)
(***************************************************************************)
AllAnswered == <>(~Readable(file) \/ AnswersTo(delivered, Len(Requests)))

(***************************************************************************)
(* "agents can call safety tools before taking real-world actions": a      *)
(* request is answered while the client waits for the answer.              *)
(***************************************************************************)
AnswerWhileWaiting ==
  \A i \in 1 .. Len(Requests) :
    sent = i ~> (~Readable(file) \/ Len(delivered) >= Cardinality(Answerable(i)))

===============================================================================
