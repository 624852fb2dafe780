----------------------------- MODULE ReportPipe -----------------------------
(***************************************************************************)
(* The pipe between a sampled application and its wrapper: who holds which *)
(* end of it, when the reader sees the end of file, and how its lines are  *)
(* sorted into reports (SampledLauncher.py, ReportsReader.py, report.c and *)
(* wrap_fork.c).  Descriptors are inherited over fork, and over exec too   *)
(* unless they are marked close-on-exec.                                   *)
(***************************************************************************)
EXTENDS Integers, SequencesExt, FiniteSetsExt

CONSTANTS
    Kids,       \* the processes the application may fork
    Capacity,   \* tokens that fit into the pipe
    Sections,   \* tokens between the tags of a report
    Threaded    \* can another thread hold the report lock at a fork?

ASSUME ReportPipeAssumption ==
    /\ {"wrapper", "app"} \cap Kids = {}
    /\ Capacity \in Nat \ {0} /\ Sections \in Nat
    /\ Threaded \in BOOLEAN

Procs == {"wrapper", "app"} \cup Kids

Samples == <<"samples">> \o [k \in 1..Sections |-> "data"] \o <<"end">>
Backtrace == <<"main-backtrace", "data", "end">>
Names == {"samples", "main-backtrace"}
Tokens == Names \cup {"data", "copy", "end"}

VARIABLES
    ends,       \* process -> the ends of the pipe that it holds
    cloexec,    \* process -> those marked close-on-exec
    pipe,       \* what is in the pipe
    wrapper,    \* where the wrapper is
    app,        \* the application
    todo,       \* process -> what it is about to write
    kid,        \* its children
    buffer,     \* process -> does its copy of the stream hold output?
    inside,     \* the report that the reader is in, or "none"
    reports,    \* ReportsReader: what it has of each report
    sent        \* history: everything ever written

appVars == <<app, todo>>
readerVars == <<inside, reports>>
vars == <<ends, cloexec, pipe, wrapper, appVars, kid, buffer, readerVars, sent>>

TypeOK ==
    /\ ends \in [Procs -> SUBSET {"read", "write"}]
    /\ cloexec \in [Procs -> SUBSET {"read", "write"}]
    /\ pipe \in BoundedSeq(Tokens, Capacity)
    /\ wrapper \in {"pipe", "spawn", "close", "mark", "read", "reap", "done", "dead"}
    /\ app \in {"none", "starting", "running", "finishing", "other", "ended"}
    /\ todo \in [Procs -> Seq(Tokens)]
    /\ kid \in [Kids -> {"none", "forked", "hung", "child", "inner", "finishing",
                       "program", "gone"}]
    /\ buffer \in [Procs -> BOOLEAN]
    /\ inside \in Names \cup {"none"}
    /\ reports \in [Names -> Seq(Tokens)]

Init ==
    /\ ends = [p \in Procs |-> {}] /\ cloexec = [p \in Procs |-> {}]
    /\ pipe = <<>> /\ sent = <<>>
    /\ wrapper = "pipe"
    /\ app = "none" /\ todo = [p \in Procs |-> <<>>]
    /\ kid = [k \in Kids |-> "none"]
    /\ buffer = [p \in Procs |-> FALSE]
    /\ inside = "none" /\ reports = [n \in Names |-> <<>>]

Keeps(p, e) == ends' = [ends EXCEPT ![p] = e]
Ends(p) == Keeps(p, {})
Writers == {p \in Procs : "write" \in ends[p]}

\* A write blocks while the pipe is full.  It cannot fail: whoever can write
\* holds the read end as well (WritersAlsoRead).
WriteToken(t) ==
    /\ Len(pipe) < Capacity
    /\ pipe' = Append(pipe, t) /\ sent' = Append(sent, t)

-----------------------------------------------------------------------------
(* The wrapper *)

WrapperOnly == UNCHANGED <<appVars, kid, buffer, sent>>

MakePipe ==
    /\ wrapper = "pipe" /\ wrapper' = "spawn"
    /\ Keeps("wrapper", {"read", "write"})
    /\ UNCHANGED <<cloexec, pipe, readerVars>> /\ WrapperOnly

\* Mutated form: the read end is marked before the application starts.
spawn_Marked ==
    /\ wrapper = "spawn" /\ wrapper' = "close"
    /\ app' = "starting"
    /\ Keeps("app", {"write"})
    /\ UNCHANGED <<cloexec, pipe, todo, kid, buffer, readerVars, sent>>

\* Popen without close_fds: the application inherits both ends.
spawn ==
    /\ wrapper = "spawn" /\ wrapper' = "close"
    /\ app' = "starting"
    /\ Keeps("app", ends["wrapper"] \ cloexec["wrapper"])
    /\ UNCHANGED <<cloexec, pipe, todo, kid, buffer, readerVars, sent>>

CloseWriteEnd ==
    /\ wrapper = "close" /\ wrapper' = "mark"
    /\ Keeps("wrapper", {"read"})
    /\ UNCHANGED <<cloexec, pipe, readerVars>> /\ WrapperOnly

MarkReadEnd ==
    /\ wrapper = "mark" /\ wrapper' = "read"
    /\ cloexec' = [cloexec EXCEPT !["wrapper"] = {"read"}]
    /\ UNCHANGED <<ends, pipe, readerVars>> /\ WrapperOnly

\* A start tag opens a report, also one begun before, and counts only outside
\* of reports; an end tag closes it; what is outside is dropped.
Sort(t) ==
    IF inside = "none"
    THEN inside' = (IF t \in Names THEN t ELSE "none") /\ UNCHANGED reports
    ELSE /\ inside' = IF t = "end" THEN "none" ELSE inside
         /\ reports' = IF t = "end" THEN reports
                       ELSE [reports EXCEPT ![inside] = Append(@, t)]

\* Mutated form: the wrapper reads when the application has ended.
ReadLine_Late ==
    /\ wrapper = "read" /\ pipe # <<>> /\ app = "ended"
    /\ Sort(Head(pipe))
    /\ pipe' = Tail(pipe)
    /\ UNCHANGED <<ends, cloexec, wrapper>> /\ WrapperOnly

ReadLine ==
    /\ wrapper = "read" /\ pipe # <<>>
    /\ Sort(Head(pipe))
    /\ pipe' = Tail(pipe)
    /\ UNCHANGED <<ends, cloexec, wrapper>> /\ WrapperOnly

\* Mutated form: the reader stops when there is nothing to read.
EndOfFile_Empty ==
    /\ wrapper = "read" /\ pipe = <<>> /\ app # "starting"
    /\ wrapper' = "reap"
    /\ Ends("wrapper")
    /\ UNCHANGED <<cloexec, pipe, readerVars>> /\ WrapperOnly

EndOfFile ==
    /\ wrapper = "read" /\ pipe = <<>> /\ Writers = {}
    /\ wrapper' = "reap"
    /\ Ends("wrapper")
    /\ UNCHANGED <<cloexec, pipe, readerVars>> /\ WrapperOnly

\* child.wait
Reap ==
    /\ wrapper = "reap" /\ app = "ended"
    /\ wrapper' = "done"
    /\ UNCHANGED <<ends, cloexec, pipe, readerVars>> /\ WrapperOnly

\* Killed, or ended by an exception: the tray's monitor did not answer.
WrapperDies ==
    /\ wrapper \in {"close", "mark", "read", "reap"}
    /\ wrapper' = "dead"
    /\ Ends("wrapper")
    /\ UNCHANGED <<cloexec, pipe, readerVars>> /\ WrapperOnly

WrapperStep ==
    \/ MakePipe \/ spawn \/ CloseWriteEnd \/ MarkReadEnd
    \/ ReadLine \/ EndOfFile \/ Reap

-----------------------------------------------------------------------------
(* The application and its runtime *)

AppOnly == UNCHANGED <<wrapper, readerVars>>

\* Mutated form: the report's descriptor is passed on to other programs.
openReportFile_Inherited ==
    /\ app = "starting" /\ app' = "running"
    /\ WriteToken("samples")
    /\ UNCHANGED <<cloexec, ends, todo, kid, buffer>> /\ AppOnly

\* The start tag is flushed at once.  Only the write end is marked.
openReportFile ==
    /\ app = "starting" /\ app' = "running"
    /\ WriteToken("samples")
    /\ cloexec' = [cloexec EXCEPT !["app"] = @ \cup {"write"}]
    /\ UNCHANGED <<ends, todo, kid, buffer>> /\ AppOnly

\* A plugin is unloaded: its section stays in the buffer of the stream.
UnregisterUnit ==
    /\ app = "running" /\ ~buffer["app"]
    /\ buffer' = [buffer EXCEPT !["app"] = TRUE]
    /\ UNCHANGED <<ends, cloexec, pipe, appVars, kid, sent>> /\ AppOnly

\* Exit, or a fatal signal, whose handler adds the backtrace.
Finalizes(p) ==
    /\ \E crash \in BOOLEAN :
          todo' = [todo EXCEPT ![p] =
                     (IF buffer[p] THEN <<"data">> ELSE <<>>)
                     \o Tail(Samples) \o (IF crash THEN Backtrace ELSE <<>>)]
    /\ buffer' = [buffer EXCEPT ![p] = FALSE]
    /\ UNCHANGED <<ends, cloexec, pipe, sent>> /\ AppOnly

Finalize ==
    app = "running" /\ app' = "finishing" /\ Finalizes("app") /\ UNCHANGED kid

Write(p) ==
    /\ todo[p] # <<>>
    /\ WriteToken(Head(todo[p]))
    /\ todo' = [todo EXCEPT ![p] = Tail(@)]
    /\ UNCHANGED <<ends, cloexec, app, kid, buffer>> /\ AppOnly

AppEnds ==
    /\ app' = "ended"
    /\ todo' = [todo EXCEPT !["app"] = <<>>]
    /\ Ends("app")
    /\ UNCHANGED <<cloexec, pipe, kid, buffer, sent>> /\ AppOnly

Exit == app = "finishing" /\ todo["app"] = <<>> /\ AppEnds

\* Killed with no handler run, or the end of what it has become.
Kill == app \in {"starting", "running", "finishing", "other"} /\ AppEnds

\* exec: the report is left as it is.
Exec ==
    /\ app = "running" /\ app' = "other"
    /\ Keeps("app", ends["app"] \ cloexec["app"])
    /\ UNCHANGED <<cloexec, pipe, todo, kid, buffer, sent>> /\ AppOnly

-----------------------------------------------------------------------------
(* Its children *)

KidOnly == UNCHANGED <<wrapper, appVars, readerVars>>

Born(k, state) ==
    /\ app = "running" /\ kid[k] = "none"
    /\ kid' = [kid EXCEPT ![k] = state]
    /\ Keeps(k, ends["app"])
    /\ cloexec' = [cloexec EXCEPT ![k] = cloexec["app"]]
    /\ buffer' = [buffer EXCEPT ![k] = buffer["app"]]
    /\ UNCHANGED <<pipe, sent>> /\ KidOnly

\* By the wrapped fork; the lock may be lost to a thread that does not exist
\* in the child.
Fork(k) ==
    \/ Born(k, "forked")
    \/ Threaded /\ Born(k, "hung")

\* By a fork inside of a library, which is not wrapped: popen, system, daemon.
InnerFork(k) == Born(k, "inner")

\* cbi_uninitializeReport calls fclose, which first writes what the child's
\* copy of the buffer holds.
FlushCopy(k) ==
    /\ kid[k] = "forked" /\ buffer[k]
    /\ WriteToken("copy")
    /\ buffer' = [buffer EXCEPT ![k] = FALSE]
    /\ UNCHANGED <<ends, cloexec, kid>> /\ KidOnly

UninitializeReport(k) ==
    /\ kid[k] = "forked" /\ ~buffer[k]
    /\ kid' = [kid EXCEPT ![k] = "child"]
    /\ Keeps(k, ends[k] \ {"write"})
    /\ UNCHANGED <<cloexec, pipe, buffer, sent>> /\ KidOnly

KidExec(k) ==
    /\ kid[k] \in {"child", "inner"}
    /\ kid' = [kid EXCEPT ![k] = "program"]
    /\ Keeps(k, ends[k] \ cloexec[k])
    /\ UNCHANGED <<cloexec, pipe, buffer, sent>> /\ KidOnly

\* After daemon() the parent is gone and the child reports in its stead.
KidFinalizes(k) ==
    /\ kid[k] = "inner" /\ app = "ended"
    /\ kid' = [kid EXCEPT ![k] = "finishing"]
    /\ Finalizes(k) /\ UNCHANGED app

KidGone(k) ==
    /\ kid' = [kid EXCEPT ![k] = "gone"]
    /\ todo' = [todo EXCEPT ![k] = <<>>]
    /\ Ends(k)
    /\ UNCHANGED <<cloexec, pipe, buffer, sent, wrapper, app, readerVars>>

KidExit(k) == kid[k] = "finishing" /\ todo[k] = <<>> /\ KidGone(k)

KidKilled(k) == kid[k] \notin {"none", "gone"} /\ KidGone(k)

-----------------------------------------------------------------------------
Next ==
    \/ WrapperStep \/ WrapperDies
    \/ openReportFile \/ UnregisterUnit \/ Finalize \/ Exit \/ Kill \/ Exec
    \/ \E p \in Procs : Write(p)
    \/ \E k \in Kids :
          \/ Fork(k) \/ InnerFork(k) \/ FlushCopy(k) \/ UninitializeReport(k)
          \/ KidExec(k) \/ KidFinalizes(k) \/ KidExit(k) \/ KidKilled(k)

Spec == Init /\ [][Next]_vars

\* The wrapper, a report once begun to be finished, and a child that is still
\* in the runtime go on; the rest is the program's and the user's affair.
FairSpec ==
    /\ Spec
    /\ WF_vars(WrapperStep)
    /\ \A p \in Procs : WF_vars(Write(p))
    /\ WF_vars(Exit)
    /\ \A k \in Kids : WF_vars(FlushCopy(k) \/ UninitializeReport(k) \/ KidExit(k))

-----------------------------------------------------------------------------
(* Properties *)

\* The pipe and its descriptors keep the promise of ReportChannel: the end of
\* file never comes while a process can still write, so no line of the report
\* is missed.
Channel ==
    INSTANCE ReportChannel WITH
        received <- Len(sent) - Len(pipe),
        open     <- wrapper = "pipe" \/ Writers # {},
        reader   <- CASE wrapper \in {"reap", "done"} -> "finished"
                      [] wrapper = "dead" -> "dead"
                      [] OTHER -> "reading"

PipeIsChannel == Channel!Spec

\* When the wrapper has read to the end, its report of samples is all that was
\* written between the start tag and the first end tag, whoever wrote it, and
\* as far as it got if the application was killed.  (ReportsReader)
WholeReport ==
    wrapper \in {"reap", "done"} /\ sent # <<>> =>
    LET tags == {i \in DOMAIN sent : sent[i] = "end"}
        last == IF tags = {} THEN Len(sent) ELSE Min(tags) - 1
    IN  reports["samples"] = SubSeq(sent, 2, last)

\* The application and its children never lose their end for reading before
\* the one for writing, so that a report cannot end in SIGPIPE; what follows
\* from a wrapper that has died is that a long report blocks instead.
WritersAlsoRead ==
    \A p \in Procs : "write" \in ends[p] => "read" \in ends[p]

\* Descriptors and what is read through them, at any time.
DescriptorsKept == TypeOK /\ WritersAlsoRead

\* The application's exit is not held up by its report, unless the wrapper
\* died.
ReportIsTaken == app = "finishing" ~> app = "ended" \/ wrapper = "dead"

\* When the application has ended, its wrapper ends: neither the wrapper
\* itself, nor children, nor programs started from it keep the pipe open.
\* (But for a child that a library has forked and that is no new program, as
\* after daemon(), and one that waits for a lost lock.)
WrapperFollows ==
    app = "ended" ~> \/ wrapper \in {"done", "dead"}
                     \/ \E k \in Kids : kid[k] \in {"inner", "hung"}
=============================================================================
