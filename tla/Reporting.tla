----------------------------- MODULE Reporting -----------------------------
(***************************************************************************)
(* How one process delivers its feedback report.  Every compilation unit   *)
(* links itself into a registry when its library is loaded (unit.h), and   *)
(* is unlinked and written out when the library is unloaded (registry.c),  *)
(* when the process exits or when a fatal signal strikes (report.c).       *)
(* Threads do these at the same time; a signal interrupts what its thread  *)
(* is doing; a forked child inherits locks and buffered output.            *)
(*                                                                         *)
(* A thread that is not in the application's code has a stack of frames    *)
(* [pc, arg], innermost first: cbi_unregisterUnit(arg), or the reporting   *)
(* code, run for arg, which is "exit" or a signal.                         *)
(***************************************************************************)
EXTENDS Integers, SequencesExt

CONSTANTS
    Thread, Main,   \* the threads, and the one that calls exit()
    Unit,           \* compilation units, each in a library of its own
    Signal,         \* ABRT, BUS, FPE, SEGV, TRAP
    Nobody,         \* no thread, no unit
    Locks,          \* threads/yes/lock.h rather than threads/no/lock.h
    Crashes,        \* signals that the environment may raise
    Reentrant,      \* ... even in a thread that runs this code,
    Recurring,      \* ... or when the same signal has struck before
    LateLoads,      \* libraries may be loaded when reporting has begun
    Forks,          \* the process may fork
    MaxLoads        \* bound: loads of each unit

\* Units, signals and exit() are told apart; stdio faults with a SEGV.
ASSUME ReportingAssumption ==
    /\ Main \in Thread /\ Nobody \notin Thread
    /\ Unit \cap (Signal \cup {"exit"}) = {} /\ "exit" \notin Signal
    /\ "SEGV" \in Signal /\ Crashes \subseteq Signal
    /\ {Locks, Reentrant, Recurring, LateLoads, Forks} \subseteq BOOLEAN
    /\ MaxLoads \in Nat

VARIABLES
    process,     \* "running", "exited", "killed"
    stack,       \* Thread -> Seq([pc, arg])
    disposition, \* Signal -> "handler" or "prior" (here: kill the process)
    reportLock,  \* owner
    unitLock,    \* [owner, depth]: recursive
    linked,      \* the registry, from cbi_unitAnchor.next
    unitCount,
    file,        \* cbi_reportFile: "open", "freed" (stale pointer), "null"
    buffer,      \* written into the FILE, not yet into the descriptor
    pipe,        \* what the reader of the descriptor gets
    loaded,      \* units whose library is mapped
    loads,       \* history: loads of each unit so far
    child        \* a forked child: [state, copy of buffer]

vars == <<process, stack, disposition, reportLock, unitLock, linked, unitCount,
          file, buffer, pipe, loaded, loads, child>>
locks == <<reportLock, unitLock>>
registry == <<linked, unitCount>>
output == <<file, buffer, pipe>>
history == <<loaded, loads, child>>

Item == [tag : {"report", "samples", "/samples", "/report", "backtrace"},
         unit : Unit \cup {Nobody}]
Tag(tag) == [tag |-> tag, unit |-> Nobody]

Init ==
    /\ process = "running"
    /\ stack = [t \in Thread |-> << >>]
    /\ disposition = [s \in Signal |-> "handler"]
    /\ reportLock = Nobody
    /\ unitLock = [owner |-> Nobody, depth |-> 0]
    /\ linked = << >> /\ unitCount = 0
    /\ file = "open"
    /\ buffer = << >> /\ pipe = <<Tag("report")>>
    /\ loaded = {} /\ loads = [u \in Unit |-> 0]
    /\ child = [state |-> "none", copy |-> << >>]

-----------------------------------------------------------------------------
(* Locks, frames, and the stream *)

\* Mutated form: a registry without its lock.
AcquireUnitLock_None(t) == UNCHANGED unitLock

\* The recursive mutex: free, or held by t itself.
AcquireUnitLock(t) ==
    IF Locks
    THEN /\ unitLock.owner \in {Nobody, t}
         /\ unitLock' = [owner |-> t, depth |-> unitLock.depth + 1]
    ELSE UNCHANGED unitLock

ReleaseUnitLock ==
    IF Locks
    THEN unitLock' = [owner |-> IF unitLock.depth = 1 THEN Nobody ELSE unitLock.owner,
                      depth |-> unitLock.depth - 1]
    ELSE UNCHANGED unitLock

\* The adaptive mutex: a thread that holds it waits for itself.
AcquireReportLock(t) ==
    IF Locks THEN reportLock = Nobody /\ reportLock' = t ELSE UNCHANGED reportLock

ReleaseReportLock == reportLock' = IF Locks THEN Nobody ELSE reportLock

Idle(t) == process = "running" /\ stack[t] = << >>
Runs(t, pc) == process = "running" /\ stack[t] # << >> /\ Head(stack[t]).pc = pc
Arg(t) == Head(stack[t]).arg

Push(t, pc, arg) == stack' = [stack EXCEPT ![t] = <<[pc |-> pc, arg |-> arg]>> \o @]
Pop(t)           == stack' = [stack EXCEPT ![t] = Tail(@)]
Goto(t, pc)      == stack' = [stack EXCEPT ![t][1].pc = pc]

\* Thread t runs the reporting code, or cbi_unregisterUnit, for arg.
Busy(t, arg) == \E i \in DOMAIN stack[t] : stack[t][i].arg = arg
Reporting(t) == \E arg \in Signal \cup {"exit"} : Busy(t, arg)

\* The dynamic linker runs one constructor or destructor at a time.
LinkerFree == \A t \in Thread : stack[t] # << >> => Last(stack[t]).arg \notin Unit

\* Signal s strikes thread t.  A fault on a blocked signal is fatal too.
Strike(t, s) ==
    IF disposition[s] = "handler" /\ ~Busy(t, s)
    THEN Push(t, "reset", s) /\ UNCHANGED process
    ELSE process' = "killed" /\ UNCHANGED stack

\* fputs or fprintf to cbi_reportFile, which may be NULL, or closed already.
Put(t, item, pc) ==
    \/ /\ file = "open"
       /\ buffer' = Append(buffer, item)
       /\ Goto(t, pc)
       /\ UNCHANGED process
    \/ /\ file = "freed"
       /\ Goto(t, pc)
       /\ UNCHANGED <<buffer, process>>
    \/ /\ file # "open"
       /\ Strike(t, "SEGV")
       /\ UNCHANGED buffer

-----------------------------------------------------------------------------
(* registry.c *)

\* cbi_registerUnit, from the constructor of a library that t loads.
Register(t, u) ==
    /\ Idle(t)
    /\ LinkerFree /\ u \notin loaded /\ loads[u] < MaxLoads
    /\ LateLoads \/ (file = "open" /\ \A x \in Thread : ~Reporting(x))
    /\ unitLock.owner = Nobody
    /\ linked' = <<u>> \o linked
    /\ unitCount' = unitCount + 1
    /\ loaded' = loaded \cup {u} /\ loads' = [loads EXCEPT ![u] = @ + 1]
    /\ UNCHANGED <<process, stack, disposition, locks, output, child>>

\* The destructor of a library that t unloads calls cbi_unregisterUnit, and
\* then the library is gone.
Unload(t, u) ==
    /\ Idle(t)
    /\ LinkerFree /\ u \in loaded
    /\ Push(t, "unlink", u)
    /\ UNCHANGED <<process, disposition, locks, registry, output, history>>

Unlink(t) ==
    /\ Runs(t, "unlink")
    /\ AcquireUnitLock(t)
    /\ linked' = RemoveFirst(linked, Arg(t))
    /\ Goto(t, IF Contains(linked, Arg(t)) /\ unitCount > 0 THEN "check" ELSE "unlock")
    /\ UNCHANGED <<process, disposition, reportLock, unitCount, output, history>>

\* Mutated form: the test is the wrong way round.
CheckFile_Inverted(t) ==
    /\ Runs(t, "check")
    /\ Goto(t, IF file = "null" THEN "samples" ELSE "count")
    /\ UNCHANGED <<process, disposition, locks, registry, output, history>>

CheckFile(t) ==
    /\ Runs(t, "check")
    /\ Goto(t, IF file # "null" THEN "samples" ELSE "count")
    /\ UNCHANGED <<process, disposition, locks, registry, output, history>>

\* unit->reporter(): the tag that opens the unit's section, then its counters
\* and the tag that closes it.
BeginSamples(t) ==
    /\ Runs(t, "samples")
    /\ Put(t, [tag |-> "samples", unit |-> Arg(t)], "/samples")
    /\ UNCHANGED <<disposition, locks, registry, file, pipe, history>>

EndSamples(t) ==
    /\ Runs(t, "/samples")
    /\ Put(t, [tag |-> "/samples", unit |-> Arg(t)], "count")
    /\ UNCHANGED <<disposition, locks, registry, file, pipe, history>>

\* Mutated form: the counter stays.
CountDown_Never(t) ==
    /\ Runs(t, "count")
    /\ Goto(t, "unlock")
    /\ UNCHANGED <<process, disposition, locks, registry, output, history>>

CountDown(t) ==
    /\ Runs(t, "count")
    /\ unitCount' = unitCount - 1
    /\ Goto(t, "unlock")
    /\ UNCHANGED <<process, disposition, locks, linked, output, history>>

Unregistered(t) ==
    /\ Runs(t, "unlock")
    /\ ReleaseUnitLock
    /\ Pop(t)
    /\ loaded' = IF Tail(stack[t]) = << >> THEN loaded \ {Arg(t)} ELSE loaded
    /\ UNCHANGED <<process, disposition, reportLock, registry, output, loads, child>>

\* cbi_unregisterAllUnits: take the lock for as long as units are left.
UnregisterAll(t) ==
    /\ Runs(t, "drain")
    /\ AcquireUnitLock(t)
    /\ Goto(t, "drained")
    /\ UNCHANGED <<process, disposition, reportLock, registry, output, history>>

UnregisterNext(t) ==
    /\ Runs(t, "drained")
    /\ linked # << >>
    /\ Push(t, "unlink", linked[1])
    /\ UNCHANGED <<process, disposition, locks, registry, output, history>>

UnregisteredAll(t) ==
    /\ Runs(t, "drained")
    /\ linked = << >>
    /\ ReleaseUnitLock
    /\ Goto(t, "/report")
    /\ UNCHANGED <<process, disposition, reportLock, registry, output, history>>

-----------------------------------------------------------------------------
(* report.c *)

\* Main calls exit(), which runs finalize().
Exit ==
    /\ Idle(Main)
    /\ Push(Main, "lock", "exit")
    /\ UNCHANGED <<process, disposition, locks, registry, output, history>>

\* A fatal signal strikes thread t: a crash of its own, or one sent to it.
Crash(t, s) ==
    /\ process = "running" /\ s \in Crashes
    /\ Reentrant \/ stack[t] = << >>
    /\ Recurring \/ disposition[s] = "handler"
    /\ Strike(t, s)
    /\ UNCHANGED <<disposition, locks, registry, output, history>>

\* Mutated form: the handler stays installed.
RestorePrior_Never(t) ==
    /\ Runs(t, "reset")
    /\ Goto(t, "lock")
    /\ UNCHANGED <<process, disposition, locks, registry, output, history>>

\* handleSignal first puts back what the application had for this signal.
RestorePrior(t) ==
    /\ Runs(t, "reset")
    /\ disposition' = [disposition EXCEPT ![Arg(t)] = "prior"]
    /\ Goto(t, "lock")
    /\ UNCHANGED <<process, locks, registry, output, history>>

\* Mutated form: two threads may report at once.
LockReport_Shared(t) ==
    /\ Runs(t, "lock")
    /\ Goto(t, IF file # "null" THEN "drain" ELSE "release")
    /\ UNCHANGED <<process, disposition, locks, registry, output, history>>

\* Mutated form: whoever finds the lock taken leaves the report to its holder.
LockReport_Try(t) ==
    /\ Runs(t, "lock")
    /\ IF reportLock = Nobody
       THEN /\ reportLock' = t
            /\ Goto(t, IF file # "null" THEN "drain" ELSE "release")
       ELSE /\ Goto(t, "end")
            /\ UNCHANGED reportLock
    /\ UNCHANGED <<process, disposition, unitLock, registry, output, history>>

LockReport(t) ==
    /\ Runs(t, "lock")
    /\ AcquireReportLock(t)
    /\ Goto(t, IF file # "null" THEN "drain" ELSE "release")
    /\ UNCHANGED <<process, disposition, unitLock, registry, output, history>>

EndReport(t) ==
    /\ Runs(t, "/report")
    /\ Put(t, Tag("/report"), "flush")
    /\ UNCHANGED <<disposition, locks, registry, file, pipe, history>>

FlushReport(t) ==
    /\ Runs(t, "flush")
    /\ pipe' = pipe \o buffer /\ buffer' = << >>
    /\ Goto(t, IF Arg(t) = "exit" THEN "fclose" ELSE "backtrace")
    /\ UNCHANGED <<process, disposition, locks, registry, file, history>>

\* reportDebugInfo: a subreport of its own, past the stream's buffer.
ReportDebugInfo(t) ==
    /\ Runs(t, "backtrace")
    /\ pipe' = pipe \o buffer \o <<Tag("report"), Tag("backtrace")>>
    /\ buffer' = <<Tag("/report")>>
    /\ Goto(t, "fclose")
    /\ UNCHANGED <<process, disposition, locks, registry, file, history>>

CloseFile(t) ==
    /\ Runs(t, "fclose")
    /\ pipe' = pipe \o buffer /\ buffer' = << >>
    /\ file' = "freed"
    /\ Goto(t, "forget")
    /\ UNCHANGED <<process, disposition, locks, registry, history>>

ForgetFile(t) ==
    /\ Runs(t, "forget")
    /\ file' = "null"
    /\ Goto(t, "release")
    /\ UNCHANGED <<process, disposition, locks, registry, buffer, pipe, history>>

UnlockReport(t) ==
    /\ Runs(t, "release")
    /\ ReleaseReportLock
    /\ Goto(t, "end")
    /\ UNCHANGED <<process, disposition, unitLock, registry, output, history>>

\* exit() ends the process; raise() strikes again, now with the prior action.
End(t) ==
    /\ Runs(t, "end")
    /\ IF Arg(t) # "exit" /\ disposition[Arg(t)] = "handler"
       THEN Goto(t, "reset") /\ UNCHANGED process
       ELSE /\ process' = IF Arg(t) = "exit" THEN "exited" ELSE "killed"
            /\ UNCHANGED stack
    /\ UNCHANGED <<disposition, locks, registry, output, history>>

\* __wrap_fork: the child has a copy of everything, but only this thread.
Fork(t) ==
    /\ Forks /\ Idle(t) /\ child.state = "none"
    /\ child' = [state |-> IF reportLock # Nobody THEN "hung"
                           ELSE IF file = "open" THEN "forked" ELSE "closed",
                 copy |-> buffer]
    /\ UNCHANGED <<process, stack, disposition, locks, registry, output, loaded, loads>>

\* cbi_uninitializeReport, in the child: fclose writes out what it inherited.
UninitializeReport ==
    /\ child.state = "forked"
    /\ child' = [state |-> "closed", copy |-> << >>]
    /\ pipe' = pipe \o child.copy
    /\ UNCHANGED <<process, stack, disposition, locks, registry, file, buffer, loaded, loads>>

-----------------------------------------------------------------------------

Unregister(t) ==
    \/ Unlink(t) \/ CheckFile(t) \/ BeginSamples(t) \/ EndSamples(t)
    \/ CountDown(t) \/ Unregistered(t)

Report(t) ==
    \/ RestorePrior(t) \/ LockReport(t)
    \/ UnregisterAll(t) \/ UnregisterNext(t) \/ UnregisteredAll(t)
    \/ EndReport(t) \/ FlushReport(t) \/ ReportDebugInfo(t)
    \/ CloseFile(t) \/ ForgetFile(t) \/ UnlockReport(t) \/ End(t)

Next ==
    \/ \E t \in Thread : Unregister(t) \/ Report(t) \/ Fork(t)
    \/ \E t \in Thread, u \in Unit : Register(t, u) \/ Unload(t, u)
    \/ \E t \in Thread, s \in Signal : Crash(t, s)
    \/ Exit
    \/ UninitializeReport

Spec == Init /\ [][Next]_vars

\* A thread in the middle of this code is scheduled again; nothing obliges the
\* application to load, unload, crash, fork or exit.
FairSpec == Spec /\ \A t \in Thread : WF_vars(Unregister(t) \/ Report(t))

-----------------------------------------------------------------------------
(* Properties *)

Frame == [pc : {"unlink", "check", "samples", "/samples", "count", "unlock",
                "reset", "lock", "drain", "drained", "/report", "flush",
                "backtrace", "fclose", "forget", "release", "end"},
          arg : Unit \cup Signal \cup {"exit"}]

\* Types: who owns what, and what is in the stream.
TypeOK ==
    /\ process \in {"running", "exited", "killed"}
    /\ \A t \in Thread : \A i \in DOMAIN stack[t] : stack[t][i] \in Frame
    /\ disposition \in [Signal -> {"handler", "prior"}]
    /\ reportLock \in Thread \cup {Nobody}
    /\ unitLock \in [owner : Thread \cup {Nobody}, depth : Nat]
    /\ IsInjective(linked) /\ ToSet(linked) \cup loaded \subseteq Unit
    /\ unitCount \in Nat
    /\ file \in {"open", "freed", "null"}
    /\ ToSet(pipe \o buffer) \subseteq Item
    /\ loads \in [Unit -> 0..MaxLoads]

\* The grammar of a report: the samples subreport with a section per unit,
\* after a crash a subreport with a backtrace.
After(state, item) ==
    CASE state = Tag("start") /\ item = Tag("report")        -> Tag("in_samples")
      [] state = Tag("in_samples") /\ item.tag = "samples"   -> item
      [] state.tag = "samples" /\ item = [state EXCEPT !.tag = "/samples"]
                                                             -> Tag("in_samples")
      [] state = Tag("in_samples") /\ item = Tag("/report")  -> Tag("complete")
      [] state = Tag("complete") /\ item = Tag("report")     -> Tag("in_debug")
      [] state = Tag("in_debug") /\ item = Tag("backtrace")  -> Tag("in_debug")
      [] state = Tag("in_debug") /\ item = Tag("/report")    -> Tag("final")
      [] OTHER                                               -> Tag("malformed")
Parsed(items) ==
    LET state[i \in 0..Len(items)] ==
            IF i = 0 THEN Tag("start") ELSE After(state[i - 1], items[i])
    IN  state[Len(items)]

Sections(u, items) ==
    Cardinality({i \in DOMAIN items : items[i] = [tag |-> "/samples", unit |-> u]})

\* No child has inherited the stream.
Unforked == child.state = "none"

\* However threads and signals interleave, the stream is a prefix of a report:
\* sections whole and one at a time, nothing after the last end tag.
ReportWellFormed == Unforked => Parsed(pipe \o buffer).tag # "malformed"

\* No load of a unit is reported twice (each counter would be summed twice).
EachLoadReportedOnce ==
    \A u \in Unit : Sections(u, pipe \o buffer) <= loads[u]

\* When the process is gone the reader has the whole report: end tags, and a
\* section for every load of every unit.
ReportIsComplete ==
    process # "running" /\ Unforked =>
        /\ Parsed(pipe).tag \in {"complete", "final"}
        /\ \A u \in Unit : Sections(u, pipe) = loads[u]

\* Whatever children the process forks, no load of a unit goes unreported.
EveryLoadDelivered ==
    process # "running" => \A u \in Unit : Sections(u, pipe) >= loads[u]

\* "In the event of a crash, the dynamic feedback report contains an
\* additional subreport" (but for a crash in a process that is exiting).
CrashLeavesBacktrace ==
    process = "killed" /\ (\A t \in Thread : ~Busy(t, "exit")) =>
        Tag("backtrace") \in ToSet(pipe)

\* The registry never points into a library that is gone, nor is a unit still
\* being reported when it goes.
UnitsAreMapped ==
    /\ ToSet(linked) \subseteq loaded
    /\ \A t \in Thread : \A i \in DOMAIN stack[t] :
          stack[t][i].arg \in Unit => stack[t][i].arg \in loaded

\* unitCount is the number of linked units, and of those being written: the
\* test of it in cbi_unregisterUnit never drops a unit's section.
UnitCountExact ==
    unitCount = Len(linked) + Cardinality(
        {t \in Thread : \E i \in DOMAIN stack[t] :
             stack[t][i].pc \in {"check", "samples", "/samples", "count"}})

\* Whatever threads and signals interrupt, the registry is what it says it is.
RegistryIsExact == TypeOK /\ UnitsAreMapped /\ UnitCountExact

\* A process that starts to report comes to its end: no deadlock between the
\* two locks, and no thread waits for itself.
ReportingEnds ==
    \A t \in Thread : Reporting(t) ~> process # "running"
=============================================================================
