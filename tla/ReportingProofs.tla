-------------------------- MODULE ReportingProofs --------------------------
(***************************************************************************)
(* Reports are exact, well-formed and complete, for any number of threads, *)
(* units and signals.  A stack of frames is awkward to reason about; but   *)
(* where signals do not strike the runtime's own code it holds at most one *)
(* frame of cbi_unregisterUnit, on top of at most one of the reporting     *)
(* code.  The invariant speaks of these two.                               *)
(***************************************************************************)
EXTENDS Reporting, FiniteSetTheorems, SequenceTheorems, WellFoundedInduction,
        TLAPS

UnitPcs == {"unlink", "check", "samples", "/samples", "count", "unlock"}
WritePcs == {"check", "samples", "/samples", "count"}
HeldPcs == {"drain", "drained", "/report", "flush", "backtrace", "fclose",
            "forget", "release"}
ReportPcs == HeldPcs \cup {"reset", "lock", "end"}

UnitFrame == [pc : UnitPcs, arg : Unit]
ReportFrame == [pc : ReportPcs, arg : Signal \cup {"exit"}]
NoFrame == [pc |-> "none", arg |-> "none"]

\* The frame of cbi_unregisterUnit that each thread runs, and the frame of
\* the reporting code.
section == [t \in Thread |-> IF stack[t] # << >> /\ stack[t][1].arg \in Unit
                             THEN stack[t][1] ELSE NoFrame]
report == [t \in Thread |->
              IF stack[t] # << >> /\ stack[t][Len(stack[t])].arg \notin Unit
              THEN stack[t][Len(stack[t])] ELSE NoFrame]

\* Units are unlinked by a report while it holds the lock, or by a destructor.
StackInv ==
    /\ stack \in [Thread -> Seq(Frame)]
    /\ \A t \in Thread :
          \/ stack[t] = << >>
          \/ \E f \in UnitFrame : stack[t] = <<f>>
          \/ \E g \in ReportFrame : stack[t] = <<g>>
          \/ \E f \in UnitFrame, g \in ReportFrame :
                stack[t] = <<f, g>> /\ g.pc = "drained"

Unlinking(t) == section[t].pc \in UnitPcs \ {"unlink"}
Depth(t) == (IF report[t].pc = "drained" THEN 1 ELSE 0)
            + (IF Unlinking(t) THEN 1 ELSE 0)

\* Who holds what follows from where the threads are.
LockInv ==
    /\ reportLock \in Thread \cup {Nobody}
    /\ \A t \in Thread : report[t].pc \in HeldPcs <=> reportLock = t
    /\ unitLock \in [owner : Thread \cup {Nobody}, depth : Nat]
    /\ \A t \in Thread : Depth(t) > 0 <=> unitLock.owner = t
    /\ \A t \in Thread : unitLock.owner = t => unitLock.depth = Depth(t)
    /\ unitLock.owner = Nobody => unitLock.depth = 0

\* One destructor runs at a time.
LinkerInv ==
    \A t, x \in Thread : /\ section[t] # NoFrame /\ report[t] = NoFrame
                         /\ section[x] # NoFrame /\ report[x] = NoFrame
                         => t = x

Linked(u) == \E i \in DOMAIN linked : linked[i] = u

\* The units that are linked are mapped; so are those being unlinked, which are
\* linked no longer.
RegistryInv ==
    /\ linked \in Seq(Unit)
    /\ \A i, j \in DOMAIN linked : linked[i] = linked[j] => i = j
    /\ loaded \subseteq Unit /\ \A u \in Unit : Linked(u) => u \in loaded
    /\ \A t \in Thread : section[t] # NoFrame => section[t].arg \in loaded
    /\ \A t \in Thread : Unlinking(t) => ~Linked(section[t].arg)

\* unitCount lags behind the list while a unit is written.
CountInv ==
    /\ \A t \in Thread : section[t].pc \in WritePcs => unitCount = Len(linked) + 1
    /\ (\A t \in Thread : section[t].pc \notin WritePcs) => unitCount = Len(linked)

\* What keeps its type, whatever happens.
DataInv ==
    /\ process \in {"running", "exited", "killed"}
    /\ disposition \in [Signal -> {"handler", "prior"}]
    /\ pipe \in Seq(Item) /\ buffer \in Seq(Item)
    /\ child \in [state : {"none", "hung", "forked", "closed"}, copy : Seq(Item)]
    /\ loads \in [Unit -> 0..MaxLoads]

Drained == \/ file # "open"
           \/ \E t \in Thread : report[t].pc \in {"/report", "flush", "backtrace", "fclose"}

\* The file is open until the registry is empty, and stays so.
FileInv ==
    /\ file \in {"open", "freed", "null"}
    /\ \A t \in Thread :
          /\ report[t].pc \in HeldPcs \ {"forget", "release"} => file = "open"
          /\ report[t].pc = "forget" => file = "freed"
          /\ report[t].pc \in {"release", "end"} => file = "null"
    /\ reportLock = Nobody => file # "freed"
    /\ ~Recurring /\ process # "running" => file = "null"
    /\ file # "open" => buffer = << >>
    /\ Drained => linked = << >> /\ \A t \in Thread : section[t].pc \notin WritePcs

Ended == file # "open" \/ \E t \in Thread : report[t].pc = "fclose"

Backtraced == \E i \in DOMAIN pipe : pipe[i] = Tag("backtrace")

\* A report that was written without a backtrace is the one of exit().
BacktraceInv ==
    Ended => \/ Backtraced
             \/ \E t \in Thread : report[t].arg = "exit"

stream == pipe \o buffer

\* A load of u that is not in the stream yet: u is linked, or on its way.
OnItsWay(u) ==
    \E t \in Thread : section[t].pc \in WritePcs \ {"count"} /\ section[t].arg = u
Owed(u) == IF Linked(u) \/ OnItsWay(u) THEN 1 ELSE 0

DeliveryInv ==
    \A u \in Unit : /\ loads[u] <= Sections(u, stream) + Owed(u)
                    /\ Unforked => loads[u] = Sections(u, stream) + Owed(u)

\* How far the stream has got, by who is writing it.
GrammarInv ==
    Unforked =>
        /\ Ended => Parsed(stream) \in {Tag("complete"), Tag("final")}
        /\ \A t \in Thread : report[t].pc \in {"flush", "backtrace"} =>
              Parsed(stream) = Tag("complete")
        /\ \A t \in Thread : section[t].pc = "/samples" =>
              Parsed(stream) = [tag |-> "samples", unit |-> section[t].arg]
        /\ \/ Ended
           \/ \E t \in Thread : \/ report[t].pc \in {"flush", "backtrace"}
                                \/ section[t].pc = "/samples"
           \/ Parsed(stream) = Tag("in_samples")

\* The frames, the locks, the registry and the file ...
CoreInv == StackInv /\ LockInv /\ LinkerInv /\ RegistryInv /\ CountInv /\ FileInv
\* ... and what is in the stream.
RestInv == DataInv /\ BacktraceInv /\ DeliveryInv /\ GrammarInv

-----------------------------------------------------------------------------
(* Stacks *)

\* Two frames cannot be confused: what each is for tells them apart.
LEMMA FrameKinds ==
    /\ \A f \in UnitFrame : f.pc \in UnitPcs /\ f.arg \in Unit
                            /\ f = [pc |-> f.pc, arg |-> f.arg]
                            /\ f # NoFrame /\ f.pc \notin ReportPcs
    /\ \A g \in ReportFrame : g.pc \in ReportPcs /\ g.arg \in Signal \cup {"exit"}
                              /\ g.arg \notin Unit
                              /\ g = [pc |-> g.pc, arg |-> g.arg]
                              /\ g # NoFrame /\ g.pc \notin UnitPcs
    /\ NoFrame.pc \notin UnitPcs \cup ReportPcs
    /\ UnitFrame \subseteq Frame /\ ReportFrame \subseteq Frame
<1>1. Unit \cap (Signal \cup {"exit"}) = {}
  BY ReportingAssumption
<1>2. UnitPcs \cap ReportPcs = {} /\ "none" \notin UnitPcs \cup ReportPcs
  BY DEF UnitPcs, ReportPcs, HeldPcs
<1>3. NoFrame.pc = "none"
  BY DEF NoFrame
<1>4. ASSUME NEW f \in UnitFrame
      PROVE  f.pc \in UnitPcs /\ f.arg \in Unit /\ f = [pc |-> f.pc, arg |-> f.arg]
  BY DEF UnitFrame
<1>5. ASSUME NEW g \in ReportFrame
      PROVE  /\ g.pc \in ReportPcs /\ g.arg \in Signal \cup {"exit"}
             /\ g = [pc |-> g.pc, arg |-> g.arg]
  BY DEF ReportFrame
<1>6. UnitFrame \subseteq Frame /\ ReportFrame \subseteq Frame
  BY DEF UnitFrame, ReportFrame, Frame, UnitPcs, ReportPcs, HeldPcs
<1> QED BY <1>1, <1>2, <1>3, <1>4, <1>5, <1>6

\* A stack, its unit frame and its report frame.
LEMMA ViewOfEmpty ==
    ASSUME NEW t \in Thread, stack[t] = << >>
    PROVE  section[t] = NoFrame /\ report[t] = NoFrame
BY DEF section, report

LEMMA ViewOfUnit ==
    ASSUME NEW t \in Thread, NEW f \in UnitFrame, stack[t] = <<f>>
    PROVE  section[t] = f /\ report[t] = NoFrame
<1>1. stack[t] # << >> /\ stack[t][1] = f /\ Len(stack[t]) = 1
  OBVIOUS
<1> QED BY <1>1, FrameKinds DEF section, report

LEMMA ViewOfReport ==
    ASSUME NEW t \in Thread, NEW g \in ReportFrame, stack[t] = <<g>>
    PROVE  section[t] = NoFrame /\ report[t] = g
<1>1. stack[t] # << >> /\ stack[t][1] = g /\ Len(stack[t]) = 1
  OBVIOUS
<1> QED BY <1>1, FrameKinds DEF section, report

LEMMA ViewOfBoth ==
    ASSUME NEW t \in Thread, NEW f \in UnitFrame, NEW g \in ReportFrame,
           stack[t] = <<f, g>>
    PROVE  section[t] = f /\ report[t] = g
<1>1. stack[t] # << >> /\ stack[t][1] = f /\ Len(stack[t]) = 2 /\ stack[t][2] = g
  OBVIOUS
<1> QED BY <1>1, FrameKinds DEF section, report

\* Any stack is one of the four.
ViewShape(t) ==
    \/ stack[t] = << >> /\ section[t] = NoFrame /\ report[t] = NoFrame
    \/ /\ section[t] \in UnitFrame /\ report[t] = NoFrame
       /\ stack[t] = <<section[t]>>
    \/ /\ section[t] = NoFrame /\ report[t] \in ReportFrame
       /\ stack[t] = <<report[t]>>
    \/ /\ section[t] \in UnitFrame /\ report[t] \in ReportFrame
       /\ report[t].pc = "drained"
       /\ stack[t] = <<section[t], report[t]>>

LEMMA ViewShapes ==
    ASSUME StackInv, NEW t \in Thread
    PROVE  ViewShape(t)
<1>1. CASE stack[t] = << >>
  BY <1>1, ViewOfEmpty DEF ViewShape
<1>2. ASSUME NEW f \in UnitFrame, stack[t] = <<f>> PROVE ViewShape(t)
  BY <1>2, ViewOfUnit DEF ViewShape
<1>3. ASSUME NEW g \in ReportFrame, stack[t] = <<g>> PROVE ViewShape(t)
  BY <1>3, ViewOfReport DEF ViewShape
<1>4. ASSUME NEW f \in UnitFrame, NEW g \in ReportFrame,
             stack[t] = <<f, g>>, g.pc = "drained"
      PROVE  ViewShape(t)
  BY <1>4, ViewOfBoth DEF ViewShape
<1> QED BY <1>1, <1>2, <1>3, <1>4 DEF StackInv

\* What a step of t does to the two.
Moves(t, f, g) ==
    /\ StackInv'
    /\ section' = [section EXCEPT ![t] = f]
    /\ report' = [report EXCEPT ![t] = g]

\* t's new stack is one of the four shapes.
LEMMA MovesByShape ==
    ASSUME StackInv, NEW t \in Thread, NEW new, NEW f, NEW g,
           stack' = [stack EXCEPT ![t] = new],
           \/ new = << >> /\ f = NoFrame /\ g = NoFrame
           \/ f \in UnitFrame /\ new = <<f>> /\ g = NoFrame
           \/ g \in ReportFrame /\ new = <<g>> /\ f = NoFrame
           \/ f \in UnitFrame /\ g \in ReportFrame /\ g.pc = "drained" /\ new = <<f, g>>
    PROVE  Moves(t, f, g)
<1>1. stack \in [Thread -> Seq(Frame)]
  BY DEF StackInv
<1>2. new \in Seq(Frame)
  <2>1. UnitFrame \subseteq Frame /\ ReportFrame \subseteq Frame
    BY FrameKinds
  <2>2. \A h \in Frame, k \in Frame : <<h>> \in Seq(Frame) /\ <<h, k>> \in Seq(Frame)
    OBVIOUS
  <2>3. << >> \in Seq(Frame)
    OBVIOUS
  <2> QED BY <2>1, <2>2, <2>3, Zenon
<1>3. stack' \in [Thread -> Seq(Frame)] /\ stack'[t] = new
      /\ \A x \in Thread : x # t => stack'[x] = stack[x]
  BY <1>1, <1>2
<1>4. StackInv'
  <2>1. \/ stack'[t] = << >>
        \/ \E h \in UnitFrame : stack'[t] = <<h>>
        \/ \E h \in ReportFrame : stack'[t] = <<h>>
        \/ \E h \in UnitFrame, k \in ReportFrame :
              stack'[t] = <<h, k>> /\ k.pc = "drained"
    BY <1>3, Zenon
  <2>2. \A x \in Thread : x # t =>
           \/ stack'[x] = << >>
           \/ \E h \in UnitFrame : stack'[x] = <<h>>
           \/ \E h \in ReportFrame : stack'[x] = <<h>>
           \/ \E h \in UnitFrame, k \in ReportFrame :
                 stack'[x] = <<h, k>> /\ k.pc = "drained"
    BY <1>3, Zenon DEF StackInv
  <2> QED BY <1>3, <2>1, <2>2, Zenon DEF StackInv
<1>5. section'[t] = f /\ report'[t] = g
  <2>1. /\ f \in UnitFrame => f.arg \in Unit
        /\ g \in ReportFrame => g.arg \notin Unit
    BY FrameKinds
  <2>2. CASE new = << >> /\ f = NoFrame /\ g = NoFrame
    BY <1>3, <2>2 DEF section, report, NoFrame
  <2>3. CASE f \in UnitFrame /\ new = <<f>> /\ g = NoFrame
    <3>1. new # << >> /\ new[1] = f /\ Len(new) = 1
      BY <2>3
    <3> QED BY <1>3, <2>1, <2>3, <3>1 DEF section, report, NoFrame
  <2>4. CASE g \in ReportFrame /\ new = <<g>> /\ f = NoFrame
    <3>1. new # << >> /\ new[1] = g /\ Len(new) = 1
      BY <2>4
    <3> QED BY <1>3, <2>1, <2>4, <3>1 DEF section, report, NoFrame
  <2>5. CASE f \in UnitFrame /\ g \in ReportFrame /\ new = <<f, g>>
    <3>1. new # << >> /\ new[1] = f /\ Len(new) = 2 /\ new[2] = g
      BY <2>5
    <3> QED BY <1>3, <2>1, <2>5, <3>1 DEF section, report, NoFrame
  <2> QED BY <2>2, <2>3, <2>4, <2>5
<1>6. \A x \in Thread : x # t => section'[x] = section[x] /\ report'[x] = report[x]
  BY <1>3 DEF section, report, NoFrame
<1>7. section' = [section EXCEPT ![t] = f]
  <2>1. section = [x \in Thread |-> section[x]] /\ section' = [x \in Thread |-> section'[x]]
    BY DEF section
  <2> QED BY <1>5, <1>6, <2>1
<1>8. report' = [report EXCEPT ![t] = g]
  <2>1. report = [x \in Thread |-> report[x]] /\ report' = [x \in Thread |-> report'[x]]
    BY DEF report
  <2> QED BY <1>5, <1>6, <2>1
<1> QED BY <1>4, <1>7, <1>8 DEF Moves

\* A thread in cbi_unregisterUnit.
LEMMA RunsUnit ==
    ASSUME StackInv, NEW t \in Thread, NEW pc \in UnitPcs, Runs(t, pc)
    PROVE  /\ section[t] = [pc |-> pc, arg |-> Arg(t)] /\ Arg(t) \in Unit
           /\ section[t].pc = pc /\ section[t].arg = Arg(t)
           /\ section[t] \in UnitFrame
           /\ report[t] # NoFrame => report[t].pc = "drained"
<1>1. stack[t] # << >> /\ stack[t][1].pc = pc /\ Arg(t) = stack[t][1].arg
  BY DEF Runs, Arg
<1>2. ViewShape(t)
  BY ViewShapes
<1>3. CASE section[t] \in UnitFrame /\ report[t] = NoFrame /\ stack[t] = <<section[t]>>
  BY <1>1, <1>3, FrameKinds
<1>4. CASE report[t] \in ReportFrame /\ stack[t] = <<report[t]>>
  <2>1. stack[t][1] = report[t]
    BY <1>4
  <2> QED BY <1>1, <1>4, <2>1, FrameKinds
<1>5. CASE /\ section[t] \in UnitFrame /\ report[t].pc = "drained"
           /\ stack[t] = <<section[t], report[t]>>
  <2>1. stack[t][1] = section[t]
    BY <1>5
  <2> QED BY <1>1, <1>5, <2>1, FrameKinds
<1> QED BY <1>1, <1>2, <1>3, <1>4, <1>5 DEF ViewShape

\* A thread in the reporting code.
LEMMA RunsReport ==
    ASSUME StackInv, NEW t \in Thread, NEW pc \in ReportPcs, Runs(t, pc)
    PROVE  /\ report[t] = [pc |-> pc, arg |-> Arg(t)] /\ Arg(t) \in Signal \cup {"exit"}
           /\ report[t].pc = pc /\ report[t].arg = Arg(t)
           /\ report[t] \in ReportFrame
           /\ section[t] = NoFrame /\ stack[t] = <<report[t]>>
<1>1. stack[t] # << >> /\ stack[t][1].pc = pc /\ Arg(t) = stack[t][1].arg
  BY DEF Runs, Arg
<1>2. ViewShape(t)
  BY ViewShapes
<1>3. CASE section[t] \in UnitFrame /\ stack[t] = <<section[t]>>
  <2>1. stack[t][1] = section[t]
    BY <1>3
  <2> QED BY <1>1, <1>3, <2>1, FrameKinds
<1>4. CASE report[t] \in ReportFrame /\ stack[t] = <<report[t]>> /\ section[t] = NoFrame
  <2>1. stack[t][1] = report[t]
    BY <1>4
  <2> QED BY <1>1, <1>4, <2>1, FrameKinds
<1>5. CASE section[t] \in UnitFrame /\ stack[t] = <<section[t], report[t]>>
  <2>1. stack[t][1] = section[t]
    BY <1>5
  <2> QED BY <1>1, <1>5, <2>1, FrameKinds
<1> QED BY <1>1, <1>2, <1>3, <1>4, <1>5 DEF ViewShape

\* The frames' steps, as their actions take them.
LEMMA GotoUnit ==
    ASSUME StackInv, NEW t \in Thread, NEW pc \in UnitPcs, NEW next \in UnitPcs,
           Runs(t, pc), Goto(t, next)
    PROVE  Moves(t, [pc |-> next, arg |-> Arg(t)], report[t])
<1> DEFINE f == [pc |-> next, arg |-> Arg(t)]
<1>1. /\ section[t] = [pc |-> pc, arg |-> Arg(t)] /\ Arg(t) \in Unit
      /\ section[t] \in UnitFrame
  BY RunsUnit
<1>2. f \in UnitFrame /\ f = [section[t] EXCEPT !.pc = next]
  BY <1>1 DEF UnitFrame
<1>3. stack' = [stack EXCEPT ![t] = [@ EXCEPT ![1].pc = next]]
  BY DEF Goto
<1>4. ViewShape(t)
  BY ViewShapes
<1>5. section[t] # NoFrame
  BY <1>1, FrameKinds
<1> HIDE DEF f
<1>6. ASSUME report[t] = NoFrame, stack[t] = <<section[t]>>
      PROVE  Moves(t, f, report[t])
  <2>1. [stack[t] EXCEPT ![1].pc = next] = <<f>>
    BY <1>2, <1>6
  <2>2. stack' = [stack EXCEPT ![t] = <<f>>]
    BY <1>3, <2>1
  <2> QED BY <1>2, <1>6, <2>2, MovesByShape
<1>7. ASSUME report[t] \in ReportFrame, report[t].pc = "drained",
             stack[t] = <<section[t], report[t]>>
      PROVE  Moves(t, f, report[t])
  <2>1. [stack[t] EXCEPT ![1].pc = next] = <<f, report[t]>>
    BY <1>2, <1>7
  <2>2. stack' = [stack EXCEPT ![t] = <<f, report[t]>>]
    BY <1>3, <2>1
  <2> QED BY <1>2, <1>7, <2>2, MovesByShape
<1>8. Moves(t, f, report[t])
  BY <1>4, <1>5, <1>6, <1>7 DEF ViewShape
<1> QED BY <1>8 DEF f

LEMMA GotoReport ==
    ASSUME StackInv, NEW t \in Thread, NEW pc \in ReportPcs, NEW next \in ReportPcs,
           Runs(t, pc), Goto(t, next)
    PROVE  Moves(t, NoFrame, [pc |-> next, arg |-> Arg(t)])
<1> DEFINE g == [pc |-> next, arg |-> Arg(t)]
<1>1. /\ report[t] = [pc |-> pc, arg |-> Arg(t)] /\ Arg(t) \in Signal \cup {"exit"}
      /\ stack[t] = <<report[t]>>
  BY RunsReport
<1>2. g \in ReportFrame /\ g = [report[t] EXCEPT !.pc = next]
  BY <1>1 DEF ReportFrame
<1>3. stack' = [stack EXCEPT ![t] = [@ EXCEPT ![1].pc = next]]
  BY DEF Goto
<1> HIDE DEF g
<1>4. [stack[t] EXCEPT ![1].pc = next] = <<g>>
  BY <1>1, <1>2
<1>5. Moves(t, NoFrame, g)
  BY <1>2, <1>3, <1>4, MovesByShape
<1> QED BY <1>5 DEF g

LEMMA PopUnit ==
    ASSUME StackInv, NEW t \in Thread, Runs(t, "unlock"), Pop(t)
    PROVE  /\ Moves(t, NoFrame, report[t])
           /\ Tail(stack[t]) = << >> <=> report[t] = NoFrame
<1>1. /\ section[t] \in UnitFrame /\ section[t] # NoFrame
  BY RunsUnit, FrameKinds DEF UnitPcs
<1>2. stack' = [stack EXCEPT ![t] = Tail(@)]
  BY DEF Pop
<1>3. ViewShape(t)
  BY ViewShapes
<1>4. CASE report[t] = NoFrame /\ stack[t] = <<section[t]>>
  <2>1. Tail(stack[t]) = << >>
    BY <1>4
  <2> QED BY <1>2, <1>4, <2>1, MovesByShape
<1>5. CASE report[t] \in ReportFrame /\ stack[t] = <<section[t], report[t]>>
  <2>1. Tail(stack[t]) = <<report[t]>> /\ Tail(stack[t]) # << >>
    BY <1>5
  <2> QED BY <1>2, <1>5, <2>1, MovesByShape, FrameKinds
<1> QED BY <1>1, <1>3, <1>4, <1>5 DEF ViewShape

LEMMA PushUnit ==
    ASSUME StackInv, NEW t \in Thread, NEW u \in Unit, Push(t, "unlink", u),
           stack[t] = << >> \/ Runs(t, "drained")
    PROVE  Moves(t, [pc |-> "unlink", arg |-> u], report[t])
<1> DEFINE f == [pc |-> "unlink", arg |-> u]
<1>1. f \in UnitFrame
  BY DEF UnitFrame, UnitPcs
<1>2. stack' = [stack EXCEPT ![t] = <<f>> \o @] /\ stack \in [Thread -> Seq(Frame)]
  BY DEF Push, StackInv
<1> HIDE DEF f
<1>3. CASE stack[t] = << >>
  <2>1. <<f>> \o stack[t] = <<f>> /\ report[t] = NoFrame
    BY <1>3, ViewOfEmpty
  <2>2. stack' = [stack EXCEPT ![t] = <<f>>]
    BY <1>2, <2>1
  <2>3. Moves(t, f, report[t])
    BY <1>1, <2>1, <2>2, MovesByShape
  <2> QED BY <2>3 DEF f
<1>4. CASE Runs(t, "drained")
  <2>1. /\ report[t] \in ReportFrame /\ report[t].pc = "drained"
        /\ stack[t] = <<report[t]>>
    <3>1. "drained" \in ReportPcs
      BY DEF ReportPcs, HeldPcs
    <3>2. /\ report[t] = [pc |-> "drained", arg |-> Arg(t)]
          /\ report[t] \in ReportFrame /\ stack[t] = <<report[t]>>
      BY <1>4, <3>1, RunsReport
    <3> QED BY <3>2
  <2>2. <<f>> \o stack[t] = <<f, report[t]>>
    <3>1. ASSUME NEW x \in Frame, NEW y \in Frame PROVE <<x>> \o <<y>> = <<x, y>>
      <4>1. <<x>> \in Seq(Frame) /\ <<y>> \in Seq(Frame)
            /\ Len(<<x>>) = 1 /\ Len(<<y>>) = 1
        OBVIOUS
      <4> DEFINE c == <<x>> \o <<y>>
      <4>2. /\ c \in Seq(Frame) /\ Len(c) = 2
            /\ \A i \in 1..2 : c[i] = IF i <= 1 THEN <<x>>[i] ELSE <<y>>[i - 1]
        BY <4>1, ConcatProperties
      <4> HIDE DEF c
      <4>3. c[1] = x /\ c[2] = y
        BY <4>2
      <4>4. c = <<x, y>>
        BY <4>2, <4>3
      <4> QED BY <4>4 DEF c
    <3>2. f \in Frame /\ report[t] \in Frame
      BY <1>1, <2>1, FrameKinds
    <3> QED BY <2>1, <3>1, <3>2
  <2>3. stack' = [stack EXCEPT ![t] = <<f, report[t]>>]
    BY <1>2, <2>2
  <2>4. Moves(t, f, report[t])
    BY <1>1, <2>1, <2>3, MovesByShape
  <2> QED BY <2>4 DEF f
<1> QED BY <1>3, <1>4

LEMMA PushReport ==
    ASSUME StackInv, NEW t \in Thread, NEW arg \in Signal \cup {"exit"},
           NEW pc \in ReportPcs, Push(t, pc, arg), stack[t] = << >>
    PROVE  Moves(t, NoFrame, [pc |-> pc, arg |-> arg])
<1> DEFINE g == [pc |-> pc, arg |-> arg]
<1>1. g \in ReportFrame
  BY DEF ReportFrame
<1>2. stack' = [stack EXCEPT ![t] = <<g>> \o @] /\ stack \in [Thread -> Seq(Frame)]
  BY DEF Push, StackInv
<1> HIDE DEF g
<1>3. <<g>> \o stack[t] = <<g>>
  OBVIOUS
<1>4. stack' = [stack EXCEPT ![t] = <<g>>]
  BY <1>2, <1>3
<1>5. Moves(t, NoFrame, g)
  BY <1>1, <1>4, MovesByShape
<1> QED BY <1>5 DEF g

\* A step that leaves the stacks alone leaves the two alone.
LEMMA Stays ==
    ASSUME StackInv, UNCHANGED stack
    PROVE  StackInv' /\ section' = section /\ report' = report
<1>1. section' = section /\ report' = report
  BY DEF section, report, NoFrame
<1>2. StackInv'
  BY Zenon DEF StackInv
<1> QED BY <1>1, <1>2

\* What the frames' types say of their program counters.
LEMMA Pcs ==
    ASSUME StackInv
    PROVE  \A x \in Thread :
              /\ section[x] = NoFrame <=> section[x].pc \notin UnitPcs
              /\ report[x] = NoFrame <=> report[x].pc \notin ReportPcs
              /\ section[x].pc \in UnitPcs => section[x].arg \in Unit
              /\ section[x].pc \in UnitPcs /\ report[x].pc \in ReportPcs
                     => report[x].pc = "drained"
              /\ section[x].pc \in UnitPcs \cup {"none"}
              /\ report[x].pc \in ReportPcs \cup {"none"}
<1> TAKE x \in Thread
<1>1. ViewShape(x) /\ NoFrame.pc = "none"
  BY ViewShapes DEF NoFrame
<1> QED BY <1>1, FrameKinds DEF ViewShape

LEMMA MovesAt ==
    ASSUME StackInv, NEW t \in Thread, NEW f, NEW g, Moves(t, f, g)
    PROVE  /\ section'[t] = f /\ report'[t] = g
           /\ \A x \in Thread : x # t => section'[x] = section[x] /\ report'[x] = report[x]
<1>1. section = [x \in Thread |-> section[x]] /\ report = [x \in Thread |-> report[x]]
  BY DEF section, report
<1> QED BY <1>1, Zenon DEF Moves

\* The same, seen from each thread.
LEMMA GotoUnitAt ==
    ASSUME StackInv, NEW t \in Thread, NEW pc \in UnitPcs, NEW next \in UnitPcs,
           Runs(t, pc), Goto(t, next)
    PROVE  /\ StackInv'
           /\ section[t].pc = pc /\ section[t].arg = Arg(t) /\ section[t] # NoFrame
           /\ Arg(t) \in Unit
           /\ section'[t].pc = next /\ section'[t].arg = Arg(t)
           /\ \A x \in Thread : report'[x] = report[x]
           /\ \A x \in Thread : x # t => section'[x] = section[x]
<1> DEFINE f == [pc |-> next, arg |-> Arg(t)]
<1>1. f.pc = next /\ f.arg = Arg(t)
  OBVIOUS
<1>2. Moves(t, f, report[t])
  BY GotoUnit
<1> HIDE DEF f
<1>3. /\ section'[t] = f /\ report'[t] = report[t]
      /\ \A x \in Thread : x # t => section'[x] = section[x] /\ report'[x] = report[x]
  BY <1>2, MovesAt
<1>4. section[t].pc = pc /\ section[t].arg = Arg(t) /\ section[t] # NoFrame /\ Arg(t) \in Unit
  BY RunsUnit, FrameKinds
<1> QED BY <1>1, <1>2, <1>3, <1>4 DEF Moves

LEMMA GotoReportAt ==
    ASSUME StackInv, NEW t \in Thread, NEW pc \in ReportPcs, NEW next \in ReportPcs,
           Runs(t, pc), Goto(t, next)
    PROVE  /\ StackInv'
           /\ report[t].pc = pc /\ report[t].arg = Arg(t) /\ report[t] # NoFrame
           /\ Arg(t) \in Signal \cup {"exit"}
           /\ report'[t].pc = next /\ report'[t].arg = Arg(t) /\ section[t] = NoFrame
           /\ report'[t] # NoFrame
           /\ \A x \in Thread : section'[x] = section[x]
           /\ \A x \in Thread : x # t => report'[x] = report[x]
<1> DEFINE g == [pc |-> next, arg |-> Arg(t)]
<1>1. g.pc = next /\ g.arg = Arg(t) /\ g # NoFrame
  <2>1. g.pc # "none" /\ NoFrame.pc = "none"
    BY DEF ReportPcs, HeldPcs, NoFrame
  <2> QED BY <2>1
<1>2. Moves(t, NoFrame, g)
  BY GotoReport
<1> HIDE DEF g
<1>3. /\ section'[t] = NoFrame /\ report'[t] = g
      /\ \A x \in Thread : x # t => section'[x] = section[x] /\ report'[x] = report[x]
  BY <1>2, MovesAt
<1>4. /\ report[t].pc = pc /\ report[t].arg = Arg(t) /\ report[t] # NoFrame
      /\ section[t] = NoFrame /\ Arg(t) \in Signal \cup {"exit"}
  BY RunsReport, FrameKinds
<1> QED BY <1>1, <1>2, <1>3, <1>4 DEF Moves

LEMMA PopUnitAt ==
    ASSUME StackInv, NEW t \in Thread, Runs(t, "unlock"), Pop(t)
    PROVE  /\ StackInv'
           /\ section[t].pc = "unlock" /\ section[t].arg = Arg(t) /\ section[t] # NoFrame
           /\ Arg(t) \in Unit
           /\ section'[t] = NoFrame
           /\ Tail(stack[t]) = << >> <=> report[t] = NoFrame
           /\ \A x \in Thread : report'[x] = report[x]
           /\ \A x \in Thread : x # t => section'[x] = section[x]
<1>1. Moves(t, NoFrame, report[t]) /\ (Tail(stack[t]) = << >> <=> report[t] = NoFrame)
  BY PopUnit
<1>2. /\ section'[t] = NoFrame /\ report'[t] = report[t]
      /\ \A x \in Thread : x # t => section'[x] = section[x] /\ report'[x] = report[x]
  BY <1>1, MovesAt
<1>3. "unlock" \in UnitPcs
  BY DEF UnitPcs
<1>4. /\ section[t].pc = "unlock" /\ section[t].arg = Arg(t) /\ section[t] # NoFrame
      /\ Arg(t) \in Unit
  BY <1>3, RunsUnit, FrameKinds
<1> QED BY <1>1, <1>2, <1>4 DEF Moves

LEMMA PushUnitAt ==
    ASSUME StackInv, NEW t \in Thread, NEW u \in Unit, Push(t, "unlink", u),
           stack[t] = << >> \/ Runs(t, "drained")
    PROVE  /\ StackInv'
           /\ section[t] = NoFrame
           /\ section'[t].pc = "unlink" /\ section'[t].arg = u
           /\ \A x \in Thread : report'[x] = report[x]
           /\ \A x \in Thread : x # t => section'[x] = section[x]
           /\ stack[t] # << >> => report[t].pc = "drained"
           /\ stack[t] = << >> => report[t] = NoFrame
<1> DEFINE f == [pc |-> "unlink", arg |-> u]
<1>1. f.pc = "unlink" /\ f.arg = u
  OBVIOUS
<1>2. Moves(t, f, report[t])
  BY PushUnit
<1> HIDE DEF f
<1>3. /\ section'[t] = f /\ report'[t] = report[t]
      /\ \A x \in Thread : x # t => section'[x] = section[x] /\ report'[x] = report[x]
  BY <1>2, MovesAt
<1>4. /\ section[t] = NoFrame /\ (stack[t] # << >> => report[t].pc = "drained")
      /\ (stack[t] = << >> => report[t] = NoFrame)
  <2>1. CASE stack[t] = << >>
    BY <2>1, ViewOfEmpty
  <2>2. CASE Runs(t, "drained")
    <3>1. "drained" \in ReportPcs
      BY DEF ReportPcs, HeldPcs
    <3> QED BY <2>2, <3>1, RunsReport DEF Runs
  <2> QED BY <2>1, <2>2
<1> QED BY <1>1, <1>2, <1>3, <1>4 DEF Moves

LEMMA PushReportAt ==
    ASSUME StackInv, NEW t \in Thread, NEW arg \in Signal \cup {"exit"},
           NEW pc \in ReportPcs, Push(t, pc, arg), stack[t] = << >>
    PROVE  /\ StackInv'
           /\ section[t] = NoFrame /\ report[t] = NoFrame
           /\ report'[t].pc = pc /\ report'[t].arg = arg /\ report'[t] # NoFrame
           /\ \A x \in Thread : section'[x] = section[x]
           /\ \A x \in Thread : x # t => report'[x] = report[x]
<1> DEFINE g == [pc |-> pc, arg |-> arg]
<1>1. g.pc = pc /\ g.arg = arg /\ g # NoFrame
  <2>1. g.pc # "none" /\ NoFrame.pc = "none"
    BY DEF ReportPcs, HeldPcs, NoFrame
  <2> QED BY <2>1
<1>2. Moves(t, NoFrame, g)
  BY PushReport
<1> HIDE DEF g
<1>3. /\ section'[t] = NoFrame /\ report'[t] = g
      /\ \A x \in Thread : x # t => section'[x] = section[x] /\ report'[x] = report[x]
  BY <1>2, MovesAt
<1>4. section[t] = NoFrame /\ report[t] = NoFrame
  BY ViewOfEmpty
<1> QED BY <1>1, <1>2, <1>3, <1>4 DEF Moves

-----------------------------------------------------------------------------
(* The registry's list and the stream *)

\* Taking a unit out of a list that holds it at most once.
LEMMA TakenOut ==
    ASSUME NEW S, NEW list \in Seq(S), NEW u,
           \A i, j \in DOMAIN list : list[i] = list[j] => i = j
    PROVE  /\ RemoveFirst(list, u) \in Seq(S)
           /\ \A i, j \in DOMAIN RemoveFirst(list, u) :
                 RemoveFirst(list, u)[i] = RemoveFirst(list, u)[j] => i = j
           /\ \A v : (\E i \in DOMAIN RemoveFirst(list, u) : RemoveFirst(list, u)[i] = v)
                         <=> v # u /\ \E i \in DOMAIN list : list[i] = v
           /\ Len(RemoveFirst(list, u)) =
                 IF Contains(list, u) THEN Len(list) - 1 ELSE Len(list)
<1> DEFINE new == RemoveFirst(list, u)
           n == Len(list)
<1>1. n \in Nat /\ DOMAIN list = 1..n
  BY LenProperties
<1>2. CASE ~ \E i \in 1..n : list[i] = u
  <2>1. new = list /\ ~Contains(list, u)
    BY <1>2 DEF RemoveFirst, Contains
  <2> HIDE DEF new
  <2>2. \A v : (\E i \in DOMAIN new : new[i] = v)
                  <=> v # u /\ \E i \in DOMAIN list : list[i] = v
    BY <1>1, <1>2, <2>1
  <2>3. new \in Seq(S) /\ Len(new) = n
        /\ \A i, j \in DOMAIN new : new[i] = new[j] => i = j
    BY <2>1
  <2> QED BY <2>1, <2>2, <2>3 DEF new
<1>3. CASE \E i \in 1..n : list[i] = u
  <2> DEFINE I == {i \in 1..n : list[i] = u}
             k == IF I # {} THEN CHOOSE x \in I : \A y \in I : x <= y ELSE 0
  <2>1. new = SubSeq(list, 1, k - 1) \o SubSeq(list, k + 1, n) /\ Contains(list, u)
    BY <1>3, Zenon DEF RemoveFirst, RemoveAt, SelectInSeq, Min, Contains
  <2>2. k \in 1..n /\ list[k] = u
    <3>1. PICK i \in 1..n : list[i] = u
      BY <1>3
    <3>2. I = {i}
      BY <1>1, <3>1
    <3>3. i \in I /\ \A y \in I : i <= y
      BY <1>1, <3>2
    <3>4. k \in I
      <4> HIDE DEF I
      <4> QED BY <3>2, <3>3
    <3> QED BY <3>4
  <2> HIDE DEF new, k
  <2>3. /\ SubSeq(list, 1, k - 1) \in Seq(S) /\ Len(SubSeq(list, 1, k - 1)) = k - 1
        /\ \A i \in 1..(k - 1) : SubSeq(list, 1, k - 1)[i] = list[i]
    BY <1>1, <2>2
  <2>4. /\ SubSeq(list, k + 1, n) \in Seq(S) /\ Len(SubSeq(list, k + 1, n)) = n - k
        /\ \A i \in 1..(n - k) : SubSeq(list, k + 1, n)[i] = list[k + i]
    <3>1. \A i \in k + 1 .. n : list[i] \in S
      BY <1>1, <2>2
    <3>2. /\ SubSeq(list, k + 1, n) \in Seq(S)
          /\ Len(SubSeq(list, k + 1, n)) = IF k + 1 <= n THEN n - (k + 1) + 1 ELSE 0
          /\ \A i \in 1..(n - (k + 1) + 1) : SubSeq(list, k + 1, n)[i] = list[(k + 1) + i - 1]
      <4>1. k + 1 \in Int /\ n \in Int
        BY <1>1, <2>2
      <4> HIDE DEF n
      <4> QED BY <3>1, <4>1, SubSeqProperties
    <3>3. n - (k + 1) + 1 = n - k /\ \A i \in 1..(n - k) : (k + 1) + i - 1 = k + i
      BY <1>1, <2>2
    <3>4. (IF k + 1 <= n THEN n - (k + 1) + 1 ELSE 0) = n - k
      <4> HIDE DEF n
      <4>1. k \in Nat /\ n \in Nat /\ k <= n
        BY <1>1, <2>2
      <4>2. CASE k = n
        BY <4>1, <4>2
      <4>3. CASE k # n
        <5>1. k + 1 <= n
          BY <4>1, <4>3
        <5> QED BY <4>1, <5>1
      <4> QED BY <4>2, <4>3
    <3> QED BY <3>2, <3>3, <3>4
  <2>5. /\ new \in Seq(S) /\ Len(new) = n - 1
        /\ \A i \in 1..(n - 1) : new[i] = IF i < k THEN list[i] ELSE list[i + 1]
    <3> DEFINE a == SubSeq(list, 1, k - 1)
               b == SubSeq(list, k + 1, n)
    <3>1. a \in Seq(S) /\ b \in Seq(S) /\ Len(a) = k - 1 /\ Len(b) = n - k /\ new = a \o b
      BY <2>1, <2>3, <2>4
    <3>2. (k - 1) + (n - k) = n - 1
      BY <1>1, <2>2
    <3> HIDE DEF a, b, n
    <3>3. /\ new \in Seq(S) /\ Len(new) = n - 1
          /\ \A i \in 1..(n - 1) : new[i] = IF i <= k - 1 THEN a[i] ELSE b[i - (k - 1)]
      BY <3>1, <3>2, ConcatProperties
    <3>4. ASSUME NEW i \in 1..(n - 1)
          PROVE  new[i] = IF i < k THEN list[i] ELSE list[i + 1]
      <4>1. CASE i < k
        <5>1. i \in 1..(k - 1) /\ i <= k - 1
          BY <1>1, <2>2, <4>1
        <5> QED BY <2>3, <3>3, <4>1, <5>1 DEF a
      <4>2. CASE ~(i < k)
        <5>1. i - (k - 1) \in 1..(n - k) /\ ~(i <= k - 1) /\ k + (i - (k - 1)) = i + 1
          BY <1>1, <2>2, <4>2
        <5>2. b[i - (k - 1)] = list[k + (i - (k - 1))]
          BY <2>4, <5>1 DEF b
        <5> QED BY <3>3, <4>2, <5>1, <5>2
      <4> QED BY <4>1, <4>2
    <3> QED BY <3>3, <3>4
  <2>6. DOMAIN new = 1..(n - 1)
    BY <2>5, LenProperties
  <2>7. ASSUME NEW i \in DOMAIN new, NEW j \in DOMAIN new, new[i] = new[j]
        PROVE  i = j
    <3> DEFINE from(x) == IF x < k THEN x ELSE x + 1
    <3>1. from(i) \in 1..n /\ from(j) \in 1..n /\ (from(i) = from(j) => i = j)
      BY <1>1, <2>2, <2>6
    <3>2. list[from(i)] = list[from(j)]
      BY <2>5, <2>6, <2>7
    <3> HIDE DEF from
    <3> QED BY <1>1, <3>1, <3>2
  <2>8. ASSUME NEW v
        PROVE  (\E i \in DOMAIN new : new[i] = v)
                  <=> v # u /\ \E i \in DOMAIN list : list[i] = v
    <3>1. ASSUME NEW i \in DOMAIN new, new[i] = v
          PROVE  v # u /\ \E j \in DOMAIN list : list[j] = v
      BY <1>1, <2>2, <2>5, <2>6, <3>1
    <3>2. ASSUME NEW j \in DOMAIN list, list[j] = v, v # u
          PROVE  \E i \in DOMAIN new : new[i] = v
      <4>1. CASE j < k
        BY <1>1, <2>2, <2>5, <2>6, <3>2, <4>1
      <4>2. CASE j > k
        <5>1. j - 1 \in DOMAIN new /\ new[j - 1] = list[j]
          BY <1>1, <2>2, <2>5, <2>6, <4>2
        <5> QED BY <3>2, <5>1
      <4> QED BY <1>1, <2>2, <3>2, <4>1, <4>2
    <3> QED BY <3>1, <3>2
  <2> QED BY <2>1, <2>5, <2>7, <2>8 DEF new
<1> QED BY <1>2, <1>3

LEMMA LeastOf ==
    ASSUME NEW T \in SUBSET Nat, T # {}
    PROVE  \E x \in T : \A y \in T : x <= y
<1> DEFINE R == OpToRel(<, Nat)
<1>1. IsWellFoundedOn(R, Nat)
  BY NatLessThanWellFounded
<1>2. \A y, z \in Nat : y < z => <<y, z>> \in R
  BY DEF OpToRel
<1> HIDE DEF R
<1>3. PICK x \in T : \A y \in T : <<y, x>> \notin R
  BY <1>1, WFMin
<1>4. ASSUME NEW y \in T PROVE x <= y
  <2>1. x \in Nat /\ y \in Nat /\ <<y, x>> \notin R
    BY <1>3
  <2>2. ~(y < x)
    BY <1>2, <2>1
  <2> QED BY <2>1, <2>2
<1> QED BY <1>4

\* f is the parser's run over the first m items.
Run(f, m, items) ==
    f = [i \in 0..m |-> IF i = 0 THEN Tag("start") ELSE After(f[i - 1], items[i])]

\* The run exists (no induction theorem can be used on a recursive function
\* here: the least counterexample will do).
LEMMA RunExists ==
    ASSUME NEW items, NEW n \in Nat
    PROVE  \E f : Run(f, n, items)
<1> SUFFICES ASSUME ~ \E f : Run(f, n, items) PROVE FALSE
  OBVIOUS
<1> DEFINE T == {m \in Nat : ~ \E f : Run(f, m, items)}
<1>1. PICK m \in T : \A y \in T : m <= y
  <2>1. T \in SUBSET Nat /\ T # {}
    OBVIOUS
  <2> HIDE DEF T
  <2> QED BY <2>1, LeastOf
<1>2. m \in Nat /\ ~ \E f : Run(f, m, items)
  OBVIOUS
<1>3. CASE m = 0
  <2> DEFINE f == [i \in 0..m |-> Tag("start")]
  <2>1. f = [i \in 0..m |-> IF i = 0 THEN Tag("start") ELSE After(f[i - 1], items[i])]
    <3>1. \A i \in 0..m : i = 0
      BY <1>3
    <3> QED BY <3>1
  <2> QED BY <1>2, <2>1 DEF Run
<1>4. CASE m # 0
  <2>1. m - 1 \in Nat /\ m - 1 \notin T
    <3>1. m - 1 \in Nat /\ ~(m <= m - 1)
      BY <1>2, <1>4
    <3> HIDE DEF T
    <3> QED BY <1>1, <3>1
  <2>2. PICK g : Run(g, m - 1, items)
    BY <2>1
  <2>3. g = [i \in 0..(m - 1) |-> IF i = 0 THEN Tag("start") ELSE After(g[i - 1], items[i])]
    BY <2>2 DEF Run
  <2> DEFINE last == After(g[m - 1], items[m])
             f == [i \in 0..m |-> IF i = m THEN last ELSE g[i]]
  <2>4. ASSUME NEW i \in 0..m
        PROVE  f[i] = IF i = 0 THEN Tag("start") ELSE After(f[i - 1], items[i])
    <3>1. CASE i = m
      <4>1. i # 0 /\ i - 1 \in 0..m /\ i - 1 # m /\ i - 1 = m - 1
        <5> HIDE DEF T, f
        <5> QED BY <1>2, <1>4, <3>1
      <4>2. f[i - 1] = g[i - 1] /\ f[i] = last
        <5> HIDE DEF last
        <5> QED BY <3>1, <4>1
      <4> HIDE DEF f
      <4> QED BY <3>1, <4>1, <4>2
    <3>2. CASE i # m
      <4>1. i \in 0 .. m - 1 /\ f[i] = g[i]
        BY <1>2, <3>2
      <4>2. g[i] = IF i = 0 THEN Tag("start") ELSE After(g[i - 1], items[i])
        <5> HIDE DEF f
        <5> QED BY <2>3, <4>1
      <4>3. i # 0 => i - 1 \in 0..m /\ i - 1 # m
        <5> HIDE DEF f
        <5> QED BY <1>2, <4>1
      <4>4. i # 0 => f[i - 1] = g[i - 1]
        BY <4>3
      <4> HIDE DEF f
      <4> QED BY <4>1, <4>2, <4>4
    <3> QED BY <3>1, <3>2
  <2>5. f = [i \in 0..m |-> f[i]]
    OBVIOUS
  <2> HIDE DEF f
  <2>6. f = [i \in 0..m |-> IF i = 0 THEN Tag("start") ELSE After(f[i - 1], items[i])]
    BY <2>4, <2>5
  <2> QED BY <1>2, <2>6 DEF Run
<1> QED BY <1>3, <1>4

\* The parser takes one item at a time.
LEMMA ParsedAppend ==
    ASSUME NEW items \in Seq(Item), NEW item \in Item
    PROVE  Parsed(Append(items, item)) = After(Parsed(items), item)
<1> DEFINE n == Len(items)
           more == Append(items, item)
           f == CHOOSE h : Run(h, n, items)
           g == CHOOSE h : Run(h, n + 1, more)
<1>1. n \in Nat /\ more \in Seq(Item) /\ Len(more) = n + 1 /\ more[n + 1] = item
      /\ \A i \in 1..n : more[i] = items[i]
  BY AppendProperties
<1>2. Run(f, n, items) /\ Run(g, n + 1, more)
  <2>1. (\E h : Run(h, n, items)) /\ \E h : Run(h, n + 1, more)
    <3>1. n + 1 \in Nat
      BY <1>1
    <3> HIDE DEF n, more
    <3> QED BY <1>1, <3>1, RunExists
  <2> HIDE DEF n, more
  <2> QED BY <2>1
<1>3. Parsed(items) = f[n] /\ Parsed(more) = g[n + 1]
  <2>1. Parsed(more) = (CHOOSE h : Run(h, Len(more), more))[Len(more)]
    <3> HIDE DEF more
    <3> QED BY Zenon DEF Parsed, Run
  <2>2. Parsed(items) = f[n]
    BY Zenon DEF Parsed, Run
  <2> HIDE DEF more, n
  <2> QED BY <1>1, <2>1, <2>2
<1> HIDE DEF f, g
<1>4. /\ \A i \in 0..n : f[i] = IF i = 0 THEN Tag("start") ELSE After(f[i - 1], items[i])
      /\ \A i \in 0..(n + 1) : g[i] = IF i = 0 THEN Tag("start") ELSE After(g[i - 1], more[i])
  <2> HIDE DEF n, more
  <2> QED BY <1>2 DEF Run
<1>5. f[n] = g[n]
  <2> SUFFICES ASSUME f[n] # g[n] PROVE FALSE
    OBVIOUS
  <2> DEFINE T == {m \in 0..n : f[m] # g[m]}
  <2>1. PICK m \in T : \A y \in T : m <= y
    <3>1. T \in SUBSET Nat /\ T # {}
      BY <1>1
    <3> HIDE DEF T
    <3> QED BY <3>1, LeastOf
  <2>2. m \in 0..n /\ f[m] # g[m]
    OBVIOUS
  <2>3. m # 0
    BY <1>1, <1>4, <2>2
  <2>4. m - 1 \in 0..n /\ ~(m <= m - 1) /\ m \in 1..n /\ m \in 0..(n + 1)
    BY <1>1, <2>2, <2>3
  <2>5. f[m - 1] = g[m - 1]
    BY <2>1, <2>4
  <2> HIDE DEF n, more
  <2> QED BY <1>1, <1>4, <2>2, <2>3, <2>4, <2>5
<1>6. g[n + 1] = After(g[n], item)
  <2>1. n + 1 \in 0..(n + 1) /\ n + 1 # 0 /\ (n + 1) - 1 = n
    BY <1>1
  <2> HIDE DEF n, more
  <2> QED BY <1>1, <1>4, <2>1
<1> QED BY <1>3, <1>5, <1>6

LEMMA SectionsAppend ==
    ASSUME NEW items \in Seq(Item), NEW item \in Item, NEW u
    PROVE  /\ Sections(u, items) \in Nat
           /\ Sections(u, Append(items, item)) =
                 IF item = [tag |-> "/samples", unit |-> u]
                 THEN Sections(u, items) + 1 ELSE Sections(u, items)
<1> DEFINE end == [tag |-> "/samples", unit |-> u]
           more == Append(items, item)
           n == Len(items)
           I == {i \in DOMAIN items : items[i] = end}
           J == {i \in DOMAIN more : more[i] = end}
<1>1. n \in Nat /\ DOMAIN items = 1..n /\ DOMAIN more = 1..(n + 1) /\ more[n + 1] = item
      /\ \A i \in 1..n : more[i] = items[i]
  BY AppendProperties, LenProperties
<1>2. IsFiniteSet(I)
  <2>1. IsFiniteSet(1..n) /\ I \in SUBSET (1..n)
    BY <1>1, FS_Interval
  <2> HIDE DEF I
  <2> QED BY <2>1, FS_Subset
<1>3. Sections(u, items) = Cardinality(I) /\ Sections(u, more) = Cardinality(J)
  BY DEF Sections
<1>4. CASE item = end
  <2>1. J = I \cup {n + 1} /\ n + 1 \notin I
    <3> HIDE DEF more, n, end
    <3> QED BY <1>1, <1>4
  <2>2. Cardinality(J) = Cardinality(I) + 1
    <3> HIDE DEF I, J
    <3> QED BY <1>2, <2>1, FS_AddElement
  <2> HIDE DEF I, J
  <2> QED BY <1>2, <1>3, <1>4, <2>2, FS_CardinalityType
<1>5. CASE item # end
  <2>1. J = I
    <3> HIDE DEF more, n, end
    <3> QED BY <1>1, <1>5
  <2> HIDE DEF I, J
  <2> QED BY <1>2, <1>3, <1>5, <2>1, FS_CardinalityType
<1> QED BY <1>4, <1>5

\* A child that writes its copy takes nothing out of the stream.
LEMMA SectionsInserted ==
    ASSUME NEW p \in Seq(Item), NEW c \in Seq(Item), NEW b \in Seq(Item), NEW u
    PROVE  Sections(u, p \o b) <= Sections(u, (p \o c) \o b)
<1> DEFINE end == [tag |-> "/samples", unit |-> u]
           l == Len(p)
           m == Len(c)
           n == Len(b)
           s == p \o b
           w == (p \o c) \o b
           to(i) == IF i <= l THEN i ELSE i + m
           I == {i \in DOMAIN s : s[i] = end}
           J == {i \in DOMAIN w : w[i] = end}
           h == [i \in I |-> to(i)]
<1>1. l \in Nat /\ m \in Nat /\ n \in Nat
  BY LenProperties
<1>2. /\ s \in Seq(Item) /\ DOMAIN s = 1..(l + n)
      /\ \A i \in 1..(l + n) : s[i] = IF i <= l THEN p[i] ELSE b[i - l]
  BY ConcatProperties, LenProperties
<1>3. /\ p \o c \in Seq(Item) /\ Len(p \o c) = l + m
      /\ \A i \in 1..(l + m) : (p \o c)[i] = IF i <= l THEN p[i] ELSE c[i - l]
  BY ConcatProperties
<1>4. /\ w \in Seq(Item) /\ DOMAIN w = 1..((l + m) + n)
      /\ \A i \in 1..((l + m) + n) :
            w[i] = IF i <= l + m THEN (p \o c)[i] ELSE b[i - (l + m)]
  <2> HIDE DEF l, m, n
  <2>1. /\ w \in Seq(Item) /\ Len(w) = Len(p \o c) + Len(b)
        /\ \A i \in 1..(Len(p \o c) + Len(b)) :
              w[i] = IF i <= Len(p \o c) THEN (p \o c)[i] ELSE b[i - Len(p \o c)]
    BY <1>3, ConcatProperties
  <2>2. DOMAIN w = 1..Len(w)
    BY <2>1, LenProperties
  <2> QED BY <1>3, <2>1, <2>2 DEF n
<1> HIDE DEF l, m, n, s, w, end
<1>5. ASSUME NEW i \in I PROVE to(i) \in J
  <2>1. i \in 1..(l + n) /\ s[i] = end
    BY <1>2
  <2>2. CASE i <= l
    <3>1. i \in 1..((l + m) + n) /\ i <= l + m /\ i \in 1..(l + m)
      BY <1>1, <2>1, <2>2
    <3> QED BY <1>2, <1>3, <1>4, <2>1, <2>2, <3>1
  <2>3. CASE ~(i <= l)
    <3>1. i + m \in 1..((l + m) + n) /\ ~(i + m <= l + m) /\ (i + m) - (l + m) = i - l
      BY <1>1, <2>1, <2>3
    <3>2. w[i + m] = b[i - l]
      BY <1>4, <3>1
    <3> QED BY <1>2, <1>4, <2>1, <2>3, <3>1, <3>2
  <2> QED BY <2>2, <2>3
<1>6. \A i, j \in I : to(i) = to(j) => i = j
  <2>1. \A i, j \in 1..(l + n) : to(i) = to(j) => i = j
    BY <1>1
  <2> HIDE DEF to
  <2> QED BY <1>2, <2>1
<1>7. IsFiniteSet(J)
  <2>1. IsFiniteSet(1..((l + m) + n)) /\ J \in SUBSET (1..((l + m) + n))
    BY <1>1, <1>4, FS_Interval
  <2> HIDE DEF J
  <2> QED BY <2>1, FS_Subset
<1>8. h \in Injection(I, J)
  <2> HIDE DEF to, I, J
  <2>1. h \in [I -> J] /\ \A i, j \in I : h[i] = h[j] => i = j
    BY <1>5, <1>6
  <2> HIDE DEF h
  <2> QED BY <2>1 DEF Injection, IsInjective
<1>9. Cardinality(I) <= Cardinality(J)
  <2> HIDE DEF I, J, h
  <2> QED BY <1>7, <1>8, FS_Injection
<1> QED BY <1>9 DEF Sections, s, w, end
-----------------------------------------------------------------------------
(* What leaves a conjunct of the invariant alone *)

LEMMA LockKept ==
    ASSUME LockInv, UNCHANGED locks,
           \A x \in Thread : /\ report'[x].pc \in HeldPcs <=> report[x].pc \in HeldPcs
                             /\ report'[x].pc = "drained" <=> report[x].pc = "drained"
                             /\ section'[x].pc \in UnitPcs \ {"unlink"}
                                    <=> section[x].pc \in UnitPcs \ {"unlink"}
    PROVE  LockInv'
<1>1. \A x \in Thread : Depth(x)' = Depth(x)
  BY DEF Depth, Unlinking
<1> QED BY <1>1 DEF LockInv, locks

LEMMA LinkerKept ==
    ASSUME LinkerInv,
           \A x \in Thread : section'[x] # NoFrame /\ report'[x] = NoFrame
                                => section[x] # NoFrame /\ report[x] = NoFrame
    PROVE  LinkerInv'
BY DEF LinkerInv

LEMMA RegistryKept ==
    ASSUME RegistryInv, UNCHANGED <<linked, loaded>>,
           \A x \in Thread :
              /\ section'[x] # NoFrame => section[x] # NoFrame
                                          /\ section'[x].arg = section[x].arg
              /\ section'[x].pc \in UnitPcs \ {"unlink"}
                    => /\ section[x].pc \in UnitPcs \ {"unlink"}
                       /\ section'[x].arg = section[x].arg
    PROVE  RegistryInv'
<1>1. \A x \in Thread : Unlinking(x)' => Unlinking(x) /\ section'[x].arg = section[x].arg
  BY DEF Unlinking
<1>2. \A u : Linked(u)' <=> Linked(u)
  BY DEF Linked
<1>3. \A t \in Thread : section'[t] # NoFrame => section'[t].arg \in loaded'
  BY DEF RegistryInv
<1>4. \A t \in Thread : Unlinking(t)' => ~Linked(section[t].arg)'
  BY <1>1, <1>2 DEF RegistryInv, Linked
<1> QED BY <1>1, <1>2, <1>3, <1>4 DEF RegistryInv, Linked

LEMMA CountKept ==
    ASSUME CountInv, UNCHANGED registry,
           \A x \in Thread : section'[x].pc \in WritePcs <=> section[x].pc \in WritePcs
    PROVE  CountInv'
BY DEF CountInv, registry

LEMMA FileKept ==
    ASSUME FileInv, UNCHANGED <<process, file, linked, reportLock>>,
           file # "open" => buffer' = buffer,
           \A x \in Thread :
              /\ report'[x].pc \in HeldPcs \ {"forget", "release"}
                    => report[x].pc \in HeldPcs \ {"forget", "release"}
              /\ report'[x].pc = "forget" => report[x].pc = "forget"
              /\ report'[x].pc \in {"release", "end"} => report[x].pc \in {"release", "end"}
              /\ report'[x].pc \in {"/report", "flush", "backtrace", "fclose"}
                    => report[x].pc \in {"/report", "flush", "backtrace", "fclose"}
              /\ section'[x].pc \in WritePcs => section[x].pc \in WritePcs
    PROVE  FileInv'
<1>1. Drained' => Drained
  BY DEF Drained
<1> QED BY <1>1 DEF FileInv

\* The registry's lock, taken once more and released once.
LEMMA UnitLockTaken ==
    ASSUME LockInv, Locks, NEW t \in Thread, AcquireUnitLock(t), UNCHANGED reportLock,
           Depth(t)' = Depth(t) + 1, \A x \in Thread : x # t => Depth(x)' = Depth(x),
           \A x \in Thread : report'[x].pc \in HeldPcs <=> report[x].pc \in HeldPcs
    PROVE  LockInv' /\ \A x \in Thread : x # t => ~(Depth(x) > 0)
<1>1. Nobody \notin Thread /\ unitLock \in [owner : Thread \cup {Nobody}, depth : Nat]
  BY ReportingAssumption DEF LockInv
<1>2. unitLock.owner \in {Nobody, t}
      /\ unitLock' = [owner |-> t, depth |-> unitLock.depth + 1]
  BY Locks DEF AcquireUnitLock
<1>3. \A x \in Thread : x # t => ~(Depth(x) > 0)
  BY <1>1, <1>2 DEF LockInv
<1>4. unitLock.depth = Depth(t) /\ Depth(t) \in Nat
  <2>1. CASE unitLock.owner = t
    BY <1>1, <2>1 DEF LockInv
  <2>2. CASE unitLock.owner = Nobody
    <3>1. ~(Depth(t) > 0) /\ unitLock.depth = 0
      BY <1>1, <2>2 DEF LockInv
    <3> QED BY <3>1 DEF Depth
  <2> QED BY <1>2, <2>1, <2>2
<1>5. /\ unitLock' \in [owner : Thread \cup {Nobody}, depth : Nat]
      /\ unitLock'.owner = t /\ unitLock'.depth = Depth(t)' /\ Depth(t)' > 0
  BY <1>1, <1>2, <1>4
<1>6. \A x \in Thread : report'[x].pc \in HeldPcs <=> reportLock' = x
  BY DEF LockInv
<1>7. reportLock' \in Thread \cup {Nobody}
  BY DEF LockInv
<1>8. /\ \A x \in Thread : Depth(x)' > 0 <=> unitLock'.owner = x
      /\ \A x \in Thread : unitLock'.owner = x => unitLock'.depth = Depth(x)'
      /\ unitLock'.owner = Nobody => unitLock'.depth = 0
  BY <1>1, <1>3, <1>5
<1>9. LockInv'
  BY <1>5, <1>6, <1>7, <1>8, Zenon DEF LockInv
<1> QED BY <1>3, <1>9

LEMMA UnitLockReleased ==
    ASSUME LockInv, Locks, NEW t \in Thread, ReleaseUnitLock, UNCHANGED reportLock,
           Depth(t) > 0, Depth(t)' = Depth(t) - 1,
           \A x \in Thread : x # t => Depth(x)' = Depth(x),
           \A x \in Thread : report'[x].pc \in HeldPcs <=> report[x].pc \in HeldPcs
    PROVE  LockInv'
<1>1. unitLock.owner = t /\ unitLock.depth = Depth(t) /\ Depth(t) \in Nat
  BY DEF LockInv
<1>2. unitLock' = [owner |-> IF unitLock.depth = 1 THEN Nobody ELSE unitLock.owner,
                   depth |-> unitLock.depth - 1]
  BY Locks DEF ReleaseUnitLock
<1>3. \A x \in Thread : x # t => ~(Depth(x) > 0)
  BY <1>1 DEF LockInv
<1>4. Nobody \notin Thread
  BY ReportingAssumption
<1>5. /\ unitLock' \in [owner : Thread \cup {Nobody}, depth : Nat]
      /\ unitLock'.depth = Depth(t)'
      /\ unitLock'.owner = IF Depth(t)' > 0 THEN t ELSE Nobody
  BY <1>1, <1>2
<1>6. \A x \in Thread : Depth(x)' > 0 <=> unitLock'.owner = x
  BY <1>3, <1>4, <1>5
<1>7. \A x \in Thread : report'[x].pc \in HeldPcs <=> reportLock' = x
  BY DEF LockInv
<1>8. \A x \in Thread : unitLock'.owner = x => unitLock'.depth = Depth(x)'
  BY <1>4, <1>5
<1>9. unitLock'.owner = Nobody => unitLock'.depth = 0
  BY <1>1, <1>4, <1>5
<1>10. reportLock' \in Thread \cup {Nobody}
  BY DEF LockInv
<1> QED BY <1>5, <1>6, <1>7, <1>8, <1>9, <1>10, Zenon DEF LockInv

-----------------------------------------------------------------------------
(* Stacks, locks, the registry and the file *)

\* Frames and locks that a step does not touch.
LEMMA UntouchedCore ==
    ASSUME CoreInv, UNCHANGED <<process, stack, locks, registry, file, buffer, loaded>>
    PROVE  CoreInv'
<1>1. StackInv' /\ section' = section /\ report' = report
  BY Stays DEF CoreInv
<1>2. LockInv' /\ LinkerInv' /\ CountInv'
  BY <1>1, LockKept, LinkerKept, CountKept DEF CoreInv, locks, registry
<1>3. RegistryInv'
  BY <1>1, RegistryKept DEF CoreInv, registry
<1>4. FileInv'
  BY <1>1, FileKept DEF CoreInv, locks, registry
<1> QED BY <1>1, <1>2, <1>3, <1>4 DEF CoreInv

\* A unit that is written, with the registry locked.
LEMMA WritingCore ==
    ASSUME CoreInv, NEW t \in Thread, NEW pc \in WritePcs, NEW next \in WritePcs,
           Runs(t, pc), Goto(t, next), file = "open",
           UNCHANGED <<process, locks, registry, file, loaded>>
    PROVE  CoreInv'
<1>1. StackInv /\ pc \in UnitPcs \ {"unlink"} /\ next \in UnitPcs \ {"unlink"}
  BY DEF CoreInv, WritePcs, UnitPcs
<1>2. pc \in UnitPcs /\ next \in UnitPcs
  BY <1>1
<1>4. /\ StackInv'
      /\ section[t].pc = pc /\ section[t].arg = Arg(t) /\ section[t] # NoFrame
      /\ section'[t].pc = next /\ section'[t].arg = Arg(t)
      /\ \A x \in Thread : report'[x] = report[x]
      /\ \A x \in Thread : x # t => section'[x] = section[x]
  BY <1>1, <1>2, GotoUnitAt
<1>6. \A x \in Thread :
         /\ report'[x] = report[x] /\ section'[x].arg = section[x].arg
         /\ section'[x].pc \in UnitPcs \ {"unlink"} <=> section[x].pc \in UnitPcs \ {"unlink"}
         /\ section'[x].pc \in WritePcs <=> section[x].pc \in WritePcs
         /\ section'[x] # NoFrame => section[x] # NoFrame
  BY <1>1, <1>4, Zenon
<1>7. LockInv' /\ LinkerInv' /\ CountInv'
  BY <1>6, LockKept, LinkerKept, CountKept DEF CoreInv
<1>8. RegistryInv'
  BY <1>6, RegistryKept DEF CoreInv, registry
<1>9. FileInv'
  BY <1>6, FileKept DEF CoreInv, locks, registry
<1> QED BY <1>4, <1>7, <1>8, <1>9 DEF CoreInv

\* While a unit is written the file is open.
LEMMA WritingOpen ==
    ASSUME CoreInv, NEW t \in Thread, section[t].pc \in WritePcs
    PROVE  file = "open"
BY DEF CoreInv, FileInv, Drained

LEMMA CheckFileCore ==
    ASSUME CoreInv, NEW t \in Thread, CheckFile(t)
    PROVE  CoreInv' /\ file = "open" /\ Goto(t, "samples")
<1>1. "check" \in WritePcs /\ "check" \in UnitPcs /\ "samples" \in WritePcs
  BY DEF WritePcs, UnitPcs
<1>2. Runs(t, "check") /\ StackInv
  BY DEF CheckFile, CoreInv
<1>3. section[t].pc = "check"
  BY <1>1, <1>2, RunsUnit
<1>4. file = "open"
  BY <1>1, <1>3, WritingOpen
<1>5. Goto(t, "samples") /\ UNCHANGED <<process, locks, registry, file, loaded>>
  BY <1>4 DEF CheckFile, output, history
<1> QED BY <1>1, <1>2, <1>4, <1>5, WritingCore

\* A thread that writes finds the file open, and appends to it.
LEMMA PutCore ==
    ASSUME CoreInv, NEW t \in Thread, NEW pc \in WritePcs, NEW next \in WritePcs,
           NEW item, Runs(t, pc), Put(t, item, next),
           UNCHANGED <<locks, registry, file, loaded>>
    PROVE  /\ CoreInv' /\ file = "open" /\ Goto(t, next)
           /\ buffer' = Append(buffer, item) /\ UNCHANGED process
<1>1. pc \in UnitPcs /\ StackInv
  BY DEF WritePcs, UnitPcs, CoreInv
<1>2. section[t].pc = pc
  BY <1>1, RunsUnit
<1>3. file = "open"
  BY <1>2, WritingOpen
<1>4. Goto(t, next) /\ buffer' = Append(buffer, item) /\ UNCHANGED process
  BY <1>3 DEF Put
<1>5. CoreInv'
  BY <1>3, <1>4, WritingCore
<1> QED BY <1>3, <1>4, <1>5

\* Whoever has unlinked a unit holds the lock, so that nobody else has.
LEMMA UnlinkingAlone ==
    ASSUME CoreInv, NEW t \in Thread, Depth(t) > 0, NEW x \in Thread, x # t
    PROVE  /\ section[x].pc \notin UnitPcs \ {"unlink"} /\ section[x].pc \notin WritePcs
           /\ report[x].pc # "drained"
<1>1. unitLock.owner = t
  BY DEF CoreInv, LockInv
<1>2. ~(Depth(x) > 0)
  BY <1>1 DEF CoreInv, LockInv
<1> QED BY <1>2 DEF Depth, Unlinking, WritePcs, UnitPcs

LEMMA CountDownCore ==
    ASSUME CoreInv, NEW t \in Thread, CountDown(t)
    PROVE  CoreInv'
<1>1. StackInv /\ Runs(t, "count") /\ Goto(t, "unlock") /\ "count" \in UnitPcs
      /\ "unlock" \in UnitPcs
  BY DEF CoreInv, CountDown, UnitPcs
<1>2. /\ StackInv'
      /\ section[t].pc = "count" /\ section[t].arg = Arg(t) /\ section[t] # NoFrame
      /\ section'[t].pc = "unlock" /\ section'[t].arg = Arg(t)
      /\ \A x \in Thread : report'[x] = report[x]
      /\ \A x \in Thread : x # t => section'[x] = section[x]
  BY <1>1, GotoUnitAt
<1>6. \A x \in Thread :
         /\ report'[x] = report[x] /\ section'[x].arg = section[x].arg
         /\ section'[x].pc \in UnitPcs \ {"unlink"} <=> section[x].pc \in UnitPcs \ {"unlink"}
         /\ section'[x].pc \in WritePcs => section[x].pc \in WritePcs
         /\ section'[x] # NoFrame => section[x] # NoFrame
  BY <1>2 DEF UnitPcs, WritePcs
<1>7. UNCHANGED <<process, locks, linked, file, buffer, loaded>> /\ unitCount' = unitCount - 1
  BY DEF CountDown, output, history
<1>8. LockInv' /\ LinkerInv'
  BY <1>6, <1>7, LockKept, LinkerKept DEF CoreInv
<1>9. RegistryInv'
  BY <1>6, <1>7, RegistryKept DEF CoreInv
<1>10. FileInv'
  BY <1>6, <1>7, FileKept DEF CoreInv, locks
<1>11. CountInv'
  <2>1. Depth(t) > 0
    BY <1>2 DEF Depth, Unlinking, UnitPcs
  <2>2. \A x \in Thread : section'[x].pc \notin WritePcs
    <3>1. \A x \in Thread : x # t => section[x].pc \notin WritePcs
      BY <2>1, UnlinkingAlone
    <3>2. "unlock" \notin WritePcs
      BY DEF WritePcs
    <3> QED BY <1>2, <3>1, <3>2
  <2>3. unitCount = Len(linked) + 1
    BY <1>2 DEF CoreInv, CountInv, WritePcs
  <2>4. Len(linked) \in Nat
    BY LenProperties DEF CoreInv, RegistryInv
  <2>5. unitCount' = Len(linked')
    BY <1>7, <2>3, <2>4
  <2> QED BY <2>2, <2>5 DEF CountInv
<1> QED BY <1>2, <1>8, <1>9, <1>10, <1>11 DEF CoreInv

\* The lock is released once; the destructor that took it first ends.
LEMMA UnregisteredCore ==
    ASSUME CoreInv, Locks, NEW t \in Thread, Unregistered(t)
    PROVE  CoreInv'
<1>1. StackInv /\ Runs(t, "unlock") /\ Pop(t) /\ ReleaseUnitLock
  BY DEF CoreInv, Unregistered
<1>2. /\ StackInv'
      /\ section[t].pc = "unlock" /\ section[t].arg = Arg(t) /\ section[t] # NoFrame
      /\ section'[t] = NoFrame
      /\ Tail(stack[t]) = << >> <=> report[t] = NoFrame
      /\ \A x \in Thread : report'[x] = report[x]
      /\ \A x \in Thread : x # t => section'[x] = section[x]
  BY <1>1, PopUnitAt
<1>3. "unlock" \in UnitPcs \ {"unlink"} /\ "unlock" \notin WritePcs
      /\ NoFrame.pc \notin UnitPcs /\ NoFrame.pc \notin WritePcs
  BY DEF UnitPcs, WritePcs, NoFrame
<1>4. UNCHANGED <<process, reportLock, linked, unitCount, file, buffer>>
      /\ loaded' = IF Tail(stack[t]) = << >> THEN loaded \ {Arg(t)} ELSE loaded
  BY DEF Unregistered, output, registry
<1>5. \A x \in Thread :
         /\ section'[x].pc \in WritePcs <=> section[x].pc \in WritePcs
         /\ section'[x] # NoFrame => x # t
  BY <1>2, <1>3
<1>6. Depth(t) > 0 /\ Unlinking(t)
  BY <1>2, <1>3 DEF Depth, Unlinking
<1>7. LockInv'
  <2>1. /\ Depth(t)' = Depth(t) - 1
        /\ \A x \in Thread : x # t => Depth(x)' = Depth(x)
    BY <1>2, <1>3, <1>6 DEF Depth, Unlinking
  <2> QED BY <1>1, <1>2, <1>4, <1>6, <2>1, UnitLockReleased DEF CoreInv
<1>8. LinkerInv'
  BY <1>2, LinkerKept DEF CoreInv
<1>9. CountInv'
  BY <1>4, <1>5, CountKept DEF CoreInv, registry
<1>10. FileInv'
  BY <1>2, <1>4, <1>5, FileKept DEF CoreInv
<1>11. RegistryInv'
  <2>1. ASSUME NEW x \in Thread, section'[x] # NoFrame
        PROVE  section'[x].arg \in loaded'
    <3>1. x # t /\ section[x] # NoFrame /\ section'[x].arg = section[x].arg
          /\ section[x].arg \in loaded
      BY <1>2, <1>5, <2>1 DEF CoreInv, RegistryInv
    <3>2. CASE report[t] # NoFrame
      BY <1>2, <1>4, <3>1, <3>2
    <3>3. CASE report[t] = NoFrame /\ report[x] = NoFrame
      BY <1>2, <3>1, <3>3 DEF CoreInv, LinkerInv
    <3>4. CASE report[t] = NoFrame /\ report[x] # NoFrame
      <4>1. report[x].pc = "drained"
        BY <1>1, <3>1, <3>4, Pcs
      <4> QED BY <1>6, <3>1, <4>1, UnlinkingAlone
    <3> QED BY <3>2, <3>3, <3>4
  <2>2. ASSUME NEW x \in Thread, Unlinking(x)'
        PROVE  Unlinking(x) /\ section'[x].arg = section[x].arg
    <3>1. x # t
      BY <1>2, <1>3, <2>2 DEF Unlinking
    <3> QED BY <1>2, <2>2, <3>1 DEF Unlinking
  <2>3. \A u : Linked(u)' <=> Linked(u)
    BY <1>4 DEF Linked
  <2>4. ~Linked(Arg(t))
    BY <1>2, <1>6 DEF CoreInv, RegistryInv
  <2>5. loaded' \subseteq Unit /\ \A u \in Unit : Linked(u)' => u \in loaded'
    BY <1>4, <2>3, <2>4 DEF CoreInv, RegistryInv
  <2>6. \A x \in Thread : Unlinking(x)' => ~Linked(section[x].arg)'
    BY <2>2, <2>3 DEF CoreInv, RegistryInv, Linked
  <2>7. linked' \in Seq(Unit) /\ \A i, j \in DOMAIN linked' : linked'[i] = linked'[j] => i = j
    BY <1>4 DEF CoreInv, RegistryInv
  <2> QED BY <2>1, <2>5, <2>6, <2>7 DEF RegistryInv
<1> QED BY <1>2, <1>7, <1>8, <1>9, <1>10, <1>11 DEF CoreInv

LEMMA UnlinkCore ==
    ASSUME CoreInv, Locks, NEW t \in Thread, Unlink(t)
    PROVE  /\ CoreInv'
           /\ \A u : Linked(u)' <=> u # Arg(t) /\ Linked(u)
           /\ Linked(Arg(t)) => file = "open" /\ section'[t].pc = "check"
           /\ ~Linked(Arg(t)) => section'[t].pc = "unlock"
           /\ section[t].pc = "unlink" /\ section'[t].arg = Arg(t)
           /\ \A x \in Thread : report'[x] = report[x]
           /\ \A x \in Thread : x # t => section'[x] = section[x]
<1> DEFINE next == IF Contains(linked, Arg(t)) /\ unitCount > 0 THEN "check" ELSE "unlock"
<1>1. StackInv /\ Runs(t, "unlink") /\ Goto(t, next) /\ "unlink" \in UnitPcs
      /\ next \in UnitPcs \ {"unlink"}
  BY DEF CoreInv, Unlink, UnitPcs
<1>2. /\ StackInv'
      /\ section[t].pc = "unlink" /\ section[t].arg = Arg(t) /\ section[t] # NoFrame
      /\ section'[t].pc = next /\ section'[t].arg = Arg(t)
      /\ \A x \in Thread : report'[x] = report[x]
      /\ \A x \in Thread : x # t => section'[x] = section[x]
  <2> HIDE DEF next
  <2>1. next \in UnitPcs
    BY <1>1
  <2> QED BY <1>1, <2>1, GotoUnitAt
<1>3. /\ linked' = RemoveFirst(linked, Arg(t))
      /\ UNCHANGED <<process, reportLock, unitCount, file, buffer, loaded>>
      /\ AcquireUnitLock(t)
  BY DEF Unlink, output, history
<1>4. /\ linked' \in Seq(Unit)
      /\ \A i, j \in DOMAIN linked' : linked'[i] = linked'[j] => i = j
      /\ \A u : Linked(u)' <=> u # Arg(t) /\ Linked(u)
      /\ Len(linked') = IF Contains(linked, Arg(t)) THEN Len(linked) - 1 ELSE Len(linked)
  <2>1. linked \in Seq(Unit) /\ \A i, j \in DOMAIN linked : linked[i] = linked[j] => i = j
    BY DEF CoreInv, RegistryInv
  <2> DEFINE new == RemoveFirst(linked, Arg(t))
  <2>2. /\ new \in Seq(Unit)
        /\ \A i, j \in DOMAIN new : new[i] = new[j] => i = j
        /\ \A v : (\E i \in DOMAIN new : new[i] = v)
                      <=> v # Arg(t) /\ \E i \in DOMAIN linked : linked[i] = v
        /\ Len(new) = IF Contains(linked, Arg(t)) THEN Len(linked) - 1 ELSE Len(linked)
    BY <2>1, TakenOut, Zenon
  <2>3. linked' = new
    BY <1>3
  <2> HIDE DEF new
  <2> QED BY <2>2, <2>3, Zenon DEF Linked
<1>5. Linked(Arg(t)) <=> Contains(linked, Arg(t))
  <2>1. DOMAIN linked = 1..Len(linked)
    BY LenProperties DEF CoreInv, RegistryInv
  <2> QED BY <2>1 DEF Linked, Contains
<1>6. LockInv' /\ \A x \in Thread : x # t => ~(Depth(x) > 0)
  <2>1. next \in UnitPcs \ {"unlink"} /\ "unlink" \in UnitPcs
    BY <1>1
  <2> HIDE DEF next
  <2>2. /\ Depth(t)' = Depth(t) + 1
        /\ \A x \in Thread : x # t => Depth(x)' = Depth(x)
    BY <1>2, <2>1 DEF Depth, Unlinking
  <2> QED BY <1>2, <1>3, <2>2, UnitLockTaken DEF CoreInv
<1>7. \A x \in Thread : section[x].pc \notin WritePcs
  BY <1>2, <1>6 DEF Depth, Unlinking, UnitPcs, WritePcs
<1>8. unitCount = Len(linked) /\ Len(linked) \in Nat
  BY <1>7, LenProperties DEF CoreInv, CountInv, RegistryInv
<1>9. next = IF Linked(Arg(t)) THEN "check" ELSE "unlock"
  <2>1. Linked(Arg(t)) => Len(linked) > 0
    <3>1. DOMAIN linked = 1..Len(linked)
      BY LenProperties DEF CoreInv, RegistryInv
    <3> QED BY <1>8, <3>1 DEF Linked
  <2> QED BY <1>5, <1>8, <2>1
<1> HIDE DEF next
<1>11. LinkerInv'
  BY <1>2, LinkerKept DEF CoreInv
<1>12. RegistryInv'
  <2>1. /\ loaded' \subseteq Unit /\ \A u \in Unit : Linked(u)' => u \in loaded'
        /\ \A x \in Thread : section'[x] # NoFrame => section'[x].arg \in loaded'
    BY <1>2, <1>3, <1>4 DEF CoreInv, RegistryInv
  <2>2. ASSUME NEW x \in Thread, Unlinking(x)' PROVE ~Linked(section[x].arg)'
    <3>1. CASE x = t
      BY <1>2, <1>4, <3>1 DEF Linked
    <3>2. CASE x # t
      BY <1>2, <1>6, <2>2, <3>2 DEF Depth, Unlinking
    <3> QED BY <3>1, <3>2
  <2> QED BY <1>4, <2>1, <2>2 DEF RegistryInv
<1>13. CountInv'
  <2>1. \A x \in Thread : x # t => section'[x].pc \notin WritePcs
    BY <1>2, <1>7
  <2>2. CASE Linked(Arg(t))
    <3>1. section'[t].pc \in WritePcs /\ unitCount' = Len(linked') + 1
      BY <1>2, <1>3, <1>4, <1>5, <1>8, <1>9, <2>2 DEF WritePcs
    <3> QED BY <3>1 DEF CountInv
  <2>3. CASE ~Linked(Arg(t))
    <3>1. section'[t].pc \notin WritePcs /\ unitCount' = Len(linked')
      BY <1>2, <1>3, <1>4, <1>5, <1>8, <1>9, <2>3 DEF WritePcs
    <3> QED BY <2>1, <3>1 DEF CountInv
  <2> QED BY <2>2, <2>3
<1>14. Linked(Arg(t)) => ~Drained
  BY DEF CoreInv, FileInv, Linked
<1>15. FileInv'
  <2>1. Drained' <=> Drained
    BY <1>2, <1>3 DEF Drained
  <2>2. Drained => linked' = << >>
    <3>1. Drained => linked = << >> /\ ~Contains(linked, Arg(t))
      BY <1>5, <1>14 DEF CoreInv, FileInv
    <3> QED BY <1>3, <3>1 DEF RemoveFirst, Contains
  <2>3. Drained => \A x \in Thread : section'[x].pc \notin WritePcs
    BY <1>2, <1>7, <1>9, <1>14 DEF WritePcs
  <2> QED BY <1>2, <1>3, <2>1, <2>2, <2>3 DEF CoreInv, FileInv
<1>16. Linked(Arg(t)) => file = "open"
  BY <1>14 DEF Drained
<1> QED BY <1>2, <1>4, <1>6, <1>9, <1>11, <1>12, <1>13, <1>15, <1>16 DEF CoreInv

\* A frame that will unlink a mapped unit: of a destructor, or of a report.
LEMMA PushUnitCore ==
    ASSUME CoreInv, NEW t \in Thread, NEW u \in loaded, Push(t, "unlink", u),
           (stack[t] = << >> /\ LinkerFree) \/ Runs(t, "drained"),
           UNCHANGED <<process, locks, registry, file, buffer, loaded>>
    PROVE  CoreInv'
<1>1. StackInv /\ u \in Unit
  BY DEF CoreInv, RegistryInv
<1>2. /\ StackInv'
      /\ section[t] = NoFrame
      /\ section'[t].pc = "unlink" /\ section'[t].arg = u
      /\ \A x \in Thread : report'[x] = report[x]
      /\ \A x \in Thread : x # t => section'[x] = section[x]
      /\ stack[t] # << >> => report[t].pc = "drained"
      /\ stack[t] = << >> => report[t] = NoFrame
  BY <1>1, PushUnitAt
<1>3. \A x \in Thread :
         /\ section'[x].pc \in WritePcs <=> section[x].pc \in WritePcs
         /\ section'[x].pc \in UnitPcs \ {"unlink"} <=> section[x].pc \in UnitPcs \ {"unlink"}
  <2>1. NoFrame.pc \notin UnitPcs /\ NoFrame.pc \notin WritePcs /\ "unlink" \notin WritePcs
    BY DEF UnitPcs, WritePcs, NoFrame
  <2> QED BY <1>2, <2>1
<1>4. LockInv' /\ CountInv'
  BY <1>2, <1>3, LockKept, CountKept DEF CoreInv
<1>5. FileInv'
  BY <1>2, <1>3, FileKept DEF CoreInv, locks, registry
<1>6. LinkerInv'
  <2>1. CASE Runs(t, "drained")
    <3>1. report[t] # NoFrame
      <4>1. NoFrame.pc # "drained"
        BY DEF NoFrame
      <4> QED BY <1>2, <2>1, <4>1 DEF Runs
    <3> QED BY <1>2, <3>1, LinkerKept DEF CoreInv
  <2>2. CASE stack[t] = << >> /\ LinkerFree
    <3>1. ASSUME NEW x \in Thread, section[x] # NoFrame, report[x] = NoFrame PROVE FALSE
      <4>1. section[x] \in UnitFrame /\ stack[x] = <<section[x]>>
        BY <1>1, <3>1, ViewShapes, FrameKinds DEF ViewShape
      <4>2. stack[x] # << >> /\ stack[x][Len(stack[x])] = section[x]
        BY <4>1
      <4>3. stack[x][Len(stack[x])].arg \in Unit
        BY <4>1, <4>2, FrameKinds
      <4> QED BY <2>2, <4>2, <4>3 DEF LinkerFree, Last
    <3> QED BY <1>2, <3>1 DEF LinkerInv
  <2> QED BY <2>1, <2>2
<1>7. RegistryInv'
  <2>1. \A v : Linked(v)' <=> Linked(v)
    BY DEF Linked, registry
  <2>2. \A x \in Thread : section'[x] # NoFrame => section'[x].arg \in loaded'
    BY <1>2 DEF CoreInv, RegistryInv
  <2>3. ASSUME NEW x \in Thread, Unlinking(x)' PROVE ~Linked(section[x].arg)'
    <3>1. x # t /\ Unlinking(x)
      BY <1>2, <1>3, <2>3 DEF Unlinking
    <3>2. ~Linked(section[x].arg)
      BY <3>1 DEF CoreInv, RegistryInv
    <3> QED BY <1>2, <2>1, <3>1, <3>2 DEF Linked, registry
  <2> QED BY <2>1, <2>2, <2>3 DEF CoreInv, RegistryInv, registry
<1> QED BY <1>2, <1>4, <1>5, <1>6, <1>7 DEF CoreInv

LEMMA UnloadCore ==
    ASSUME CoreInv, NEW t \in Thread, NEW u \in Unit, Unload(t, u)
    PROVE  CoreInv'
<1>1. /\ u \in loaded /\ Push(t, "unlink", u) /\ stack[t] = << >> /\ LinkerFree
      /\ UNCHANGED <<process, locks, registry, file, buffer, loaded>>
  BY DEF Unload, Idle, output, history
<1> QED BY <1>1, PushUnitCore

LEMMA UnregisterNextCore ==
    ASSUME CoreInv, NEW t \in Thread, UnregisterNext(t)
    PROVE  CoreInv'
<1>1. /\ Runs(t, "drained") /\ linked # << >> /\ Push(t, "unlink", linked[1])
      /\ UNCHANGED <<process, locks, registry, file, buffer, loaded>>
  BY DEF UnregisterNext, output, history
<1>2. linked[1] \in loaded
  <2>1. linked \in Seq(Unit) /\ \A u \in Unit : Linked(u) => u \in loaded
    BY DEF CoreInv, RegistryInv
  <2>2. 1 \in DOMAIN linked /\ linked[1] \in Unit
    BY <1>1, <2>1
  <2> QED BY <2>1, <2>2 DEF Linked
<1> QED BY <1>1, <1>2, PushUnitCore

\* A new unit cannot be one that is linked, or is being unlinked.
LEMMA RegisterCore ==
    ASSUME CoreInv, ~LateLoads, NEW t \in Thread, NEW u \in Unit, Register(t, u)
    PROVE  /\ CoreInv' /\ ~Drained
           /\ \A v : Linked(v)' <=> v = u \/ Linked(v)
           /\ ~Linked(u) /\ \A x \in Thread : section[x] # NoFrame => section[x].arg # u
<1>1. /\ u \notin loaded /\ file = "open" /\ \A x \in Thread : ~Reporting(x)
      /\ unitLock.owner = Nobody
      /\ linked' = <<u>> \o linked /\ unitCount' = unitCount + 1
      /\ loaded' = loaded \cup {u}
      /\ UNCHANGED <<process, stack, locks, file, buffer>>
  BY DEF Register, output
<1>2. StackInv' /\ section' = section /\ report' = report
  BY <1>1, Stays DEF CoreInv
<1>3. \A x \in Thread : report[x] = NoFrame
  <2> SUFFICES ASSUME NEW x \in Thread, report[x] # NoFrame PROVE FALSE
    OBVIOUS
  <2>1. ViewShape(x)
    BY ViewShapes DEF CoreInv
  <2>2. report[x] \in ReportFrame /\ \E i \in DOMAIN stack[x] : stack[x][i] = report[x]
    <3>1. CASE stack[x] = <<report[x]>>
      <4>1. 1 \in DOMAIN stack[x] /\ stack[x][1] = report[x]
        BY <3>1
      <4> QED BY <2>1, <4>1 DEF ViewShape
    <3>2. CASE stack[x] = <<section[x], report[x]>>
      <4>1. 2 \in DOMAIN stack[x] /\ stack[x][2] = report[x]
        BY <3>2
      <4> QED BY <2>1, <4>1 DEF ViewShape
    <3> QED BY <2>1, <3>1, <3>2 DEF ViewShape
  <2>3. report[x].arg \in Signal \cup {"exit"}
    BY <2>2, FrameKinds
  <2>4. Busy(x, report[x].arg)
    BY <2>2, Zenon DEF Busy
  <2> QED BY <1>1, <2>3, <2>4 DEF Reporting
<1>4. ~Drained
  BY <1>1, <1>3 DEF Drained, NoFrame
<1>5. \A x \in Thread : ~(Depth(x) > 0)
  <2>1. Nobody \notin Thread
    BY ReportingAssumption
  <2> QED BY <1>1, <2>1 DEF CoreInv, LockInv
<1>6. \A x \in Thread : section[x].pc \notin WritePcs /\ ~Unlinking(x)
  BY <1>5 DEF Depth, Unlinking, UnitPcs, WritePcs
<1>7. ~Linked(u) /\ linked \in Seq(Unit)
      /\ \A i, j \in DOMAIN linked : linked[i] = linked[j] => i = j
  BY <1>1 DEF CoreInv, RegistryInv
<1>8. /\ linked' \in Seq(Unit) /\ Len(linked') = Len(linked) + 1
      /\ \A i, j \in DOMAIN linked' : linked'[i] = linked'[j] => i = j
      /\ \A v : Linked(v)' <=> v = u \/ Linked(v)
  <2> DEFINE n == Len(linked)
             new == <<u>> \o linked
  <2>1. n \in Nat /\ DOMAIN linked = 1..n
    BY <1>7, LenProperties
  <2>2. /\ new \in Seq(Unit) /\ Len(new) = 1 + n /\ DOMAIN new = 1..(1 + n)
        /\ \A i \in 1..(1 + n) : new[i] = IF i <= 1 THEN u ELSE linked[i - 1]
    <3>1. <<u>> \in Seq(Unit) /\ Len(<<u>>) = 1 /\ \A i \in 1..1 : <<u>>[i] = u
      OBVIOUS
    <3>2. /\ new \in Seq(Unit) /\ Len(new) = Len(<<u>>) + n
          /\ \A i \in 1..(Len(<<u>>) + n) :
                new[i] = IF i <= Len(<<u>>) THEN <<u>>[i] ELSE linked[i - Len(<<u>>)]
      BY <1>7, <3>1, ConcatProperties
    <3>3. DOMAIN new = 1..Len(new)
      BY <3>2, LenProperties
    <3> HIDE DEF new, n
    <3>4. \A i \in 1..(1 + n) : i <= 1 => i \in 1..1
      BY <2>1
    <3> QED BY <3>1, <3>2, <3>3, <3>4
  <2> HIDE DEF n, new
  <2>3. new[1] = u /\ \A i \in 1..n : i + 1 \in 1..(1 + n) /\ new[i + 1] = linked[i]
    BY <2>1, <2>2
  <2>4. ASSUME NEW v
        PROVE  (\E i \in DOMAIN new : new[i] = v) <=> v = u \/ Linked(v)
    <3>1. ASSUME NEW i \in DOMAIN new, new[i] = v PROVE v = u \/ Linked(v)
      BY <2>1, <2>2, <3>1 DEF Linked
    <3>2. ASSUME v = u PROVE \E i \in DOMAIN new : new[i] = v
      BY <2>1, <2>2, <2>3, <3>2
    <3>3. ASSUME Linked(v) PROVE \E i \in DOMAIN new : new[i] = v
      <4>1. PICK i \in 1..n : linked[i] = v
        BY <2>1, <3>3 DEF Linked
      <4> QED BY <2>2, <2>3, <4>1
    <3> QED BY <3>1, <3>2, <3>3
  <2>5. ASSUME NEW i \in DOMAIN new, NEW j \in DOMAIN new, new[i] = new[j] PROVE i = j
    <3>1. i \in 1..(1 + n) /\ j \in 1..(1 + n)
      BY <2>2
    <3>2. CASE i = 1
      <4>1. ASSUME j # 1 PROVE FALSE
        <5>1. j - 1 \in DOMAIN linked /\ linked[j - 1] = u
          BY <2>1, <2>2, <2>3, <2>5, <3>1, <3>2, <4>1
        <5> QED BY <1>7, <5>1 DEF Linked
      <4> QED BY <3>2, <4>1
    <3>3. CASE j = 1
      <4>1. ASSUME i # 1 PROVE FALSE
        <5>1. i - 1 \in DOMAIN linked /\ linked[i - 1] = u
          BY <2>1, <2>2, <2>3, <2>5, <3>1, <3>3, <4>1
        <5> QED BY <1>7, <5>1 DEF Linked
      <4> QED BY <3>3, <4>1
    <3>4. CASE i # 1 /\ j # 1
      <4>1. i - 1 \in DOMAIN linked /\ j - 1 \in DOMAIN linked
            /\ linked[i - 1] = linked[j - 1]
        BY <2>1, <2>2, <2>5, <3>1, <3>4
      <4>2. i - 1 = j - 1
        BY <1>7, <4>1
      <4> QED BY <2>1, <3>1, <4>2
    <3> QED BY <3>2, <3>3, <3>4
  <2>6. linked' = new /\ 1 + n = n + 1
    BY <1>1, <2>1 DEF new
  <2> QED BY <2>2, <2>4, <2>5, <2>6, Zenon DEF Linked, n
<1>9. LockInv' /\ LinkerInv'
  BY <1>1, <1>2, LockKept, LinkerKept DEF CoreInv, locks
<1>10. RegistryInv'
  <2>1. loaded' \subseteq Unit /\ \A v \in Unit : Linked(v)' => v \in loaded'
    BY <1>1, <1>8 DEF CoreInv, RegistryInv
  <2>2. \A x \in Thread : section'[x] # NoFrame => section'[x].arg \in loaded'
    BY <1>1, <1>2 DEF CoreInv, RegistryInv
  <2>3. \A x \in Thread : ~Unlinking(x)'
    BY <1>2, <1>6 DEF Unlinking
  <2> QED BY <1>8, <2>1, <2>2, <2>3 DEF RegistryInv
<1>11. CountInv'
  <2>1. unitCount = Len(linked)
    BY <1>6 DEF CoreInv, CountInv
  <2>2. unitCount' = Len(linked')
    BY <1>1, <1>8, <2>1
  <2> QED BY <1>2, <1>6, <2>2 DEF CountInv
<1>12. FileInv'
  <2>1. ~Drained'
    BY <1>1, <1>2, <1>4 DEF Drained
  <2> QED BY <1>1, <1>2, <2>1 DEF CoreInv, FileInv, locks
<1>13. \A x \in Thread : section[x] # NoFrame => section[x].arg # u
  BY <1>1 DEF CoreInv, RegistryInv
<1> QED BY <1>2, <1>4, <1>7, <1>8, <1>9, <1>10, <1>11, <1>12, <1>13 DEF CoreInv

\* A step of the reporting code that leaves the registry alone.
LEMMA ReportingCore ==
    ASSUME CoreInv, NEW t \in Thread, NEW pc \in ReportPcs, NEW next \in ReportPcs,
           Runs(t, pc), Goto(t, next), UNCHANGED <<registry, loaded>>
    PROVE  /\ StackInv' /\ LinkerInv' /\ RegistryInv' /\ CountInv'
           /\ report[t].pc = pc /\ report[t].arg = Arg(t) /\ section[t] = NoFrame
           /\ Arg(t) \in Signal \cup {"exit"}
           /\ report'[t].pc = next /\ report'[t].arg = Arg(t)
           /\ \A x \in Thread : section'[x] = section[x]
           /\ \A x \in Thread : x # t => report'[x] = report[x]
<1>1. /\ StackInv'
      /\ report[t].pc = pc /\ report[t].arg = Arg(t) /\ report[t] # NoFrame
      /\ Arg(t) \in Signal \cup {"exit"}
      /\ report'[t].pc = next /\ report'[t].arg = Arg(t) /\ section[t] = NoFrame
      /\ report'[t] # NoFrame
      /\ \A x \in Thread : section'[x] = section[x]
      /\ \A x \in Thread : x # t => report'[x] = report[x]
  BY GotoReportAt DEF CoreInv
<1>2. LinkerInv' /\ RegistryInv' /\ CountInv'
  BY <1>1, LinkerKept, RegistryKept, CountKept DEF CoreInv, registry
<1> QED BY <1>1, <1>2

\* Only the holder of the report's lock is where the lock is held.
LEMMA HolderAlone ==
    ASSUME CoreInv, NEW t \in Thread, report[t].pc \in HeldPcs
    PROVE  /\ reportLock = t
           /\ \A x \in Thread : x # t => report[x].pc \notin HeldPcs
BY DEF CoreInv, LockInv

\* The holder goes on, at the same depth of the registry's lock.
LEMMA HoldingLocks ==
    ASSUME CoreInv, NEW t \in Thread,
           report[t].pc \in HeldPcs \ {"drained"}, report'[t].pc \in HeldPcs \ {"drained"},
           UNCHANGED locks,
           \A x \in Thread : section'[x] = section[x],
           \A x \in Thread : x # t => report'[x] = report[x]
    PROVE  LockInv'
<1>1. \A x \in Thread : /\ report'[x].pc \in HeldPcs <=> report[x].pc \in HeldPcs
                        /\ report'[x].pc = "drained" <=> report[x].pc = "drained"
  OBVIOUS
<1> QED BY <1>1, LockKept DEF CoreInv

LEMMA UnregisterAllCore ==
    ASSUME CoreInv, Locks, NEW t \in Thread, UnregisterAll(t)
    PROVE  CoreInv'
<1>1. /\ Runs(t, "drain") /\ Goto(t, "drained") /\ AcquireUnitLock(t)
      /\ UNCHANGED <<process, reportLock, registry, file, buffer, loaded>>
      /\ "drain" \in ReportPcs /\ "drained" \in ReportPcs
  BY DEF UnregisterAll, output, history, ReportPcs, HeldPcs
<1>2. /\ StackInv' /\ LinkerInv' /\ RegistryInv' /\ CountInv'
      /\ report[t].pc = "drain" /\ section[t] = NoFrame
      /\ report'[t].pc = "drained"
      /\ \A x \in Thread : section'[x] = section[x]
      /\ \A x \in Thread : x # t => report'[x] = report[x]
  BY <1>1, ReportingCore
<1>3. LockInv'
  <2>1. /\ Depth(t)' = Depth(t) + 1
        /\ \A x \in Thread : x # t => Depth(x)' = Depth(x)
    BY <1>2 DEF Depth, Unlinking, NoFrame, UnitPcs
  <2>2. \A x \in Thread : report'[x].pc \in HeldPcs <=> report[x].pc \in HeldPcs
    BY <1>2 DEF HeldPcs
  <2> QED BY <1>1, <2>1, <2>2, UnitLockTaken DEF CoreInv
<1>4. FileInv'
  <2>1. "drain" \in HeldPcs
    BY DEF HeldPcs
  <2> QED BY <1>1, <1>2, <2>1, FileKept DEF CoreInv, registry
<1> QED BY <1>2, <1>3, <1>4 DEF CoreInv

LEMMA UnregisteredAllCore ==
    ASSUME CoreInv, Locks, NEW t \in Thread, UnregisteredAll(t)
    PROVE  /\ CoreInv'
           /\ \A x \in Thread : section[x].pc \notin WritePcs
           /\ file = "open" /\ ~Ended
           /\ report[t].pc = "drained" /\ report'[t].pc = "/report"
           /\ report'[t].arg = report[t].arg
           /\ \A x \in Thread : section'[x] = section[x]
           /\ \A x \in Thread : x # t => report'[x] = report[x]
                                         /\ report[x].pc \notin HeldPcs
<1>1. /\ Runs(t, "drained") /\ Goto(t, "/report") /\ ReleaseUnitLock /\ linked = << >>
      /\ UNCHANGED <<process, reportLock, registry, file, buffer, loaded>>
      /\ "drained" \in ReportPcs /\ "/report" \in ReportPcs
  BY DEF UnregisteredAll, output, history, ReportPcs, HeldPcs
<1>2. /\ StackInv' /\ LinkerInv' /\ RegistryInv' /\ CountInv'
      /\ report[t].pc = "drained" /\ section[t] = NoFrame
      /\ report'[t].pc = "/report" /\ report'[t].arg = report[t].arg
      /\ \A x \in Thread : section'[x] = section[x]
      /\ \A x \in Thread : x # t => report'[x] = report[x]
  BY <1>1, ReportingCore
<1>3. Depth(t) > 0
  BY <1>2 DEF Depth, Unlinking, NoFrame, UnitPcs
<1>4. LockInv'
  <2>1. /\ Depth(t)' = Depth(t) - 1
        /\ \A x \in Thread : x # t => Depth(x)' = Depth(x)
    BY <1>2 DEF Depth, Unlinking, NoFrame, UnitPcs
  <2>2. \A x \in Thread : report'[x].pc \in HeldPcs <=> report[x].pc \in HeldPcs
    BY <1>2 DEF HeldPcs
  <2> QED BY <1>1, <1>3, <2>1, <2>2, UnitLockReleased DEF CoreInv
<1>5. \A x \in Thread : section[x].pc \notin WritePcs
  <2>1. section[t].pc \notin WritePcs
    BY <1>2 DEF NoFrame, WritePcs
  <2> QED BY <1>3, <2>1, UnlinkingAlone
<1>6. \A x \in Thread : x # t => report[x].pc \notin HeldPcs
  BY <1>2, HolderAlone DEF HeldPcs
<1>7. file = "open" /\ ~Ended
  <2>1. file = "open"
    BY <1>2 DEF CoreInv, FileInv, HeldPcs
  <2> QED BY <1>2, <1>6, <2>1 DEF Ended, HeldPcs
<1>8. FileInv'
  <2>1. \A x \in Thread : report'[x].pc \notin {"forget", "release", "end"}
                          /\ section'[x].pc \notin WritePcs
    <3>1. \A x \in Thread : report[x].pc \notin {"forget", "release", "end"}
      BY <1>7 DEF CoreInv, FileInv
    <3> QED BY <1>2, <1>5, <3>1
  <2>2. process = "running" /\ linked' = << >> /\ file' = "open" /\ reportLock' = t
    BY <1>1, <1>2, <1>7, HolderAlone DEF Runs, registry, HeldPcs
  <2> QED BY <1>1, <2>1, <2>2 DEF FileInv
<1> QED BY <1>2, <1>4, <1>5, <1>6, <1>7, <1>8 DEF CoreInv

\* exit(), or a signal, strikes a thread that is not in this code.
LEMMA BeginCore ==
    ASSUME CoreInv, NEW t \in Thread, NEW arg \in Signal \cup {"exit"},
           NEW pc \in {"reset", "lock"}, Push(t, pc, arg), stack[t] = << >>,
           UNCHANGED <<process, locks, registry, file, buffer, loaded>>
    PROVE  /\ CoreInv'
           /\ \A x \in Thread : section'[x] = section[x]
           /\ report[t] = NoFrame /\ report'[t].pc = pc /\ report'[t].arg = arg
           /\ \A x \in Thread : x # t => report'[x] = report[x]
<1>1. pc \in ReportPcs /\ StackInv
  BY DEF ReportPcs, CoreInv
<1>2. /\ StackInv'
      /\ section[t] = NoFrame /\ report[t] = NoFrame
      /\ report'[t].pc = pc /\ report'[t].arg = arg /\ report'[t] # NoFrame
      /\ \A x \in Thread : section'[x] = section[x]
      /\ \A x \in Thread : x # t => report'[x] = report[x]
  BY <1>1, PushReportAt
<1>3. \A x \in Thread : /\ report'[x].pc \in HeldPcs <=> report[x].pc \in HeldPcs
                        /\ report'[x].pc = "drained" <=> report[x].pc = "drained"
                        /\ report'[x].pc = "end" => report[x].pc = "end"
                        /\ x # t => report'[x].pc = report[x].pc
                        /\ x = t => report'[x].pc \notin HeldPcs
  <2>1. NoFrame.pc \notin HeldPcs /\ pc \notin HeldPcs /\ NoFrame.pc # "drained"
        /\ pc # "drained" /\ pc # "end"
    BY DEF HeldPcs, NoFrame
  <2> QED BY <1>2, <2>1
<1>4. LockInv' /\ LinkerInv' /\ CountInv' /\ RegistryInv'
  BY <1>2, <1>3, LockKept, LinkerKept, CountKept, RegistryKept DEF CoreInv, registry
<1>5. FileInv'
  BY <1>2, <1>3, FileKept DEF CoreInv, locks, registry, HeldPcs
<1> QED BY <1>2, <1>4, <1>5 DEF CoreInv

LEMMA ExitCore ==
    ASSUME CoreInv, Exit
    PROVE  /\ CoreInv'
           /\ \A x \in Thread : section'[x] = section[x]
           /\ report[Main] = NoFrame /\ report'[Main].pc = "lock"
           /\ \A x \in Thread : x # Main => report'[x] = report[x]
<1>1. /\ Main \in Thread /\ stack[Main] = << >> /\ Push(Main, "lock", "exit")
      /\ UNCHANGED <<process, locks, registry, file, buffer, loaded>>
  BY ReportingAssumption DEF Exit, Idle, output, history
<1> QED BY <1>1, BeginCore

\* A signal that has struck before kills the process at once.
LEMMA CrashCore ==
    ASSUME CoreInv, ~Reentrant, NEW t \in Thread, NEW s \in Signal, Crash(t, s)
    PROVE  /\ CoreInv'
           /\ \A x \in Thread : section'[x] = section[x]
           /\ \/ /\ UNCHANGED process
                 /\ report[t] = NoFrame /\ report'[t].pc = "reset"
                 /\ \A x \in Thread : x # t => report'[x] = report[x]
              \/ /\ Recurring
                 /\ \A x \in Thread : report'[x] = report[x]
           /\ process' \in {process, "killed"}
<1>1. /\ stack[t] = << >> /\ Strike(t, s) /\ process = "running"
      /\ Recurring \/ disposition[s] = "handler"
      /\ UNCHANGED <<locks, registry, file, buffer, loaded>>
  BY DEF Crash, output, history
<1>2. ~Busy(t, s)
  BY <1>1 DEF Busy
<1>3. CASE Push(t, "reset", s) /\ UNCHANGED process
  BY <1>1, <1>3, BeginCore
<1>4. CASE process' = "killed" /\ UNCHANGED stack /\ Recurring
  <2>1. StackInv' /\ section' = section /\ report' = report
    BY <1>4, Stays DEF CoreInv
  <2>2. LockInv' /\ LinkerInv' /\ CountInv' /\ RegistryInv'
    BY <1>1, <2>1, LockKept, LinkerKept, CountKept, RegistryKept DEF CoreInv, registry
  <2>3. FileInv'
    <3>1. Drained' => Drained
      BY <1>1, <2>1 DEF Drained
    <3> QED BY <1>1, <1>4, <2>1, <3>1 DEF CoreInv, FileInv, locks, registry
  <2> QED BY <1>4, <2>1, <2>2, <2>3 DEF CoreInv
<1> QED BY <1>1, <1>2, <1>3, <1>4 DEF Strike

LEMMA RestorePriorCore ==
    ASSUME CoreInv, NEW t \in Thread, RestorePrior(t)
    PROVE  /\ CoreInv'
           /\ \A x \in Thread : section'[x] = section[x]
           /\ report[t].pc = "reset" /\ report'[t].pc = "lock"
           /\ report'[t].arg = report[t].arg
           /\ \A x \in Thread : x # t => report'[x] = report[x]
<1>1. /\ Runs(t, "reset") /\ Goto(t, "lock")
      /\ UNCHANGED <<process, locks, registry, file, buffer, loaded>>
      /\ "reset" \in ReportPcs /\ "lock" \in ReportPcs
  BY DEF RestorePrior, output, history, ReportPcs
<1>2. /\ StackInv' /\ LinkerInv' /\ RegistryInv' /\ CountInv'
      /\ report[t].pc = "reset" /\ report'[t].pc = "lock"
      /\ report'[t].arg = report[t].arg
      /\ \A x \in Thread : section'[x] = section[x]
      /\ \A x \in Thread : x # t => report'[x] = report[x]
  BY <1>1, ReportingCore
<1>3. LockInv'
  BY <1>1, <1>2, LockKept DEF CoreInv, HeldPcs
<1>4. FileInv'
  BY <1>1, <1>2, FileKept DEF CoreInv, locks, registry, HeldPcs
<1> QED BY <1>2, <1>3, <1>4 DEF CoreInv

LEMMA LockReportCore ==
    ASSUME CoreInv, Locks, NEW t \in Thread, LockReport(t)
    PROVE  /\ CoreInv'
           /\ \A x \in Thread : section'[x] = section[x]
           /\ report[t].pc = "lock" /\ report'[t].pc \in {"drain", "release"}
           /\ report'[t].arg = report[t].arg
           /\ \A x \in Thread : x # t => report'[x] = report[x]
<1> DEFINE next == IF file # "null" THEN "drain" ELSE "release"
<1>1. /\ Runs(t, "lock") /\ Goto(t, next) /\ reportLock = Nobody /\ reportLock' = t
      /\ UNCHANGED <<process, unitLock, registry, file, buffer, loaded>>
      /\ "lock" \in ReportPcs /\ next \in ReportPcs
  BY Locks DEF LockReport, AcquireReportLock, output, history, ReportPcs, HeldPcs
<1>2. /\ StackInv' /\ LinkerInv' /\ RegistryInv' /\ CountInv'
      /\ report[t].pc = "lock" /\ report'[t].pc = next
      /\ report'[t].arg = report[t].arg
      /\ \A x \in Thread : section'[x] = section[x]
      /\ \A x \in Thread : x # t => report'[x] = report[x]
  <2> HIDE DEF next
  <2> QED BY <1>1, ReportingCore
<1>3. Nobody \notin Thread
  BY ReportingAssumption
<1>4. \A x \in Thread : report[x].pc \notin HeldPcs
  BY <1>1, <1>3 DEF CoreInv, LockInv
<1>5. LockInv'
  <2>1. \A x \in Thread : Depth(x)' = Depth(x)
    BY <1>2 DEF Depth, Unlinking
  <2>2. \A x \in Thread : report'[x].pc \in HeldPcs <=> reportLock' = x
    BY <1>1, <1>2, <1>4 DEF HeldPcs
  <2> QED BY <1>1, <2>1, <2>2 DEF CoreInv, LockInv
<1>6. FileInv'
  <2>1. file # "freed"
    BY <1>1 DEF CoreInv, FileInv
  <2>2. Drained' => Drained
    BY <1>1, <1>2 DEF Drained
  <2>3. \A x \in Thread :
           /\ report'[x].pc \in HeldPcs \ {"forget", "release"} => file' = "open"
           /\ report'[x].pc = "forget" => file' = "freed"
           /\ report'[x].pc \in {"release", "end"} => file' = "null"
    <3>1. file \in {"open", "freed", "null"}
      BY DEF CoreInv, FileInv
    <3> QED BY <1>1, <1>2, <1>4, <2>1, <3>1 DEF CoreInv, FileInv, HeldPcs
  <2> QED BY <1>1, <1>2, <1>3, <2>1, <2>2, <2>3 DEF CoreInv, FileInv, registry
<1> QED BY <1>2, <1>5, <1>6 DEF CoreInv

\* The holder of the report's lock writes on, or makes the kernel write.
LEMMA HolderCore ==
    ASSUME CoreInv, NEW t \in Thread,
           NEW pc \in {"/report", "flush", "backtrace"},
           NEW next \in {"flush", "backtrace", "fclose"},
           Runs(t, pc), Goto(t, next),
           UNCHANGED <<process, locks, registry, file, loaded>>
    PROVE  /\ CoreInv' /\ file = "open"
           /\ report[t].pc = pc /\ report[t].arg = Arg(t)
           /\ report'[t].pc = next /\ report'[t].arg = Arg(t)
           /\ \A x \in Thread : section'[x] = section[x]
           /\ \A x \in Thread : x # t => report'[x] = report[x]
<1>1. pc \in HeldPcs \ {"drained"} /\ next \in HeldPcs \ {"drained"}
      /\ pc \in ReportPcs /\ next \in ReportPcs
  BY DEF HeldPcs, ReportPcs
<1>2. /\ StackInv' /\ LinkerInv' /\ RegistryInv' /\ CountInv'
      /\ report[t].pc = pc /\ report[t].arg = Arg(t)
      /\ report'[t].pc = next /\ report'[t].arg = Arg(t)
      /\ \A x \in Thread : section'[x] = section[x]
      /\ \A x \in Thread : x # t => report'[x] = report[x]
  BY <1>1, ReportingCore
<1>3. LockInv'
  BY <1>1, <1>2, HoldingLocks
<1>4. file = "open"
  BY <1>1, <1>2 DEF CoreInv, FileInv
<1>5. FileInv'
  <2>1. pc \in HeldPcs \ {"forget", "release"}
    BY DEF HeldPcs
  <2> QED BY <1>2, <1>4, <2>1, FileKept DEF CoreInv, locks, registry
<1> QED BY <1>2, <1>3, <1>4, <1>5 DEF CoreInv

LEMMA EndReportCore ==
    ASSUME CoreInv, NEW t \in Thread, EndReport(t)
    PROVE  /\ CoreInv' /\ file = "open"
           /\ buffer' = Append(buffer, Tag("/report")) /\ UNCHANGED process
           /\ report[t].pc = "/report" /\ report[t].arg = Arg(t)
           /\ report'[t].pc = "flush" /\ report'[t].arg = Arg(t)
           /\ \A x \in Thread : section'[x] = section[x]
           /\ \A x \in Thread : x # t => report'[x] = report[x]
<1>1. Runs(t, "/report") /\ Put(t, Tag("/report"), "flush")
      /\ UNCHANGED <<locks, registry, file, loaded>>
  BY DEF EndReport, history
<1>2. report[t].pc = "/report"
  <2>1. "/report" \in ReportPcs
    BY DEF ReportPcs, HeldPcs
  <2> QED BY <1>1, <2>1, RunsReport DEF CoreInv
<1>3. file = "open"
  BY <1>2 DEF CoreInv, FileInv, HeldPcs
<1>4. buffer' = Append(buffer, Tag("/report")) /\ UNCHANGED process /\ Goto(t, "flush")
  BY <1>1, <1>3 DEF Put
<1> QED BY <1>1, <1>4, HolderCore

LEMMA FlushReportCore ==
    ASSUME CoreInv, NEW t \in Thread, FlushReport(t)
    PROVE  /\ CoreInv' /\ file = "open"
           /\ report[t].pc = "flush" /\ report[t].arg = Arg(t)
           /\ report'[t].pc = IF Arg(t) = "exit" THEN "fclose" ELSE "backtrace"
           /\ report'[t].arg = Arg(t)
           /\ \A x \in Thread : section'[x] = section[x]
           /\ \A x \in Thread : x # t => report'[x] = report[x]
<1> DEFINE next == IF Arg(t) = "exit" THEN "fclose" ELSE "backtrace"
<1>1. /\ Runs(t, "flush") /\ Goto(t, next) /\ next \in {"flush", "backtrace", "fclose"}
      /\ UNCHANGED <<process, locks, registry, file, loaded>>
  BY DEF FlushReport, history
<1> HIDE DEF next
<1>2. /\ CoreInv' /\ file = "open"
      /\ report[t].pc = "flush" /\ report[t].arg = Arg(t)
      /\ report'[t].pc = next /\ report'[t].arg = Arg(t)
      /\ \A x \in Thread : section'[x] = section[x]
      /\ \A x \in Thread : x # t => report'[x] = report[x]
  BY <1>1, HolderCore
<1> QED BY <1>2 DEF next

LEMMA ReportDebugInfoCore ==
    ASSUME CoreInv, NEW t \in Thread, ReportDebugInfo(t)
    PROVE  /\ CoreInv' /\ file = "open"
           /\ report[t].pc = "backtrace" /\ report[t].arg = Arg(t)
           /\ report'[t].pc = "fclose" /\ report'[t].arg = Arg(t)
           /\ \A x \in Thread : section'[x] = section[x]
           /\ \A x \in Thread : x # t => report'[x] = report[x]
<1>1. /\ Runs(t, "backtrace") /\ Goto(t, "fclose")
      /\ UNCHANGED <<process, locks, registry, file, loaded>>
  BY DEF ReportDebugInfo, history
<1> QED BY <1>1, HolderCore

LEMMA CloseFileCore ==
    ASSUME CoreInv, NEW t \in Thread, CloseFile(t)
    PROVE  /\ CoreInv'
           /\ report[t].pc = "fclose" /\ report[t].arg = Arg(t)
           /\ report'[t].pc = "forget" /\ report'[t].arg = Arg(t)
           /\ \A x \in Thread : section'[x] = section[x]
           /\ \A x \in Thread : x # t => report'[x] = report[x]
<1>1. /\ Runs(t, "fclose") /\ Goto(t, "forget") /\ buffer' = << >> /\ file' = "freed"
      /\ UNCHANGED <<process, locks, registry, loaded>>
      /\ "fclose" \in ReportPcs /\ "forget" \in ReportPcs
  BY DEF CloseFile, history, ReportPcs, HeldPcs
<1>2. /\ StackInv' /\ LinkerInv' /\ RegistryInv' /\ CountInv'
      /\ report[t].pc = "fclose" /\ report[t].arg = Arg(t)
      /\ report'[t].pc = "forget" /\ report'[t].arg = Arg(t)
      /\ \A x \in Thread : section'[x] = section[x]
      /\ \A x \in Thread : x # t => report'[x] = report[x]
  BY <1>1, ReportingCore
<1>3. LockInv'
  BY <1>1, <1>2, HoldingLocks DEF HeldPcs
<1>4. FileInv'
  <2>1. reportLock = t /\ \A x \in Thread : x # t => report[x].pc \notin HeldPcs
    BY <1>2, HolderAlone DEF HeldPcs
  <2>2. file = "open" /\ Drained
    BY <1>2 DEF CoreInv, FileInv, HeldPcs, Drained
  <2>3. \A x \in Thread : report[x].pc # "end" /\ section[x].pc \notin WritePcs
    BY <2>2 DEF CoreInv, FileInv
  <2>4. linked = << >> /\ process = "running" /\ Nobody # t
    BY <1>1, <2>2, ReportingAssumption DEF CoreInv, FileInv, Runs
  <2>5. \A x \in Thread :
           /\ report'[x].pc \in HeldPcs \ {"forget", "release"} => file' = "open"
           /\ report'[x].pc = "forget" => file' = "freed"
           /\ report'[x].pc \in {"release", "end"} => file' = "null"
    BY <1>1, <1>2, <2>1, <2>3 DEF HeldPcs
  <2>6. linked' = << >> /\ process' = "running" /\ reportLock' = t
        /\ \A x \in Thread : section'[x].pc \notin WritePcs
    BY <1>1, <1>2, <2>1, <2>3, <2>4 DEF locks, registry
  <2> QED BY <1>1, <2>4, <2>5, <2>6 DEF FileInv
<1> QED BY <1>2, <1>3, <1>4 DEF CoreInv

LEMMA ForgetFileCore ==
    ASSUME CoreInv, NEW t \in Thread, ForgetFile(t)
    PROVE  /\ CoreInv' /\ file = "freed"
           /\ report[t].pc = "forget" /\ report[t].arg = Arg(t)
           /\ report'[t].pc = "release" /\ report'[t].arg = Arg(t)
           /\ \A x \in Thread : section'[x] = section[x]
           /\ \A x \in Thread : x # t => report'[x] = report[x]
<1>1. /\ Runs(t, "forget") /\ Goto(t, "release") /\ file' = "null"
      /\ UNCHANGED <<process, locks, registry, buffer, loaded>>
      /\ "forget" \in ReportPcs /\ "release" \in ReportPcs
  BY DEF ForgetFile, history, ReportPcs, HeldPcs
<1>2. /\ StackInv' /\ LinkerInv' /\ RegistryInv' /\ CountInv'
      /\ report[t].pc = "forget" /\ report[t].arg = Arg(t)
      /\ report'[t].pc = "release" /\ report'[t].arg = Arg(t)
      /\ \A x \in Thread : section'[x] = section[x]
      /\ \A x \in Thread : x # t => report'[x] = report[x]
  BY <1>1, ReportingCore
<1>3. LockInv'
  BY <1>1, <1>2, HoldingLocks DEF HeldPcs
<1>4. file = "freed"
  BY <1>2 DEF CoreInv, FileInv
<1>5. FileInv'
  <2>1. \A x \in Thread : x # t => report[x].pc \notin HeldPcs
    BY <1>2, HolderAlone DEF HeldPcs
  <2>2. Drained
    BY <1>4 DEF Drained
  <2>3. \A x \in Thread :
           /\ report'[x].pc \in HeldPcs \ {"forget", "release"} => file' = "open"
           /\ report'[x].pc = "forget" => file' = "freed"
           /\ report'[x].pc \in {"release", "end"} => file' = "null"
    BY <1>1, <1>2, <2>1 DEF HeldPcs
  <2>4. linked' = << >> /\ buffer' = << >>
        /\ \A x \in Thread : section'[x].pc \notin WritePcs
    BY <1>1, <1>2, <1>4, <2>2 DEF CoreInv, FileInv, registry
  <2> QED BY <1>1, <2>3, <2>4 DEF FileInv
<1> QED BY <1>2, <1>3, <1>4, <1>5 DEF CoreInv

LEMMA UnlockReportCore ==
    ASSUME CoreInv, Locks, NEW t \in Thread, UnlockReport(t)
    PROVE  /\ CoreInv' /\ file = "null"
           /\ report[t].pc = "release" /\ report[t].arg = Arg(t)
           /\ report'[t].pc = "end" /\ report'[t].arg = Arg(t)
           /\ \A x \in Thread : section'[x] = section[x]
           /\ \A x \in Thread : x # t => report'[x] = report[x]
<1>1. /\ Runs(t, "release") /\ Goto(t, "end") /\ reportLock' = Nobody
      /\ UNCHANGED <<process, unitLock, registry, file, buffer, loaded>>
      /\ "release" \in ReportPcs /\ "end" \in ReportPcs
  BY Locks DEF UnlockReport, ReleaseReportLock, output, history, ReportPcs, HeldPcs
<1>2. /\ StackInv' /\ LinkerInv' /\ RegistryInv' /\ CountInv'
      /\ report[t].pc = "release" /\ report[t].arg = Arg(t)
      /\ report'[t].pc = "end" /\ report'[t].arg = Arg(t)
      /\ \A x \in Thread : section'[x] = section[x]
      /\ \A x \in Thread : x # t => report'[x] = report[x]
  BY <1>1, ReportingCore
<1>3. \A x \in Thread : x # t => report[x].pc \notin HeldPcs
  BY <1>2, HolderAlone DEF HeldPcs
<1>4. LockInv'
  <2>1. \A x \in Thread : Depth(x)' = Depth(x)
    BY <1>2 DEF Depth, Unlinking
  <2>2. \A x \in Thread : report'[x].pc \in HeldPcs <=> reportLock' = x
    BY <1>1, <1>2, <1>3, ReportingAssumption DEF HeldPcs
  <2> QED BY <1>1, <2>1, <2>2 DEF CoreInv, LockInv
<1>5. file = "null"
  BY <1>2 DEF CoreInv, FileInv
<1>6. FileInv'
  <2>1. Drained
    BY <1>5 DEF Drained
  <2> QED BY <1>1, <1>2, <1>5, <2>1 DEF CoreInv, FileInv, registry, HeldPcs
<1> QED BY <1>2, <1>4, <1>5, <1>6 DEF CoreInv

LEMMA EndCore ==
    ASSUME CoreInv, NEW t \in Thread, End(t)
    PROVE  /\ CoreInv' /\ file = "null" /\ report[t].pc = "end"
           /\ \A x \in Thread : section'[x] = section[x]
           /\ \A x \in Thread : report'[x].arg = report[x].arg
           /\ \A x \in Thread : report'[x] = report[x] \/ report'[x].pc = "reset"
           /\ process' \in {"running", "exited", "killed"}
<1>1. Runs(t, "end") /\ UNCHANGED <<locks, registry, file, buffer, loaded>>
      /\ "end" \in ReportPcs /\ "reset" \in ReportPcs
  BY DEF End, output, history, ReportPcs
<1>2. report[t].pc = "end"
  BY <1>1, RunsReport DEF CoreInv
<1>3. file = "null"
  BY <1>2 DEF CoreInv, FileInv
<1>4. CASE Goto(t, "reset") /\ UNCHANGED process
  <2>1. /\ StackInv' /\ LinkerInv' /\ RegistryInv' /\ CountInv'
        /\ report[t].arg = Arg(t)
        /\ report'[t].pc = "reset" /\ report'[t].arg = Arg(t)
        /\ \A x \in Thread : section'[x] = section[x]
        /\ \A x \in Thread : x # t => report'[x] = report[x]
    BY <1>1, <1>4, ReportingCore
  <2>2. LockInv'
    BY <1>1, <1>2, <2>1, LockKept DEF CoreInv, HeldPcs
  <2>3. FileInv'
    BY <1>1, <1>2, <1>4, <2>1, FileKept DEF CoreInv, locks, registry, HeldPcs
  <2> QED BY <1>1, <1>2, <1>3, <1>4, <2>1, <2>2, <2>3 DEF CoreInv, Runs
<1>5. CASE UNCHANGED stack /\ process' \in {"exited", "killed"}
  <2>1. StackInv' /\ section' = section /\ report' = report
    BY <1>5, Stays DEF CoreInv
  <2>2. LockInv' /\ LinkerInv' /\ CountInv' /\ RegistryInv'
    BY <1>1, <2>1, LockKept, LinkerKept, CountKept, RegistryKept DEF CoreInv, registry
  <2>3. FileInv'
    <3>1. Drained' => Drained
      BY <1>1, <2>1 DEF Drained
    <3> QED BY <1>1, <1>3, <2>1, <3>1 DEF CoreInv, FileInv, locks, registry
  <2> QED BY <1>2, <1>3, <1>5, <2>1, <2>2, <2>3 DEF CoreInv
<1> QED BY <1>1, <1>4, <1>5 DEF End
-----------------------------------------------------------------------------
(* What has been written *)

LEMMA PutAtEnd ==
    ASSUME NEW p \in Seq(Item), NEW b \in Seq(Item), NEW x \in Item
    PROVE  Append(b, x) \in Seq(Item) /\ p \o Append(b, x) = Append(p \o b, x)
<1>1. <<x>> \in Seq(Item) /\ Append(b, x) = b \o <<x>> /\ p \o b \in Seq(Item)
  BY AppendIsConcat, ConcatProperties
<1>2. Append(p \o b, x) = (p \o b) \o <<x>>
  BY <1>1, AppendIsConcat
<1>3. (p \o b) \o <<x>> = p \o (b \o <<x>>)
  BY <1>1, ConcatAssociative
<1>4. Append(b, x) \in Seq(Item)
  BY AppendProperties
<1> QED BY <1>1, <1>2, <1>3, <1>4

LEMMA Items ==
    /\ \A tag \in {"report", "/report", "backtrace"} : Tag(tag) \in Item
    /\ \A tag \in {"samples", "/samples"}, u \in Unit : [tag |-> tag, unit |-> u] \in Item
BY DEF Item, Tag

\* What the stream becomes when an item is put, or when it is flushed.
LEMMA StreamPut ==
    ASSUME DataInv, NEW item \in Item, buffer' = Append(buffer, item), UNCHANGED pipe
    PROVE  /\ stream \in Seq(Item) /\ stream' = Append(stream, item)
           /\ buffer' \in Seq(Item)
<1>1. pipe \in Seq(Item) /\ buffer \in Seq(Item)
  BY DEF DataInv
<1> QED BY <1>1, PutAtEnd, ConcatProperties DEF stream

LEMMA StreamFlushed ==
    ASSUME DataInv, pipe' = pipe \o buffer, buffer' = << >>
    PROVE  stream' = stream /\ pipe' \in Seq(Item) /\ buffer' \in Seq(Item) /\ stream' = pipe'
<1>1. pipe \in Seq(Item) /\ buffer \in Seq(Item) /\ buffer' \in Seq(Item)
  BY DEF DataInv
<1>2. pipe' \in Seq(Item)
  BY <1>1, ConcatProperties
<1>3. pipe' \o buffer' = pipe'
  BY <1>2, ConcatEmptySeq
<1> QED BY <1>1, <1>2, <1>3 DEF stream

LEMMA StreamDebug ==
    ASSUME DataInv, pipe' = pipe \o buffer \o <<Tag("report"), Tag("backtrace")>>,
           buffer' = <<Tag("/report")>>
    PROVE  /\ stream \in Seq(Item) /\ pipe' \in Seq(Item) /\ buffer' \in Seq(Item)
           /\ stream' = Append(Append(Append(stream, Tag("report")), Tag("backtrace")),
                               Tag("/report"))
           /\ \E i \in DOMAIN pipe' : pipe'[i] = Tag("backtrace")
<1> DEFINE a == Tag("report")
           b == Tag("backtrace")
           c == Tag("/report")
<1>1. a \in Item /\ b \in Item /\ c \in Item
  BY Items
<1>2. pipe \in Seq(Item) /\ buffer \in Seq(Item) /\ stream \in Seq(Item)
  BY ConcatProperties DEF DataInv, stream
<1>3. pipe' = stream \o <<a, b>> /\ buffer' = <<c>>
  BY DEF stream
<1> HIDE DEF a, b, c
<1>4. /\ <<a>> \in Seq(Item) /\ << >> \in Seq(Item) /\ <<c>> \in Seq(Item)
      /\ Append(<<a>>, b) = <<a, b>> /\ Append(<< >>, c) = <<c>>
  <2>1. <<a>> \in Seq(Item) /\ << >> \in Seq(Item) /\ <<c>> \in Seq(Item)
    BY <1>1
  <2>2. ASSUME NEW x \in Item, NEW y \in Item PROVE Append(<<x>>, y) = <<x, y>>
    <3> DEFINE l == Append(<<x>>, y)
    <3>1. <<x>> \in Seq(Item) /\ Len(<<x>>) = 1 /\ <<x>>[1] = x
      OBVIOUS
    <3>2. l \in Seq(Item) /\ Len(l) = 2 /\ l[1] = x /\ l[2] = y
      BY <3>1, AppendProperties
    <3> HIDE DEF l
    <3>3. l = <<x, y>>
      BY <3>2
    <3> QED BY <3>3 DEF l
  <2>3. Append(<< >>, c) = <<c>>
    BY <1>1
  <2> QED BY <1>1, <2>1, <2>2, <2>3
<1>5. stream \o <<a>> = Append(stream, a) /\ Append(stream, a) \in Seq(Item)
  BY <1>1, <1>2, AppendIsConcat, AppendProperties
<1>6. pipe' = Append(Append(stream, a), b)
  <2>1. stream \o Append(<<a>>, b) = Append(stream \o <<a>>, b)
    BY <1>1, <1>2, <1>4, PutAtEnd
  <2> QED BY <1>3, <1>4, <1>5, <2>1
<1>7. pipe' \in Seq(Item) /\ buffer' \in Seq(Item)
  BY <1>1, <1>3, <1>4, <1>5, <1>6, AppendProperties
<1>8. pipe' \o buffer' = Append(pipe', c)
  <2>1. pipe' \o << >> = pipe'
    BY <1>7, ConcatEmptySeq
  <2> QED BY <1>1, <1>3, <1>4, <1>7, <2>1, PutAtEnd
<1>9. \E i \in DOMAIN pipe' : pipe'[i] = b
  <2> DEFINE head == Append(stream, a)
             n == Len(head) + 1
  <2>1. Len(pipe') = n /\ pipe'[n] = b
    <3>1. head \in Seq(Item) /\ pipe' = Append(head, b)
      BY <1>5, <1>6
    <3> HIDE DEF head
    <3> QED BY <1>1, <3>1, AppendProperties
  <2>2. DOMAIN pipe' = 1..n /\ n \in Nat /\ n >= 1
    BY <1>5, <1>7, <2>1, LenProperties
  <2> QED BY <2>1, <2>2
<1> QED BY <1>2, <1>6, <1>7, <1>8, <1>9 DEF a, b, c, stream

\* What was in the pipe stays there.
LEMMA BacktraceStays ==
    ASSUME DataInv, NEW s \in Seq(Item), pipe' = pipe \o s, Backtraced
    PROVE  Backtraced'
<1>1. pipe \in Seq(Item)
  BY DEF DataInv
<1>2. PICK i \in DOMAIN pipe : pipe[i] = Tag("backtrace")
  BY DEF Backtraced
<1>3. i \in 1..Len(pipe) /\ Len(pipe) \in Nat /\ Len(s) \in Nat
  BY <1>1, <1>2, LenProperties
<1>4. i \in DOMAIN (pipe \o s) /\ (pipe \o s)[i] = pipe[i]
  <2>1. i \in 1 .. Len(pipe) + Len(s) /\ i <= Len(pipe)
    BY <1>3
  <2>2. /\ pipe \o s \in Seq(Item) /\ Len(pipe \o s) = Len(pipe) + Len(s)
        /\ (pipe \o s)[i] = pipe[i]
    BY <1>1, <2>1, ConcatProperties
  <2> QED BY <2>1, <2>2, LenProperties
<1> QED BY <1>2, <1>4, Zenon DEF Backtraced

LEMMA DataKept ==
    ASSUME DataInv, UNCHANGED <<loads, child>>,
           process' \in {process, "running", "exited", "killed"},
           disposition' \in [Signal -> {"handler", "prior"}],
           pipe' \in Seq(Item), buffer' \in Seq(Item)
    PROVE  DataInv'
<1>1. process' \in {"running", "exited", "killed"}
  BY DEF DataInv
<1> QED BY <1>1 DEF DataInv

LEMMA BacktraceKept ==
    ASSUME BacktraceInv, Backtraced => Backtraced', Ended' => Ended,
           \A x \in Thread : report[x].arg = "exit" => report'[x].arg = "exit"
    PROVE  BacktraceInv'
BY DEF BacktraceInv

LEMMA OwedKept ==
    ASSUME NEW u, Linked(u)' <=> Linked(u), OnItsWay(u)' <=> OnItsWay(u)
    PROVE  Owed(u)' = Owed(u)
BY DEF Owed

LEMMA DeliveryKept ==
    ASSUME DeliveryInv, UNCHANGED loads, Unforked' => Unforked,
           \A u \in Unit : /\ Sections(u, stream') = Sections(u, stream)
                           /\ Owed(u)' = Owed(u)
    PROVE  DeliveryInv'
<1>1. \A u \in Unit : Sections(u, stream)' = Sections(u, stream)
  OBVIOUS
<1> QED BY <1>1 DEF DeliveryInv

LEMMA GrammarKept ==
    ASSUME GrammarInv, stream' = stream, Unforked' => Unforked, Ended' <=> Ended,
           \A x \in Thread :
              /\ report'[x].pc \in {"flush", "backtrace"}
                    <=> report[x].pc \in {"flush", "backtrace"}
              /\ section'[x].pc = "/samples" <=> section[x].pc = "/samples"
              /\ section'[x].pc = "/samples" => section'[x].arg = section[x].arg
    PROVE  GrammarInv'
<1>1. Parsed(stream)' = Parsed(stream)
  OBVIOUS
<1> QED BY <1>1 DEF GrammarInv

\* A step that writes nothing, and begins and ends nothing that is written.
LEMMA QuietRest ==
    ASSUME RestInv, UNCHANGED <<pipe, buffer, loads, child>>,
           process' \in {process, "running", "exited", "killed"},
           disposition' \in [Signal -> {"handler", "prior"}],
           Ended' <=> Ended,
           \A u : (Linked(u) \/ OnItsWay(u))' <=> (Linked(u) \/ OnItsWay(u)),
           \A x \in Thread :
              /\ report'[x].pc \in {"flush", "backtrace"}
                    <=> report[x].pc \in {"flush", "backtrace"}
              /\ report[x].arg = "exit" => report'[x].arg = "exit"
              /\ section'[x].pc = "/samples" <=> section[x].pc = "/samples"
              /\ section'[x].pc = "/samples" => section'[x].arg = section[x].arg
    PROVE  RestInv'
<1>1. stream' = stream /\ (Unforked' <=> Unforked)
  BY DEF stream, Unforked
<1>2. DataInv'
  <2>1. pipe \in Seq(Item) /\ buffer \in Seq(Item)
    BY DEF RestInv, DataInv
  <2> QED BY <2>1, DataKept DEF RestInv
<1>3. BacktraceInv'
  <2>1. Backtraced' <=> Backtraced
    BY DEF Backtraced
  <2> QED BY <2>1, BacktraceKept DEF RestInv
<1>4. DeliveryInv'
  <2>1. \A u : Owed(u)' = Owed(u)
    BY DEF Owed
  <2> QED BY <1>1, <2>1, DeliveryKept DEF RestInv
<1>5. GrammarInv'
  BY <1>1, GrammarKept DEF RestInv
<1> QED BY <1>2, <1>3, <1>4, <1>5 DEF RestInv

\* ... in particular one that leaves the registry's list alone.
LEMMA StillRest ==
    ASSUME RestInv, UNCHANGED <<pipe, buffer, loads, child, linked>>,
           process' \in {process, "running", "exited", "killed"},
           disposition' \in [Signal -> {"handler", "prior"}],
           Ended' <=> Ended,
           \A x \in Thread :
              /\ report'[x].pc \in {"flush", "backtrace"}
                    <=> report[x].pc \in {"flush", "backtrace"}
              /\ report[x].arg = "exit" => report'[x].arg = "exit"
              /\ section'[x].pc \in WritePcs \ {"count"}
                    <=> section[x].pc \in WritePcs \ {"count"}
              /\ section'[x].pc = "/samples" <=> section[x].pc = "/samples"
              /\ section'[x].pc \in WritePcs \ {"count"} => section'[x].arg = section[x].arg
    PROVE  RestInv'
<1>1. \A u : Linked(u)' <=> Linked(u)
  BY DEF Linked
<1>2. \A u : OnItsWay(u)' <=> OnItsWay(u)
  BY DEF OnItsWay
<1>3. \A x \in Thread : section'[x].pc = "/samples" => section'[x].arg = section[x].arg
  BY DEF WritePcs
<1> QED BY <1>1, <1>2, <1>3, QuietRest

\* The grammar's steps that a report takes.
LEMMA AfterSteps ==
    /\ \A u \in Unit :
          /\ After(Tag("in_samples"), [tag |-> "samples", unit |-> u])
                = [tag |-> "samples", unit |-> u]
          /\ After([tag |-> "samples", unit |-> u], [tag |-> "/samples", unit |-> u])
                = Tag("in_samples")
    /\ After(Tag("in_samples"), Tag("/report")) = Tag("complete")
    /\ After(Tag("complete"), Tag("report")) = Tag("in_debug")
    /\ After(Tag("in_debug"), Tag("backtrace")) = Tag("in_debug")
    /\ After(Tag("in_debug"), Tag("/report")) = Tag("final")
    /\ After(Tag("start"), Tag("report")) = Tag("in_samples")
<1>1. ASSUME NEW u \in Unit
      PROVE  After(Tag("in_samples"), [tag |-> "samples", unit |-> u])
                = [tag |-> "samples", unit |-> u]
  BY DEF After, Tag
<1>2. ASSUME NEW u \in Unit
      PROVE  After([tag |-> "samples", unit |-> u], [tag |-> "/samples", unit |-> u])
                = Tag("in_samples")
  <2> DEFINE s == [tag |-> "samples", unit |-> u]
             i == [tag |-> "/samples", unit |-> u]
  <2>1. i = [s EXCEPT !.tag = "/samples"] /\ s.tag = "samples"
    OBVIOUS
  <2>3. /\ s # Tag("start") /\ s # Tag("in_samples")
        /\ s # Tag("complete") /\ s # Tag("in_debug")
    BY <2>1 DEF Tag
  <2> HIDE DEF s, i
  <2>4. After(s, i) = Tag("in_samples")
    BY <2>1, <2>3, Zenon DEF After
  <2> QED BY <2>4 DEF s, i
<1>3. After(Tag("in_samples"), Tag("/report")) = Tag("complete")
  BY DEF After, Tag
<1>4. After(Tag("complete"), Tag("report")) = Tag("in_debug")
  BY DEF After, Tag
<1>5. After(Tag("in_debug"), Tag("backtrace")) = Tag("in_debug")
  BY DEF After, Tag
<1>6. After(Tag("in_debug"), Tag("/report")) = Tag("final")
  BY DEF After, Tag
<1>7. After(Tag("start"), Tag("report")) = Tag("in_samples")
  BY DEF After, Tag
<1> QED BY <1>1, <1>2, <1>3, <1>4, <1>5, <1>6, <1>7

LEMMA UnlinkRest ==
    ASSUME CoreInv, RestInv, Locks, NEW t \in Thread, Unlink(t)
    PROVE  RestInv'
<1>1. /\ \A u : Linked(u)' <=> u # Arg(t) /\ Linked(u)
      /\ Linked(Arg(t)) => file = "open" /\ section'[t].pc = "check"
      /\ ~Linked(Arg(t)) => section'[t].pc = "unlock"
      /\ section[t].pc = "unlink" /\ section'[t].arg = Arg(t)
      /\ \A x \in Thread : report'[x] = report[x]
      /\ \A x \in Thread : x # t => section'[x] = section[x]
  BY UnlinkCore
<1>2. UNCHANGED <<pipe, buffer, file, loads, child, process, disposition>>
  BY DEF Unlink, output, history
<1>3. Ended' <=> Ended
  BY <1>1, <1>2 DEF Ended
<1>4. ASSUME NEW u
      PROVE  (Linked(u) \/ OnItsWay(u))' <=> (Linked(u) \/ OnItsWay(u))
  <2>1. OnItsWay(u)' <=> OnItsWay(u) \/ (u = Arg(t) /\ Linked(Arg(t)))
    <3>1. OnItsWay(u) => OnItsWay(u)'
      BY <1>1 DEF OnItsWay, WritePcs
    <3>2. u = Arg(t) /\ Linked(Arg(t)) => OnItsWay(u)'
      BY <1>1 DEF OnItsWay, WritePcs
    <3>3. OnItsWay(u)' => OnItsWay(u) \/ (u = Arg(t) /\ Linked(Arg(t)))
      BY <1>1 DEF OnItsWay, WritePcs
    <3> QED BY <3>1, <3>2, <3>3
  <2> QED BY <1>1, <2>1
<1>5. \A x \in Thread : section'[x].pc = "/samples" <=> section[x].pc = "/samples"
  BY <1>1
<1>6. \A x \in Thread : section'[x].pc = "/samples" => section'[x].arg = section[x].arg
  BY <1>1
<1>7. disposition' \in [Signal -> {"handler", "prior"}]
  BY <1>2 DEF RestInv, DataInv
<1> QED BY <1>1, <1>2, <1>3, <1>4, <1>5, <1>6, <1>7, QuietRest

LEMMA CheckFileRest ==
    ASSUME CoreInv, RestInv, NEW t \in Thread, CheckFile(t)
    PROVE  RestInv'
<1>1. Runs(t, "check") /\ Goto(t, "samples") /\ StackInv
      /\ "check" \in UnitPcs /\ "samples" \in UnitPcs
  BY CheckFileCore DEF CheckFile, UnitPcs, CoreInv
<1>2. /\ section[t].pc = "check" /\ section[t].arg = Arg(t)
      /\ section'[t].pc = "samples" /\ section'[t].arg = Arg(t)
      /\ \A x \in Thread : report'[x] = report[x]
      /\ \A x \in Thread : x # t => section'[x] = section[x]
  BY <1>1, GotoUnitAt
<1>3. UNCHANGED <<pipe, buffer, file, loads, child, process, disposition, linked>>
  BY DEF CheckFile, output, history, registry
<1>4. Ended' <=> Ended
  BY <1>2, <1>3 DEF Ended
<1>5. disposition' \in [Signal -> {"handler", "prior"}]
  BY <1>3 DEF RestInv, DataInv
<1>6. \A x \in Thread :
         /\ section'[x].pc \in WritePcs \ {"count"} <=> section[x].pc \in WritePcs \ {"count"}
         /\ section'[x].pc = "/samples" <=> section[x].pc = "/samples"
         /\ section'[x].pc \in WritePcs \ {"count"} => section'[x].arg = section[x].arg
  BY <1>2 DEF WritePcs
<1> QED BY <1>2, <1>3, <1>4, <1>5, <1>6, StillRest

LEMMA CountDownRest ==
    ASSUME CoreInv, RestInv, NEW t \in Thread, CountDown(t)
    PROVE  RestInv'
<1>1. Runs(t, "count") /\ Goto(t, "unlock") /\ StackInv
      /\ "count" \in UnitPcs /\ "unlock" \in UnitPcs
  BY DEF CountDown, UnitPcs, CoreInv
<1>2. /\ section[t].pc = "count"
      /\ section'[t].pc = "unlock"
      /\ \A x \in Thread : report'[x] = report[x]
      /\ \A x \in Thread : x # t => section'[x] = section[x]
  BY <1>1, GotoUnitAt
<1>3. UNCHANGED <<pipe, buffer, file, loads, child, process, disposition, linked>>
  BY DEF CountDown, output, history
<1>4. Ended' <=> Ended
  BY <1>2, <1>3 DEF Ended
<1>5. disposition' \in [Signal -> {"handler", "prior"}]
  BY <1>3 DEF RestInv, DataInv
<1>6. \A x \in Thread :
         /\ section'[x].pc \in WritePcs \ {"count"} <=> section[x].pc \in WritePcs \ {"count"}
         /\ section'[x].pc = "/samples" <=> section[x].pc = "/samples"
         /\ section'[x].pc \in WritePcs \ {"count"} => section'[x].arg = section[x].arg
  BY <1>2 DEF WritePcs
<1> QED BY <1>2, <1>3, <1>4, <1>5, <1>6, StillRest

LEMMA UnregisteredRest ==
    ASSUME CoreInv, RestInv, NEW t \in Thread, Unregistered(t)
    PROVE  RestInv'
<1>1. Runs(t, "unlock") /\ Pop(t) /\ StackInv
  BY DEF Unregistered, CoreInv
<1>2. /\ section[t].pc = "unlock" /\ section'[t] = NoFrame
      /\ \A x \in Thread : report'[x] = report[x]
      /\ \A x \in Thread : x # t => section'[x] = section[x]
  BY <1>1, PopUnitAt
<1>3. UNCHANGED <<pipe, buffer, file, loads, child, process, disposition, linked>>
  BY DEF Unregistered, output, registry
<1>4. Ended' <=> Ended
  BY <1>2, <1>3 DEF Ended
<1>5. disposition' \in [Signal -> {"handler", "prior"}]
  BY <1>3 DEF RestInv, DataInv
<1>6. \A x \in Thread :
         /\ section'[x].pc \in WritePcs \ {"count"} <=> section[x].pc \in WritePcs \ {"count"}
         /\ section'[x].pc = "/samples" <=> section[x].pc = "/samples"
         /\ section'[x].pc \in WritePcs \ {"count"} => section'[x].arg = section[x].arg
  BY <1>2 DEF WritePcs, NoFrame
<1> QED BY <1>2, <1>3, <1>4, <1>5, <1>6, StillRest

\* A destructor, or a report, is about to unlink a unit.
LEMMA PushUnitRest ==
    ASSUME CoreInv, RestInv, NEW t \in Thread, NEW u \in Unit, Push(t, "unlink", u),
           stack[t] = << >> \/ Runs(t, "drained"),
           UNCHANGED <<process, disposition, linked, file, buffer, pipe, loads, child>>
    PROVE  RestInv'
<1>2. /\ section[t] = NoFrame /\ section'[t].pc = "unlink"
      /\ \A x \in Thread : report'[x] = report[x]
      /\ \A x \in Thread : x # t => section'[x] = section[x]
  BY PushUnitAt DEF CoreInv
<1>4. Ended' <=> Ended
  BY <1>2 DEF Ended
<1>5. disposition' \in [Signal -> {"handler", "prior"}]
  BY DEF RestInv, DataInv
<1>6. \A x \in Thread :
         /\ section'[x].pc \in WritePcs \ {"count"} <=> section[x].pc \in WritePcs \ {"count"}
         /\ section'[x].pc = "/samples" <=> section[x].pc = "/samples"
         /\ section'[x].pc \in WritePcs \ {"count"} => section'[x].arg = section[x].arg
  BY <1>2 DEF WritePcs, NoFrame
<1> QED BY <1>2, <1>4, <1>5, <1>6, StillRest

\* While a unit is written, nothing else is going on in the stream.
LEMMA WritingAlone ==
    ASSUME CoreInv, NEW t \in Thread, section[t].pc \in WritePcs
    PROVE  /\ ~Ended /\ file = "open"
           /\ \A x \in Thread : report[x].pc \notin {"/report", "flush", "backtrace", "fclose"}
           /\ \A x \in Thread : x # t => section[x].pc \notin WritePcs
           /\ ~Linked(section[t].arg)
<1>1. ~Drained
  BY DEF CoreInv, FileInv
<1>2. Depth(t) > 0 /\ Unlinking(t)
  BY DEF Depth, Unlinking, WritePcs, UnitPcs
<1>3. \A x \in Thread : x # t => section[x].pc \notin WritePcs
  BY <1>2, UnlinkingAlone
<1>4. ~Linked(section[t].arg)
  BY <1>2 DEF CoreInv, RegistryInv
<1> QED BY <1>1, <1>3, <1>4 DEF Drained, Ended

LEMMA BeginSamplesRest ==
    ASSUME CoreInv, RestInv, NEW t \in Thread, BeginSamples(t)
    PROVE  CoreInv' /\ RestInv'
<1> DEFINE item == [tag |-> "samples", unit |-> Arg(t)]
<1>1. /\ Runs(t, "samples") /\ Put(t, item, "/samples") /\ StackInv
      /\ "samples" \in UnitPcs /\ "/samples" \in UnitPcs
      /\ "samples" \in WritePcs /\ "/samples" \in WritePcs
      /\ UNCHANGED <<locks, registry, file, loaded>>
      /\ UNCHANGED <<disposition, pipe, loads, child, linked>>
  BY DEF BeginSamples, UnitPcs, WritePcs, CoreInv, history, registry
<1> HIDE DEF item
<1>2. /\ CoreInv' /\ file = "open" /\ Goto(t, "/samples")
      /\ buffer' = Append(buffer, item) /\ UNCHANGED process
  BY <1>1, PutCore
<1>3. /\ section[t].pc = "samples" /\ section[t].arg = Arg(t) /\ Arg(t) \in Unit
      /\ section'[t].pc = "/samples" /\ section'[t].arg = Arg(t)
      /\ \A x \in Thread : report'[x] = report[x]
      /\ \A x \in Thread : x # t => section'[x] = section[x]
  BY <1>1, <1>2, GotoUnitAt
<1>4. /\ ~Ended
      /\ \A x \in Thread : report[x].pc \notin {"/report", "flush", "backtrace", "fclose"}
      /\ \A x \in Thread : x # t => section[x].pc \notin WritePcs
  BY <1>1, <1>3, WritingAlone
<1>5. item \in Item
  BY <1>3, Items DEF item
<1>6. stream \in Seq(Item) /\ stream' = Append(stream, item) /\ buffer' \in Seq(Item)
  BY <1>1, <1>2, <1>5, StreamPut DEF RestInv
<1>7. Unforked' <=> Unforked
  BY <1>1 DEF Unforked
<1>8. ~Ended'
  BY <1>1, <1>3, <1>4 DEF Ended
<1>9. DataInv'
  BY <1>1, <1>2, <1>6, DataKept DEF RestInv, DataInv
<1>10. BacktraceInv'
  BY <1>8 DEF BacktraceInv
<1>11. DeliveryInv'
  <2>1. \A u \in Unit : Sections(u, stream') = Sections(u, stream)
    <3>1. \A u \in Unit : item # [tag |-> "/samples", unit |-> u]
      BY DEF item
    <3> QED BY <1>5, <1>6, <3>1, SectionsAppend
  <2>2. \A u : Linked(u)' <=> Linked(u)
    BY <1>1 DEF Linked
  <2>3. \A u : OnItsWay(u)' <=> OnItsWay(u)
    BY <1>3 DEF OnItsWay, WritePcs
  <2>4. \A u \in Unit : Owed(u)' = Owed(u)
    BY <2>2, <2>3, OwedKept
  <2> QED BY <1>1, <1>7, <2>1, <2>4, DeliveryKept DEF RestInv
<1>12. GrammarInv'
  <2>1. ASSUME Unforked
        PROVE  Parsed(stream') = [tag |-> "samples", unit |-> Arg(t)]
    <3>1. Parsed(stream) = Tag("in_samples")
      BY <1>3, <1>4, <2>1 DEF RestInv, GrammarInv, WritePcs
    <3>2. Parsed(stream') = After(Parsed(stream), item)
      BY <1>5, <1>6, ParsedAppend
    <3> QED BY <1>3, <3>1, <3>2, AfterSteps DEF item
  <2>2. \A x \in Thread : /\ report'[x].pc \notin {"flush", "backtrace"}
                          /\ section'[x].pc = "/samples" => x = t
    BY <1>3, <1>4 DEF WritePcs
  <2>3. Parsed(stream)' = Parsed(stream')
    OBVIOUS
  <2> QED BY <1>3, <1>7, <1>8, <2>1, <2>2, <2>3 DEF GrammarInv
<1> QED BY <1>2, <1>9, <1>10, <1>11, <1>12 DEF RestInv

LEMMA EndSamplesRest ==
    ASSUME CoreInv, RestInv, NEW t \in Thread, EndSamples(t)
    PROVE  CoreInv' /\ RestInv'
<1> DEFINE item == [tag |-> "/samples", unit |-> Arg(t)]
<1>1. /\ Runs(t, "/samples") /\ Put(t, item, "count") /\ StackInv
      /\ "/samples" \in UnitPcs /\ "count" \in UnitPcs
      /\ "/samples" \in WritePcs /\ "count" \in WritePcs
      /\ UNCHANGED <<locks, registry, file, loaded>>
      /\ UNCHANGED <<disposition, pipe, loads, child, linked>>
  BY DEF EndSamples, UnitPcs, WritePcs, CoreInv, history, registry
<1> HIDE DEF item
<1>2. /\ CoreInv' /\ file = "open" /\ Goto(t, "count")
      /\ buffer' = Append(buffer, item) /\ UNCHANGED process
  BY <1>1, PutCore
<1>3. /\ section[t].pc = "/samples" /\ section[t].arg = Arg(t) /\ Arg(t) \in Unit
      /\ section'[t].pc = "count" /\ section'[t].arg = Arg(t)
      /\ \A x \in Thread : report'[x] = report[x]
      /\ \A x \in Thread : x # t => section'[x] = section[x]
  BY <1>1, <1>2, GotoUnitAt
<1>4. /\ ~Ended /\ ~Linked(Arg(t))
      /\ \A x \in Thread : report[x].pc \notin {"/report", "flush", "backtrace", "fclose"}
      /\ \A x \in Thread : x # t => section[x].pc \notin WritePcs
  BY <1>1, <1>3, WritingAlone
<1>5. item \in Item
  BY <1>3, Items DEF item
<1>6. stream \in Seq(Item) /\ stream' = Append(stream, item) /\ buffer' \in Seq(Item)
  BY <1>1, <1>2, <1>5, StreamPut DEF RestInv
<1>7. Unforked' <=> Unforked
  BY <1>1 DEF Unforked
<1>8. ~Ended'
  BY <1>1, <1>3, <1>4 DEF Ended
<1>9. DataInv'
  BY <1>1, <1>2, <1>6, DataKept DEF RestInv, DataInv
<1>10. BacktraceInv'
  BY <1>8 DEF BacktraceInv
<1>11. DeliveryInv'
  <2>1. \A u \in Unit : Linked(u)' <=> Linked(u)
    BY <1>1 DEF Linked
  <2>2. \A u : ~OnItsWay(u)'
    BY <1>3, <1>4 DEF OnItsWay, WritePcs
  <2>3. \A u : OnItsWay(u) <=> u = Arg(t)
    <3>1. \A u : OnItsWay(u) => u = Arg(t)
      BY <1>3, <1>4 DEF OnItsWay
    <3>2. OnItsWay(Arg(t))
      BY <1>3 DEF OnItsWay, WritePcs
    <3> QED BY <3>1, <3>2
  <2>4. ASSUME NEW u \in Unit
        PROVE  Sections(u, stream') + Owed(u)' = Sections(u, stream) + Owed(u)
    <3>1. /\ Sections(u, stream) \in Nat
          /\ Sections(u, stream') = IF item = [tag |-> "/samples", unit |-> u]
                                    THEN Sections(u, stream) + 1 ELSE Sections(u, stream)
      BY <1>5, <1>6, SectionsAppend
    <3>2. item = [tag |-> "/samples", unit |-> u] <=> u = Arg(t)
      BY DEF item
    <3>3. CASE u = Arg(t)
      BY <1>4, <2>1, <2>2, <2>3, <3>1, <3>2, <3>3 DEF Owed
    <3>4. CASE u # Arg(t)
      BY <2>1, <2>2, <2>3, <3>1, <3>2, <3>4 DEF Owed
    <3> QED BY <3>3, <3>4
  <2> QED BY <1>1, <1>7, <2>4 DEF RestInv, DeliveryInv
<1>12. GrammarInv'
  <2>1. ASSUME Unforked PROVE Parsed(stream') = Tag("in_samples")
    <3>1. Parsed(stream) = [tag |-> "samples", unit |-> Arg(t)]
      BY <1>3, <2>1 DEF RestInv, GrammarInv
    <3>2. Parsed(stream') = After(Parsed(stream), item)
      BY <1>5, <1>6, ParsedAppend
    <3> QED BY <1>3, <3>1, <3>2, AfterSteps DEF item
  <2>2. \A x \in Thread : /\ report'[x].pc \notin {"flush", "backtrace"}
                          /\ section'[x].pc # "/samples"
    BY <1>3, <1>4 DEF WritePcs
  <2>3. Parsed(stream)' = Parsed(stream')
    OBVIOUS
  <2> QED BY <1>7, <1>8, <2>1, <2>2, <2>3 DEF GrammarInv
<1> QED BY <1>2, <1>9, <1>10, <1>11, <1>12 DEF RestInv

LEMMA RegisterRest ==
    ASSUME CoreInv, RestInv, ~LateLoads, NEW t \in Thread, NEW u \in Unit, Register(t, u)
    PROVE  CoreInv' /\ RestInv'
<1>1. /\ CoreInv' /\ ~Drained
      /\ \A v : Linked(v)' <=> v = u \/ Linked(v)
      /\ ~Linked(u) /\ \A x \in Thread : section[x] # NoFrame => section[x].arg # u
  BY RegisterCore
<1>2. /\ loads[u] < MaxLoads /\ loads' = [loads EXCEPT ![u] = @ + 1]
      /\ UNCHANGED <<process, stack, disposition, file, buffer, pipe, child>>
  BY DEF Register, output
<1>3. section' = section /\ report' = report
  BY <1>2, Stays DEF CoreInv
<1>4. stream' = stream /\ (Unforked' <=> Unforked) /\ (Ended' <=> Ended)
  BY <1>2, <1>3 DEF stream, Unforked, Ended
<1>5. loads \in [Unit -> 0..MaxLoads] /\ MaxLoads \in Nat
  BY ReportingAssumption DEF RestInv, DataInv
<1>6. DataInv'
  <2>1. loads' \in [Unit -> 0..MaxLoads]
    BY <1>2, <1>5
  <2> QED BY <1>2, <2>1 DEF RestInv, DataInv
<1>7. BacktraceInv'
  <2>1. Backtraced' <=> Backtraced
    BY <1>2 DEF Backtraced
  <2> QED BY <1>3, <1>4, <2>1, BacktraceKept DEF RestInv
<1>8. DeliveryInv'
  <2>1. \A v : OnItsWay(v)' <=> OnItsWay(v)
    BY <1>3 DEF OnItsWay
  <2>2. ~OnItsWay(u)
    <3>1. NoFrame.pc \notin WritePcs
      BY DEF NoFrame, WritePcs
    <3> QED BY <1>1, <3>1 DEF OnItsWay
  <2>3. stream \in Seq(Item)
    BY ConcatProperties DEF RestInv, DataInv, stream
  <2>4. ASSUME NEW v \in Unit
        PROVE  /\ loads'[v] <= Sections(v, stream) + Owed(v)'
               /\ Unforked => loads'[v] = Sections(v, stream) + Owed(v)'
    <3>1. /\ loads[v] <= Sections(v, stream) + Owed(v)
          /\ Unforked => loads[v] = Sections(v, stream) + Owed(v)
      BY DEF RestInv, DeliveryInv
    <3>2. Sections(v, stream) \in Nat
      <4>1. Tag("report") \in Item
        BY Items
      <4> QED BY <2>3, <4>1, SectionsAppend
    <3>3. CASE v = u
      <4>1. Owed(v) = 0 /\ Owed(v)' = 1 /\ loads'[v] = loads[v] + 1 /\ loads[v] \in Nat
        BY <1>1, <1>2, <1>5, <2>1, <2>2, <3>3 DEF Owed
      <4> QED BY <3>1, <3>2, <4>1
    <3>4. CASE v # u
      <4>1. Owed(v) = Owed(v)' /\ loads'[v] = loads[v]
        BY <1>1, <1>2, <1>5, <2>1, <3>4 DEF Owed
      <4> QED BY <3>1, <4>1
    <3> QED BY <3>3, <3>4
  <2> QED BY <1>4, <2>4 DEF DeliveryInv
<1>9. GrammarInv'
  BY <1>3, <1>4, GrammarKept DEF RestInv
<1> QED BY <1>1, <1>6, <1>7, <1>8, <1>9 DEF RestInv

\* A step of the reporting code that writes nothing.
LEMMA ReportRest ==
    ASSUME RestInv, NEW t \in Thread,
           UNCHANGED <<pipe, buffer, loads, child, linked>>,
           process' \in {process, "running", "exited", "killed"},
           disposition' \in [Signal -> {"handler", "prior"}],
           Ended' <=> Ended,
           \A x \in Thread : section'[x] = section[x],
           \A x \in Thread : x # t => report'[x] = report[x],
           report[t].arg = "exit" => report'[t].arg = "exit",
           report[t].pc \notin {"flush", "backtrace"},
           report'[t].pc \notin {"flush", "backtrace"}
    PROVE  RestInv'
<1>1. \A x \in Thread :
         /\ report'[x].pc \in {"flush", "backtrace"}
               <=> report[x].pc \in {"flush", "backtrace"}
         /\ report[x].arg = "exit" => report'[x].arg = "exit"
         /\ section'[x].pc \in WritePcs \ {"count"}
               <=> section[x].pc \in WritePcs \ {"count"}
         /\ section'[x].pc = "/samples" <=> section[x].pc = "/samples"
         /\ section'[x].pc \in WritePcs \ {"count"} => section'[x].arg = section[x].arg
  OBVIOUS
<1> QED BY <1>1, StillRest

LEMMA EndReportRest ==
    ASSUME CoreInv, RestInv, NEW t \in Thread, EndReport(t)
    PROVE  CoreInv' /\ RestInv'
<1> DEFINE item == Tag("/report")
<1>1. /\ CoreInv' /\ file = "open"
      /\ buffer' = Append(buffer, item) /\ UNCHANGED process
      /\ report[t].pc = "/report" /\ report[t].arg = Arg(t)
      /\ report'[t].pc = "flush" /\ report'[t].arg = Arg(t)
      /\ \A x \in Thread : section'[x] = section[x]
      /\ \A x \in Thread : x # t => report'[x] = report[x]
  BY EndReportCore
<1>2. UNCHANGED <<disposition, pipe, loads, child, linked, file>>
  BY DEF EndReport, history, registry
<1>3. \A x \in Thread : x # t => report[x].pc \notin HeldPcs
  BY <1>1, HolderAlone DEF HeldPcs
<1>4. Drained
  BY <1>1 DEF Drained
<1>5. \A x \in Thread : section[x].pc \notin WritePcs
  BY <1>4 DEF CoreInv, FileInv
<1>6. item \in Item
  BY Items
<1> HIDE DEF item
<1>7. stream \in Seq(Item) /\ stream' = Append(stream, item) /\ buffer' \in Seq(Item)
  BY <1>1, <1>2, <1>6, StreamPut DEF RestInv
<1>8. ~Ended /\ ~Ended' /\ (Unforked' <=> Unforked)
  BY <1>1, <1>2, <1>3 DEF Ended, Unforked, HeldPcs
<1>9. DataInv'
  BY <1>1, <1>2, <1>7, DataKept DEF RestInv, DataInv
<1>10. BacktraceInv'
  BY <1>8 DEF BacktraceInv
<1>11. DeliveryInv'
  <2>1. \A u \in Unit : Sections(u, stream') = Sections(u, stream)
    <3>1. \A u \in Unit : item # [tag |-> "/samples", unit |-> u]
      BY DEF item, Tag
    <3> QED BY <1>6, <1>7, <3>1, SectionsAppend
  <2>2. \A u : (Linked(u)' <=> Linked(u)) /\ (OnItsWay(u)' <=> OnItsWay(u))
    BY <1>1, <1>2 DEF Linked, OnItsWay
  <2>3. \A u \in Unit : Owed(u)' = Owed(u)
    BY <2>2, OwedKept
  <2> QED BY <1>2, <1>8, <2>1, <2>3, DeliveryKept DEF RestInv
<1>12. GrammarInv'
  <2>1. ASSUME Unforked PROVE Parsed(stream') = Tag("complete")
    <3>1. \A x \in Thread : report[x].pc \notin {"flush", "backtrace"}
      BY <1>1, <1>3 DEF HeldPcs
    <3>2. Parsed(stream) = Tag("in_samples")
      BY <1>5, <1>8, <2>1, <3>1 DEF RestInv, GrammarInv, WritePcs
    <3>3. Parsed(stream') = After(Parsed(stream), item)
      BY <1>6, <1>7, ParsedAppend
    <3> QED BY <3>2, <3>3, AfterSteps DEF item
  <2>2. \A x \in Thread : section'[x].pc # "/samples"
    BY <1>1, <1>5 DEF WritePcs
  <2>3. Parsed(stream)' = Parsed(stream')
    OBVIOUS
  <2> QED BY <1>1, <1>8, <2>1, <2>2, <2>3 DEF GrammarInv
<1> QED BY <1>1, <1>9, <1>10, <1>11, <1>12 DEF RestInv

LEMMA FlushReportRest ==
    ASSUME CoreInv, RestInv, NEW t \in Thread, FlushReport(t)
    PROVE  CoreInv' /\ RestInv'
<1>1. /\ CoreInv' /\ file = "open"
      /\ report[t].pc = "flush" /\ report[t].arg = Arg(t)
      /\ report'[t].pc = IF Arg(t) = "exit" THEN "fclose" ELSE "backtrace"
      /\ report'[t].arg = Arg(t)
      /\ \A x \in Thread : section'[x] = section[x]
      /\ \A x \in Thread : x # t => report'[x] = report[x]
  BY FlushReportCore
<1>2. /\ UNCHANGED <<process, disposition, loads, child, linked, file>>
      /\ pipe' = pipe \o buffer /\ buffer' = << >>
  BY DEF FlushReport, history, registry
<1>3. \A x \in Thread : x # t => report[x].pc \notin HeldPcs
  BY <1>1, HolderAlone DEF HeldPcs
<1>4. Drained
  BY <1>1 DEF Drained
<1>5. \A x \in Thread : section[x].pc \notin WritePcs
  BY <1>4 DEF CoreInv, FileInv
<1>6. stream' = stream /\ pipe' \in Seq(Item) /\ buffer' \in Seq(Item)
  BY <1>2, StreamFlushed DEF RestInv
<1>7. Unforked' <=> Unforked
  BY <1>2 DEF Unforked
<1>8. Ended' => report'[t].pc = "fclose"
  BY <1>1, <1>2, <1>3 DEF Ended, HeldPcs
<1>9. DataInv'
  BY <1>2, <1>6, DataKept DEF RestInv, DataInv
<1>10. BacktraceInv'
  BY <1>1, <1>8 DEF BacktraceInv
<1>11. DeliveryInv'
  <2>1. \A u : (Linked(u)' <=> Linked(u)) /\ (OnItsWay(u)' <=> OnItsWay(u))
    BY <1>1, <1>2 DEF Linked, OnItsWay
  <2>2. \A u \in Unit : Owed(u)' = Owed(u)
    BY <2>1, OwedKept
  <2> QED BY <1>2, <1>6, <1>7, <2>2, DeliveryKept DEF RestInv
<1>12. GrammarInv'
  <2>1. Unforked => Parsed(stream') = Tag("complete")
    BY <1>1, <1>6 DEF RestInv, GrammarInv
  <2>2. \A x \in Thread : section'[x].pc # "/samples"
    BY <1>1, <1>5 DEF WritePcs
  <2>3. Parsed(stream)' = Parsed(stream')
    OBVIOUS
  <2>4. Ended' \/ report'[t].pc = "backtrace"
    BY <1>1 DEF Ended
  <2> QED BY <1>7, <2>1, <2>2, <2>3, <2>4 DEF GrammarInv
<1> QED BY <1>1, <1>9, <1>10, <1>11, <1>12 DEF RestInv

LEMMA ReportDebugInfoRest ==
    ASSUME CoreInv, RestInv, NEW t \in Thread, ReportDebugInfo(t)
    PROVE  CoreInv' /\ RestInv'
<1>1. /\ CoreInv' /\ file = "open"
      /\ report[t].pc = "backtrace" /\ report[t].arg = Arg(t)
      /\ report'[t].pc = "fclose" /\ report'[t].arg = Arg(t)
      /\ \A x \in Thread : section'[x] = section[x]
      /\ \A x \in Thread : x # t => report'[x] = report[x]
  BY ReportDebugInfoCore
<1>2. /\ UNCHANGED <<process, disposition, loads, child, linked, file>>
      /\ pipe' = pipe \o buffer \o <<Tag("report"), Tag("backtrace")>>
      /\ buffer' = <<Tag("/report")>>
  BY DEF ReportDebugInfo, history, registry
<1>3. \A x \in Thread : x # t => report[x].pc \notin HeldPcs
  BY <1>1, HolderAlone DEF HeldPcs
<1>4. Drained
  BY <1>1 DEF Drained
<1>5. \A x \in Thread : section[x].pc \notin WritePcs
  BY <1>4 DEF CoreInv, FileInv
<1> DEFINE s1 == Append(stream, Tag("report"))
           s2 == Append(s1, Tag("backtrace"))
<1>6. /\ stream \in Seq(Item) /\ pipe' \in Seq(Item) /\ buffer' \in Seq(Item)
      /\ stream' = Append(s2, Tag("/report"))
      /\ \E i \in DOMAIN pipe' : pipe'[i] = Tag("backtrace")
  BY <1>2, StreamDebug DEF RestInv
<1>7. Tag("report") \in Item /\ Tag("backtrace") \in Item /\ Tag("/report") \in Item
  BY Items
<1>8. s1 \in Seq(Item)
  BY <1>6, <1>7, AppendProperties
<1>9. s2 \in Seq(Item)
  BY <1>7, <1>8, AppendProperties
<1>10. Unforked' <=> Unforked
  BY <1>2 DEF Unforked
<1>11. Ended'
  BY <1>1 DEF Ended
<1>12. DataInv'
  BY <1>2, <1>6, DataKept DEF RestInv, DataInv
<1>13. BacktraceInv'
  <2>1. Backtraced'
    BY <1>6 DEF Backtraced
  <2> QED BY <2>1 DEF BacktraceInv
<1>14. DeliveryInv'
  <2>1. ASSUME NEW u \in Unit PROVE Sections(u, stream') = Sections(u, stream)
    <3>1. \A tag : tag # "/samples" => Tag(tag) # [tag |-> "/samples", unit |-> u]
      BY DEF Tag
    <3>2. Sections(u, s1) = Sections(u, stream)
      BY <1>6, <1>7, <3>1, SectionsAppend
    <3> HIDE DEF s1
    <3>3. Sections(u, s2) = Sections(u, s1)
      BY <1>7, <1>8, <3>1, SectionsAppend
    <3> HIDE DEF s2
    <3>4. Sections(u, stream') = Sections(u, s2)
      BY <1>6, <1>7, <1>9, <3>1, SectionsAppend
    <3> QED BY <3>2, <3>3, <3>4
  <2>2. \A u : (Linked(u)' <=> Linked(u)) /\ (OnItsWay(u)' <=> OnItsWay(u))
    BY <1>1, <1>2 DEF Linked, OnItsWay
  <2>3. \A u \in Unit : Owed(u)' = Owed(u)
    BY <2>2, OwedKept
  <2> QED BY <1>2, <1>10, <2>1, <2>3, DeliveryKept DEF RestInv
<1>15. GrammarInv'
  <2>1. ASSUME Unforked PROVE Parsed(stream') = Tag("final")
    <3>1. Parsed(stream) = Tag("complete")
      BY <1>1, <2>1 DEF RestInv, GrammarInv
    <3>2. Parsed(s1) = Tag("in_debug")
      BY <1>6, <1>7, <3>1, ParsedAppend, AfterSteps
    <3> HIDE DEF s1
    <3>3. Parsed(s2) = Tag("in_debug")
      BY <1>7, <1>8, <3>2, ParsedAppend, AfterSteps
    <3> HIDE DEF s2
    <3> QED BY <1>6, <1>7, <1>9, <3>3, ParsedAppend, AfterSteps
  <2>2. \A x \in Thread : /\ section'[x].pc # "/samples"
                          /\ report'[x].pc \notin {"flush", "backtrace"}
    BY <1>1, <1>3, <1>5 DEF WritePcs, HeldPcs
  <2>3. Parsed(stream)' = Parsed(stream')
    OBVIOUS
  <2> QED BY <1>10, <1>11, <2>1, <2>2, <2>3 DEF GrammarInv
<1> QED BY <1>1, <1>12, <1>13, <1>14, <1>15 DEF RestInv

LEMMA CloseFileRest ==
    ASSUME CoreInv, RestInv, NEW t \in Thread, CloseFile(t)
    PROVE  CoreInv' /\ RestInv'
<1>1. /\ CoreInv'
      /\ report[t].pc = "fclose" /\ report[t].arg = Arg(t)
      /\ report'[t].pc = "forget" /\ report'[t].arg = Arg(t)
      /\ \A x \in Thread : section'[x] = section[x]
      /\ \A x \in Thread : x # t => report'[x] = report[x]
  BY CloseFileCore
<1>2. /\ UNCHANGED <<process, disposition, loads, child, linked>>
      /\ pipe' = pipe \o buffer /\ buffer' = << >> /\ file' = "freed"
  BY DEF CloseFile, history, registry
<1>3. stream' = stream /\ pipe' \in Seq(Item) /\ buffer' \in Seq(Item)
  BY <1>2, StreamFlushed DEF RestInv
<1>4. (Unforked' <=> Unforked) /\ Ended /\ Ended'
  BY <1>1, <1>2 DEF Unforked, Ended
<1>5. DataInv'
  BY <1>2, <1>3, DataKept DEF RestInv, DataInv
<1>6. BacktraceInv'
  <2>1. Backtraced => Backtraced'
    <3>1. buffer \in Seq(Item)
      BY DEF RestInv, DataInv
    <3> QED BY <1>2, <3>1, BacktraceStays DEF RestInv
  <2>2. \A x \in Thread : report[x].arg = "exit" => report'[x].arg = "exit"
    BY <1>1
  <2> QED BY <1>4, <2>1, <2>2, BacktraceKept DEF RestInv
<1>7. DeliveryInv'
  <2>1. \A u : (Linked(u)' <=> Linked(u)) /\ (OnItsWay(u)' <=> OnItsWay(u))
    BY <1>1, <1>2 DEF Linked, OnItsWay
  <2>2. \A u \in Unit : Owed(u)' = Owed(u)
    BY <2>1, OwedKept
  <2> QED BY <1>2, <1>3, <1>4, <2>2, DeliveryKept DEF RestInv
<1>8. GrammarInv'
  BY <1>1, <1>3, <1>4, GrammarKept DEF RestInv
<1> QED BY <1>1, <1>5, <1>6, <1>7, <1>8 DEF RestInv

LEMMA ForgetFileRest ==
    ASSUME CoreInv, RestInv, NEW t \in Thread, ForgetFile(t)
    PROVE  CoreInv' /\ RestInv'
<1>1. /\ CoreInv' /\ file = "freed"
      /\ report[t].pc = "forget" /\ report[t].arg = Arg(t)
      /\ report'[t].pc = "release" /\ report'[t].arg = Arg(t)
      /\ \A x \in Thread : section'[x] = section[x]
      /\ \A x \in Thread : x # t => report'[x] = report[x]
  BY ForgetFileCore
<1>2. /\ UNCHANGED <<process, disposition, buffer, pipe, loads, child, linked>>
      /\ file' = "null"
  BY DEF ForgetFile, history, registry
<1>3. Ended /\ Ended'
  BY <1>1, <1>2 DEF Ended
<1>4. disposition' \in [Signal -> {"handler", "prior"}]
  BY <1>2 DEF RestInv, DataInv
<1> QED BY <1>1, <1>2, <1>3, <1>4, ReportRest

LEMMA UnlockReportRest ==
    ASSUME CoreInv, RestInv, Locks, NEW t \in Thread, UnlockReport(t)
    PROVE  CoreInv' /\ RestInv'
<1>1. /\ CoreInv' /\ file = "null"
      /\ report[t].pc = "release" /\ report[t].arg = Arg(t)
      /\ report'[t].pc = "end" /\ report'[t].arg = Arg(t)
      /\ \A x \in Thread : section'[x] = section[x]
      /\ \A x \in Thread : x # t => report'[x] = report[x]
  BY UnlockReportCore
<1>2. UNCHANGED <<process, disposition, file, buffer, pipe, loads, child, linked>>
  BY DEF UnlockReport, history, registry, output
<1>3. Ended /\ Ended'
  BY <1>1, <1>2 DEF Ended
<1>4. disposition' \in [Signal -> {"handler", "prior"}]
  BY <1>2 DEF RestInv, DataInv
<1> QED BY <1>1, <1>2, <1>3, <1>4, ReportRest

LEMMA EndRest ==
    ASSUME CoreInv, RestInv, NEW t \in Thread, End(t)
    PROVE  CoreInv' /\ RestInv'
<1>1. /\ CoreInv' /\ file = "null" /\ report[t].pc = "end"
      /\ \A x \in Thread : section'[x] = section[x]
      /\ \A x \in Thread : report'[x].arg = report[x].arg
      /\ \A x \in Thread : report'[x] = report[x] \/ report'[x].pc = "reset"
      /\ process' \in {"running", "exited", "killed"}
  BY EndCore
<1>2. UNCHANGED <<disposition, file, buffer, pipe, loads, child, linked>>
  BY DEF End, history, registry, output
<1>3. Ended /\ Ended'
  BY <1>1, <1>2 DEF Ended
<1>4. disposition' \in [Signal -> {"handler", "prior"}]
  BY <1>2 DEF RestInv, DataInv
<1>5. \A x \in Thread : x # t => report'[x] = report[x]
  <2>1. Runs(t, "end") /\ StackInv /\ "end" \in ReportPcs /\ "reset" \in ReportPcs
    BY DEF End, CoreInv, ReportPcs
  <2>2. CASE Goto(t, "reset")
    BY <2>1, <2>2, GotoReportAt
  <2>3. CASE UNCHANGED stack
    BY <2>1, <2>3, Stays
  <2> QED BY <2>2, <2>3 DEF End
<1>6. report'[t].pc \in {"end", "reset"} /\ report'[t].arg = report[t].arg
  BY <1>1
<1> QED BY <1>1, <1>2, <1>3, <1>4, <1>5, <1>6, ReportRest

LEMMA LockReportRest ==
    ASSUME CoreInv, RestInv, Locks, NEW t \in Thread, LockReport(t)
    PROVE  CoreInv' /\ RestInv'
<1>1. /\ CoreInv'
      /\ \A x \in Thread : section'[x] = section[x]
      /\ report[t].pc = "lock" /\ report'[t].pc \in {"drain", "release"}
      /\ report'[t].arg = report[t].arg
      /\ \A x \in Thread : x # t => report'[x] = report[x]
  BY LockReportCore
<1>2. UNCHANGED <<process, disposition, file, buffer, pipe, loads, child, linked>>
  BY DEF LockReport, history, registry, output
<1>3. Ended' <=> Ended
  BY <1>1, <1>2 DEF Ended
<1>4. disposition' \in [Signal -> {"handler", "prior"}]
  BY <1>2 DEF RestInv, DataInv
<1> QED BY <1>1, <1>2, <1>3, <1>4, ReportRest

LEMMA RestorePriorRest ==
    ASSUME CoreInv, RestInv, NEW t \in Thread, RestorePrior(t)
    PROVE  CoreInv' /\ RestInv'
<1>1. /\ CoreInv'
      /\ \A x \in Thread : section'[x] = section[x]
      /\ report[t].pc = "reset" /\ report'[t].pc = "lock"
      /\ report'[t].arg = report[t].arg
      /\ \A x \in Thread : x # t => report'[x] = report[x]
  BY RestorePriorCore
<1>2. /\ UNCHANGED <<process, file, buffer, pipe, loads, child, linked>>
      /\ disposition' = [disposition EXCEPT ![Arg(t)] = "prior"]
  BY DEF RestorePrior, history, registry, output
<1>3. Ended' <=> Ended
  BY <1>1, <1>2 DEF Ended
<1>4. disposition' \in [Signal -> {"handler", "prior"}]
  BY <1>2 DEF RestInv, DataInv
<1> QED BY <1>1, <1>2, <1>3, <1>4, ReportRest

LEMMA UnregisterAllRest ==
    ASSUME CoreInv, RestInv, Locks, NEW t \in Thread, UnregisterAll(t)
    PROVE  CoreInv' /\ RestInv'
<1>1. CoreInv'
  BY UnregisterAllCore
<1>2. UNCHANGED <<process, disposition, file, buffer, pipe, loads, child, linked>>
  BY DEF UnregisterAll, history, registry, output
<1>3. /\ Runs(t, "drain") /\ Goto(t, "drained") /\ StackInv
      /\ "drain" \in ReportPcs /\ "drained" \in ReportPcs
  BY DEF UnregisterAll, CoreInv, ReportPcs, HeldPcs
<1>4. /\ report[t].pc = "drain" /\ report'[t].pc = "drained"
      /\ report'[t].arg = report[t].arg
      /\ \A x \in Thread : section'[x] = section[x]
      /\ \A x \in Thread : x # t => report'[x] = report[x]
  BY <1>3, GotoReportAt
<1>5. Ended' <=> Ended
  BY <1>2, <1>4 DEF Ended
<1>6. disposition' \in [Signal -> {"handler", "prior"}]
  BY <1>2 DEF RestInv, DataInv
<1> QED BY <1>1, <1>2, <1>4, <1>5, <1>6, ReportRest

LEMMA UnregisteredAllRest ==
    ASSUME CoreInv, RestInv, Locks, NEW t \in Thread, UnregisteredAll(t)
    PROVE  CoreInv' /\ RestInv'
<1>1. /\ CoreInv' /\ report[t].pc = "drained" /\ report'[t].pc = "/report"
      /\ report'[t].arg = report[t].arg
      /\ \A x \in Thread : section'[x] = section[x]
      /\ \A x \in Thread : x # t => report'[x] = report[x]
  BY UnregisteredAllCore
<1>2. UNCHANGED <<process, disposition, file, buffer, pipe, loads, child, linked>>
  BY DEF UnregisteredAll, history, registry, output
<1>3. Ended' <=> Ended
  BY <1>1, <1>2 DEF Ended
<1>4. disposition' \in [Signal -> {"handler", "prior"}]
  BY <1>2 DEF RestInv, DataInv
<1> QED BY <1>1, <1>2, <1>3, <1>4, ReportRest

LEMMA ExitRest ==
    ASSUME CoreInv, RestInv, Exit
    PROVE  CoreInv' /\ RestInv'
<1>1. /\ CoreInv'
      /\ \A x \in Thread : section'[x] = section[x]
      /\ report[Main] = NoFrame /\ report'[Main].pc = "lock"
      /\ \A x \in Thread : x # Main => report'[x] = report[x]
  BY ExitCore
<1>2. UNCHANGED <<process, disposition, file, buffer, pipe, loads, child, linked>>
  BY DEF Exit, history, registry, output
<1>3. report[Main].pc = "none" /\ report[Main].arg = "none"
  BY <1>1 DEF NoFrame
<1>4. Ended' <=> Ended
  BY <1>1, <1>2, <1>3 DEF Ended
<1>5. disposition' \in [Signal -> {"handler", "prior"}]
  BY <1>2 DEF RestInv, DataInv
<1>6. Main \in Thread
  BY ReportingAssumption
<1> QED BY <1>1, <1>2, <1>3, <1>4, <1>5, <1>6, ReportRest

LEMMA CrashRest ==
    ASSUME CoreInv, RestInv, ~Reentrant, NEW t \in Thread, NEW s \in Signal, Crash(t, s)
    PROVE  CoreInv' /\ RestInv'
<1>1. /\ CoreInv'
      /\ \A x \in Thread : section'[x] = section[x]
      /\ \/ /\ UNCHANGED process
            /\ report[t] = NoFrame /\ report'[t].pc = "reset"
            /\ \A x \in Thread : x # t => report'[x] = report[x]
         \/ /\ Recurring
            /\ \A x \in Thread : report'[x] = report[x]
      /\ process' \in {process, "killed"}
  BY CrashCore
<1>2. UNCHANGED <<disposition, file, buffer, pipe, loads, child, linked>>
  BY DEF Crash, history, registry, output
<1>3. disposition' \in [Signal -> {"handler", "prior"}]
  BY <1>2 DEF RestInv, DataInv
<1>4. CASE /\ report[t] = NoFrame /\ report'[t].pc = "reset"
           /\ \A x \in Thread : x # t => report'[x] = report[x]
  <2>1. report[t].pc = "none" /\ report[t].arg = "none"
    BY <1>4 DEF NoFrame
  <2>2. Ended' <=> Ended
    BY <1>2, <1>4, <2>1 DEF Ended
  <2> QED BY <1>1, <1>2, <1>3, <1>4, <2>1, <2>2, ReportRest
<1>5. CASE \A x \in Thread : report'[x] = report[x]
  <2>1. Ended' <=> Ended
    BY <1>2, <1>5 DEF Ended
  <2> QED BY <1>1, <1>2, <1>3, <1>5, <2>1, StillRest
<1> QED BY <1>1, <1>4, <1>5

LEMMA UnloadRest ==
    ASSUME CoreInv, RestInv, NEW t \in Thread, NEW u \in Unit, Unload(t, u)
    PROVE  CoreInv' /\ RestInv'
<1>1. /\ Push(t, "unlink", u) /\ stack[t] = << >>
      /\ UNCHANGED <<process, disposition, linked, file, buffer, pipe, loads, child>>
  BY DEF Unload, Idle, registry, output, history
<1> QED BY <1>1, UnloadCore, PushUnitRest

LEMMA UnregisterNextRest ==
    ASSUME CoreInv, RestInv, NEW t \in Thread, UnregisterNext(t)
    PROVE  CoreInv' /\ RestInv'
<1>1. /\ Runs(t, "drained") /\ linked # << >> /\ Push(t, "unlink", linked[1])
      /\ UNCHANGED <<process, disposition, linked, file, buffer, pipe, loads, child>>
  BY DEF UnregisterNext, registry, output, history
<1>2. linked[1] \in Unit
  BY <1>1 DEF CoreInv, RegistryInv
<1> QED BY <1>1, <1>2, UnregisterNextCore, PushUnitRest

\* A child inherits what is in the buffer ...
LEMMA ForkRest ==
    ASSUME CoreInv, RestInv, NEW t \in Thread, Fork(t)
    PROVE  CoreInv' /\ RestInv'
<1>1. UNCHANGED <<process, stack, disposition, locks, registry, file, buffer, pipe,
                  loaded, loads, linked>>
  BY DEF Fork, output, registry
<1>2. CoreInv'
  BY <1>1, UntouchedCore
<1>3. section' = section /\ report' = report
  BY <1>1, Stays DEF CoreInv
<1>4. /\ child' \in [state : {"none", "hung", "forked", "closed"}, copy : Seq(Item)]
      /\ ~Unforked'
  BY DEF Fork, RestInv, DataInv, Unforked
<1>5. DataInv'
  BY <1>1, <1>4 DEF RestInv, DataInv
<1>6. BacktraceInv'
  <2>1. (Ended' <=> Ended) /\ (Backtraced' <=> Backtraced)
    BY <1>1, <1>3 DEF Ended, Backtraced
  <2> QED BY <1>3, <2>1, BacktraceKept DEF RestInv
<1>7. DeliveryInv'
  <2>1. \A u : (Linked(u)' <=> Linked(u)) /\ (OnItsWay(u)' <=> OnItsWay(u))
    BY <1>1, <1>3 DEF Linked, OnItsWay
  <2>2. \A u \in Unit : Owed(u)' = Owed(u)
    BY <2>1, OwedKept
  <2>3. stream' = stream
    BY <1>1 DEF stream
  <2> QED BY <1>1, <1>4, <2>2, <2>3, DeliveryKept DEF RestInv
<1>8. GrammarInv'
  BY <1>4, Zenon DEF GrammarInv
<1> QED BY <1>2, <1>5, <1>6, <1>7, <1>8 DEF RestInv

\* ... and writes it out a second time.
LEMMA UninitializeReportRest ==
    ASSUME CoreInv, RestInv, UninitializeReport
    PROVE  CoreInv' /\ RestInv'
<1>1. /\ UNCHANGED <<process, stack, disposition, locks, registry, file, buffer,
                     loaded, loads, linked>>
      /\ pipe' = pipe \o child.copy
      /\ child' = [state |-> "closed", copy |-> << >>]
  BY DEF UninitializeReport, registry
<1>2. CoreInv'
  BY <1>1, UntouchedCore
<1>3. section' = section /\ report' = report
  BY <1>1, Stays DEF CoreInv
<1>4. /\ child' \in [state : {"none", "hung", "forked", "closed"}, copy : Seq(Item)]
      /\ ~Unforked'
  BY <1>1 DEF Unforked
<1>5. pipe \in Seq(Item) /\ buffer \in Seq(Item) /\ child.copy \in Seq(Item)
  BY DEF RestInv, DataInv
<1>6. pipe' \in Seq(Item)
  BY <1>1, <1>5, ConcatProperties
<1>7. DataInv'
  BY <1>1, <1>4, <1>6 DEF RestInv, DataInv
<1>8. BacktraceInv'
  <2>1. Ended' <=> Ended
    BY <1>1, <1>3 DEF Ended
  <2>2. Backtraced => Backtraced'
    BY <1>1, <1>5, BacktraceStays DEF RestInv
  <2> QED BY <1>3, <2>1, <2>2, BacktraceKept DEF RestInv
<1>9. DeliveryInv'
  <2>1. \A u : (Linked(u)' <=> Linked(u)) /\ (OnItsWay(u)' <=> OnItsWay(u))
    BY <1>1, <1>3 DEF Linked, OnItsWay
  <2>2. ASSUME NEW u \in Unit
        PROVE  loads'[u] <= Sections(u, stream') + Owed(u)'
    <3>1. Owed(u)' = Owed(u)
      BY <2>1, OwedKept
    <3>2. Owed(u) \in {0, 1}
      BY DEF Owed
    <3>3. loads[u] <= Sections(u, stream) + Owed(u) /\ loads[u] \in Nat
      BY ReportingAssumption DEF RestInv, DataInv, DeliveryInv
    <3>4. stream = pipe \o buffer /\ stream' = (pipe \o child.copy) \o buffer
      BY <1>1 DEF stream
    <3>5. Sections(u, stream) <= Sections(u, stream')
      BY <1>5, <3>4, SectionsInserted
    <3>6. stream \in Seq(Item) /\ stream' \in Seq(Item) /\ Tag("report") \in Item
      BY <1>1, <1>5, <1>6, <3>4, Items, ConcatProperties
    <3>7. Sections(u, stream) \in Nat /\ Sections(u, stream') \in Nat
      BY <3>6, SectionsAppend
    <3>8. loads'[u] = loads[u]
      BY <1>1
    <3> HIDE DEF Owed, Sections, stream
    <3> QED BY <3>1, <3>2, <3>3, <3>5, <3>7, <3>8
  <2> QED BY <1>4, <2>2 DEF DeliveryInv
<1>10. GrammarInv'
  BY <1>4, Zenon DEF GrammarInv
<1> QED BY <1>2, <1>7, <1>8, <1>9, <1>10 DEF RestInv

\* A stuttering step.
LEMMA StutterRest ==
    ASSUME CoreInv, RestInv, UNCHANGED vars
    PROVE  CoreInv' /\ RestInv'
<1>1. UNCHANGED <<process, stack, disposition, locks, registry, file, buffer, pipe,
                  loaded, loads, child, linked>>
  BY DEF vars, locks, registry
<1>2. CoreInv'
  BY <1>1, UntouchedCore
<1>3. section' = section /\ report' = report
  BY <1>1, Stays DEF CoreInv
<1>4. Ended' <=> Ended
  BY <1>1, <1>3 DEF Ended
<1>5. disposition' \in [Signal -> {"handler", "prior"}]
  BY <1>1 DEF RestInv, DataInv
<1>6. RestInv'
  BY <1>1, <1>3, <1>4, <1>5, StillRest
<1> QED BY <1>2, <1>6

-----------------------------------------------------------------------------
(* The invariant *)

\* What the theorems assume: the runtime is the one with threads, signals do
\* not strike its own code, and libraries are loaded before reporting begins.
Undisturbed == Locks /\ ~Reentrant /\ ~LateLoads

LEMMA NextInv ==
    ASSUME CoreInv, RestInv, Undisturbed, [Next]_vars
    PROVE  CoreInv' /\ RestInv'
<1>1. Locks /\ ~Reentrant /\ ~LateLoads
  BY DEF Undisturbed
<1>2. ASSUME NEW t \in Thread, Unregister(t)
      PROVE  CoreInv' /\ RestInv'
  <2>1. CASE Unlink(t)
    BY <1>1, <2>1, UnlinkCore, UnlinkRest
  <2>2. CASE CheckFile(t)
    BY <2>2, CheckFileCore, CheckFileRest
  <2>3. CASE BeginSamples(t)
    BY <2>3, BeginSamplesRest
  <2>4. CASE EndSamples(t)
    BY <2>4, EndSamplesRest
  <2>5. CASE CountDown(t)
    BY <2>5, CountDownCore, CountDownRest
  <2>6. CASE Unregistered(t)
    BY <1>1, <2>6, UnregisteredCore, UnregisteredRest
  <2> QED BY <1>2, <2>1, <2>2, <2>3, <2>4, <2>5, <2>6 DEF Unregister
<1>3. ASSUME NEW t \in Thread, Report(t)
      PROVE  CoreInv' /\ RestInv'
  <2>1. CASE RestorePrior(t)
    BY <2>1, RestorePriorRest
  <2>2. CASE LockReport(t)
    BY <1>1, <2>2, LockReportRest
  <2>3. CASE UnregisterAll(t)
    BY <1>1, <2>3, UnregisterAllRest
  <2>4. CASE UnregisterNext(t)
    BY <2>4, UnregisterNextRest
  <2>5. CASE UnregisteredAll(t)
    BY <1>1, <2>5, UnregisteredAllRest
  <2>6. CASE EndReport(t)
    BY <2>6, EndReportRest
  <2>7. CASE FlushReport(t)
    BY <2>7, FlushReportRest
  <2>8. CASE ReportDebugInfo(t)
    BY <2>8, ReportDebugInfoRest
  <2>9. CASE CloseFile(t)
    BY <2>9, CloseFileRest
  <2>10. CASE ForgetFile(t)
    BY <2>10, ForgetFileRest
  <2>11. CASE UnlockReport(t)
    BY <1>1, <2>11, UnlockReportRest
  <2>12. CASE End(t)
    BY <2>12, EndRest
  <2> QED BY <1>3, <2>1, <2>2, <2>3, <2>4, <2>5, <2>6, <2>7, <2>8, <2>9, <2>10, <2>11,
             <2>12 DEF Report
<1>4. ASSUME NEW t \in Thread, Fork(t)
      PROVE  CoreInv' /\ RestInv'
  BY <1>4, ForkRest
<1>5. ASSUME NEW t \in Thread, NEW u \in Unit, Register(t, u) \/ Unload(t, u)
      PROVE  CoreInv' /\ RestInv'
  <2>1. CASE Register(t, u)
    BY <1>1, <2>1, RegisterRest
  <2>2. CASE Unload(t, u)
    BY <2>2, UnloadRest
  <2> QED BY <1>5, <2>1, <2>2
<1>6. ASSUME NEW t \in Thread, NEW s \in Signal, Crash(t, s)
      PROVE  CoreInv' /\ RestInv'
  BY <1>1, <1>6, CrashRest
<1>7. CASE Exit
  BY <1>7, ExitRest
<1>8. CASE UninitializeReport
  BY <1>8, UninitializeReportRest
<1>9. CASE UNCHANGED vars
  BY <1>9, StutterRest
<1> QED BY <1>2, <1>3, <1>4, <1>5, <1>6, <1>7, <1>8, <1>9 DEF Next

\* What is in the pipe at the beginning.
Opening == <<Tag("report")>>

LEMMA InitStream ==
    /\ Opening \in Seq(Item) /\ Parsed(Opening) = Tag("in_samples")
    /\ \A u \in Unit : Sections(u, Opening) = 0
<1>1. Tag("report") \in Item /\ << >> \in Seq(Item)
  BY Items
<1> DEFINE none == << >>
<1>2. Opening = Append(none, Tag("report")) /\ none \in Seq(Item)
  BY DEF Opening
<1>3. Parsed(none) = Tag("start")
  <2> DEFINE f == CHOOSE h : Run(h, Len(none), none)
  <2>1. Len(none) = 0 /\ 0 \in Nat /\ 0 \in 0..0
    OBVIOUS
  <2> HIDE DEF none
  <2>2. Parsed(none) = f[Len(none)]
    BY Zenon DEF Parsed, Run
  <2>3. \E h : Run(h, Len(none), none)
    BY <2>1, RunExists
  <2>4. Run(f, Len(none), none)
    BY <2>3
  <2> HIDE DEF f
  <2>5. f[0] = Tag("start")
    BY <2>1, <2>4 DEF Run
  <2> QED BY <2>1, <2>2, <2>5
<1>4. Parsed(Opening) = Tag("in_samples")
  <2> HIDE DEF none
  <2>1. Parsed(Opening) = After(Parsed(none), Tag("report"))
    BY <1>1, <1>2, ParsedAppend
  <2> QED BY <1>3, <2>1, AfterSteps, Zenon
<1>5. ASSUME NEW u \in Unit PROVE Sections(u, Opening) = 0
  <2>1. {i \in DOMAIN Opening : Opening[i] = [tag |-> "/samples", unit |-> u]} = {}
    BY DEF Opening, Tag
  <2> QED BY <2>1, FS_EmptySet DEF Sections
<1>6. Opening \in Seq(Item)
  BY <1>1 DEF Opening
<1> QED BY <1>4, <1>5, <1>6, Zenon

LEMMA InitInv ==
    ASSUME Init
    PROVE  CoreInv /\ RestInv
<1>1. \A t \in Thread : section[t] = NoFrame /\ report[t] = NoFrame
  BY DEF Init, section, report
<1>2. \A t \in Thread : /\ section[t].pc = "none" /\ report[t].pc = "none"
                        /\ ~Unlinking(t) /\ Depth(t) = 0
  BY <1>1 DEF NoFrame, Unlinking, Depth, UnitPcs
<1>3. linked = << >> /\ \A u : ~Linked(u)
  BY DEF Init, Linked
<1>4. ~Drained /\ ~Ended
  BY <1>2 DEF Drained, Ended, Init
<1>5. StackInv
  BY DEF StackInv, Init
<1>6. LockInv
  <2>1. unitLock = [owner |-> Nobody, depth |-> 0] /\ reportLock = Nobody
    BY DEF Init
  <2>2. unitLock \in [owner : Thread \cup {Nobody}, depth : Nat]
    BY <2>1
  <2>3. \A t \in Thread : t # Nobody
    BY ReportingAssumption
  <2>4. "none" \notin HeldPcs
    BY DEF HeldPcs
  <2>5. \A t \in Thread : ~(Depth(t) > 0)
    BY <1>2
  <2>6. unitLock.owner = Nobody /\ unitLock.depth = 0
    BY <2>1
  <2> QED BY <1>2, <2>1, <2>2, <2>3, <2>4, <2>5, <2>6 DEF LockInv
<1>7. LinkerInv
  BY <1>1 DEF LinkerInv
<1>8. RegistryInv
  <2>1. linked \in Seq(Unit) /\ DOMAIN linked = {}
    BY <1>3
  <2> QED BY <1>1, <1>2, <1>3, <2>1 DEF RegistryInv, Init
<1>9. CountInv
  <2>1. unitCount = 0 /\ Len(linked) = 0
    BY <1>3 DEF Init
  <2> QED BY <1>2, <2>1 DEF CountInv, WritePcs
<1>10. FileInv
  <2>1. file = "open" /\ process = "running"
    BY DEF Init
  <2> QED BY <1>2, <1>4, <2>1 DEF FileInv, HeldPcs
<1>11. DataInv
  <2>1. pipe \in Seq(Item) /\ buffer \in Seq(Item)
    <3>1. pipe = Opening /\ buffer = << >>
      BY DEF Init, Opening
    <3>2. pipe \in Seq(Item)
      BY <3>1, InitStream, Zenon
    <3> QED BY <3>1, <3>2
  <2>2. loads \in [Unit -> 0..MaxLoads]
    BY ReportingAssumption DEF Init
  <2>3. child \in [state : {"none", "hung", "forked", "closed"}, copy : Seq(Item)]
    BY DEF Init
  <2> QED BY <2>1, <2>2, <2>3 DEF Init, DataInv
<1>12. stream = Opening
  BY DEF stream, Init, Opening
<1>13. BacktraceInv
  BY <1>4 DEF BacktraceInv
<1>14. DeliveryInv
  <2>1. ASSUME NEW u \in Unit PROVE Owed(u) = 0 /\ Sections(u, stream) = 0 /\ loads[u] = 0
    <3>1. ~OnItsWay(u)
      BY <1>2 DEF OnItsWay, WritePcs
    <3>2. Owed(u) = 0
      BY <1>3, <3>1 DEF Owed
    <3>3. Sections(u, stream) = 0
      BY <1>12, InitStream, Zenon
    <3>4. loads[u] = 0
      BY DEF Init
    <3> QED BY <3>2, <3>3, <3>4
  <2> QED BY <2>1 DEF DeliveryInv
<1>15. GrammarInv
  <2>1. Parsed(stream) = Tag("in_samples")
    BY <1>12, InitStream, Zenon
  <2>2. \A t \in Thread : /\ report[t].pc \notin {"flush", "backtrace"}
                          /\ section[t].pc # "/samples"
    BY <1>2
  <2> QED BY <1>4, <2>1, <2>2, Zenon DEF GrammarInv
<1> QED BY <1>5, <1>6, <1>7, <1>8, <1>9, <1>10, <1>11, <1>13, <1>14, <1>15 DEF CoreInv, RestInv

LEMMA Invariance ==
    ASSUME Undisturbed
    PROVE  Spec => [](CoreInv /\ RestInv)
<1>1. Init => CoreInv /\ RestInv
  BY InitInv
<1>2. CoreInv /\ RestInv /\ [Next]_vars => (CoreInv /\ RestInv)'
  BY NextInv
<1> QED BY <1>1, <1>2, PTL DEF Spec

-----------------------------------------------------------------------------
(* What the invariant implies *)

LEMMA FramesAre ==
    ASSUME StackInv, NEW t \in Thread, NEW i \in DOMAIN stack[t]
    PROVE  /\ stack[t][i] \in Frame
           /\ stack[t][i] \in {section[t], report[t]}
           /\ stack[t][i] # NoFrame
<1>1. ViewShape(t)
  BY ViewShapes
<1>2. UnitFrame \subseteq Frame /\ ReportFrame \subseteq Frame
      /\ \A f \in UnitFrame \cup ReportFrame : f # NoFrame
  BY FrameKinds
<1>3. CASE stack[t] = << >>
  BY <1>3
<1>4. CASE stack[t] = <<section[t]>> /\ section[t] \in UnitFrame
  <2>1. stack[t][i] = section[t]
    BY <1>4
  <2> QED BY <1>2, <1>4, <2>1
<1>5. CASE stack[t] = <<report[t]>> /\ report[t] \in ReportFrame
  <2>1. stack[t][i] = report[t]
    BY <1>5
  <2> QED BY <1>2, <1>5, <2>1
<1>6. CASE /\ stack[t] = <<section[t], report[t]>>
           /\ section[t] \in UnitFrame /\ report[t] \in ReportFrame
  <2>1. stack[t][i] \in {section[t], report[t]}
    BY <1>6
  <2> QED BY <1>2, <1>6, <2>1
<1> QED BY <1>1, <1>3, <1>4, <1>5, <1>6 DEF ViewShape

\* The other way round: a thread's frames are on its stack.
LEMMA FramesOnStack ==
    ASSUME StackInv, NEW t \in Thread
    PROVE  /\ section[t] # NoFrame => \E i \in DOMAIN stack[t] : stack[t][i] = section[t]
           /\ report[t] # NoFrame => \E i \in DOMAIN stack[t] : stack[t][i] = report[t]
<1>1. ViewShape(t)
  BY ViewShapes
<1>2. CASE stack[t] = <<section[t]>> /\ report[t] = NoFrame
  <2>1. 1 \in DOMAIN stack[t] /\ stack[t][1] = section[t]
    BY <1>2
  <2> QED BY <1>2, <2>1
<1>3. CASE stack[t] = <<report[t]>> /\ section[t] = NoFrame
  <2>1. 1 \in DOMAIN stack[t] /\ stack[t][1] = report[t]
    BY <1>3
  <2> QED BY <1>3, <2>1
<1>4. CASE stack[t] = <<section[t], report[t]>>
  <2>1. /\ 1 \in DOMAIN stack[t] /\ stack[t][1] = section[t]
        /\ 2 \in DOMAIN stack[t] /\ stack[t][2] = report[t]
    BY <1>4
  <2> QED BY <2>1
<1> QED BY <1>1, <1>2, <1>3, <1>4 DEF ViewShape

LEMMA InvTypes ==
    ASSUME CoreInv, RestInv
    PROVE  TypeOK
<1>1. \A t \in Thread : \A i \in DOMAIN stack[t] : stack[t][i] \in Frame
  BY FramesAre DEF CoreInv
<1>2. IsInjective(linked) /\ ToSet(linked) \cup loaded \subseteq Unit
  BY DEF CoreInv, RegistryInv, IsInjective, ToSet
<1>3. unitCount \in Nat
  <2>1. Len(linked) \in Nat
    BY LenProperties DEF CoreInv, RegistryInv
  <2>2. unitCount = Len(linked) \/ unitCount = Len(linked) + 1
    BY DEF CoreInv, CountInv
  <2> QED BY <2>1, <2>2
<1>4. ToSet(pipe \o buffer) \subseteq Item
  <2>1. pipe \o buffer \in Seq(Item)
    BY ConcatProperties DEF RestInv, DataInv
  <2>2. \A i \in DOMAIN (pipe \o buffer) : (pipe \o buffer)[i] \in Item
    <3> DEFINE s == pipe \o buffer
    <3> HIDE DEF s
    <3>1. s \in Seq(Item) => \A i \in DOMAIN s : s[i] \in Item
      OBVIOUS
    <3> QED BY <2>1, <3>1 DEF s
  <2> QED BY <2>2, Zenon DEF ToSet
<1>5. /\ reportLock \in Thread \cup {Nobody}
      /\ unitLock \in [owner : Thread \cup {Nobody}, depth : Nat]
      /\ file \in {"open", "freed", "null"}
  BY DEF CoreInv, LockInv, FileInv
<1>6. /\ process \in {"running", "exited", "killed"}
      /\ disposition \in [Signal -> {"handler", "prior"}]
      /\ loads \in [Unit -> 0..MaxLoads]
  BY DEF RestInv, DataInv
<1> QED BY <1>1, <1>2, <1>3, <1>4, <1>5, <1>6 DEF TypeOK

LEMMA InvMapped ==
    ASSUME CoreInv
    PROVE  UnitsAreMapped
<1>1. ToSet(linked) \subseteq loaded
  BY DEF CoreInv, RegistryInv, Linked, ToSet
<1>2. ASSUME NEW t \in Thread, NEW i \in DOMAIN stack[t], stack[t][i].arg \in Unit
      PROVE  stack[t][i].arg \in loaded
  <2>1. /\ stack[t][i] \in {section[t], report[t]}
        /\ stack[t][i] # NoFrame
    BY FramesAre DEF CoreInv
  <2>2. report[t] # NoFrame => report[t].arg \notin Unit
    <3>1. ViewShape(t)
      BY ViewShapes DEF CoreInv
    <3> QED BY <3>1, FrameKinds DEF ViewShape
  <2>3. section[t] # NoFrame => section[t].arg \in loaded
    BY DEF CoreInv, RegistryInv
  <2> QED BY <1>2, <2>1, <2>2, <2>3
<1> QED BY <1>1, <1>2 DEF UnitsAreMapped

LEMMA InvCount ==
    ASSUME CoreInv
    PROVE  UnitCountExact
<1> DEFINE W == {t \in Thread : \E i \in DOMAIN stack[t] :
                    stack[t][i].pc \in {"check", "samples", "/samples", "count"}}
<1>1. W = {t \in Thread : section[t].pc \in WritePcs}
  <2>1. ASSUME NEW t \in Thread, NEW i \in DOMAIN stack[t],
               stack[t][i].pc \in {"check", "samples", "/samples", "count"}
        PROVE  section[t].pc \in WritePcs
    <3>1. stack[t][i] \in {section[t], report[t]}
      BY FramesAre DEF CoreInv
    <3>2. report[t].pc \notin WritePcs
      <4>1. report[t].pc \in ReportPcs \cup {"none"}
        BY Pcs DEF CoreInv
      <4> QED BY <4>1 DEF ReportPcs, HeldPcs, WritePcs
    <3> QED BY <2>1, <3>1, <3>2 DEF WritePcs
  <2>2. ASSUME NEW t \in Thread, section[t].pc \in WritePcs
        PROVE  \E i \in DOMAIN stack[t] :
                  stack[t][i].pc \in {"check", "samples", "/samples", "count"}
    <3>1. section[t] # NoFrame
      BY <2>2 DEF NoFrame, WritePcs
    <3>2. PICK i \in DOMAIN stack[t] : stack[t][i] = section[t]
      BY <3>1, FramesOnStack DEF CoreInv
    <3> QED BY <2>2, <3>2 DEF WritePcs
  <2> QED BY <2>1, <2>2
<1> HIDE DEF W
<1>2. Len(linked) \in Nat
  BY LenProperties DEF CoreInv, RegistryInv
<1>3. CASE \A t \in Thread : section[t].pc \notin WritePcs
  <2>1. W = {}
    BY <1>1, <1>3
  <2>2. Cardinality(W) = 0
    BY <2>1, FS_EmptySet
  <2>3. unitCount = Len(linked)
    BY <1>3 DEF CoreInv, CountInv
  <2>4. unitCount = Len(linked) + Cardinality(W)
    BY <1>2, <2>2, <2>3
  <2> QED BY <2>4 DEF UnitCountExact, W
<1>4. ASSUME NEW t \in Thread, section[t].pc \in WritePcs
      PROVE  UnitCountExact
  <2>1. \A x \in Thread : x # t => section[x].pc \notin WritePcs
    BY <1>4, WritingAlone
  <2>2. W = {t}
    BY <1>1, <1>4, <2>1
  <2>3. Cardinality(W) = 1
    BY <2>2, FS_Singleton
  <2>4. unitCount = Len(linked) + 1
    BY <1>4 DEF CoreInv, CountInv
  <2>5. unitCount = Len(linked) + Cardinality(W)
    BY <2>3, <2>4
  <2> QED BY <2>5 DEF UnitCountExact, W
<1> QED BY <1>3, <1>4

LEMMA NotMalformed ==
    ASSUME NEW s,
           \/ s = Tag("in_samples") \/ s = Tag("complete") \/ s = Tag("final")
           \/ \E u \in Unit : s = [tag |-> "samples", unit |-> u]
    PROVE  s.tag # "malformed"
<1>1. \A tag : Tag(tag).tag = tag
  BY DEF Tag
<1>2. CASE s = Tag("in_samples")
  BY <1>1, <1>2
<1>3. CASE s = Tag("complete")
  BY <1>1, <1>3
<1>4. CASE s = Tag("final")
  BY <1>1, <1>4
<1>5. ASSUME NEW u \in Unit, s = [tag |-> "samples", unit |-> u]
      PROVE  s.tag # "malformed"
  BY <1>5
<1> QED BY <1>2, <1>3, <1>4, <1>5, Zenon

LEMMA InvWellFormed ==
    ASSUME StackInv, RestInv
    PROVE  ReportWellFormed
<1> SUFFICES ASSUME Unforked PROVE Parsed(stream).tag # "malformed"
  BY DEF ReportWellFormed, stream
<1>1. GrammarInv /\ Unforked
  BY DEF RestInv
<1>2. CASE Ended
  <2>1. Parsed(stream) = Tag("complete") \/ Parsed(stream) = Tag("final")
    BY <1>1, <1>2, Zenon DEF GrammarInv
  <2> QED BY <2>1, NotMalformed, Zenon
<1>3. ASSUME NEW t \in Thread, report[t].pc \in {"flush", "backtrace"}
      PROVE  Parsed(stream).tag # "malformed"
  <2>1. Parsed(stream) = Tag("complete")
    BY <1>1, <1>3, Zenon DEF GrammarInv
  <2> QED BY <2>1, NotMalformed, Zenon
<1>4. ASSUME NEW t \in Thread, section[t].pc = "/samples"
      PROVE  Parsed(stream).tag # "malformed"
  <2>1. Parsed(stream) = [tag |-> "samples", unit |-> section[t].arg]
    BY <1>1, <1>4, Zenon DEF GrammarInv
  <2>2. section[t].arg \in Unit
    BY <1>4, Pcs DEF UnitPcs
  <2> QED BY <2>1, <2>2, NotMalformed, Zenon
<1>5. CASE Parsed(stream) = Tag("in_samples")
  BY <1>5, NotMalformed, Zenon
<1> QED BY <1>1, <1>2, <1>3, <1>4, <1>5, Zenon DEF GrammarInv

\* When the process is gone the stream is closed, and nothing is left to write.
LEMMA WhenGone ==
    ASSUME CoreInv, RestInv, ~Recurring, process # "running"
    PROVE  /\ Ended /\ stream = pipe
           /\ \A u \in Unit : Owed(u) = 0 /\ Sections(u, pipe) \in Nat
<1>1. file = "null"
  BY DEF CoreInv, FileInv
<1>2. Ended /\ Drained
  BY <1>1 DEF Ended, Drained
<1>3. buffer = << >> /\ linked = << >> /\ \A t \in Thread : section[t].pc \notin WritePcs
  BY <1>1, <1>2 DEF CoreInv, FileInv
<1>4. pipe \in Seq(Item)
  BY DEF RestInv, DataInv
<1>5. stream = pipe
  BY <1>3, <1>4, ConcatEmptySeq DEF stream
<1>6. ASSUME NEW u \in Unit
      PROVE  Owed(u) = 0 /\ Sections(u, pipe) \in Nat
  <2>1. ~Linked(u) /\ ~OnItsWay(u)
    BY <1>3 DEF Linked, OnItsWay, WritePcs
  <2>2. Tag("report") \in Item
    BY Items
  <2>3. Sections(u, pipe) \in Nat
    BY <1>4, <2>2, SectionsAppend
  <2> QED BY <2>1, <2>3 DEF Owed
<1> QED BY <1>2, <1>5, <1>6

LEMMA InvComplete ==
    ASSUME CoreInv, RestInv, ~Recurring
    PROVE  ReportIsComplete
<1> SUFFICES ASSUME process # "running", Unforked
             PROVE  /\ Parsed(pipe).tag \in {"complete", "final"}
                    /\ \A u \in Unit : Sections(u, pipe) = loads[u]
  BY Zenon DEF ReportIsComplete
<1>1. /\ Ended /\ stream = pipe
      /\ \A u \in Unit : Owed(u) = 0 /\ Sections(u, pipe) \in Nat
  BY WhenGone
<1>2. Parsed(pipe).tag \in {"complete", "final"}
  <2>1. Parsed(pipe) \in {Tag("complete"), Tag("final")}
    BY <1>1, Zenon DEF RestInv, GrammarInv
  <2>2. Tag("complete").tag = "complete" /\ Tag("final").tag = "final"
    BY DEF Tag
  <2> QED BY <2>1, <2>2
<1>3. ASSUME NEW u \in Unit
      PROVE  Sections(u, pipe) = loads[u]
  <2>1. loads[u] = Sections(u, pipe) + Owed(u)
    BY <1>1, Zenon DEF RestInv, DeliveryInv
  <2> QED BY <1>1, <2>1
<1> QED BY <1>2, <1>3

LEMMA InvDelivered ==
    ASSUME CoreInv, RestInv, ~Recurring
    PROVE  EveryLoadDelivered
<1> SUFFICES ASSUME process # "running", NEW u \in Unit
             PROVE  Sections(u, pipe) >= loads[u]
  BY Zenon DEF EveryLoadDelivered
<1>1. stream = pipe /\ Owed(u) = 0 /\ Sections(u, pipe) \in Nat
  BY WhenGone
<1>2. loads[u] <= Sections(u, pipe) + Owed(u)
  BY <1>1, Zenon DEF RestInv, DeliveryInv
<1>3. loads[u] \in Nat
  BY ReportingAssumption DEF RestInv, DataInv
<1> QED BY <1>1, <1>2, <1>3

LEMMA InvBacktrace ==
    ASSUME CoreInv, RestInv, ~Recurring
    PROVE  CrashLeavesBacktrace
<1> SUFFICES ASSUME process = "killed", \A t \in Thread : ~Busy(t, "exit")
             PROVE  Tag("backtrace") \in ToSet(pipe)
  BY DEF CrashLeavesBacktrace
<1>1. Ended
  BY WhenGone
<1>2. ASSUME NEW t \in Thread, report[t].arg = "exit"
      PROVE  FALSE
  <2>1. report[t] # NoFrame
    BY <1>2 DEF NoFrame
  <2>2. PICK i \in DOMAIN stack[t] : stack[t][i] = report[t]
    BY <2>1, FramesOnStack DEF CoreInv
  <2> QED BY <1>2, <2>2 DEF Busy
<1>3. Backtraced
  BY <1>1, <1>2 DEF RestInv, BacktraceInv
<1> QED BY <1>3 DEF Backtraced, ToSet

-----------------------------------------------------------------------------
(* Theorems *)

\* Whatever threads load, unload, exit and crash at the same time, the registry
\* of units holds each unit at most once, points to units that are mapped, and
\* unitCount is their number and that of those being written.
THEOREM Exactness ==
    ASSUME Undisturbed
    PROVE  Spec => []RegistryIsExact
<1>1. CoreInv /\ RestInv => RegistryIsExact
  BY InvTypes, InvMapped, InvCount DEF RegistryIsExact
<1> QED BY <1>1, Invariance, PTL

\* Until the process forks, what is written is a prefix of a well-formed report,
\* however sections, end tags and backtraces are interleaved.
THEOREM Grammar ==
    ASSUME Undisturbed
    PROVE  Spec => []ReportWellFormed
<1>1. CoreInv /\ RestInv => ReportWellFormed
  BY InvWellFormed DEF CoreInv
<1> QED BY <1>1, Invariance, PTL

\* When a process that did not fork is gone, exited or killed by a signal that
\* had not struck before, its report has been ended, with one section for each
\* load of each unit.
THEOREM Completeness ==
    ASSUME Undisturbed, ~Recurring
    PROVE  Spec => []ReportIsComplete
<1>1. CoreInv /\ RestInv => ReportIsComplete
  BY InvComplete
<1> QED BY <1>1, Invariance, PTL

\* ... and whatever it forked, no load of a unit is missing.
THEOREM Delivery ==
    ASSUME Undisturbed, ~Recurring
    PROVE  Spec => []EveryLoadDelivered
<1>1. CoreInv /\ RestInv => EveryLoadDelivered
  BY InvDelivered
<1> QED BY <1>1, Invariance, PTL

\* A process killed by a signal has left a backtrace in the pipe, unless it was
\* exiting already.
THEOREM Backtrace ==
    ASSUME Undisturbed, ~Recurring
    PROVE  Spec => []CrashLeavesBacktrace
<1>1. CoreInv /\ RestInv => CrashLeavesBacktrace
  BY InvBacktrace
<1> QED BY <1>1, Invariance, PTL

\* The children are the only cause of duplicates: without fork() no load is
\* reported twice, at any time.
THEOREM OnceUnlessForked ==
    ASSUME Undisturbed, ~Forks
    PROVE  Spec => []EachLoadReportedOnce
<1>1. Init => Unforked
  BY DEF Init, Unforked
<1>2. Unforked /\ [Next]_vars => Unforked'
  <2> SUFFICES ASSUME Unforked, [Next]_vars PROVE Unforked'
    OBVIOUS
  <2>1. CASE UNCHANGED child
    BY <2>1 DEF Unforked
  <2>2. ASSUME ~UNCHANGED child PROVE FALSE
    <3>1. \A t \in Thread : ~Unregister(t)
      BY <2>2 DEF Unregister, Unlink, CheckFile, BeginSamples, EndSamples, CountDown,
                  Unregistered, history
    <3>2. \A t \in Thread : ~Report(t)
      BY <2>2 DEF Report, RestorePrior, LockReport, UnregisterAll, UnregisterNext,
                  UnregisteredAll, EndReport, FlushReport, ReportDebugInfo, CloseFile,
                  ForgetFile, UnlockReport, End, history
    <3>3. \A t \in Thread, u \in Unit : ~Register(t, u) /\ ~Unload(t, u)
      BY <2>2 DEF Register, Unload, history
    <3>4. \A t \in Thread, s \in Signal : ~Crash(t, s)
      BY <2>2 DEF Crash, history
    <3>5. ~Exit /\ ~UninitializeReport /\ (\A t \in Thread : ~Fork(t)) /\ ~UNCHANGED vars
      BY <2>2 DEF Exit, UninitializeReport, Unforked, Fork, vars, history
    <3> QED BY <3>1, <3>2, <3>3, <3>4, <3>5 DEF Next
  <2> QED BY <2>1, <2>2
<1>3. CoreInv /\ RestInv /\ Unforked => EachLoadReportedOnce
  <2> SUFFICES ASSUME RestInv, Unforked, NEW u \in Unit
               PROVE  Sections(u, stream) <= loads[u]
    BY DEF EachLoadReportedOnce, stream
  <2>1. loads[u] = Sections(u, stream) + Owed(u)
    BY Zenon DEF RestInv, DeliveryInv
  <2>2. stream \in Seq(Item) /\ Tag("report") \in Item
    BY ConcatProperties, Items DEF RestInv, DataInv, stream
  <2>3. Sections(u, stream) \in Nat
    BY <2>2, SectionsAppend
  <2>4. Owed(u) \in {0, 1}
    BY DEF Owed
  <2> QED BY <2>1, <2>3, <2>4
<1> QED BY <1>1, <1>2, <1>3, Invariance, PTL DEF Spec
=============================================================================
