-------------------------- MODULE ReportPipeProofs --------------------------
(***************************************************************************)
(* The safety properties of the report pipe, for any number of children,   *)
(* any capacity of the pipe and any length of the report.  One invariant   *)
(* carries all of them: whoever may still have to write holds the write    *)
(* end, what is in the pipe is the end of what was sent, and the reader's  *)
(* state is a function of how far it has read.                             *)
(***************************************************************************)
EXTENDS ReportPipe, SequenceTheorems, WellFoundedInduction, TLAPS

\* The start tag of the samples is written once, by openReportFile: what a
\* process has still to write never holds it.
TypesInv ==
    /\ TypeOK
    /\ sent \in Seq(Tokens)
    /\ \A p \in Procs : todo[p] \in Seq(Tokens \ {"samples"})

\* How much the wrapper has taken out of the pipe, and that the rest is there.
Taken == Len(sent) - Len(pipe)

PipeInv ==
    /\ Len(pipe) <= Len(sent)
    /\ \A i \in 1..Len(pipe) : pipe[i] = sent[Taken + i]

\* Which descriptors a process inherits, and which it loses by exec.
DescriptorsInv ==
    /\ wrapper \in {"pipe", "spawn"} => cloexec["wrapper"] = {} /\ app = "none"
    /\ wrapper \in {"spawn", "close"} => ends["wrapper"] = {"read", "write"}
    /\ \A p \in Procs \ {"wrapper"} : "read" \notin cloexec[p]
    /\ WritersAlsoRead

\* Whoever is in the runtime can write, and nobody else has anything to write.
WritersInv ==
    /\ app \in {"starting", "running", "finishing"} => "write" \in ends["app"]
    /\ \A k \in Kids : kid[k] \in {"forked", "hung", "inner", "finishing"}
           => "write" \in ends[k]
    /\ todo["wrapper"] = <<>>
    /\ app # "finishing" => todo["app"] = <<>>
    /\ \A k \in Kids : kid[k] # "finishing" => todo[k] = <<>>

\* Nothing is written before the start tag, which is the first and the only
\* one of its kind.
StartInv ==
    /\ app \in {"none", "starting"} => sent = <<>>
    /\ sent = <<>> => /\ app \in {"none", "starting", "ended"}
                      /\ \A k \in Kids : kid[k] = "none"
    /\ sent # <<>> => sent[1] = "samples"
    /\ \A i \in 2..Len(sent) : sent[i] # "samples"

\* After the end of file there is nothing left, and nobody to write more.
EndInv == wrapper \in {"reap", "done"} => pipe = <<>> /\ Writers = {}

\* f is the first end tag.
FirstEnd(f) == sent[f] = "end" /\ \A i \in 1 .. f - 1 : sent[i] # "end"

\* What ReportsReader has of the samples, by how far it has come.
ReaderInv ==
    /\ Taken = 0 => inside = "none" /\ reports["samples"] = <<>>
    /\ Taken > 0 /\ (\A i \in 1..Taken : sent[i] # "end")
           => inside = "samples" /\ reports["samples"] = SubSeq(sent, 2, Taken)
    /\ \A f \in 1..Taken : FirstEnd(f)
           => inside # "samples" /\ reports["samples"] = SubSeq(sent, 2, f - 1)

IInv ==
    /\ TypesInv /\ PipeInv /\ DescriptorsInv /\ WritersInv
    /\ StartInv /\ EndInv /\ ReaderInv

-----------------------------------------------------------------------------
(* Sequences *)

LEMMA BoundedSeqIsSeq ==
    ASSUME NEW S, NEW n \in Nat, NEW s
    PROVE  s \in BoundedSeq(S, n) <=> s \in Seq(S) /\ Len(s) <= n
<1>1. ASSUME s \in BoundedSeq(S, n) PROVE s \in Seq(S) /\ Len(s) <= n
  <2> PICK m \in 0..n : s \in [1..m -> S]
    BY <1>1 DEF BoundedSeq, SeqOf
  <2> QED OBVIOUS
<1>2. ASSUME s \in Seq(S), Len(s) <= n PROVE s \in BoundedSeq(S, n)
  <2>1. Len(s) \in 0..n /\ s \in [1..Len(s) -> S]
    BY <1>2, LenProperties
  <2> QED BY <2>1 DEF BoundedSeq, SeqOf
<1> QED BY <1>1, <1>2

\* What the process that reports has to write after the start tag.
LEMMA RestOfReport ==
    ASSUME NEW early \in BOOLEAN, NEW crash \in BOOLEAN
    PROVE  (IF early THEN <<"data">> ELSE <<>>) \o Tail(Samples)
               \o (IF crash THEN Backtrace ELSE <<>>) \in Seq(Tokens \ {"samples"})
<1> DEFINE T == Tokens \ {"samples"}
           D == [k \in 1..Sections |-> "data"]
<1>1. "data" \in T /\ "end" \in T /\ "main-backtrace" \in T /\ "samples" \in Tokens
      /\ \A x \in Tokens : x # "samples" => x \in T
  BY DEF Tokens, Names
<1>2. D \in Seq(Tokens) /\ Len(D) = Sections /\ Sections \in Nat
      /\ \A i \in 1..Sections : D[i] = "data"
  BY <1>1, ReportPipeAssumption
<1>3. \A x \in Tokens : <<x>> \in Seq(Tokens) /\ Len(<<x>>) = 1 /\ <<x>>[1] = x
  OBVIOUS
<1>4. /\ <<"samples">> \o D \in Seq(Tokens)
      /\ Len(<<"samples">> \o D) = Sections + 1
      /\ \A i \in 1 .. Sections + 1 :
            (<<"samples">> \o D)[i] = IF i <= 1 THEN "samples" ELSE D[i - 1]
  <2>1. <<"samples">> \in Seq(Tokens) /\ Len(<<"samples">>) = 1
        /\ <<"samples">>[1] = "samples"
    BY <1>1
  <2> DEFINE A == <<"samples">>
  <2> HIDE DEF A, D
  <2>2. /\ A \o D \in Seq(Tokens) /\ Len(A \o D) = Len(A) + Len(D)
        /\ \A i \in 1 .. Len(A) + Len(D) :
              (A \o D)[i] = IF i <= Len(A) THEN A[i] ELSE D[i - Len(A)]
    BY <1>2, <2>1, ConcatProperties DEF A
  <2>3. Len(A) = 1 /\ A[1] = "samples" /\ A = <<"samples">>
    BY <2>1 DEF A
  <2>4. \A i \in 1 .. Sections + 1 :
            (A \o D)[i] = IF i <= 1 THEN "samples" ELSE D[i - 1]
    BY <1>2, <2>2, <2>3
  <2> QED BY <1>2, <2>2, <2>3, <2>4 DEF A
<1>5. /\ Samples \in Seq(Tokens) /\ Len(Samples) = Sections + 2
      /\ \A i \in 1 .. Sections + 2 :
            Samples[i] = IF i <= Sections + 1 THEN (<<"samples">> \o D)[i] ELSE "end"
  <2> DEFINE A == <<"samples">> \o D
  <2>1. Samples = A \o <<"end">>
    BY DEF Samples
  <2> HIDE DEF A
  <2>2. A \in Seq(Tokens) /\ Len(A) = Sections + 1
    BY <1>4 DEF A
  <2> QED BY <1>1, <1>2, <2>1, <2>2, <1>3, ConcatProperties DEF A
<1>6. \A i \in 2 .. Sections + 2 : Samples[i] \in T
  <2> HIDE DEF D, T
  <2> SUFFICES ASSUME NEW i \in 2 .. Sections + 2 PROVE Samples[i] \in T
    OBVIOUS
  <2>1. CASE i <= Sections + 1
    BY <1>1, <1>2, <1>4, <1>5, <2>1
  <2>2. CASE i = Sections + 2
    BY <1>1, <1>2, <1>5, <2>2
  <2> QED BY <1>2, <2>1, <2>2
<1>7. Tail(Samples) \in Seq(T)
  <2>1. Samples # <<>>
    BY <1>2, <1>5
  <2>2. Tail(Samples) = SubSeq(Samples, 2, Len(Samples))
    BY <1>5, <2>1, TailIsSubSeq
  <2>3. Len(Samples) = Sections + 2 /\ Sections + 2 \in Int /\ 2 \in Int
    BY <1>2, <1>5
  <2> HIDE DEF T, D
  <2>4. SubSeq(Samples, 2, Sections + 2) \in Seq(T)
    BY <1>6, <2>3, SubSeqProperties
  <2> QED BY <2>2, <2>3, <2>4
<1>8. Backtrace \in Seq(T) /\ <<"data">> \in Seq(T) /\ <<>> \in Seq(T)
  BY <1>1 DEF Backtrace
<1> HIDE DEF T
<1> QED BY <1>7, <1>8, ConcatProperties DEF T

-----------------------------------------------------------------------------
(* Types *)

\* What a step does to the pipe: nothing, one more token at its end, which is
\* the start tag only for openReportFile, or the wrapper takes the next one.
Quiet == UNCHANGED <<pipe, sent, readerVars>>
Writes(t) == WriteToken(t) /\ UNCHANGED readerVars

LEMMA WriteTypes ==
    ASSUME TypesInv, NEW t \in Tokens, WriteToken(t)
    PROVE  /\ pipe' \in BoundedSeq(Tokens, Capacity)
           /\ sent' \in Seq(Tokens)
<1> USE ReportPipeAssumption
<1>1. pipe \in Seq(Tokens) /\ Len(pipe) < Capacity
  BY BoundedSeqIsSeq DEF TypesInv, TypeOK, WriteToken
<1>2. Append(pipe, t) \in Seq(Tokens) /\ Len(Append(pipe, t)) <= Capacity
  BY <1>1, AppendProperties
<1> QED BY <1>2, BoundedSeqIsSeq, AppendProperties DEF TypesInv, WriteToken

\* A process with something to write takes it off what it has to write.
LEMMA WriteTakes ==
    ASSUME TypesInv, NEW p \in Procs, Write(p)
    PROVE  /\ Head(todo[p]) \in Tokens \ {"samples"}
           /\ Tail(todo[p]) \in Seq(Tokens \ {"samples"})
           /\ Tail(todo[p]) \in Seq(Tokens)
<1>1. todo[p] \in Seq(Tokens \ {"samples"}) /\ todo[p] # <<>>
  BY DEF TypesInv, Write
<1> QED BY <1>1, HeadTailProperties, SeqMonotonic

\* Who finalizes has the rest of the report to write.
LEMMA FinalizesTypes ==
    ASSUME TypesInv, NEW p \in Procs, Finalizes(p)
    PROVE  /\ \A q \in Procs : /\ todo'[q] \in Seq(Tokens \ {"samples"})
                               /\ q # p => todo'[q] = todo[q]
           /\ todo' \in [Procs -> Seq(Tokens)]
           /\ buffer' \in [Procs -> BOOLEAN]
<1>1. PICK crash \in BOOLEAN :
         todo' = [todo EXCEPT ![p] =
                    (IF buffer[p] THEN <<"data">> ELSE <<>>)
                    \o Tail(Samples) \o (IF crash THEN Backtrace ELSE <<>>)]
  BY DEF Finalizes
<1> DEFINE rest == (IF buffer[p] THEN <<"data">> ELSE <<>>)
                   \o Tail(Samples) \o (IF crash THEN Backtrace ELSE <<>>)
<1>2. buffer[p] \in BOOLEAN
  BY DEF TypesInv, TypeOK
<1>3. rest \in Seq(Tokens \ {"samples"})
  BY <1>2, RestOfReport
<1>4. todo' = [todo EXCEPT ![p] = rest]
  BY <1>1
<1> HIDE DEF rest
<1>5. \A q \in Procs : todo'[q] = IF q = p THEN rest ELSE todo[q]
  BY <1>4 DEF TypesInv, TypeOK
<1>6. \A q \in Procs : todo'[q] \in Seq(Tokens \ {"samples"})
  BY <1>3, <1>5 DEF TypesInv
<1>7. Tokens \ {"samples"} \subseteq Tokens
  OBVIOUS
<1>8. \A q \in Procs : todo'[q] \in Seq(Tokens)
  BY <1>6, <1>7, SeqMonotonic
<1>9. todo' \in [Procs -> Seq(Tokens)]
  BY <1>4, <1>8 DEF TypesInv, TypeOK
<1> QED BY <1>5, <1>6, <1>9 DEF Finalizes, TypesInv, TypeOK

LEMMA KidsAreProcs ==
    /\ Kids \subseteq Procs /\ "app" \in Procs /\ "wrapper" \in Procs
    /\ "app" \notin Kids /\ "wrapper" \notin Kids
BY ReportPipeAssumption DEF Procs

LEMMA TypesStep == TypesInv /\ [Next]_vars => TypesInv'
<1> SUFFICES ASSUME TypesInv, [Next]_vars PROVE TypesInv'
  OBVIOUS
<1> USE KidsAreProcs DEF appVars, readerVars, AppOnly, WrapperOnly, KidOnly
<1> DEFINE S == Tokens \ {"samples"}
<1>1. CASE MakePipe
  BY <1>1 DEF MakePipe, Keeps, TypesInv, TypeOK
<1>2. CASE spawn
  BY <1>2 DEF spawn, Keeps, TypesInv, TypeOK
<1>3. CASE CloseWriteEnd
  BY <1>3 DEF CloseWriteEnd, Keeps, TypesInv, TypeOK
<1>4. CASE MarkReadEnd
  BY <1>4 DEF MarkReadEnd, TypesInv, TypeOK
<1>5. CASE ReadLine
  <2>1. pipe \in Seq(Tokens) /\ Len(pipe) <= Capacity /\ pipe # <<>>
    BY <1>5, BoundedSeqIsSeq, ReportPipeAssumption DEF ReadLine, TypesInv, TypeOK
  <2>2. Head(pipe) \in Tokens /\ Tail(pipe) \in Seq(Tokens) /\ Len(Tail(pipe)) <= Capacity
    BY <2>1, HeadTailProperties, LenProperties, ReportPipeAssumption
  <2>3. pipe' \in BoundedSeq(Tokens, Capacity)
    BY <1>5, <2>2, BoundedSeqIsSeq, ReportPipeAssumption DEF ReadLine
  <2>4. inside' \in Names \cup {"none"} /\ reports' \in [Names -> Seq(Tokens)]
    <3>1. inside \in Names \cup {"none"} /\ reports \in [Names -> Seq(Tokens)]
          /\ Sort(Head(pipe))
      BY <1>5 DEF ReadLine, TypesInv, TypeOK
    <3>2. \A r \in Names : Append(reports[r], Head(pipe)) \in Seq(Tokens)
      BY <2>2, <3>1, AppendProperties
    <3> QED BY <3>1, <3>2 DEF Sort
  <2> QED BY <1>5, <2>3, <2>4 DEF ReadLine, TypesInv, TypeOK
<1>6. CASE EndOfFile
  BY <1>6 DEF EndOfFile, Ends, Keeps, TypesInv, TypeOK
<1>7. CASE Reap
  BY <1>7 DEF Reap, TypesInv, TypeOK
<1>8. CASE WrapperDies
  BY <1>8 DEF WrapperDies, Ends, Keeps, TypesInv, TypeOK
<1>9. CASE openReportFile
  <2>1. "samples" \in Tokens
    BY DEF Tokens, Names
  <2>2. pipe' \in BoundedSeq(Tokens, Capacity) /\ sent' \in Seq(Tokens)
    BY <1>9, <2>1, WriteTypes DEF openReportFile
  <2> QED BY <1>9, <2>2 DEF openReportFile, TypesInv, TypeOK
<1>10. CASE UnregisterUnit
  BY <1>10 DEF UnregisterUnit, TypesInv, TypeOK
<1>11. CASE Finalize
  BY <1>11, FinalizesTypes DEF Finalize, Finalizes, TypesInv, TypeOK
<1>12. ASSUME AppEnds PROVE TypesInv'
  BY <1>12, EmptySeq DEF AppEnds, Ends, Keeps, TypesInv, TypeOK
<1>13. CASE Exec
  BY <1>13 DEF Exec, Keeps, TypesInv, TypeOK
<1>14. ASSUME NEW p \in Procs, Write(p) PROVE TypesInv'
  <2>1. pipe' \in BoundedSeq(Tokens, Capacity) /\ sent' \in Seq(Tokens)
    BY <1>14, WriteTakes, WriteTypes DEF Write
  <2>2. /\ todo' \in [Procs -> Seq(Tokens)]
        /\ \A q \in Procs : todo'[q] \in Seq(Tokens \ {"samples"})
    BY <1>14, WriteTakes DEF Write, TypesInv, TypeOK
  <2> QED BY <1>14, <2>1, <2>2 DEF Write, TypesInv, TypeOK
<1>15. ASSUME NEW k \in Kids, NEW state \in {"forked", "hung", "inner"}, Born(k, state)
       PROVE  TypesInv'
  BY <1>15 DEF Born, Keeps, TypesInv, TypeOK
<1>16. ASSUME NEW k \in Kids, FlushCopy(k) PROVE TypesInv'
  <2>1. "copy" \in Tokens
    BY DEF Tokens
  <2>2. pipe' \in BoundedSeq(Tokens, Capacity) /\ sent' \in Seq(Tokens)
    BY <1>16, <2>1, WriteTypes DEF FlushCopy
  <2> QED BY <1>16, <2>2 DEF FlushCopy, TypesInv, TypeOK
<1>17. ASSUME NEW k \in Kids, UninitializeReport(k) PROVE TypesInv'
  BY <1>17 DEF UninitializeReport, Keeps, TypesInv, TypeOK
<1>18. ASSUME NEW k \in Kids, KidExec(k) PROVE TypesInv'
  BY <1>18 DEF KidExec, Keeps, TypesInv, TypeOK
<1>19. ASSUME NEW k \in Kids, KidFinalizes(k) PROVE TypesInv'
  BY <1>19, FinalizesTypes DEF KidFinalizes, Finalizes, TypesInv, TypeOK
<1>20. ASSUME NEW k \in Kids, KidGone(k) PROVE TypesInv'
  BY <1>20, EmptySeq DEF KidGone, Ends, Keeps, TypesInv, TypeOK
<1>21. CASE UNCHANGED vars
  BY <1>21 DEF vars, TypesInv, TypeOK
<1> QED
  BY <1>1, <1>2, <1>3, <1>4, <1>5, <1>6, <1>7, <1>8, <1>9, <1>10, <1>11,
     <1>12, <1>13, <1>14, <1>15, <1>16, <1>17, <1>18, <1>19, <1>20, <1>21
  DEF Next, WrapperStep, Exit, Kill, Fork, InnerFork, KidExit, KidKilled

\* Every step is one of the three.
LEMMA PipeStepShape ==
    TypesInv /\ [Next]_vars => Quiet \/ ReadLine \/ \E t \in Tokens : Writes(t)
<1> SUFFICES ASSUME TypesInv, [Next]_vars
             PROVE  Quiet \/ ReadLine \/ \E t \in Tokens : Writes(t)
  OBVIOUS
<1> USE DEF appVars, readerVars, AppOnly, WrapperOnly, KidOnly, Quiet, Writes, Finalizes
<1>1. CASE UNCHANGED vars
  BY <1>1 DEF vars
<1>2. CASE WrapperStep \/ WrapperDies
  BY <1>2 DEF WrapperStep, WrapperDies, MakePipe, spawn, CloseWriteEnd, MarkReadEnd,
     EndOfFile, Reap
<1>3. CASE openReportFile
  BY <1>3 DEF openReportFile, Tokens, Names
<1>4. CASE UnregisterUnit \/ Finalize \/ Exit \/ Kill \/ Exec
  BY <1>4 DEF UnregisterUnit, Finalize, Exit, Kill, AppEnds, Exec
<1>5. ASSUME NEW p \in Procs, Write(p) PROVE \E t \in Tokens : Writes(t)
  BY <1>5, WriteTakes DEF Write
<1>6. ASSUME NEW k \in Kids,
             \/ Fork(k) \/ InnerFork(k) \/ UninitializeReport(k) \/ KidExec(k)
             \/ KidFinalizes(k) \/ KidExit(k) \/ KidKilled(k)
      PROVE  Quiet
  BY <1>6 DEF Fork, InnerFork, Born, UninitializeReport, KidExec, KidFinalizes,
     KidExit, KidKilled, KidGone
<1>7. ASSUME NEW k \in Kids, FlushCopy(k) PROVE \E t \in Tokens : Writes(t)
  BY <1>7 DEF FlushCopy, Tokens
<1> QED BY <1>1, <1>2, <1>3, <1>4, <1>5, <1>6, <1>7 DEF Next

-----------------------------------------------------------------------------
(* The contents of the pipe *)

LEMMA SeqLengths ==
    TypesInv => /\ pipe \in Seq(Tokens) /\ sent \in Seq(Tokens)
                /\ Len(pipe) \in Nat /\ Len(sent) \in Nat
                /\ Len(pipe) <= Capacity
BY BoundedSeqIsSeq, LenProperties, ReportPipeAssumption DEF TypesInv, TypeOK

\* A token more: nothing before it changes, and the reader is where it was.
LEMMA WriteGrows ==
    ASSUME TypesInv, PipeInv, NEW t \in Tokens, Writes(t)
    PROVE  /\ Len(sent') = Len(sent) + 1 /\ Len(pipe') = Len(pipe) + 1
           /\ sent'[Len(sent) + 1] = t
           /\ \A i \in 1..Len(sent) : sent'[i] = sent[i]
           /\ \A i \in 1..Len(pipe) : pipe'[i] = pipe[i]
           /\ pipe'[Len(pipe) + 1] = t
           /\ Taken' = Taken
<1>1. sent' = Append(sent, t) /\ pipe' = Append(pipe, t)
  BY DEF Writes, WriteToken
<1> QED BY <1>1, SeqLengths, AppendProperties DEF Taken

\* The wrapper takes the token that comes next in what was sent.
LEMMA ReadTakes ==
    ASSUME TypesInv, PipeInv, ReadLine
    PROVE  /\ sent' = sent /\ Taken \in Nat /\ Taken' = Taken + 1
           /\ Taken < Len(sent) /\ Len(pipe') = Len(pipe) - 1
           /\ Head(pipe) = sent[Taken + 1]
           /\ \A i \in 1..Len(pipe') : pipe'[i] = pipe[i + 1]
<1>1. pipe # <<>> /\ pipe' = Tail(pipe) /\ sent' = sent
  BY DEF ReadLine, WrapperOnly
<1>2. Len(pipe) > 0
  BY <1>1, SeqLengths, EmptySeq
<1>3. Head(pipe) = pipe[1]
  BY <1>1, SeqLengths
<1>4. pipe[1] = sent[Taken + 1]
  BY <1>2, SeqLengths DEF PipeInv
<1>5. /\ Len(pipe') = Len(pipe) - 1
      /\ \A i \in 1..Len(pipe') : pipe'[i] = pipe[i + 1]
  BY <1>1, SeqLengths, HeadTailProperties
<1> QED BY <1>1, <1>2, <1>3, <1>4, <1>5, SeqLengths DEF PipeInv, Taken

LEMMA PipeStep == TypesInv /\ PipeInv /\ [Next]_vars => PipeInv'
<1> SUFFICES ASSUME TypesInv, PipeInv, [Next]_vars PROVE PipeInv'
  OBVIOUS
<1>1. CASE Quiet
  BY <1>1 DEF Quiet, PipeInv, Taken
<1>2. CASE ReadLine
  <2>1. Len(pipe') <= Len(sent')
    BY <1>2, ReadTakes, SeqLengths DEF PipeInv
  <2>2. ASSUME NEW i \in 1..Len(pipe') PROVE pipe'[i] = sent'[Taken' + i]
    <3>1. i + 1 \in 1..Len(pipe) /\ pipe'[i] = pipe[i + 1]
      BY <1>2, ReadTakes, SeqLengths
    <3>2. pipe[i + 1] = sent[Taken + (i + 1)]
      BY <3>1 DEF PipeInv
    <3> QED BY <1>2, <3>1, <3>2, ReadTakes
  <2> QED BY <2>1, <2>2 DEF PipeInv
<1>3. ASSUME NEW t \in Tokens, Writes(t) PROVE PipeInv'
  <2>1. Len(pipe') <= Len(sent')
    BY <1>3, WriteGrows, SeqLengths DEF PipeInv
  <2>2. ASSUME NEW i \in 1..Len(pipe') PROVE pipe'[i] = sent'[Taken' + i]
    <3>1. CASE i = Len(pipe) + 1
      <4>1. Taken' + i = Len(sent) + 1
        <5>1. Taken' = Taken
          BY <1>3, WriteGrows
        <5>2. Taken + i = Len(sent) + 1
          BY <3>1, SeqLengths DEF Taken
        <5> QED BY <5>1, <5>2
      <4> QED BY <1>3, <3>1, <4>1, WriteGrows
    <3>2. CASE i \in 1..Len(pipe)
      <4>1. Taken + i \in 1..Len(sent)
        BY <3>2, SeqLengths DEF Taken, PipeInv
      <4> QED BY <1>3, <3>2, <4>1, WriteGrows DEF PipeInv
    <3> QED BY <1>3, <3>1, <3>2, WriteGrows, SeqLengths
  <2> QED BY <2>1, <2>2 DEF PipeInv
<1> QED BY <1>1, <1>2, <1>3, PipeStepShape

-----------------------------------------------------------------------------
(* The descriptors *)

LEMMA DescriptorsStep == TypesInv /\ DescriptorsInv /\ [Next]_vars => DescriptorsInv'
<1> SUFFICES ASSUME TypesInv, DescriptorsInv, [Next]_vars PROVE DescriptorsInv'
  OBVIOUS
<1> USE KidsAreProcs DEF appVars, readerVars, AppOnly, WrapperOnly, KidOnly,
    Keeps, Ends, DescriptorsInv, WritersAlsoRead, TypesInv, TypeOK
<1>1. CASE MakePipe
  BY <1>1 DEF MakePipe
<1>2. CASE spawn
  BY <1>2 DEF spawn
<1>3. CASE CloseWriteEnd
  BY <1>3 DEF CloseWriteEnd
<1>4. CASE MarkReadEnd
  BY <1>4 DEF MarkReadEnd
<1>5. CASE ReadLine \/ Reap
  BY <1>5 DEF ReadLine, Reap
<1>6. CASE EndOfFile
  BY <1>6 DEF EndOfFile
<1>7. CASE WrapperDies
  BY <1>7 DEF WrapperDies
<1>8. CASE openReportFile
  BY <1>8 DEF openReportFile
<1>9. CASE UnregisterUnit
  BY <1>9 DEF UnregisterUnit
<1>10. CASE Finalize
  BY <1>10 DEF Finalize, Finalizes
<1>11. ASSUME AppEnds, app # "none" PROVE DescriptorsInv'
  BY <1>11 DEF AppEnds
<1>12. CASE Exec
  BY <1>12 DEF Exec
<1>13. ASSUME NEW p \in Procs, Write(p) PROVE DescriptorsInv'
  BY <1>13 DEF Write
<1>14. ASSUME NEW k \in Kids, NEW state, Born(k, state) PROVE DescriptorsInv'
  BY <1>14 DEF Born
<1>15. ASSUME NEW k \in Kids, FlushCopy(k) PROVE DescriptorsInv'
  BY <1>15 DEF FlushCopy
<1>16. ASSUME NEW k \in Kids, UninitializeReport(k) PROVE DescriptorsInv'
  BY <1>16 DEF UninitializeReport
<1>17. ASSUME NEW k \in Kids, KidExec(k) PROVE DescriptorsInv'
  BY <1>17 DEF KidExec
<1>18. ASSUME NEW k \in Kids, KidFinalizes(k) PROVE DescriptorsInv'
  BY <1>18 DEF KidFinalizes, Finalizes
<1>19. ASSUME NEW k \in Kids, KidGone(k) PROVE DescriptorsInv'
  BY <1>19 DEF KidGone
<1>20. CASE UNCHANGED vars
  BY <1>20 DEF vars
<1> QED
  BY <1>1, <1>2, <1>3, <1>4, <1>5, <1>6, <1>7, <1>8, <1>9, <1>10, <1>11,
     <1>12, <1>13, <1>14, <1>15, <1>16, <1>17, <1>18, <1>19, <1>20
  DEF Next, WrapperStep, Exit, Kill, Fork, InnerFork, KidExit, KidKilled

LEMMA WritersStep ==
    TypesInv /\ DescriptorsInv /\ WritersInv /\ [Next]_vars => WritersInv'
<1> SUFFICES ASSUME TypesInv, DescriptorsInv, WritersInv, [Next]_vars PROVE WritersInv'
  OBVIOUS
<1> USE KidsAreProcs DEF appVars, readerVars, AppOnly, WrapperOnly, KidOnly,
    Keeps, Ends, WritersInv, TypesInv, TypeOK
<1>1. CASE MakePipe
  BY <1>1 DEF MakePipe
<1>2. CASE spawn
  BY <1>2 DEF spawn, DescriptorsInv
<1>3. CASE CloseWriteEnd
  BY <1>3 DEF CloseWriteEnd
<1>4. CASE MarkReadEnd
  BY <1>4 DEF MarkReadEnd
<1>5. CASE ReadLine \/ Reap
  BY <1>5 DEF ReadLine, Reap
<1>6. CASE EndOfFile
  BY <1>6 DEF EndOfFile
<1>7. CASE WrapperDies
  BY <1>7 DEF WrapperDies
<1>8. CASE openReportFile
  BY <1>8 DEF openReportFile
<1>9. CASE UnregisterUnit
  BY <1>9 DEF UnregisterUnit
<1>10. CASE Finalize
  BY <1>10, FinalizesTypes DEF Finalize, Finalizes
<1>11. ASSUME AppEnds PROVE WritersInv'
  BY <1>11 DEF AppEnds
<1>12. CASE Exec
  BY <1>12 DEF Exec
<1>13. ASSUME NEW p \in Procs, Write(p) PROVE WritersInv'
  BY <1>13 DEF Write, Procs
<1>14. ASSUME NEW k \in Kids, NEW state \in {"forked", "hung", "inner"}, Born(k, state)
       PROVE  WritersInv'
  BY <1>14 DEF Born
<1>15. ASSUME NEW k \in Kids, FlushCopy(k) PROVE WritersInv'
  BY <1>15 DEF FlushCopy
<1>16. ASSUME NEW k \in Kids, UninitializeReport(k) PROVE WritersInv'
  BY <1>16 DEF UninitializeReport
<1>17. ASSUME NEW k \in Kids, KidExec(k) PROVE WritersInv'
  BY <1>17 DEF KidExec
<1>18. ASSUME NEW k \in Kids, KidFinalizes(k) PROVE WritersInv'
  BY <1>18, FinalizesTypes DEF KidFinalizes, Finalizes
<1>19. ASSUME NEW k \in Kids, KidGone(k) PROVE WritersInv'
  BY <1>19 DEF KidGone
<1>20. CASE UNCHANGED vars
  BY <1>20 DEF vars
<1> QED
  BY <1>1, <1>2, <1>3, <1>4, <1>5, <1>6, <1>7, <1>8, <1>9, <1>10, <1>11,
     <1>12, <1>13, <1>14, <1>15, <1>16, <1>17, <1>18, <1>19, <1>20
  DEF Next, WrapperStep, Exit, Kill, Fork, InnerFork, KidExit, KidKilled

-----------------------------------------------------------------------------
(* The start tag, and the end of file *)

\* Whoever writes is in the runtime, and holds the write end.
LEMMA WhoWrites ==
    TypesInv /\ WritersInv =>
        /\ \A p \in Procs : Write(p) =>
              /\ p \in Writers
              /\ \/ p = "app" /\ app = "finishing"
                 \/ p \in Kids /\ kid[p] = "finishing"
        /\ openReportFile \/ Exec \/ Finalize => "app" \in Writers
        /\ \A k \in Kids : FlushCopy(k) => k \in Writers
        /\ \A k \in Kids : \A state : Born(k, state) => "app" \in Writers
<1> SUFFICES ASSUME TypesInv, WritersInv
             PROVE  /\ \A p \in Procs : Write(p) =>
                          /\ p \in Writers
                          /\ \/ p = "app" /\ app = "finishing"
                             \/ p \in Kids /\ kid[p] = "finishing"
                    /\ openReportFile \/ Exec \/ Finalize => "app" \in Writers
                    /\ \A k \in Kids : FlushCopy(k) => k \in Writers
                    /\ \A k \in Kids : \A state : Born(k, state) => "app" \in Writers
  OBVIOUS
<1>1. ASSUME NEW p \in Procs, Write(p)
      PROVE  /\ p \in Writers
             /\ \/ p = "app" /\ app = "finishing"
                \/ p \in Kids /\ kid[p] = "finishing"
  BY <1>1 DEF WritersInv, Writers, Write, Procs
<1>2. openReportFile \/ Exec \/ Finalize => "app" \in Writers
  BY KidsAreProcs DEF WritersInv, Writers, openReportFile, Finalize, Exec
<1>3. \A k \in Kids : FlushCopy(k) => k \in Writers
  BY KidsAreProcs DEF WritersInv, Writers, FlushCopy
<1>4. \A k \in Kids : \A state : Born(k, state) => "app" \in Writers
  BY KidsAreProcs DEF WritersInv, Writers, Born
<1> QED BY <1>1, <1>2, <1>3, <1>4

\* A token that is not the start tag keeps the start as it is.
LEMMA StartKept ==
    ASSUME TypesInv, PipeInv, StartInv, sent # <<>>,
           NEW t \in Tokens \ {"samples"}, Writes(t), app' = app
    PROVE  StartInv'
<1>1. t \in Tokens
  OBVIOUS
<1>2. Len(sent) > 0
  BY SeqLengths, EmptySeq
<1>3. sent' # <<>>
  BY <1>1, SeqLengths, AppendProperties DEF Writes, WriteToken
<1>4. /\ Len(sent') = Len(sent) + 1 /\ sent'[Len(sent) + 1] = t
      /\ \A i \in 1..Len(sent) : sent'[i] = sent[i]
  BY <1>1, WriteGrows
<1>5. \A i \in 2..Len(sent') : sent'[i] # "samples"
  BY <1>4, SeqLengths DEF StartInv
<1>6. sent'[1] = "samples"
  BY <1>2, <1>4, SeqLengths DEF StartInv
<1> QED BY <1>3, <1>5, <1>6 DEF StartInv

LEMMA StartStep ==
    TypesInv /\ PipeInv /\ DescriptorsInv /\ WritersInv /\ StartInv /\ [Next]_vars
        => StartInv'
<1> SUFFICES ASSUME TypesInv, PipeInv, DescriptorsInv, WritersInv, StartInv, [Next]_vars
             PROVE  StartInv'
  OBVIOUS
<1> USE KidsAreProcs DEF appVars, readerVars, AppOnly, WrapperOnly, KidOnly, Keeps, Ends
<1>1. CASE MakePipe \/ CloseWriteEnd \/ MarkReadEnd \/ ReadLine \/ EndOfFile \/ Reap
  BY <1>1 DEF MakePipe, CloseWriteEnd, MarkReadEnd, ReadLine, EndOfFile, Reap, StartInv
<1>2. CASE spawn
  BY <1>2 DEF spawn, DescriptorsInv, StartInv
<1>3. CASE WrapperDies \/ UnregisterUnit
  BY <1>3 DEF WrapperDies, UnregisterUnit, StartInv
<1>4. CASE openReportFile
  <2>1. sent = <<>> /\ sent' = Append(<<>>, "samples") /\ app' = "running"
    BY <1>4 DEF openReportFile, WriteToken, StartInv
  <2>2. sent' = <<"samples">>
    BY <2>1
  <2> QED BY <2>1, <2>2 DEF StartInv
<1>5. CASE Finalize
  BY <1>5 DEF Finalize, Finalizes, StartInv
<1>6. ASSUME AppEnds PROVE StartInv'
  BY <1>6 DEF AppEnds, StartInv
<1>7. CASE Exec
  BY <1>7 DEF Exec, StartInv
<1>8. ASSUME NEW p \in Procs, Write(p) PROVE StartInv'
  <2>1. sent # <<>>
    BY <1>8, WhoWrites DEF StartInv
  <2>2. Writes(Head(todo[p])) /\ app' = app
    BY <1>8 DEF Write, Writes
  <2> QED BY <1>8, <2>1, <2>2, WriteTakes, StartKept
<1>9. ASSUME NEW k \in Kids, NEW state \in {"forked", "hung", "inner"}, Born(k, state)
      PROVE  StartInv'
  BY <1>9 DEF Born, StartInv
<1>10. ASSUME NEW k \in Kids, FlushCopy(k) PROVE StartInv'
  <2>1. sent # <<>>
    BY <1>10 DEF FlushCopy, StartInv
  <2>2. "copy" \in Tokens \ {"samples"} /\ Writes("copy") /\ app' = app
    BY <1>10 DEF FlushCopy, Writes, Tokens
  <2> QED BY <2>1, <2>2, StartKept
<1>11. ASSUME NEW k \in Kids,
              UninitializeReport(k) \/ KidExec(k) \/ KidFinalizes(k) \/ KidExit(k)
                  \/ KidKilled(k)
       PROVE  StartInv'
  BY <1>11 DEF UninitializeReport, KidExec, KidFinalizes, Finalizes, KidExit,
     KidKilled, KidGone, StartInv
<1>12. CASE UNCHANGED vars
  BY <1>12 DEF vars, StartInv
<1> QED
  BY <1>1, <1>2, <1>3, <1>4, <1>5, <1>6, <1>7, <1>8, <1>9, <1>10, <1>11, <1>12
  DEF Next, WrapperStep, Exit, Kill, Fork, InnerFork

\* What every action does to the set of writers: only the wrapper makes a
\* pipe, and only a process that can write has others that can.
LEMMA WritersShrink ==
    ASSUME TypesInv, DescriptorsInv, WritersInv, [Next]_vars
    PROVE  Writers = {} => MakePipe \/ Writers' = {}
<1> USE KidsAreProcs DEF appVars, readerVars, AppOnly, WrapperOnly, KidOnly, Keeps, Ends
<1> SUFFICES ASSUME Writers = {}, ~MakePipe PROVE Writers' = {}
  BY DEF MakePipe
<1> USE DEF Writers, TypesInv, TypeOK
<1>1. CASE spawn \/ CloseWriteEnd
  <2>1. "wrapper" \in Writers
    BY <1>1 DEF spawn, CloseWriteEnd, DescriptorsInv
  <2> QED BY <2>1
<1>2. CASE MarkReadEnd \/ ReadLine \/ Reap
  BY <1>2 DEF MarkReadEnd, ReadLine, Reap
<1>3. CASE EndOfFile \/ WrapperDies
  <2>1. ends' = [ends EXCEPT !["wrapper"] = {}]
    BY <1>3 DEF EndOfFile, WrapperDies
  <2> QED BY <2>1
<1>4. CASE openReportFile \/ UnregisterUnit \/ Finalize
  <2>1. ends' = ends
    BY <1>4 DEF openReportFile, UnregisterUnit, Finalize, Finalizes
  <2> QED BY <2>1
<1>5. ASSUME AppEnds PROVE Writers' = {}
  BY <1>5 DEF AppEnds
<1>6. CASE Exec
  BY <1>6, WhoWrites
<1>7. ASSUME NEW p \in Procs, Write(p) PROVE Writers' = {}
  BY <1>7 DEF Write
<1>8. ASSUME NEW k \in Kids, NEW state, Born(k, state) PROVE Writers' = {}
  BY <1>8, WhoWrites
<1>9. ASSUME NEW k \in Kids, FlushCopy(k) \/ KidFinalizes(k) PROVE Writers' = {}
  <2>1. ends' = ends
    BY <1>9 DEF FlushCopy, KidFinalizes, Finalizes
  <2> QED BY <2>1
<1>10. ASSUME NEW k \in Kids, UninitializeReport(k) \/ KidExec(k) PROVE Writers' = {}
  <2>1. PICK lost : ends' = [ends EXCEPT ![k] = ends[k] \ lost]
    BY <1>10 DEF UninitializeReport, KidExec
  <2>2. \A p \in Procs : ends'[p] = IF p = k THEN ends[k] \ lost ELSE ends[p]
    BY <2>1
  <2> QED BY <2>2
<1>11. ASSUME NEW k \in Kids, KidGone(k) PROVE Writers' = {}
  BY <1>11 DEF KidGone
<1>12. CASE UNCHANGED vars
  BY <1>12 DEF vars
<1> QED
  BY <1>1, <1>2, <1>3, <1>4, <1>5, <1>6, <1>7, <1>8, <1>9, <1>10, <1>11, <1>12
  DEF Next, WrapperStep, Exit, Kill, Fork, InnerFork, KidExit, KidKilled

\* Without writers, nothing is written.
LEMMA NoWriterNoWrite ==
    ASSUME TypesInv, WritersInv, [Next]_vars, Writers = {}
    PROVE  Quiet \/ ReadLine
<1> USE DEF appVars, readerVars, AppOnly, WrapperOnly, KidOnly, Quiet, Finalizes
<1>1. CASE UNCHANGED vars
  BY <1>1 DEF vars
<1>2. CASE WrapperStep \/ WrapperDies
  BY <1>2 DEF WrapperStep, WrapperDies, MakePipe, spawn, CloseWriteEnd, MarkReadEnd,
     EndOfFile, Reap
<1>3. CASE openReportFile
  BY <1>3, WhoWrites
<1>4. CASE UnregisterUnit \/ Finalize \/ Exit \/ Kill \/ Exec
  BY <1>4 DEF UnregisterUnit, Finalize, Exit, Kill, AppEnds, Exec
<1>5. ASSUME NEW p \in Procs, Write(p) PROVE FALSE
  BY <1>5, WhoWrites
<1>6. ASSUME NEW k \in Kids,
             \/ Fork(k) \/ InnerFork(k) \/ UninitializeReport(k) \/ KidExec(k)
             \/ KidFinalizes(k) \/ KidExit(k) \/ KidKilled(k)
      PROVE  Quiet
  BY <1>6 DEF Fork, InnerFork, Born, UninitializeReport, KidExec, KidFinalizes,
     KidExit, KidKilled, KidGone
<1>7. ASSUME NEW k \in Kids, FlushCopy(k) PROVE FALSE
  BY <1>7, WhoWrites
<1> QED BY <1>1, <1>2, <1>3, <1>4, <1>5, <1>6, <1>7 DEF Next

LEMMA EndStep ==
    TypesInv /\ DescriptorsInv /\ WritersInv /\ EndInv /\ [Next]_vars => EndInv'
<1> SUFFICES ASSUME TypesInv, DescriptorsInv, WritersInv, EndInv, [Next]_vars,
                    wrapper' \in {"reap", "done"}
             PROVE  pipe' = <<>> /\ Writers' = {}
  BY DEF EndInv
<1> USE DEF appVars, readerVars, AppOnly, WrapperOnly, KidOnly, Ends, Keeps
<1>1. CASE EndOfFile
  <2>1. pipe' = <<>> /\ Writers = {} /\ ~MakePipe
    BY <1>1 DEF EndOfFile, MakePipe
  <2> QED BY <2>1, WritersShrink
<1>2. CASE ~EndOfFile
  <2>1. wrapper \in {"reap", "done"} /\ ~MakePipe /\ ~ReadLine
    <3>1. CASE WrapperStep
      BY <1>2, <3>1 DEF WrapperStep, MakePipe, spawn, CloseWriteEnd, MarkReadEnd,
         ReadLine, Reap
    <3>2. CASE ~WrapperStep
      <4>1. ~MakePipe /\ ~ReadLine
        BY <3>2 DEF WrapperStep
      <4>2. wrapper' = wrapper \/ wrapper' = "dead"
        BY <3>2 DEF Next, WrapperDies, openReportFile, UnregisterUnit, Finalize,
           Finalizes, Exit, Kill, AppEnds, Exec, Write, Fork, InnerFork, Born,
           FlushCopy, UninitializeReport, KidExec, KidFinalizes, KidExit,
           KidKilled, KidGone, vars
      <4> QED BY <4>1, <4>2
    <3> QED BY <3>1, <3>2
  <2>2. pipe = <<>> /\ Writers = {}
    BY <2>1 DEF EndInv
  <2>3. pipe' = pipe
    BY <2>1, <2>2, NoWriterNoWrite DEF Quiet
  <2> QED BY <2>1, <2>2, <2>3, WritersShrink
<1> QED BY <1>1, <1>2

-----------------------------------------------------------------------------
(* The reader *)

\* What was sent before stays as it is when more is sent.
LEMMA SentKept ==
    ASSUME TypesInv, PipeInv, NEW t \in Tokens, Writes(t), NEW m \in Nat, m <= Len(sent)
    PROVE  /\ SubSeq(sent', 2, m) = SubSeq(sent, 2, m)
           /\ \A i \in 1..m : sent'[i] = sent[i]
           /\ m > 0 => (FirstEnd(m)' <=> FirstEnd(m))
<1>1. \A i \in 1..m : sent'[i] = sent[i]
  BY WriteGrows, SeqLengths
<1>2. \A i \in 2..m : sent'[i] = sent[i] /\ sent[i] \in Tokens
  BY <1>1, SeqLengths, ElementOfSeq
<1>3. SubSeq(sent', 2, m) = SubSeq(sent, 2, m)
  <2>1. /\ SubSeq(sent', 2, m) \in Seq(Tokens) /\ SubSeq(sent, 2, m) \in Seq(Tokens)
        /\ Len(SubSeq(sent', 2, m)) = IF 2 <= m THEN m - 2 + 1 ELSE 0
        /\ Len(SubSeq(sent, 2, m)) = IF 2 <= m THEN m - 2 + 1 ELSE 0
        /\ \A i \in 1 .. m - 2 + 1 : SubSeq(sent', 2, m)[i] = sent'[2 + i - 1]
        /\ \A i \in 1 .. m - 2 + 1 : SubSeq(sent, 2, m)[i] = sent[2 + i - 1]
    BY <1>2, SubSeqProperties
  <2>2. \A i \in 1 .. m - 2 + 1 : 2 + i - 1 \in 2..m
    OBVIOUS
  <2> QED BY <1>2, <2>1, <2>2, SeqEqual
<1>4. m > 0 => (FirstEnd(m)' <=> FirstEnd(m))
  BY <1>1 DEF FirstEnd
<1> QED BY <1>1, <1>3, <1>4

LEMMA ReaderStep ==
    TypesInv /\ PipeInv /\ StartInv /\ ReaderInv /\ [Next]_vars => ReaderInv'
<1> SUFFICES ASSUME TypesInv, PipeInv, StartInv, ReaderInv, [Next]_vars PROVE ReaderInv'
  OBVIOUS
<1>0. Taken \in Nat /\ Taken <= Len(sent)
  BY SeqLengths DEF Taken, PipeInv
<1>1. CASE Quiet
  BY <1>1 DEF Quiet, readerVars, ReaderInv, Taken, FirstEnd
<1>2. ASSUME NEW t \in Tokens, Writes(t) PROVE ReaderInv'
  <2>1. Taken' = Taken /\ inside' = inside /\ reports' = reports
    BY <1>2, WriteGrows DEF Writes, readerVars
  <2>2. /\ SubSeq(sent', 2, Taken) = SubSeq(sent, 2, Taken)
        /\ \A i \in 1..Taken : sent'[i] = sent[i]
    BY <1>0, <1>2, SentKept
  <2>3. ASSUME NEW f \in 1..Taken
        PROVE  /\ SubSeq(sent', 2, f - 1) = SubSeq(sent, 2, f - 1)
               /\ FirstEnd(f)' <=> FirstEnd(f)
    <3>1. f \in Nat /\ f > 0 /\ f <= Len(sent) /\ f - 1 \in Nat /\ f - 1 <= Len(sent)
      BY <1>0, SeqLengths
    <3> QED BY <1>2, <3>1, SentKept
  <2> QED BY <1>0, <2>1, <2>2, <2>3 DEF ReaderInv
<1>3. CASE ReadLine
  <2> DEFINE n == Taken
             t == sent[n + 1]
  <2>1. /\ sent' = sent /\ Taken' = n + 1 /\ n < Len(sent) /\ n \in Nat
        /\ Sort(t)
    BY <1>3, ReadTakes DEF ReadLine
  <2>2. reports \in [Names -> Seq(Tokens)] /\ "samples" \in Names /\ "end" \notin Names
        /\ inside \in Names \cup {"none"} /\ "none" \notin Names
    BY DEF TypesInv, TypeOK, Names
  <2>3. n + 1 \in 1..Len(sent) /\ t \in Tokens
    BY <2>1, SeqLengths, ElementOfSeq
  <2> HIDE DEF n, t
  <2>4. CASE n = 0
    <3>1. t = "samples" /\ inside = "none" /\ reports["samples"] = <<>>
      <4>1. sent # <<>>
        BY <2>1, EmptySeq, SeqLengths
      <4> QED BY <2>4, <4>1 DEF t, n, StartInv, ReaderInv
    <3>2. inside' = "samples" /\ reports' = reports
      BY <2>1, <2>2, <3>1 DEF Sort
    <3>3. SubSeq(sent, 2, 1) = <<>>
      BY SubSeqEmpty
    <3>4. Taken' = 1 /\ sent'[1] = "samples"
      BY <2>1, <2>4, <3>1 DEF t
    <3>5. reports'["samples"] = SubSeq(sent', 2, Taken')
      BY <2>1, <3>1, <3>2, <3>3, <3>4
    <3>6. \A f \in 1..Taken' : ~FirstEnd(f)'
      BY <3>4 DEF FirstEnd
    <3>7. Taken' # 0
      BY <3>4
    <3> QED BY <3>2, <3>5, <3>6, <3>7 DEF ReaderInv
  <2>5. CASE n > 0
    <3>1. t # "samples"
      BY <2>1, <2>5 DEF t, StartInv
    <3>2. CASE \A i \in 1..n : sent[i] # "end"
      <4>1. inside = "samples" /\ reports["samples"] = SubSeq(sent, 2, n)
        BY <2>5, <3>2 DEF n, ReaderInv
      <4>2. /\ inside' = IF t = "end" THEN "none" ELSE "samples"
            /\ reports'["samples"] = IF t = "end" THEN SubSeq(sent, 2, n)
                                     ELSE Append(SubSeq(sent, 2, n), t)
        BY <2>1, <2>2, <4>1 DEF Sort
      <4>3. Append(SubSeq(sent, 2, n), t) = SubSeq(sent, 2, n + 1)
        <5>1. 2 \in 1..Len(sent) /\ n + 1 \in 2..Len(sent) /\ sent \in Seq(Tokens)
          BY <2>1, <2>5, SeqLengths
        <5>2. SubSeq(sent, 2, n + 1) = SubSeq(sent, 2, (n + 1) - 1) \o <<sent[n + 1]>>
          BY <5>1, SubSeqRecursiveSecond
        <5>3. \A i \in 2..n : sent[i] \in Tokens
          <6>1. \A i \in 2..n : i \in 1..Len(sent)
            BY <2>1, SeqLengths
          <6> QED BY <5>1, <6>1, ElementOfSeq
        <5>4. SubSeq(sent, 2, n) \in Seq(Tokens)
          BY <2>1, <5>3, SubSeqProperties
        <5>5. (n + 1) - 1 = n
          BY <2>1
        <5> QED BY <2>3, <5>2, <5>4, <5>5, AppendIsConcat DEF t
      <4>4. \A f \in 1 .. n + 1 : FirstEnd(f) => f = n + 1 /\ t = "end"
        BY <2>1, <3>2 DEF FirstEnd, t
      <4>5. (\A i \in 1 .. n + 1 : sent[i] # "end") => t # "end"
        BY <2>1 DEF t
      <4>6. (n + 1) - 1 = n /\ n + 1 > 0 /\ n + 1 # 0
        BY <2>1
      <4> QED BY <2>1, <4>2, <4>3, <4>4, <4>5, <4>6 DEF ReaderInv, FirstEnd
    <3>3. CASE \E i \in 1..n : sent[i] = "end"
      <4>1. \A f \in 1 .. n + 1 : FirstEnd(f) => f \in 1..n
        BY <2>1, <3>3 DEF FirstEnd
      <4>2. ASSUME NEW f \in 1..n, FirstEnd(f)
            PROVE  inside' # "samples" /\ reports'["samples"] = SubSeq(sent, 2, f - 1)
        <5>1. inside # "samples" /\ reports["samples"] = SubSeq(sent, 2, f - 1)
          BY <4>2 DEF n, ReaderInv
        <5> QED BY <2>1, <2>2, <3>1, <5>1 DEF Sort
      <4>3. \E i \in 1 .. n + 1 : sent[i] = "end"
        BY <2>1, <3>3
      <4>4. n + 1 # 0
        BY <2>1
      <4> QED BY <2>1, <4>1, <4>2, <4>3, <4>4 DEF ReaderInv, FirstEnd
    <3> QED BY <3>2, <3>3
  <2> QED BY <2>1, <2>4, <2>5
<1> QED BY <1>1, <1>2, <1>3, PipeStepShape

-----------------------------------------------------------------------------
(* The invariant *)

LEMMA InitIInv == Init => IInv
<1> SUFFICES ASSUME Init PROVE IInv
  OBVIOUS
<1> USE ReportPipeAssumption DEF Init
<1>1. Len(pipe) = 0 /\ Len(sent) = 0 /\ Taken = 0
  BY DEF Taken
<1>2. TypesInv
  <2>1. <<>> \in Seq(Tokens) /\ Len(<<>>) <= Capacity /\ Capacity \in Nat
    BY EmptySeq
  <2>2. <<>> \in BoundedSeq(Tokens, Capacity)
    BY <2>1, BoundedSeqIsSeq
  <2> QED BY <2>2, EmptySeq DEF TypesInv, TypeOK
<1>3. PipeInv /\ StartInv /\ EndInv /\ ReaderInv
  BY <1>1 DEF PipeInv, StartInv, EndInv, ReaderInv, Names
<1>4. DescriptorsInv /\ WritersInv
  BY DEF DescriptorsInv, WritersAlsoRead, WritersInv, Procs
<1> QED BY <1>2, <1>3, <1>4 DEF IInv

LEMMA StepIInv == IInv /\ [Next]_vars => IInv'
BY TypesStep, PipeStep, DescriptorsStep, WritersStep, StartStep, EndStep, ReaderStep DEF IInv

\* At any time every descriptor and every line is of the kind that the rest of
\* the model takes it for, and no process holds the write end without the read
\* end: a write can block but not fail (SampledLauncher.spawn and the runtime's
\* openReportFile, over every fork and exec).
THEOREM Descriptors == Spec => []DescriptorsKept
<1>1. IInv => DescriptorsKept
  BY DEF IInv, TypesInv, DescriptorsInv, DescriptorsKept
<1> QED BY InitIInv, StepIInv, <1>1, PTL DEF Spec

-----------------------------------------------------------------------------
(* The report is whole *)

LEMMA MinIsLeast ==
    ASSUME NEW S \in SUBSET Nat, S # {}
    PROVE  Min(S) \in S /\ \A y \in S : Min(S) <= y
<1> DEFINE R == OpToRel(<, Nat)
<1>1. IsWellFoundedOn(R, Nat)
  BY NatLessThanWellFounded
<1>2. \A y, z \in Nat : y < z => <<y, z>> \in R
  BY DEF OpToRel
<1> HIDE DEF R
<1>3. PICK x \in S : \A y \in S : <<y, x>> \notin R
  BY <1>1, WFMin
<1>4. ASSUME NEW y \in S PROVE x <= y
  <2>1. x \in Nat /\ y \in Nat /\ <<y, x>> \notin R
    BY <1>3
  <2>2. ~(y < x)
    BY <1>2, <2>1
  <2> QED BY <2>1, <2>2
<1> QED BY <1>4 DEF Min

\* At the end of file the reader has, of the samples, all that was sent
\* between the start tag and the first end tag (ReportsReader.py), in whatever
\* order the application and its children wrote and ended.
THEOREM Whole == Spec => []WholeReport
<1>1. IInv => WholeReport
  <2> SUFFICES ASSUME IInv, wrapper \in {"reap", "done"}, sent # <<>>
               PROVE  LET tags == {i \in DOMAIN sent : sent[i] = "end"}
                          last == IF tags = {} THEN Len(sent) ELSE Min(tags) - 1
                      IN  reports["samples"] = SubSeq(sent, 2, last)
    BY DEF WholeReport
  <2> DEFINE tags == {i \in DOMAIN sent : sent[i] = "end"}
  <2>1. pipe = <<>>
    BY DEF IInv, EndInv
  <2>2. Taken = Len(sent) /\ Len(sent) \in Nat /\ Len(sent) > 0
        /\ DOMAIN sent = 1..Len(sent)
    BY <2>1, SeqLengths, EmptySeq, LenProperties DEF IInv, Taken
  <2>3. CASE tags = {}
    <3>1. \A i \in 1..Taken : sent[i] # "end"
      BY <2>2, <2>3
    <3> QED BY <2>2, <2>3, <3>1 DEF IInv, ReaderInv
  <2>4. CASE tags # {}
    <3>1. tags \in SUBSET Nat
      BY <2>2
    <3>2. Min(tags) \in tags /\ \A y \in tags : Min(tags) <= y
      BY <2>4, <3>1, MinIsLeast
    <3>3. Min(tags) \in 1..Taken /\ sent[Min(tags)] = "end"
      BY <2>2, <3>2
    <3>4. FirstEnd(Min(tags))
      <4> DEFINE m == Min(tags)
      <4>1. \A i \in 1 .. m - 1 : i \notin tags
        BY <2>2, <3>2, <3>3
      <4>2. \A i \in 1 .. m - 1 : i \in DOMAIN sent
        BY <2>2, <3>3
      <4> HIDE DEF m
      <4>3. \A i \in 1 .. m - 1 : sent[i] # "end"
        BY <4>1, <4>2
      <4> QED BY <3>3, <4>3 DEF FirstEnd, m
    <3> QED BY <2>4, <3>3, <3>4 DEF IInv, ReaderInv
  <2> QED BY <2>3, <2>4
<1> QED BY InitIInv, StepIInv, <1>1, PTL DEF Spec

-----------------------------------------------------------------------------
(* The pipe is a channel *)

Open == wrapper = "pipe" \/ Writers # {}
ReaderOf == CASE wrapper \in {"reap", "done"} -> "finished"
              [] wrapper = "dead" -> "dead"
              [] OTHER -> "reading"

\* A step that neither writes nor reads, and that opens nothing, is a stutter
\* of the channel, or closes it.
LEMMA LosesMaps ==
    ASSUME UNCHANGED <<sent, pipe>>, ReaderOf' = ReaderOf, Open' => Open
    PROVE  [Channel!Next]_(Channel!vars)
<1>1. CASE Open' <=> Open
  BY <1>1 DEF Open, ReaderOf, Channel!vars
<1>2. CASE Open /\ ~Open'
  <2>1. Channel!Close
    BY <1>2 DEF Open, ReaderOf, Channel!Close
  <2> QED BY <2>1 DEF Channel!Next
<1> QED BY <1>1, <1>2

LEMMA WriteMaps ==
    ASSUME IInv, NEW t \in Tokens, Writes(t), UNCHANGED <<ends, wrapper>>, Writers # {}
    PROVE  Channel!Next
<1>1. sent' = Append(sent, t) /\ Len(sent') - Len(pipe') = Len(sent) - Len(pipe)
  BY WriteGrows DEF IInv, Writes, WriteToken, Taken
<1>2. Channel!Send
  BY <1>1 DEF Channel!Send, Writers
<1> QED BY <1>2 DEF Channel!Next

\* Only the wrapper's end of file, its death and its pipe change more than the
\* set of writers; by everything else that set shrinks, or stays inhabited.
LEMMA RestMaps ==
    ASSUME IInv, [Next]_vars, Quiet,
           ~MakePipe, ~EndOfFile, ~WrapperDies
    PROVE  [Channel!Next]_(Channel!vars)
<1> USE DEF appVars, readerVars, AppOnly, WrapperOnly, KidOnly
<1>1. ReaderOf' = ReaderOf /\ (wrapper' = "pipe" => wrapper = "pipe")
  <2>1. CASE WrapperStep
    BY <2>1 DEF WrapperStep, spawn, CloseWriteEnd, MarkReadEnd, ReadLine, Reap, ReaderOf
  <2>2. CASE ~WrapperStep
    <3>1. wrapper' = wrapper
      BY <2>2 DEF Next, openReportFile, UnregisterUnit, Finalize,
         Finalizes, Exit, Kill, AppEnds, Exec, Write, Fork, InnerFork, Born,
         FlushCopy, UninitializeReport, KidExec, KidFinalizes, KidExit,
         KidKilled, KidGone, vars
    <3> QED BY <3>1 DEF ReaderOf
  <2> QED BY <2>1, <2>2
<1>2. Open' => Open
  BY <1>1, WritersShrink DEF Open, IInv
<1>3. UNCHANGED <<sent, pipe>>
  BY DEF Quiet
<1> QED BY <1>1, <1>2, <1>3, LosesMaps

LEMMA StepMaps == IInv /\ [Next]_vars => [Channel!Next]_(Channel!vars)
<1> SUFFICES ASSUME IInv, [Next]_vars PROVE [Channel!Next]_(Channel!vars)
  OBVIOUS
<1> USE DEF appVars, readerVars, AppOnly, WrapperOnly, KidOnly
<1>1. CASE MakePipe
  <2>1. Open /\ Open' /\ ReaderOf' = ReaderOf /\ UNCHANGED <<sent, pipe>>
    BY <1>1, KidsAreProcs
    DEF MakePipe, Keeps, Open, Writers, ReaderOf, IInv, TypesInv, TypeOK
  <2> QED BY <2>1, LosesMaps
<1>2. CASE EndOfFile
  <2>1. /\ ~Open /\ ~Open' /\ ReaderOf = "reading" /\ ReaderOf' = "finished"
        /\ UNCHANGED <<sent, pipe>> /\ Len(pipe) = 0
    <3>1. Writers = {} /\ ~MakePipe /\ wrapper' = "reap" /\ wrapper = "read"
      BY <1>2 DEF EndOfFile, MakePipe
    <3>2. Writers' = {}
      BY <3>1, WritersShrink DEF IInv
    <3> QED BY <1>2, <3>1, <3>2 DEF EndOfFile, Open, ReaderOf
  <2>2. Len(sent) - Len(pipe) = Len(sent)
    BY <2>1, SeqLengths DEF IInv
  <2>3. Channel!Finish
    BY <2>1, <2>2 DEF Channel!Finish, Open, ReaderOf
  <2> QED BY <2>3 DEF Channel!Next
<1>3. CASE WrapperDies
  <2>1. /\ ReaderOf # "dead" /\ ReaderOf' = "dead" /\ UNCHANGED <<sent, pipe>>
    BY <1>3 DEF WrapperDies, ReaderOf
  <2>2. Open' => Open
    <3>1. ~MakePipe /\ wrapper' # "pipe"
      BY <1>3 DEF WrapperDies, MakePipe
    <3> QED BY <3>1, WritersShrink DEF IInv, Open
  <2>3. Channel!Die
    BY <2>1, <2>2 DEF Channel!Die, Open, ReaderOf
  <2> QED BY <2>3 DEF Channel!Next
<1>4. CASE ReadLine
  <2>1. /\ Taken' = Taken + 1 /\ Taken < Len(sent) /\ sent' = sent
    BY <1>4, ReadTakes DEF IInv
  <2>2. wrapper = "read" /\ UNCHANGED <<wrapper, ends>>
    BY <1>4 DEF ReadLine
  <2>3. Channel!Receive
    BY <2>1, <2>2 DEF Channel!Receive, Taken, Writers
  <2> QED BY <2>3 DEF Channel!Next
<1>5. CASE openReportFile
  <2>1. Writes("samples") /\ "samples" \in Tokens /\ UNCHANGED <<ends, wrapper>>
    BY <1>5 DEF openReportFile, Writes, Tokens, Names
  <2> QED BY <1>5, <2>1, WhoWrites, WriteMaps DEF IInv
<1>6. ASSUME NEW p \in Procs, Write(p) PROVE Channel!Next
  <2>1. Writes(Head(todo[p])) /\ Head(todo[p]) \in Tokens /\ UNCHANGED <<ends, wrapper>>
    BY <1>6, WriteTakes DEF Write, Writes, IInv
  <2> QED BY <1>6, <2>1, WhoWrites, WriteMaps DEF IInv
<1>7. ASSUME NEW k \in Kids, FlushCopy(k) PROVE Channel!Next
  <2>1. Writes("copy") /\ "copy" \in Tokens /\ UNCHANGED <<ends, wrapper>>
    BY <1>7 DEF FlushCopy, Writes, Tokens
  <2> QED BY <1>7, <2>1, WhoWrites, WriteMaps DEF IInv
<1>8. ASSUME Quiet PROVE [Channel!Next]_(Channel!vars)
  BY <1>1, <1>2, <1>3, <1>8, RestMaps
<1>9. Quiet \/ ReadLine \/ openReportFile
      \/ (\E p \in Procs : Write(p)) \/ (\E k \in Kids : FlushCopy(k))
  <2>1. CASE UNCHANGED vars
    BY <2>1 DEF vars, Quiet
  <2>2. CASE WrapperStep \/ WrapperDies
    BY <2>2 DEF WrapperStep, WrapperDies, MakePipe, spawn, CloseWriteEnd,
       MarkReadEnd, EndOfFile, Reap, Quiet
  <2>3. CASE UnregisterUnit \/ Finalize \/ Exit \/ Kill \/ Exec
    BY <2>3 DEF UnregisterUnit, Finalize, Finalizes, Exit, Kill, AppEnds, Exec, Quiet
  <2>4. ASSUME NEW k \in Kids,
               \/ Fork(k) \/ InnerFork(k) \/ UninitializeReport(k) \/ KidExec(k)
               \/ KidFinalizes(k) \/ KidExit(k) \/ KidKilled(k)
        PROVE  Quiet
    BY <2>4 DEF Fork, InnerFork, Born, UninitializeReport, KidExec, KidFinalizes,
       Finalizes, KidExit, KidKilled, KidGone, Quiet
  <2> QED BY <2>1, <2>2, <2>3, <2>4 DEF Next
<1> QED BY <1>4, <1>5, <1>6, <1>7, <1>8, <1>9

\* The pipe with its inherited descriptors implements the channel: every line
\* in order, and no end of file while a process can still write.
THEOREM Refinement == Spec => PipeIsChannel
<1>1. Init => Channel!Init
  BY DEF Init, Channel!Init
<1>2. IInv /\ [Next]_vars => [Channel!Next]_(Channel!vars)
  BY StepMaps
<1> QED BY InitIInv, StepIInv, <1>1, <1>2, PTL DEF Spec, PipeIsChannel, Channel!Spec
=============================================================================
