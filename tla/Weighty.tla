------------------------------ MODULE Weighty ------------------------------
(***************************************************************************)
(* Which functions of a file may reach a sampling site, and so need the    *)
(* countdown exported before they are called (weighty.ml).  Functions that *)
(* have sites are, and so is every function with a call that is: passes    *)
(* over the file are made until one finds nothing (fixpoint.ml).           *)
(* The program varies: Init takes any call graph over the given names.     *)
(***************************************************************************)
EXTENDS Integers, SequencesExt

CONSTANTS
    Defs,        \* the functions the file defines, in its order
    Externs,     \* those it only calls, and of these
    Pragma,      \* #pragma sampler_assume_weightless
    Library,     \* symbols of libc and libm (libraries.ml)
    Builtin,     \* __builtin_...
    Pointer,     \* a call through a pointer, which Dynamic.resolve gives up on
    AssumeWeightyInterns, AssumeWeightyExterns, AssumeWeightyLibraries

VARIABLES
    hasSites,    \* SUBSET of the defined functions, chosen by Init
    callees,     \* function -> what it calls, chosen by Init
    weighty,     \* the collection
    visit,       \* index in Defs of the function to look at
    madeProgress,
    done

vars == <<hasSites, callees, weighty, visit, madeProgress, done>>

Defined == ToSet(Defs)

ASSUME NamesAssumption ==
    /\ IsInjective(Defs) /\ Defs \in Seq(Defined)
    /\ Defined \cap Externs = {} /\ Pointer \notin Defined \cup Externs
    /\ Pragma \cup Library \cup Builtin \subseteq Externs
    /\ \A flag \in {AssumeWeightyInterns, AssumeWeightyExterns,
                    AssumeWeightyLibraries} : flag \in BOOLEAN

\* The pattern "^(bsearch|qsort)$|setjmp|longjmp" is one long literal to OCaml's
\* Str, where grouping and alternation are written \\( \\| \\): it matches no name,
\* so that a function that has qsort call it back is not seen to be called.
IsWeightyLibrary(f) == FALSE

\* Mutated form: the pragma is not heeded.
IsWeightyVarinfo_NoPragma(f, collected) ==
    \/ f \in collected
    \/ f \in Externs \ (Library \cup Builtin) /\ AssumeWeightyExterns

\* What is assumed of a function that is called by its name.
IsWeightyVarinfo(f, collected) ==
    \/ f \in collected
    \/ f \in Defined /\ AssumeWeightyInterns
    \/ /\ f \notin Defined \cup Pragma
       /\ \/ IsWeightyLibrary(f)
          \/ f \in Library /\ AssumeWeightyLibraries
          \/ f \notin Library \cup Builtin /\ AssumeWeightyExterns

IsWeightyCallee(c, collected) == c = Pointer \/ IsWeightyVarinfo(c, collected)

HasWeightyCall(f) == \E c \in callees[f] : IsWeightyCallee(c, weighty)

Init ==
    /\ hasSites \in SUBSET Defined
    /\ callees \in [Defined -> SUBSET (Defined \cup Externs \cup {Pointer})]
    /\ weighty = IF AssumeWeightyInterns THEN Defined ELSE hasSites
    /\ visit = 1
    /\ madeProgress = FALSE
    /\ done = FALSE

VisitFunction ==
    /\ ~done /\ visit <= Len(Defs)
    /\ LET f == Defs[visit] IN
       IF f \notin weighty /\ HasWeightyCall(f)
       THEN weighty' = weighty \cup {f} /\ madeProgress' = TRUE
       ELSE UNCHANGED <<weighty, madeProgress>>
    /\ visit' = visit + 1
    /\ UNCHANGED <<hasSites, callees, done>>

\* Mutated form: one pass is enough.
EndPass_Once ==
    /\ ~done /\ visit > Len(Defs)
    /\ done' = TRUE
    /\ visit' = 1
    /\ madeProgress' = FALSE
    /\ UNCHANGED <<hasSites, callees, weighty>>

\* Mutated form: progress of an earlier pass counts for the next.
EndPass_Sticky ==
    /\ ~done /\ visit > Len(Defs)
    /\ done' = ~madeProgress
    /\ visit' = 1
    /\ UNCHANGED <<hasSites, callees, weighty, madeProgress>>

EndPass ==
    /\ ~done /\ visit > Len(Defs)
    /\ done' = ~madeProgress
    /\ visit' = 1
    /\ madeProgress' = FALSE
    /\ UNCHANGED <<hasSites, callees, weighty>>

Next == VisitFunction \/ EndPass

Spec == Init /\ [][Next]_vars
FairSpec == Spec /\ WF_vars(Next)

-----------------------------------------------------------------------------
(* Properties *)

\* Types: the collection holds functions of the file only.
TypeOK ==
    /\ hasSites \subseteq Defined
    /\ callees \in [Defined -> SUBSET (Defined \cup Externs \cup {Pointer})]
    /\ weighty \subseteq Defined
    /\ visit \in 1 .. Len(Defs) + 1
    /\ madeProgress \in BOOLEAN /\ done \in BOOLEAN

\* What the transformed code relies on (Program.WeightyAssumption): a function
\* with sites is weighty, and so is one with a call of a weighty function.
ClosedUnderCalls ==
    /\ hasSites \subseteq weighty
    /\ \A f \in Defined : HasWeightyCall(f) => f \in weighty
ResultIsClosed == done => ClosedUnderCalls

\* Chains of calls from one definition to the next.
Chains ==
    {c \in SeqOf(Defined, Len(Defs)) :
        \A i \in 1 .. Len(c) - 1 : c[i + 1] \in callees[c[i]]}
Opaque ==
    {Pointer}
    \cup (IF AssumeWeightyExterns THEN Externs \ (Pragma \cup Library \cup Builtin) ELSE {})
    \cup (IF AssumeWeightyLibraries THEN Library \ Pragma ELSE {})
MayReachSite(f) ==
    \E c \in Chains :
        /\ c # << >> /\ c[1] = f
        /\ (Last(c) \in hasSites \/ callees[Last(c)] \cap Opaque # {})

\* Nothing is collected in vain, at any time: some chain of calls leads from a
\* weighty function to a site, or out of what the analysis sees.
NothingInVain ==
    AssumeWeightyInterns \/ \A f \in weighty : MayReachSite(f)

\* Nothing is missed, however long the chain of calls.
NothingMissed ==
    done => \A f \in Defined : MayReachSite(f) => f \in weighty

\* The weighty functions are the functions from which a chain of calls leads to
\* a site or out of sight, no more and in the end no fewer.
ResultIsExact == TypeOK /\ NothingInVain /\ NothingMissed

\* The passes come to an end.
AnalysisEnds == <>done
=============================================================================
