--------------------------- MODULE WeightyProofs ---------------------------
(***************************************************************************)
(* The result of the weightiness analysis is closed under calls, for every *)
(* file and every call graph: what Program.WeightyAssumption asks for.     *)
(* And it is exact: a chain of calls witnesses each weighty function.      *)
(***************************************************************************)
EXTENDS Weighty, FiniteSetTheorems, WellFoundedInduction, TLAPS

\* Without progress in this pass, the functions looked at so far are settled.
SettledSoFar ==
    ~madeProgress => \A i \in 1 .. visit - 1 :
        HasWeightyCall(Defs[i]) => Defs[i] \in weighty

IInv ==
    /\ visit \in 1 .. Len(Defs) + 1
    /\ madeProgress \in BOOLEAN
    /\ hasSites \subseteq Defined
    /\ weighty \subseteq Defined
    /\ hasSites \subseteq weighty
    /\ SettledSoFar
    /\ ResultIsClosed

LEMMA DefinedIsListed ==
    /\ Len(Defs) \in Nat
    /\ \A f \in Defined : \E i \in 1 .. Len(Defs) : Defs[i] = f
    /\ \A i \in 1 .. Len(Defs) : Defs[i] \in Defined
BY NamesAssumption DEF Defined, ToSet

LEMMA InitIInv == Init => IInv
<1> SUFFICES ASSUME Init PROVE IInv
    OBVIOUS
<1>1. hasSites \subseteq Defined /\ hasSites \subseteq weighty /\ weighty \subseteq Defined
  BY DEF Init
<1>2. visit = 1 /\ madeProgress = FALSE /\ done = FALSE
  BY DEF Init
<1>3. visit \in 1 .. Len(Defs) + 1 /\ \A i \in 1 .. visit - 1 : FALSE
  BY <1>2, DefinedIsListed
<1>4. madeProgress \in BOOLEAN
  BY <1>2
<1>5. SettledSoFar
  BY <1>3 DEF SettledSoFar
<1>6. ResultIsClosed
  BY <1>2 DEF ResultIsClosed
<1> QED BY <1>1, <1>3, <1>4, <1>5, <1>6 DEF IInv

LEMMA NextIInv == IInv /\ [Next]_vars => IInv'
<1> SUFFICES ASSUME IInv, [Next]_vars PROVE IInv'
    OBVIOUS
<1> USE DefinedIsListed
<1>1. CASE VisitFunction
  <2>1. CASE Defs[visit] \notin weighty /\ HasWeightyCall(Defs[visit])
    BY <1>1, <2>1 DEF VisitFunction, IInv, SettledSoFar, ResultIsClosed
  <2>2. CASE ~(Defs[visit] \notin weighty /\ HasWeightyCall(Defs[visit]))
    <3>1. UNCHANGED <<hasSites, callees, weighty, madeProgress, done>> /\ visit' = visit + 1
      BY <1>1, <2>2 DEF VisitFunction
    <3>2. \A f : HasWeightyCall(f)' = HasWeightyCall(f)
      BY <3>1 DEF HasWeightyCall, IsWeightyCallee, IsWeightyVarinfo, IsWeightyLibrary
    <3>3. SettledSoFar'
      BY <3>1, <3>2, <2>2 DEF SettledSoFar, IInv
    <3>4. visit' \in 1 .. Len(Defs) + 1
      BY <1>1, <3>1 DEF VisitFunction, IInv
    <3> QED BY <1>1, <3>1, <3>3, <3>4 DEF IInv, ResultIsClosed, VisitFunction
  <2> QED BY <2>1, <2>2
<1>2. CASE EndPass
  <2>1. UNCHANGED <<hasSites, callees, weighty>> /\ visit' = 1
        /\ madeProgress' = FALSE /\ done' = ~madeProgress
    BY <1>2 DEF EndPass
  <2>2. \A f : HasWeightyCall(f)' = HasWeightyCall(f)
    BY <2>1 DEF HasWeightyCall, IsWeightyCallee, IsWeightyVarinfo, IsWeightyLibrary
  <2>3. visit = Len(Defs) + 1
    BY <1>2 DEF EndPass, IInv
  <2>4. ~madeProgress => \A f \in Defined : HasWeightyCall(f) => f \in weighty
    BY <2>3 DEF IInv, SettledSoFar
  <2>5. ResultIsClosed'
    BY <2>1, <2>2, <2>4 DEF ResultIsClosed, ClosedUnderCalls, IInv
  <2>6. SettledSoFar'
    BY <2>1 DEF SettledSoFar
  <2>7. visit' \in 1 .. Len(Defs) + 1
    BY <2>1
  <2>8. madeProgress' \in BOOLEAN
    BY <2>1
  <2> QED BY <2>1, <2>5, <2>6, <2>7, <2>8 DEF IInv
<1>3. CASE UNCHANGED vars
  <2>1. \A f : HasWeightyCall(f)' = HasWeightyCall(f)
    BY <1>3 DEF vars, HasWeightyCall, IsWeightyCallee, IsWeightyVarinfo, IsWeightyLibrary
  <2> QED BY <1>3, <2>1 DEF vars, IInv, SettledSoFar, ResultIsClosed, ClosedUnderCalls
<1> QED BY <1>1, <1>2, <1>3 DEF Next

\* When the passes have ended, a function with sites is weighty, and so is
\* every function with a call of a weighty one (weighty.ml collect).
THEOREM AnalysisIsClosed == Spec => []ResultIsClosed
<1>1. IInv => ResultIsClosed
  BY DEF IInv
<1> QED BY InitIInv, NextIInv, <1>1, PTL DEF Spec

-----------------------------------------------------------------------------
(* Nothing in vain *)

\* A chain of calls from f to a site, or out of sight, no longer than the
\* collection is large: each function on it was collected before the last.
LeadsOut(f) ==
    \E c \in Chains :
        /\ c # << >> /\ c[1] = f /\ Len(c) <= Cardinality(weighty)
        /\ (Last(c) \in hasSites \/ callees[Last(c)] \cap Opaque # {})

ExactInv ==
    /\ TypeOK
    /\ AssumeWeightyInterns \/ \A f \in weighty : LeadsOut(f)

\* The file defines finitely many functions, no more than it lists.
LEMMA DefinedFinite ==
    /\ IsFiniteSet(Defined) /\ Cardinality(Defined) <= Len(Defs)
    /\ Cardinality(Defined) \in Nat /\ Len(Defs) \in Nat
    /\ Defined # {} => Len(Defs) >= 1
<1>1. Defs \in Seq(Defined) /\ Len(Defs) \in Nat
  BY DefinedIsListed, NamesAssumption
<1>2. Defs \in Surjection(1 .. Len(Defs), Defined)
  BY <1>1, DefinedIsListed DEF Surjection
<1>3. IsFiniteSet(1 .. Len(Defs)) /\ Cardinality(1 .. Len(Defs)) = Len(Defs)
  BY <1>1, FS_Interval
<1>4. IsFiniteSet(Defined) /\ Cardinality(Defined) <= Len(Defs)
  BY <1>2, <1>3, FS_Surjection
<1>5. Cardinality(Defined) \in Nat
  BY <1>4, FS_CardinalityType
<1>6. Defined # {} => Len(Defs) >= 1
  BY <1>1, DefinedIsListed
<1> QED BY <1>1, <1>4, <1>5, <1>6

\* What a chain is.
LEMMA ChainsAre ==
    /\ \A c \in Chains : /\ c \in Seq(Defined) /\ Len(c) <= Len(Defs)
                         /\ \A i \in 1 .. Len(c) - 1 : c[i + 1] \in callees[c[i]]
    /\ \A c \in Seq(Defined) :
          /\ Len(c) <= Len(Defs)
          /\ \A i \in 1 .. Len(c) - 1 : c[i + 1] \in callees[c[i]]
          => c \in Chains
<1>1. Len(Defs) \in Nat
  BY DefinedIsListed
<1>2. ASSUME NEW c \in SeqOf(Defined, Len(Defs))
      PROVE  c \in Seq(Defined) /\ Len(c) <= Len(Defs)
  <2>1. PICK m \in 0 .. Len(Defs) : c \in [1 .. m -> Defined]
    BY <1>1 DEF SeqOf
  <2>2. m \in Nat /\ m <= Len(Defs)
    BY <1>1
  <2>3. c \in Seq(Defined) /\ Len(c) = m
    BY <2>1, <2>2
  <2> QED BY <2>2, <2>3
<1>3. ASSUME NEW c \in Seq(Defined), Len(c) <= Len(Defs)
      PROVE  c \in SeqOf(Defined, Len(Defs))
  <2>1. Len(c) \in 0 .. Len(Defs) /\ c \in [1 .. Len(c) -> Defined]
    BY <1>1, <1>3
  <2> QED BY <2>1 DEF SeqOf
<1> QED BY <1>2, <1>3 DEF Chains

\* A weighty function is its own chain, or heads that of the one it calls.
LEMMA ChainOfOne ==
    ASSUME NEW f \in Defined
    PROVE  /\ <<f>> \in Chains /\ <<f>> # << >> /\ <<f>>[1] = f
           /\ Len(<<f>>) = 1 /\ Last(<<f>>) = f
<1> DEFINE c == <<f>>
<1>1. c \in Seq(Defined) /\ Len(c) = 1 /\ c[1] = f /\ c # << >>
  OBVIOUS
<1> HIDE DEF c
<1>2. Len(c) <= Len(Defs)
  BY <1>1, DefinedFinite
<1>3. \A i \in 1 .. Len(c) - 1 : c[i + 1] \in callees[c[i]]
  BY <1>1
<1>4. c \in Chains /\ Last(c) = f
  BY <1>1, <1>2, <1>3, ChainsAre DEF Last
<1> QED BY <1>1, <1>4 DEF c

LEMMA ChainGrows ==
    ASSUME NEW f \in Defined, NEW c \in Chains, c # << >>, c[1] \in callees[f],
           Len(c) < Len(Defs)
    PROVE  \E d \in Chains : /\ d # << >> /\ d[1] = f /\ Len(d) = Len(c) + 1
                             /\ Last(d) = Last(c)
<1> DEFINE d == <<f>> \o c
<1>1. /\ c \in Seq(Defined) /\ Len(c) \in Nat /\ Len(Defs) \in Nat
      /\ \A i \in 1 .. Len(c) - 1 : c[i + 1] \in callees[c[i]]
  BY ChainsAre, DefinedFinite
<1>2. Len(c) >= 1
  BY <1>1
<1>3. /\ d \in Seq(Defined) /\ Len(d) = Len(c) + 1 /\ d[1] = f
      /\ \A i \in 1 .. Len(c) : d[i + 1] = c[i]
  BY <1>1
<1> HIDE DEF d
<1>4. \A i \in 1 .. Len(d) - 1 : d[i + 1] \in callees[d[i]]
  <2> SUFFICES ASSUME NEW i \in 1 .. Len(d) - 1 PROVE d[i + 1] \in callees[d[i]]
    OBVIOUS
  <2>1. i \in 1 .. Len(c) /\ d[i + 1] = c[i]
    BY <1>1, <1>3
  <2>2. CASE i = 1
    BY <1>3, <2>1, <2>2
  <2>3. CASE i # 1
    <3>1. i - 1 \in 1 .. Len(c) - 1 /\ (i - 1) + 1 = i /\ i - 1 \in 1 .. Len(c)
      BY <1>1, <2>1, <2>3
    <3>2. d[i] = c[i - 1] /\ c[i] \in callees[c[i - 1]]
      BY <1>1, <1>3, <3>1
    <3> QED BY <2>1, <3>2
  <2> QED BY <2>2, <2>3
<1>5. Len(d) <= Len(Defs)
  BY <1>1, <1>3
<1>6. d \in Chains
  BY <1>3, <1>4, <1>5, ChainsAre
<1>7. Last(d) = Last(c)
  BY <1>1, <1>2, <1>3 DEF Last
<1>8. d # << >>
  BY <1>1, <1>3
<1> QED BY <1>3, <1>6, <1>7, <1>8

\* A weighty call goes to a function of the collection, or out of sight.
LEMMA WeightyCallGoes ==
    ASSUME TypeOK, ~AssumeWeightyInterns, NEW f \in Defined, HasWeightyCall(f)
    PROVE  callees[f] \cap (weighty \cup Opaque) # {}
<1>1. PICK c \in callees[f] : c = Pointer \/ IsWeightyVarinfo(c, weighty)
  BY DEF HasWeightyCall, IsWeightyCallee
<1>2. c \in Defined \cup Externs \cup {Pointer}
  BY DEF TypeOK
<1>3. CASE c = Pointer
  BY <1>1, <1>3 DEF Opaque
<1>4. CASE c \in weighty
  BY <1>1, <1>4
<1>5. CASE c # Pointer /\ c \notin weighty
  BY <1>1, <1>2, <1>5 DEF IsWeightyVarinfo, IsWeightyLibrary, Opaque
<1> QED BY <1>3, <1>4, <1>5

LEMMA OpaqueIsWeighty ==
    ASSUME NEW f \in Defined, callees[f] \cap (weighty \cup Opaque) # {}
    PROVE  HasWeightyCall(f)
<1>1. PICK c \in callees[f] : c \in weighty \cup Opaque
  OBVIOUS
<1>2. CASE c \in weighty \/ c = Pointer
  BY <1>1, <1>2 DEF HasWeightyCall, IsWeightyCallee, IsWeightyVarinfo
<1>3. CASE c \in Opaque /\ c # Pointer
  <2>1. c \in Externs /\ c \notin Pragma
        /\ \/ AssumeWeightyExterns /\ c \notin Library \cup Builtin
           \/ AssumeWeightyLibraries /\ c \in Library
    BY <1>3, NamesAssumption DEF Opaque
  <2>2. c \notin Defined
    BY <2>1, NamesAssumption
  <2> QED BY <1>1, <2>1, <2>2 DEF HasWeightyCall, IsWeightyCallee, IsWeightyVarinfo
<1> QED BY <1>1, <1>2, <1>3 DEF Opaque

LEMMA InitExact == Init => ExactInv
<1> SUFFICES ASSUME Init PROVE ExactInv
    OBVIOUS
<1>1. TypeOK
  <2>1. hasSites \subseteq Defined /\ weighty \subseteq Defined
        /\ callees \in [Defined -> SUBSET (Defined \cup Externs \cup {Pointer})]
    BY DEF Init
  <2>2. visit \in 1 .. Len(Defs) + 1
    BY DefinedIsListed DEF Init
  <2>3. madeProgress \in BOOLEAN /\ done \in BOOLEAN
    BY DEF Init
  <2> QED BY <2>1, <2>2, <2>3 DEF TypeOK
<1>2. ASSUME ~AssumeWeightyInterns, NEW f \in weighty
      PROVE  LeadsOut(f)
  <2>1. weighty = hasSites /\ f \in hasSites /\ f \in Defined
    BY <1>1, <1>2 DEF Init, TypeOK
  <2>2. IsFiniteSet(weighty)
    BY <2>1, <1>1, DefinedFinite, FS_Subset DEF TypeOK
  <2>3. Cardinality(weighty) \in Nat /\ Cardinality(weighty) # 0
    BY <1>2, <2>2, FS_CardinalityType, FS_EmptySet
  <2>4. /\ <<f>> \in Chains /\ <<f>> # << >> /\ <<f>>[1] = f
        /\ Len(<<f>>) = 1 /\ Last(<<f>>) = f
    BY <2>1, ChainOfOne
  <2>5. 1 <= Cardinality(weighty)
    BY <2>3
  <2>6. /\ Len(<<f>>) <= Cardinality(weighty) /\ Last(<<f>>) \in hasSites
    BY <2>1, <2>4, <2>5
  <2> QED BY <2>4, <2>6, Zenon DEF LeadsOut
<1> QED BY <1>1, <1>2 DEF ExactInv

\* The collection has a member more.
LEMMA CollectExact ==
    ASSUME ExactInv, ~AssumeWeightyInterns, NEW f \in Defined, f \notin weighty,
           HasWeightyCall(f), weighty' = weighty \cup {f}, UNCHANGED <<hasSites, callees>>
    PROVE  \A g \in weighty' : LeadsOut(g)'
<1>1. weighty \subseteq Defined /\ weighty' \subseteq Defined /\ TypeOK
  BY DEF ExactInv, TypeOK
<1>2. IsFiniteSet(weighty) /\ IsFiniteSet(weighty')
      /\ Cardinality(weighty') <= Cardinality(Defined)
  BY <1>1, DefinedFinite, FS_Subset
<1>3. /\ Cardinality(weighty) \in Nat /\ Cardinality(weighty') = Cardinality(weighty) + 1
      /\ Cardinality(weighty) < Len(Defs)
  BY <1>2, DefinedFinite, FS_AddElement, FS_CardinalityType
<1>4. Chains' = Chains /\ Opaque' = Opaque
  BY DEF Chains, Opaque
<1>5. ASSUME NEW g \in weighty
      PROVE  LeadsOut(g)'
  <2>1. PICK c \in Chains :
           /\ c # << >> /\ c[1] = g /\ Len(c) <= Cardinality(weighty)
           /\ (Last(c) \in hasSites \/ callees[Last(c)] \cap Opaque # {})
    BY <1>5 DEF ExactInv, LeadsOut
  <2>2. Len(c) \in Nat
    BY ChainsAre
  <2>3. Len(c) <= Cardinality(weighty')
    BY <1>3, <2>1, <2>2
  <2> QED BY <1>4, <2>1, <2>3 DEF LeadsOut
<1>6. LeadsOut(f)'
  <2>1. PICK x \in callees[f] : x \in weighty \cup Opaque
    BY <1>1, WeightyCallGoes
  <2>2. CASE x \in Opaque
    <3>1. /\ <<f>> \in Chains /\ <<f>> # << >> /\ <<f>>[1] = f
          /\ Len(<<f>>) = 1 /\ Last(<<f>>) = f
      BY ChainOfOne
    <3>2. 1 <= Cardinality(weighty')
      BY <1>3
    <3>3. Len(<<f>>) <= Cardinality(weighty') /\ callees'[Last(<<f>>)] \cap Opaque' # {}
      BY <1>4, <2>1, <2>2, <3>1, <3>2
    <3> QED BY <1>4, <3>1, <3>3, Zenon DEF LeadsOut
  <2>3. CASE x \in weighty
    <3>1. PICK c \in Chains :
             /\ c # << >> /\ c[1] = x /\ Len(c) <= Cardinality(weighty)
             /\ (Last(c) \in hasSites \/ callees[Last(c)] \cap Opaque # {})
      BY <2>3 DEF ExactInv, LeadsOut
    <3>2. Len(c) \in Nat /\ Len(Defs) \in Nat
      BY ChainsAre, DefinedFinite
    <3>3. Len(c) < Len(Defs)
      BY <1>3, <3>1, <3>2
    <3>4. PICK d \in Chains : /\ d # << >> /\ d[1] = f /\ Len(d) = Len(c) + 1
                              /\ Last(d) = Last(c)
      BY <2>1, <3>1, <3>3, ChainGrows
    <3>5. Len(d) <= Cardinality(weighty')
      BY <1>3, <3>1, <3>2, <3>4
    <3> QED BY <1>4, <3>1, <3>4, <3>5 DEF LeadsOut
  <2> QED BY <2>1, <2>2, <2>3
<1> QED BY <1>5, <1>6

LEMMA NextExact == ExactInv /\ [Next]_vars => ExactInv'
<1> SUFFICES ASSUME ExactInv, [Next]_vars PROVE ExactInv'
    OBVIOUS
<1>1. TypeOK'
  <2>1. Len(Defs) \in Nat /\ \A i \in 1 .. Len(Defs) : Defs[i] \in Defined
    BY DefinedIsListed
  <2>2. CASE VisitFunction
    <3>1. UNCHANGED <<hasSites, callees, done>>
      BY <2>2 DEF VisitFunction
    <3>2. visit \in 1 .. Len(Defs) /\ visit' \in 1 .. Len(Defs) + 1
      BY <2>1, <2>2 DEF VisitFunction, ExactInv, TypeOK
    <3>3. weighty' \subseteq Defined
      BY <2>1, <2>2, <3>2 DEF VisitFunction, ExactInv, TypeOK
    <3>4. madeProgress' \in BOOLEAN
      BY <2>2 DEF VisitFunction, ExactInv, TypeOK
    <3> QED BY <3>1, <3>2, <3>3, <3>4 DEF ExactInv, TypeOK
  <2>3. CASE EndPass
    <3>1. UNCHANGED <<hasSites, callees, weighty>>
      BY <2>3 DEF EndPass
    <3>2. visit' \in 1 .. Len(Defs) + 1
      BY <2>1, <2>3 DEF EndPass
    <3>3. madeProgress' \in BOOLEAN /\ done' \in BOOLEAN
      BY <2>3, Zenon DEF EndPass
    <3> QED BY <3>1, <3>2, <3>3 DEF ExactInv, TypeOK
  <2>4. CASE UNCHANGED vars
    BY <2>4 DEF vars, ExactInv, TypeOK
  <2> QED BY <2>2, <2>3, <2>4 DEF Next
<1>2. CASE UNCHANGED <<hasSites, callees, weighty>>
  <2>1. \A f : LeadsOut(f)' <=> LeadsOut(f)
    BY <1>2 DEF LeadsOut, Chains, Opaque
  <2> QED BY <1>1, <1>2, <2>1 DEF ExactInv
<1>3. CASE ~AssumeWeightyInterns /\ VisitFunction /\ weighty' # weighty
  <2> DEFINE f == Defs[visit]
  <2>1. /\ f \notin weighty /\ HasWeightyCall(f) /\ weighty' = weighty \cup {f}
        /\ UNCHANGED <<hasSites, callees>>
    BY <1>3 DEF VisitFunction
  <2>2. f \in Defined
    BY <1>3, DefinedIsListed DEF VisitFunction, ExactInv, TypeOK
  <2> HIDE DEF f
  <2>3. \A g \in weighty' : LeadsOut(g)'
    BY <1>3, <2>1, <2>2, CollectExact
  <2> QED BY <1>1, <2>3, Zenon DEF ExactInv
<1>4. CASE AssumeWeightyInterns
  BY <1>1, <1>4 DEF ExactInv
<1> QED BY <1>2, <1>3, <1>4 DEF Next, VisitFunction, EndPass, vars

-----------------------------------------------------------------------------
(* Nothing missed *)

LEMMA LeastOf ==
    ASSUME NEW T \in SUBSET Nat, T # {}
    PROVE  \E x \in T : \A y \in T : x <= y
<1> DEFINE R == OpToRel(<, Nat)
<1>1. IsWellFoundedOn(R, Nat)
  BY NatLessThanWellFounded
<1>2. \A y, z \in Nat : y < z => <<y, z>> \in R
  BY DEF OpToRel
<1> HIDE DEF R
<1>3. PICK x \in T : \A y \in T : <<y, x>> \notin R
  BY <1>1, WFMin
<1>4. ASSUME NEW y \in T PROVE x <= y
  <2>1. x \in Nat /\ y \in Nat /\ <<y, x>> \notin R
    BY <1>3
  <2>2. ~(y < x)
    BY <1>2, <2>1
  <2> QED BY <2>1, <2>2
<1> QED BY <1>4

\* A closed collection holds every function on a chain that leads out: the last
\* one on the chain that it does not hold would have a weighty call.
LEMMA ClosedHoldsChains ==
    ASSUME ClosedUnderCalls, TypeOK, NEW f \in Defined, MayReachSite(f)
    PROVE  f \in weighty
<1>1. PICK c \in Chains :
         /\ c # << >> /\ c[1] = f
         /\ (Last(c) \in hasSites \/ callees[Last(c)] \cap Opaque # {})
  BY DEF MayReachSite
<1>2. /\ c \in Seq(Defined) /\ Len(c) \in Nat
      /\ \A i \in 1 .. Len(c) - 1 : c[i + 1] \in callees[c[i]]
  BY ChainsAre
<1>3. Len(c) >= 1 /\ \A i \in 1 .. Len(c) : c[i] \in Defined
  BY <1>1, <1>2
<1>4. Last(c) \in weighty
  <2>1. Last(c) \in Defined
    BY <1>3, <1>2 DEF Last
  <2>2. CASE Last(c) \in hasSites
    BY <2>2 DEF ClosedUnderCalls
  <2>3. CASE callees[Last(c)] \cap Opaque # {}
    <3>1. callees[Last(c)] \cap (weighty \cup Opaque) # {}
      BY <2>3
    <3>2. HasWeightyCall(Last(c))
      BY <2>1, <3>1, OpaqueIsWeighty
    <3> QED BY <2>1, <3>2 DEF ClosedUnderCalls
  <2> QED BY <1>1, <2>2, <2>3
<1>5. \A i \in 1 .. Len(c) : c[i] \in weighty
  <2> DEFINE T == {k \in 0 .. Len(c) - 1 : c[Len(c) - k] \notin weighty}
  <2> SUFFICES ASSUME NEW j \in 1 .. Len(c), c[j] \notin weighty PROVE FALSE
    OBVIOUS
  <2>1. T \in SUBSET Nat /\ T # {}
    <3>1. Len(c) - j \in 0 .. Len(c) - 1 /\ Len(c) - (Len(c) - j) = j
      BY <1>2
    <3>2. Len(c) - j \in T
      BY <3>1
    <3>3. T \subseteq 0 .. Len(c) - 1
      OBVIOUS
    <3> HIDE DEF T
    <3> QED BY <1>2, <3>2, <3>3
  <2>2. PICK k \in T : \A y \in T : k <= y
    <3> HIDE DEF T
    <3> QED BY <2>1, LeastOf
  <2>3. k \in 0 .. Len(c) - 1 /\ c[Len(c) - k] \notin weighty
    OBVIOUS
  <2>4. k # 0
    BY <1>2, <1>4, <2>3 DEF Last
  <2>5. k - 1 \in 0 .. Len(c) - 1 /\ ~(k <= k - 1)
    BY <1>2, <2>3, <2>4
  <2>6. c[Len(c) - (k - 1)] \in weighty
    BY <2>2, <2>5
  <2> DEFINE i == Len(c) - k
  <2>7. i \in 1 .. Len(c) - 1 /\ i \in 1 .. Len(c) /\ Len(c) - (k - 1) = i + 1
    BY <1>2, <2>3, <2>4
  <2>8. c[i + 1] \in callees[c[i]] /\ c[i + 1] \in weighty /\ c[i] \notin weighty
    BY <1>2, <2>3, <2>6, <2>7
  <2>9. c[i] \in Defined
    BY <1>3, <2>7
  <2> HIDE DEF i
  <2>10. HasWeightyCall(c[i])
    <3>1. callees[c[i]] \cap (weighty \cup Opaque) # {}
      BY <2>8
    <3> QED BY <2>9, <3>1, OpaqueIsWeighty
  <2> QED BY <2>8, <2>9, <2>10 DEF ClosedUnderCalls
<1> QED BY <1>1, <1>3, <1>5

\* The analysis collects the functions from which a chain of calls leads to a
\* site, or to what it cannot see: no other at any time, and in the end all of
\* them, however long the chain.  (weighty.ml, fixpoint.ml)
THEOREM AnalysisIsExact == Spec => []ResultIsExact
<1>1. ExactInv /\ IInv => ResultIsExact
  <2> SUFFICES ASSUME ExactInv, IInv PROVE ResultIsExact
      OBVIOUS
  <2>1. TypeOK
    BY DEF ExactInv
  <2>2. NothingInVain
    BY DEF ExactInv, NothingInVain, LeadsOut, MayReachSite
  <2>3. NothingMissed
    BY <2>1, ClosedHoldsChains DEF NothingMissed, IInv, ResultIsClosed
  <2> QED BY <2>1, <2>2, <2>3 DEF ResultIsExact
<1> QED BY InitExact, NextExact, InitIInv, NextIInv, <1>1, PTL DEF Spec
=============================================================================
