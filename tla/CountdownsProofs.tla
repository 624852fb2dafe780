------------------------ MODULE CountdownsProofs ------------------------
(***************************************************************************)
(* For any number of threads, bank and draws: streams are drawn in their   *)
(* order, threads are seeded as the guide tells, a child stops sampling,   *)
(* and no fault loses a report.                                            *)
(***************************************************************************)
EXTENDS Countdowns, SequenceTheorems, TLAPS

-----------------------------------------------------------------------------
(* The inductive invariant *)

Online == env.random = "online"
Seeds == {Zero, Told} \cup {Entropy(i) : i \in 1..reads}

TypesInv ==
    /\ env \in Environments
    /\ process \in {"starting", "running", "exiting", "exited", "refused", "killed"}
    /\ isChild \in BOOLEAN
    /\ handlers \in Seq({"random", "report"}) /\ report \in {"none", "open", "closed"}
    /\ scale \in {"zero", "set"}
    /\ bank \in {"null", "file", "minus one"} /\ mapped \in BOOLEAN
    /\ mapped => bank # "null"
    /\ entropy \in {"null", "open", "closed"} /\ reads \in Nat
    /\ pc \in [Thread -> {"none", "created", "fread", "first", "initialized",
                          "application", "exit"}]
    /\ generator \in [Thread -> [sampling : BOOLEAN, seed : Seeds, drawn : Nat,
                                 slot : 0..(BankSize - 1)]]
    /\ countdown \in [Thread -> Countdown]
    /\ drawn \in [Thread -> Seq(Countdown)]
    /\ samples \in [Thread -> Nat]

\* The generator of a thread stands where the thread's draws have left it, and
\* what was drawn of a stream is of the generator's own seed.
DrawsInv ==
    \A t \in Thread :
        /\ pc[t] \in {"created", "fread", "first"} => drawn[t] = << >>
        /\ generator[t].drawn = Len(drawn[t])
        /\ generator[t].slot = Len(drawn[t]) % BankSize
        /\ \A i \in DOMAIN drawn[t] :
              /\ drawn[t][i].from = "stream" => drawn[t][i].item = i
              /\ drawn[t][i].from = "bank" => drawn[t][i].item = (i - 1) % BankSize
              /\ drawn[t][i].from = "stream" => drawn[t][i].seed = generator[t].seed

\* Two threads have no seed in common but zero and the one that was told.
SeedsInv ==
    /\ Online =>
          \A t \in Thread :
              IF env.seeded THEN generator[t].seed \in {Zero, Told}
              ELSE /\ generator[t].seed # Told
                   /\ \A u \in Thread \ {t} :
                          generator[t].seed = generator[u].seed => generator[t].seed = Zero
    /\ ~Online => \A t \in Thread : generator[t].sampling = FALSE /\ generator[t].seed = Zero
    /\ \A t \in Thread : \A i \in DOMAIN drawn[t] :
          drawn[t][i].from = "stream" /\ process \in {"starting", "running"} =>
              drawn[t][i].seed # Zero
    /\ Online /\ scale = "set" /\ process \in {"starting", "running"} =>
          /\ entropy = IF env.seeded THEN "null" ELSE "open"
          /\ \A t \in Thread : generator[t].sampling => generator[t].seed # Zero
    /\ entropy # "null" => Online /\ ~env.seeded

\* What a child has of its parent is worth one sample.
ChildInv ==
    isChild =>
        /\ process # "starting"
        /\ env.random = "offline" => bank # "file"
        /\ env.random = "fixed" => scale = "zero"
        /\ \A t \in Thread :
              /\ pc[t] = "none" => samples[t] = 0
              /\ \/ generator[t].sampling
                 \/ samples[t] = 0
                 \/ samples[t] = 1 /\ countdown[t] = Extreme

\* Before main runs there is one thread; until its first call nothing was set.
StartInv ==
    process = "starting" =>
        /\ ~isChild /\ report = "none" /\ entropy # "closed"
        /\ handlers = << >> \/ handlers = <<"random">>
        /\ \A t \in Thread \ {Main} : pc[t] = "none"
        /\ pc[Main] \in {"none", "created", "fread", "first", "initialized"}
        /\ pc[Main] = "none" =>
              /\ scale = "zero" /\ bank = "null" /\ mapped = FALSE /\ entropy = "null"
              /\ handlers = << >>
              /\ \A t \in Thread : generator[t] = Fresh /\ drawn[t] = << >>
        /\ pc[Main] = "fread" => entropy = "open"
        /\ pc[Main] # "none" /\ env.random = "offline" => mapped

\* An open report is finalized before the table and the entropy go.
ReportInv ==
    report = "open" =>
        /\ handlers # << >> /\ Head(handlers) = "report"
        /\ env.random = "offline" => mapped
        /\ entropy # "closed"
        /\ \A t \in Thread : pc[t] = "fread" => entropy = "open"

IInv == TypesInv /\ DrawsInv /\ SeedsInv /\ ChildInv /\ StartInv /\ ReportInv

-----------------------------------------------------------------------------
(* Arithmetic of the bank's slots, and what a draw does *)

LEMMA SlotAfter ==
    ASSUME NEW n \in Nat
    PROVE  /\ n % BankSize \in 0..(BankSize - 1)
           /\ ((n % BankSize) + 1) % BankSize = (n + 1) % BankSize
<1>1. BankSize \in Nat \ {0}
  BY EnvironmentAssumption
<1> DEFINE r == n % BankSize
           q == n \div BankSize
<1>2. r \in 0..(BankSize - 1) /\ q \in Int /\ n = BankSize * q + r
  BY <1>1
<1>3. \A m \in Nat, k \in Int, s \in 0..(BankSize - 1) :
          m = BankSize * k + s => m % BankSize = s
  BY <1>1
<1>4. CASE r + 1 < BankSize
  <2>1. n + 1 = BankSize * q + (r + 1) /\ r + 1 \in 0..(BankSize - 1)
    BY <1>1, <1>2, <1>4
  <2>2. (n + 1) % BankSize = r + 1
    BY <1>3, <2>1, <1>2
  <2>3. r + 1 = BankSize * 0 + (r + 1)
    BY <1>1, <1>2
  <2>4. (r + 1) % BankSize = r + 1
    BY <1>3, <2>1, <2>3, <1>2
  <2> QED BY <1>2, <2>2, <2>4
<1>5. CASE r + 1 = BankSize
  <2>1. n + 1 = BankSize * (q + 1) + 0 /\ 0 \in 0..(BankSize - 1) /\ q + 1 \in Int
    BY <1>1, <1>2, <1>5
  <2>2. (n + 1) % BankSize = 0
    BY <1>3, <2>1
  <2>3. r + 1 = BankSize * 1 + 0
    BY <1>1, <1>5
  <2>4. (r + 1) % BankSize = 0
    BY <1>3, <2>1, <2>3, <1>2
  <2> QED BY <1>2, <2>2, <2>4
<1> QED BY <1>1, <1>2, <1>4, <1>5

LEMMA FirstSlot == 0 % BankSize = 0 /\ 0 \in 0..(BankSize - 1)
  BY EnvironmentAssumption

\* Thread t draws c: the next of its own stream, or of the bank, or neither.
Drew(t, c) ==
    /\ countdown' = [countdown EXCEPT ![t] = c]
    /\ drawn' = [drawn EXCEPT ![t] = Append(@, c)]
    /\ generator' = [generator EXCEPT ![t].drawn = @ + 1, ![t].slot = NextSlot(@)]
    /\ c \in {Extreme, One, Minimum, Period, Stored(generator[t].slot),
              Random(generator[t].seed, generator[t].drawn + 1)}
    /\ c.from = "stream" => /\ Online /\ generator[t].sampling /\ scale = "set"
                            /\ Len(drawn[t]) < MaxDraws

LEMMA DrawDrew ==
    ASSUME TypesInv, NEW t \in Thread, Draw(t), Len(drawn[t]) < MaxDraws
    PROVE  \E c \in Draws(t) : Drew(t, c)
<1>1. PICK c \in Draws(t) : /\ countdown' = [countdown EXCEPT ![t] = c]
                            /\ drawn' = [drawn EXCEPT ![t] = Append(@, c)]
  BY DEF Draw
<1>2. generator' = [generator EXCEPT ![t].drawn = @ + 1, ![t].slot = NextSlot(@)]
  BY DEF Draw, Local
<1>3. env.random \in {"online", "offline", "fixed"}
  BY EnvironmentAssumption DEF TypesInv, Environment
<1>4. /\ c \in {Extreme, One, Minimum, Period, Stored(generator[t].slot),
                Random(generator[t].seed, generator[t].drawn + 1)}
      /\ c.from = "stream" => Online /\ generator[t].sampling /\ scale = "set"
  <2>1. CASE env.random = "online"
    <3>1. c \in OnlineDraws(generator[t])
      BY <2>1 DEF Draws, Local
    <3>2. \/ c \in {Extreme, One}
          \/ /\ generator[t].sampling /\ scale # "zero"
             /\ c \in {Minimum, Random(generator[t].seed, generator[t].drawn + 1)}
      BY <3>1 DEF OnlineDraws
    <3>3. scale # "zero" => scale = "set"
      BY DEF TypesInv
    <3>4. Extreme.from # "stream" /\ One.from # "stream"
      BY DEF Extreme, One
    <3> QED BY <2>1, <3>2, <3>3, <3>4 DEF Online
  <2>2. CASE env.random = "offline"
    BY <2>2 DEF Draws, Local, Extreme, Stored
  <2>3. CASE env.random = "fixed"
    BY <2>3 DEF Draws, Local, Extreme, Period
  <2> QED BY <1>3, <2>1, <2>2, <2>3
<1> QED BY <1>1, <1>2, <1>4 DEF Drew

LEMMA DrewAlone ==
    ASSUME TypesInv, NEW t \in Thread, NEW c, Drew(t, c)
    PROVE  /\ drawn'[t] = Append(drawn[t], c) /\ countdown'[t] = c
           /\ generator'[t] = [generator[t] EXCEPT !.drawn = @ + 1, !.slot = NextSlot(@)]
           /\ \A u \in Thread \ {t} : /\ drawn'[u] = drawn[u] /\ countdown'[u] = countdown[u]
                                      /\ generator'[u] = generator[u]
           /\ \A u \in Thread : /\ generator'[u].seed = generator[u].seed
                                /\ generator'[u].sampling = generator[u].sampling
  BY DEF Drew, TypesInv

LEMMA DrewTypes ==
    ASSUME TypesInv, DrawsInv, NEW t \in Thread, NEW c, Drew(t, c), reads' = reads
    PROVE  /\ generator' \in [Thread -> [sampling : BOOLEAN, seed : Seeds, drawn : Nat,
                                         slot : 0..(BankSize - 1)]]'
           /\ countdown' \in [Thread -> Countdown]'
           /\ drawn' \in [Thread -> Seq(Countdown)]'
<1>1. Seeds' = Seeds /\ Countdown' = Countdown
  BY DEF Seeds, Countdown
<1>2. /\ generator[t] \in [sampling : BOOLEAN, seed : Seeds, drawn : Nat,
                           slot : 0..(BankSize - 1)]
      /\ drawn[t] \in Seq(Countdown) /\ generator[t].drawn = Len(drawn[t])
  BY DEF TypesInv, DrawsInv
<1>3. NextSlot(generator[t].slot) \in 0..(BankSize - 1)
  <2>1. generator[t].slot + 1 \in Nat
    BY <1>2, EnvironmentAssumption
  <2> QED BY <2>1, SlotAfter DEF NextSlot
<1>4. c \in Countdown
  <2>1. CASE c \in {Extreme, One, Minimum, Period}
    BY <2>1 DEF Countdown
  <2>2. CASE c = Stored(generator[t].slot)
    BY <1>2, <2>2 DEF Countdown
  <2>3. CASE c = Random(generator[t].seed, generator[t].drawn + 1)
    <3>1. c.from = "stream"
      BY <2>3 DEF Random
    <3>2. Len(drawn[t]) < MaxDraws
      BY <3>1 DEF Drew
    <3>3. generator[t].drawn + 1 \in 1..MaxDraws /\ generator[t].seed \in Seeds
      BY <1>2, <3>2, EnvironmentAssumption
    <3> QED BY <2>3, <3>3 DEF Countdown, Seeds
  <2> QED BY <2>1, <2>2, <2>3 DEF Drew
<1>5. Append(drawn[t], c) \in Seq(Countdown)
  BY <1>2, <1>4
<1>6. [generator[t] EXCEPT !.drawn = @ + 1, !.slot = NextSlot(@)]
        \in [sampling : BOOLEAN, seed : Seeds, drawn : Nat, slot : 0..(BankSize - 1)]
  <2> DEFINE g == generator[t]
             slot == NextSlot(generator[t].slot)
  <2>1. g.drawn + 1 \in Nat
    BY <1>2
  <2> HIDE DEF g, slot
  <2>2. [g EXCEPT !.drawn = g.drawn + 1, !.slot = slot]
          \in [sampling : BOOLEAN, seed : Seeds, drawn : Nat, slot : 0..(BankSize - 1)]
    BY <1>2, <1>3, <2>1 DEF g, slot
  <2> QED BY <2>2 DEF g, slot
<1>7. generator' = [generator EXCEPT ![t] = [generator[t] EXCEPT !.drawn = @ + 1,
                                                             !.slot = NextSlot(@)]]
  BY DEF Drew, TypesInv
<1>8. /\ countdown' = [countdown EXCEPT ![t] = c]
      /\ drawn' = [drawn EXCEPT ![t] = Append(drawn[t], c)]
  BY DEF Drew
<1> QED BY <1>1, <1>4, <1>5, <1>6, <1>7, <1>8 DEF TypesInv

LEMMA DrewDraws ==
    ASSUME TypesInv, DrawsInv, NEW t \in Thread, NEW c, Drew(t, c),
           pc'[t] \notin {"created", "fread", "first"},
           \A u \in Thread \ {t} : pc'[u] = pc[u] \/ pc'[u] = "none"
    PROVE  DrawsInv'
<1> DEFINE Holds(u) ==
        /\ generator[u].drawn = Len(drawn[u])
        /\ generator[u].slot = Len(drawn[u]) % BankSize
        /\ \A i \in DOMAIN drawn[u] :
              /\ drawn[u][i].from = "stream" => drawn[u][i].item = i
              /\ drawn[u][i].from = "bank" => drawn[u][i].item = (i - 1) % BankSize
              /\ drawn[u][i].from = "stream" => drawn[u][i].seed = generator[u].seed
<1>1. ASSUME NEW u \in Thread \ {t} PROVE Holds(u)'
  <2>1. drawn'[u] = drawn[u] /\ generator'[u] = generator[u]
    BY DrewAlone
  <2>2. Holds(u)
    BY DEF DrawsInv
  <2> QED BY <2>1, <2>2
<1>2. Holds(t)'
  <2>1. /\ drawn[t] \in Seq(Countdown) /\ generator[t].drawn = Len(drawn[t])
        /\ generator[t].slot = Len(drawn[t]) % BankSize
        /\ generator[t] \in [sampling : BOOLEAN, seed : Seeds, drawn : Nat,
                             slot : 0..(BankSize - 1)]
    BY DEF TypesInv, DrawsInv
  <2>2. /\ drawn'[t] = Append(drawn[t], c) /\ generator'[t].drawn = generator[t].drawn + 1
        /\ generator'[t].slot = NextSlot(generator[t].slot)
        /\ generator'[t].seed = generator[t].seed
    BY <2>1, DrewAlone
  <2>3. /\ Len(drawn'[t]) = Len(drawn[t]) + 1 /\ Len(drawn[t]) \in Nat
        /\ DOMAIN drawn'[t] = 1..(Len(drawn[t]) + 1) /\ DOMAIN drawn[t] = 1..Len(drawn[t])
        /\ drawn'[t][Len(drawn[t]) + 1] = c
        /\ \A i \in 1..Len(drawn[t]) : drawn'[t][i] = drawn[t][i]
    BY <2>1, <2>2
  <2>4. generator'[t].slot = Len(drawn'[t]) % BankSize
    BY <2>1, <2>2, <2>3, SlotAfter DEF NextSlot
  <2>5. /\ c.from = "stream" => /\ c.item = Len(drawn[t]) + 1
                                /\ c.seed = generator[t].seed
        /\ c.from = "bank" => c.item = Len(drawn[t]) % BankSize
    BY <2>1 DEF Drew, Extreme, One, Minimum, Period, Stored, Random
  <2>6. Len(drawn[t]) + 1 - 1 = Len(drawn[t])
    BY <2>3
  <2>7. ASSUME NEW i \in DOMAIN drawn'[t]
        PROVE  /\ drawn'[t][i].from = "stream" => drawn'[t][i].item = i
               /\ drawn'[t][i].from = "bank" => drawn'[t][i].item = (i - 1) % BankSize
               /\ drawn'[t][i].from = "stream" => drawn'[t][i].seed = generator'[t].seed
    <3>1. CASE i = Len(drawn[t]) + 1
      BY <2>2, <2>3, <2>5, <2>6, <3>1
    <3>2. CASE i \in 1..Len(drawn[t])
      BY <2>2, <2>3, <3>2 DEF DrawsInv
    <3> QED BY <2>3, <3>1, <3>2
  <2> QED BY <2>1, <2>2, <2>3, <2>4, <2>7
<1>3. ASSUME NEW u \in Thread, pc'[u] \in {"created", "fread", "first"}
      PROVE  drawn'[u] = << >>
  <2>1. u # t /\ pc'[u] = pc[u]
    BY <1>3
  <2>2. drawn'[u] = drawn[u]
    BY <2>1, DrewAlone
  <2>3. drawn[u] = << >>
    BY <1>3, <2>1 DEF DrawsInv
  <2> QED BY <2>2, <2>3
<1>4. \A u \in Thread : Holds(u)'
  BY <1>1, <1>2
<1> QED BY <1>3, <1>4 DEF DrawsInv

-----------------------------------------------------------------------------
(* Steps *)

\* A handler is registered before all others.
LEMMA Registering ==
    /\ \A h \in Seq({"random", "report"}), x \in {"random", "report"} :
          /\ <<x>> \o h \in Seq({"random", "report"})
          /\ <<x>> \o h # << >> /\ Head(<<x>> \o h) = x
    /\ <<"random">> \o << >> = <<"random">>
<1>1. ASSUME NEW h \in Seq({"random", "report"}), NEW x \in {"random", "report"}
      PROVE  /\ <<x>> \o h \in Seq({"random", "report"})
             /\ <<x>> \o h # << >> /\ Head(<<x>> \o h) = x
  <2>1. <<x>> \in Seq({"random", "report"}) /\ Len(<<x>>) = 1 /\ <<x>>[1] = x
    OBVIOUS
  <2>2. /\ <<x>> \o h \in Seq({"random", "report"})
        /\ Len(<<x>> \o h) = 1 + Len(h) /\ Len(h) \in Nat
    BY <2>1
  <2>3. (<<x>> \o h)[1] = x
    BY <2>1, <2>2
  <2>4. <<x>> \o h # << >>
    BY <2>2, EmptySeq
  <2> QED BY <2>2, <2>3, <2>4
<1>2. <<"random">> \o << >> = <<"random">>
  BY <1>1
<1> QED BY <1>1, <1>2

LEMMA InitIInv == Init => IInv
<1> SUFFICES ASSUME Init PROVE IInv
  OBVIOUS
<1>1. /\ Fresh \in [sampling : BOOLEAN, seed : Seeds, drawn : Nat, slot : 0..(BankSize - 1)]
      /\ Extreme \in Countdown /\ << >> \in Seq(Countdown)
      /\ << >> \in Seq({"random", "report"})
  BY FirstSlot DEF Fresh, Seeds, Countdown
<1>2. TypesInv
  BY <1>1 DEF Init, TypesInv
<1>3. DrawsInv
  <2>1. \A t \in Thread : generator[t] = Fresh /\ drawn[t] = << >>
    BY DEF Init
  <2>2. Fresh.drawn = 0 /\ Fresh.slot = 0 /\ Len(<< >>) = 0 /\ DOMAIN << >> = {}
    BY DEF Fresh
  <2>3. Len(<< >>) % BankSize = 0
    BY <2>2, FirstSlot
  <2> QED BY <2>1, <2>2, <2>3 DEF DrawsInv
<1>4. SeedsInv
  BY DEF Init, SeedsInv, Fresh, Zero, Told
<1>5. ChildInv /\ StartInv /\ ReportInv
  BY EnvironmentAssumption DEF Init, ChildInv, StartInv, ReportInv
<1> QED BY <1>2, <1>3, <1>4, <1>5 DEF IInv

\* Nothing is drawn or seeded: countdowns and their origins stay.
LEMMA QuietStep ==
    ASSUME IInv, UNCHANGED <<env, reads, generator, countdown, drawn, samples>>,
           process' \in {"starting", "running"} =>
               process \in {"starting", "running"} /\ entropy' = entropy /\ scale' = scale,
           entropy' # "null" => entropy # "null",
           \A t \in Thread : pc'[t] \in {"created", "fread", "first"} =>
                                 pc[t] \in {"created", "fread", "first"}
    PROVE  /\ Seeds' = Seeds /\ Countdown' = Countdown
           /\ DrawsInv' /\ SeedsInv'
<1>1. Seeds' = Seeds /\ Countdown' = Countdown
  BY DEF Seeds, Countdown
<1>2. DrawsInv'
  BY DEF IInv, DrawsInv
<1>3. SeedsInv'
  BY DEF IInv, SeedsInv, Online
<1> QED BY <1>1, <1>2, <1>3

LEMMA RefuseStep == ASSUME IInv, Refuse PROVE IInv'
<1>1. /\ process = "starting" /\ process' = "refused"
      /\ UNCHANGED <<env, isChild, handlers, report, scale, bank, mapped, entropy, reads,
                     pc, generator, countdown, drawn, samples>>
  BY DEF Refuse, random_vars, thread_vars
<1>2. Seeds' = Seeds /\ Countdown' = Countdown /\ DrawsInv' /\ SeedsInv'
  BY <1>1, QuietStep
<1>3. TypesInv'
  BY <1>1, <1>2 DEF IInv, TypesInv
<1>4. ChildInv' /\ StartInv' /\ ReportInv'
  BY <1>1 DEF IInv, ChildInv, StartInv, ReportInv
<1> QED BY <1>2, <1>3, <1>4 DEF IInv

LEMMA InitializeRandomStep == ASSUME IInv, InitializeRandom PROVE IInv'
<1>1. /\ process = "starting" /\ pc[Main] = "none" /\ scale' = "set"
      /\ bank' = IF env.random = "offline" THEN "file" ELSE bank
      /\ mapped' = (env.random = "offline")
      /\ entropy' = IF env.random = "online" /\ ~env.seeded THEN "open" ELSE entropy
      /\ handlers' = IF env.random = "offline" \/ entropy' = "open"
                     THEN <<"random">> \o handlers ELSE handlers
      /\ pc' = [pc EXCEPT ![Main] = "created"]
      /\ UNCHANGED <<env, process, isChild, report, reads, generator, countdown, drawn,
                     samples>>
  BY DEF InitializeRandom
<1>2. /\ ~isChild /\ report = "none" /\ handlers = << >> /\ entropy = "null"
      /\ bank = "null"
      /\ \A t \in Thread : generator[t] = Fresh /\ drawn[t] = << >>
      /\ \A t \in Thread \ {Main} : pc[t] = "none"
  BY <1>1 DEF IInv, StartInv
<1>3. Seeds' = Seeds /\ Countdown' = Countdown
  BY <1>1 DEF Seeds, Countdown
<1>4. handlers' = << >> \/ handlers' = <<"random">>
  BY <1>1, <1>2
<1>5. pc' \in [Thread -> {"none", "created", "fread", "first", "initialized",
                          "application", "exit"}]
      /\ pc'[Main] = "created" /\ \A t \in Thread \ {Main} : pc'[t] = "none"
  BY <1>1, <1>2, EnvironmentAssumption DEF IInv, TypesInv
<1>6. TypesInv'
  <2>1. handlers' \in Seq({"random", "report"})
    BY <1>1, Registering DEF IInv, TypesInv
  <2> QED BY <1>1, <1>3, <1>5, <2>1 DEF IInv, TypesInv
<1>7. DrawsInv'
  BY <1>1, <1>2 DEF IInv, DrawsInv
<1>8. SeedsInv'
  BY <1>1, <1>2 DEF SeedsInv, Online, Fresh, Zero, Told
<1>9. ChildInv' /\ StartInv' /\ ReportInv'
  BY <1>1, <1>2, <1>4, <1>5 DEF ChildInv, StartInv, ReportInv
<1> QED BY <1>6, <1>7, <1>8, <1>9 DEF IInv

LEMMA InitializeReportStep == ASSUME IInv, InitializeReport PROVE IInv'
<1>1. /\ process = "starting" /\ pc[Main] = "initialized" /\ process' = "running"
      /\ pc' = [pc EXCEPT ![Main] = "application"]
      /\ report' = IF env.report THEN "open" ELSE "none"
      /\ handlers' = IF env.report THEN <<"report">> \o handlers ELSE handlers
      /\ UNCHANGED <<env, isChild, scale, bank, mapped, entropy, reads, generator,
                     countdown, drawn, samples>>
  BY DEF InitializeReport, random_vars
<1>2. /\ ~isChild /\ report = "none" /\ entropy # "closed"
      /\ handlers = << >> \/ handlers = <<"random">>
      /\ \A t \in Thread \ {Main} : pc[t] = "none"
      /\ env.random = "offline" => mapped
  BY <1>1 DEF IInv, StartInv
<1>3. /\ pc' \in [Thread -> {"none", "created", "fread", "first", "initialized",
                             "application", "exit"}]
      /\ pc'[Main] = "application" /\ \A t \in Thread \ {Main} : pc'[t] = "none"
  BY <1>1, <1>2, EnvironmentAssumption DEF IInv, TypesInv
<1>4. Seeds' = Seeds /\ Countdown' = Countdown /\ DrawsInv' /\ SeedsInv'
  BY <1>1, <1>3, QuietStep
<1>5. /\ handlers' \in Seq({"random", "report"})
      /\ report' = "open" => handlers' # << >> /\ Head(handlers') = "report"
  BY <1>1, <1>2, Registering DEF IInv, TypesInv
<1>6. TypesInv'
  BY <1>1, <1>3, <1>4, <1>5 DEF IInv, TypesInv
<1>7. ReportInv'
  BY <1>1, <1>2, <1>3, <1>5 DEF ReportInv
<1>8. ChildInv' /\ StartInv'
  BY <1>1, <1>2 DEF ChildInv, StartInv
<1> QED BY <1>4, <1>6, <1>7, <1>8 DEF IInv

\* What cbi_initializeRandom without a value leaves of the thread's countdowns.
LEMMA WithoutValueKeeps ==
    ASSUME IInv, NEW t \in Thread, WithoutValue(t), reads' = reads,
           pc'[t] \notin {"created", "fread", "first"},
           \A u \in Thread \ {t} : pc'[u] = pc[u] \/ pc'[u] = "none"
    PROVE  /\ Seeds' = Seeds /\ Countdown' = Countdown
           /\ bank' \in {"null", "file", "minus one"} /\ mapped' \in BOOLEAN
           /\ mapped' => bank' # "null"
           /\ generator' \in [Thread -> [sampling : BOOLEAN, seed : Seeds, drawn : Nat,
                                         slot : 0..(BankSize - 1)]]'
           /\ countdown' \in [Thread -> Countdown]'
           /\ drawn' \in [Thread -> Seq(Countdown)]'
           /\ DrawsInv'
           /\ \A u \in Thread : /\ generator'[u].seed = generator[u].seed
                                /\ generator'[u].sampling => generator[u].sampling
                                /\ \A i \in DOMAIN drawn'[u] : drawn'[u][i].from = "stream" =>
                                      i \in DOMAIN drawn[u] /\ drawn'[u][i] = drawn[u][i]
<1>1. Seeds' = Seeds /\ Countdown' = Countdown
  BY DEF Seeds, Countdown
<1>2. CASE env.random = "online"
  <2>1. /\ generator' = [generator EXCEPT ![t].sampling = FALSE]
        /\ UNCHANGED <<bank, mapped, countdown, drawn>>
    BY <1>2 DEF WithoutValue, Local
  <2>2. \A u \in Thread : /\ generator'[u] \in [sampling : BOOLEAN, seed : Seeds,
                                                drawn : Nat, slot : 0..(BankSize - 1)]
                          /\ generator'[u].seed = generator[u].seed
                          /\ generator'[u].sampling => generator[u].sampling
                          /\ generator'[u].drawn = generator[u].drawn
                          /\ generator'[u].slot = generator[u].slot
    BY <2>1 DEF IInv, TypesInv
  <2>3. DrawsInv'
    <3>1. ASSUME NEW u \in Thread, pc'[u] \in {"created", "fread", "first"}
          PROVE  drawn'[u] = << >>
      BY <2>1, <3>1 DEF IInv, DrawsInv
    <3> QED BY <2>1, <2>2, <3>1 DEF IInv, DrawsInv
  <2>4. generator' \in [Thread -> [sampling : BOOLEAN, seed : Seeds, drawn : Nat,
                                   slot : 0..(BankSize - 1)]]
    BY <2>1, <2>2 DEF IInv, TypesInv
  <2> QED BY <1>1, <2>1, <2>2, <2>3, <2>4 DEF IInv, TypesInv
<1>3. CASE env.random = "offline"
  <2>1. /\ bank' = "minus one" /\ mapped' = TRUE
        /\ countdown' = [countdown EXCEPT ![t] = Extreme]
        /\ drawn' = [drawn EXCEPT ![t] = Append(@, Extreme)]
        /\ generator' = [generator EXCEPT ![t].drawn = @ + 1, ![t].slot = NextSlot(@)]
    BY <1>3 DEF WithoutValue, Local
  <2>2. Drew(t, Extreme)
    BY <2>1 DEF Drew, Extreme
  <2>3. /\ generator' \in [Thread -> [sampling : BOOLEAN, seed : Seeds, drawn : Nat,
                                      slot : 0..(BankSize - 1)]]'
        /\ countdown' \in [Thread -> Countdown]'
        /\ drawn' \in [Thread -> Seq(Countdown)]'
    BY <2>2, DrewTypes DEF IInv
  <2>4. DrawsInv'
    BY <2>2, DrewDraws DEF IInv
  <2>5. ASSUME NEW u \in Thread, NEW i \in DOMAIN drawn'[u], drawn'[u][i].from = "stream"
        PROVE  i \in DOMAIN drawn[u] /\ drawn'[u][i] = drawn[u][i]
    <3>1. CASE u # t
      <4>1. drawn'[u] = drawn[u]
        BY <2>2, <3>1, DrewAlone DEF IInv
      <4> QED BY <2>5, <4>1
    <3>2. CASE u = t
      <4>1. drawn'[t] = Append(drawn[t], Extreme) /\ drawn[t] \in Seq(Countdown)
        BY <2>2, DrewAlone DEF IInv, TypesInv
      <4>2. Extreme.from # "stream"
        BY DEF Extreme
      <4>3. /\ Len(drawn[t]) \in Nat /\ DOMAIN drawn[t] = 1..Len(drawn[t])
            /\ DOMAIN drawn'[t] = 1..(Len(drawn[t]) + 1)
            /\ drawn'[t][Len(drawn[t]) + 1] = Extreme
            /\ \A j \in 1..Len(drawn[t]) : drawn'[t][j] = drawn[t][j]
        BY <4>1
      <4>4. i # Len(drawn[t]) + 1
        BY <2>5, <3>2, <4>2, <4>3
      <4> QED BY <2>5, <3>2, <4>3, <4>4
    <3> QED BY <3>1, <3>2
  <2>6. \A u \in Thread : /\ generator'[u].seed = generator[u].seed
                          /\ generator'[u].sampling => generator[u].sampling
    BY <2>2, DrewAlone DEF IInv
  <2> QED BY <1>1, <2>1, <2>3, <2>4, <2>5, <2>6
<1>4. CASE env.random = "fixed"
  <2>1. UNCHANGED <<bank, mapped, generator, countdown, drawn>>
    BY <1>4 DEF WithoutValue
  <2>2. DrawsInv'
    <3>1. ASSUME NEW u \in Thread, pc'[u] \in {"created", "fread", "first"}
          PROVE  drawn'[u] = << >>
      BY <2>1, <3>1 DEF IInv, DrawsInv
    <3> QED BY <2>1, <3>1 DEF IInv, DrawsInv
  <2> QED BY <1>1, <2>1, <2>2 DEF IInv, TypesInv
<1> QED BY <1>2, <1>3, <1>4 DEF WithoutValue

\* Seeds that stay where they were are as told, or apart, as before.
LEMMA SameSeeds ==
    ASSUME IInv, env' = env,
           \A u \in Thread : /\ generator'[u].seed = generator[u].seed
                             /\ generator'[u].sampling => generator[u].sampling
                             /\ \A i \in DOMAIN drawn'[u] : drawn'[u][i].from = "stream" =>
                                   i \in DOMAIN drawn[u] /\ drawn'[u][i] = drawn[u][i],
           generator' \in [Thread -> [sampling : BOOLEAN, seed : Seeds, drawn : Nat,
                                      slot : 0..(BankSize - 1)]],
           entropy' = entropy, scale' = scale \/ ~Online,
           process' = process
    PROVE  SeedsInv'
<1>1. IF Online
      THEN \A t \in Thread :
              IF env.seeded THEN generator'[t].seed \in {Zero, Told}
              ELSE /\ generator'[t].seed # Told
                   /\ \A u \in Thread \ {t} :
                          generator'[t].seed = generator'[u].seed => generator'[t].seed = Zero
      ELSE \A t \in Thread : generator'[t].sampling = FALSE /\ generator'[t].seed = Zero
  BY DEF IInv, SeedsInv
<1>2. ASSUME NEW t \in Thread, NEW i \in DOMAIN drawn'[t], drawn'[t][i].from = "stream",
             process' \in {"starting", "running"}
      PROVE  drawn'[t][i].seed # Zero
  BY <1>2 DEF IInv, SeedsInv
<1>3. Online /\ scale' = "set" /\ process' \in {"starting", "running"} =>
          /\ entropy' = IF env.seeded THEN "null" ELSE "open"
          /\ \A t \in Thread : generator'[t].sampling => generator'[t].seed # Zero
  BY DEF IInv, SeedsInv
<1>4. entropy' # "null" => Online /\ ~env.seeded
  BY DEF IInv, SeedsInv
<1> QED BY <1>1, <1>2, <1>3, <1>4 DEF SeedsInv, Online

LEMMA InitializeUnsetStep == ASSUME IInv, InitializeUnset PROVE IInv'
<1>1. /\ process = "starting" /\ pc[Main] = "none" /\ WithoutValue(Main)
      /\ handlers' = IF env.random = "offline" THEN <<"random">> \o handlers ELSE handlers
      /\ pc' = [pc EXCEPT ![Main] = "initialized"]
      /\ UNCHANGED <<env, process, isChild, report, scale, entropy, reads, samples>>
  BY DEF InitializeUnset
<1>2. /\ ~isChild /\ report = "none" /\ handlers = << >> /\ entropy = "null"
      /\ \A t \in Thread \ {Main} : pc[t] = "none"
  BY <1>1 DEF IInv, StartInv
<1>3. /\ pc' \in [Thread -> {"none", "created", "fread", "first", "initialized",
                             "application", "exit"}]
      /\ pc'[Main] = "initialized" /\ \A t \in Thread \ {Main} : pc'[t] = "none"
      /\ Main \in Thread
  BY <1>1, <1>2, EnvironmentAssumption DEF IInv, TypesInv
<1>4. /\ Seeds' = Seeds /\ Countdown' = Countdown
      /\ bank' \in {"null", "file", "minus one"} /\ mapped' \in BOOLEAN
      /\ mapped' => bank' # "null"
      /\ generator' \in [Thread -> [sampling : BOOLEAN, seed : Seeds, drawn : Nat,
                                    slot : 0..(BankSize - 1)]]'
      /\ countdown' \in [Thread -> Countdown]'
      /\ drawn' \in [Thread -> Seq(Countdown)]'
      /\ DrawsInv'
      /\ \A u \in Thread : /\ generator'[u].seed = generator[u].seed
                           /\ generator'[u].sampling => generator[u].sampling
                           /\ \A i \in DOMAIN drawn'[u] : drawn'[u][i].from = "stream" =>
                                 i \in DOMAIN drawn[u] /\ drawn'[u][i] = drawn[u][i]
  BY <1>1, <1>3, WithoutValueKeeps
<1>5. handlers' = << >> \/ handlers' = <<"random">>
  BY <1>1, <1>2, Registering
<1>6. TypesInv'
  <2>1. handlers' \in Seq({"random", "report"})
    BY <1>1, Registering DEF IInv, TypesInv
  <2> QED BY <1>1, <1>3, <1>4, <2>1 DEF IInv, TypesInv
<1>7. SeedsInv'
  BY <1>1, <1>4, SameSeeds
<1>8. env.random = "offline" => mapped'
  BY <1>1 DEF WithoutValue
<1>9. ChildInv' /\ StartInv' /\ ReportInv'
  BY <1>1, <1>2, <1>3, <1>5, <1>8 DEF ChildInv, StartInv, ReportInv
<1> QED BY <1>4, <1>6, <1>7, <1>9 DEF IInv

\* A new thread, a seed read, or a first countdown: one thread's own variables.
LEMMA CreateStep == ASSUME IInv, NEW t \in Thread, Create(t) PROVE IInv'
<1>1. /\ process \in {"running", "exiting"} /\ pc[t] = "none" /\ t # Main
      /\ pc' = [pc EXCEPT ![t] = "created"]
      /\ generator' = [generator EXCEPT ![t] = Fresh]
      /\ countdown' = [countdown EXCEPT ![t] = Extreme]
      /\ drawn' = [drawn EXCEPT ![t] = << >>]
      /\ UNCHANGED <<env, process, isChild, handlers, report, scale, bank, mapped, entropy,
                     reads, samples>>
  BY DEF Create, process_vars, random_vars
<1>2. Seeds' = Seeds /\ Countdown' = Countdown
  BY <1>1 DEF Seeds, Countdown
<1>3. /\ Fresh \in [sampling : BOOLEAN, seed : Seeds, drawn : Nat, slot : 0..(BankSize - 1)]
      /\ Extreme \in Countdown /\ << >> \in Seq(Countdown)
  BY FirstSlot DEF Fresh, Seeds, Countdown
<1>4. /\ pc'[t] = "created" /\ generator'[t] = Fresh /\ countdown'[t] = Extreme
      /\ drawn'[t] = << >>
      /\ \A u \in Thread \ {t} : /\ pc'[u] = pc[u] /\ generator'[u] = generator[u]
                                 /\ countdown'[u] = countdown[u] /\ drawn'[u] = drawn[u]
  BY <1>1 DEF IInv, TypesInv
<1>5. TypesInv'
  BY <1>1, <1>2, <1>3 DEF IInv, TypesInv
<1>6. DrawsInv'
  <2>1. /\ Fresh.drawn = 0 /\ Fresh.slot = 0 /\ Len(<< >>) = 0 /\ DOMAIN << >> = {}
        /\ 0 % BankSize = 0
    BY FirstSlot DEF Fresh
  <2>2. ASSUME NEW u \in Thread, pc'[u] \in {"created", "fread", "first"}
        PROVE  drawn'[u] = << >>
    BY <1>4, <2>2 DEF IInv, DrawsInv
  <2>3. ASSUME NEW u \in Thread
        PROVE  /\ generator'[u].drawn = Len(drawn'[u])
               /\ generator'[u].slot = Len(drawn'[u]) % BankSize
               /\ \A i \in DOMAIN drawn'[u] :
                     /\ drawn'[u][i].from = "stream" => drawn'[u][i].item = i
                     /\ drawn'[u][i].from = "bank" => drawn'[u][i].item = (i - 1) % BankSize
                     /\ drawn'[u][i].from = "stream" =>
                            drawn'[u][i].seed = generator'[u].seed
    <3>1. CASE u = t
      BY <1>4, <2>1, <3>1
    <3>2. CASE u # t
      <4>1. generator'[u] = generator[u] /\ drawn'[u] = drawn[u]
        BY <1>4, <3>2
      <4> QED BY <4>1 DEF IInv, DrawsInv
    <3> QED BY <3>1, <3>2
  <2> QED BY <2>2, <2>3 DEF DrawsInv
<1>7. SeedsInv'
  <2>1. Fresh.sampling = FALSE /\ Fresh.seed = Zero /\ Zero # Told /\ DOMAIN << >> = {}
    BY DEF Fresh, Zero, Told
  <2>2. Online => \A u \in Thread :
              IF env.seeded THEN generator'[u].seed \in {Zero, Told}
              ELSE /\ generator'[u].seed # Told
                   /\ \A v \in Thread \ {u} :
                          generator'[u].seed = generator'[v].seed => generator'[u].seed = Zero
    BY <1>4, <2>1 DEF IInv, SeedsInv
  <2>3. ~Online => \A u \in Thread : generator'[u].sampling = FALSE /\ generator'[u].seed = Zero
    BY <1>4, <2>1 DEF IInv, SeedsInv
  <2>4. ASSUME NEW u \in Thread, NEW i \in DOMAIN drawn'[u],
               drawn'[u][i].from = "stream", process' \in {"starting", "running"}
        PROVE  drawn'[u][i].seed # Zero
    BY <1>1, <1>4, <2>1, <2>4 DEF IInv, SeedsInv
  <2>5. Online /\ scale = "set" /\ process \in {"starting", "running"} =>
          /\ entropy = IF env.seeded THEN "null" ELSE "open"
          /\ \A u \in Thread : generator'[u].sampling => generator'[u].seed # Zero
    BY <1>4, <2>1 DEF IInv, SeedsInv
  <2>6. entropy # "null" => Online /\ ~env.seeded
    BY DEF IInv, SeedsInv
  <2> QED BY <1>1, <2>2, <2>3, <2>4, <2>5, <2>6 DEF SeedsInv, Online
<1>8. ChildInv'
  BY <1>1, <1>4 DEF IInv, ChildInv
<1>9. StartInv' /\ ReportInv'
  BY <1>1, <1>4 DEF IInv, StartInv, ReportInv
<1> QED BY <1>5, <1>6, <1>7, <1>8, <1>9 DEF IInv

LEMMA TestEntropyStep == ASSUME IInv, NEW t \in Thread, TestEntropy(t) PROVE IInv'
<1>1. /\ pc[t] = "created" /\ entropy # "null"
      /\ pc' = [pc EXCEPT ![t] = "fread"]
      /\ UNCHANGED <<env, process, isChild, handlers, report, scale, bank, mapped, entropy,
                     reads, generator, countdown, drawn, samples>>
  BY DEF TestEntropy, Initializes, process_vars, random_vars
<1>2. /\ pc' \in [Thread -> {"none", "created", "fread", "first", "initialized",
                             "application", "exit"}]
      /\ pc'[t] = "fread" /\ \A u \in Thread \ {t} : pc'[u] = pc[u]
  BY <1>1 DEF IInv, TypesInv
<1>3. Seeds' = Seeds /\ Countdown' = Countdown /\ DrawsInv' /\ SeedsInv'
  BY <1>1, <1>2, QuietStep
<1>4. TypesInv'
  BY <1>1, <1>2, <1>3 DEF IInv, TypesInv
<1>5. entropy # "closed" => entropy = "open"
  BY <1>1 DEF IInv, TypesInv
<1>6. ChildInv' /\ ReportInv'
  BY <1>1, <1>2, <1>5 DEF IInv, ChildInv, ReportInv
<1>7. StartInv'
  BY <1>1, <1>2, <1>5, EnvironmentAssumption DEF IInv, StartInv
<1> QED BY <1>3, <1>4, <1>6, <1>7 DEF IInv

\* A generator gets its seed: zero or what was told without entropy, a new one
\* with it.
Seeded(t, seed) ==
    /\ pc[t] \in {"created", "fread"} /\ pc' = [pc EXCEPT ![t] = "first"]
    /\ Online
    /\ generator' = [generator EXCEPT ![t] = [@ EXCEPT !.sampling = TRUE, !.drawn = 0,
                                                       !.seed = seed]]
    /\ UNCHANGED <<env, process, isChild, handlers, report, scale, bank, mapped, entropy,
                   countdown, drawn, samples>>
    /\ reads' \in Nat /\ reads' >= reads
    /\ \/ seed = Zero /\ entropy = "null" /\ (env.seeded => scale # "set")
       \/ seed = Told /\ entropy = "null" /\ env.seeded
       \/ seed = Entropy(reads + 1) /\ entropy = "open" /\ reads' = reads + 1

LEMMA SeedThreadSeeds ==
    ASSUME IInv, NEW t \in Thread, SeedThread(t)
    PROVE  \E seed : Seeded(t, seed)
<1> DEFINE seed == IF env.seeded /\ scale = "set" THEN Told ELSE Zero
<1>1. /\ pc[t] = "created" /\ pc' = [pc EXCEPT ![t] = "first"]
      /\ Online /\ entropy = "null"
      /\ generator' = [generator EXCEPT ![t] = [@ EXCEPT !.sampling = TRUE, !.drawn = 0,
                                                         !.seed = seed]]
      /\ UNCHANGED <<env, process, isChild, handlers, report, scale, bank, mapped, entropy,
                     countdown, drawn, samples, reads>>
  BY DEF SeedThread, Initializes, Online, Local, process_vars, random_vars
<1>2. reads' \in Nat /\ reads' >= reads
  <2>1. reads \in Nat
    BY DEF IInv, TypesInv
  <2>2. reads' = reads \/ reads' = reads + 1
    BY <1>1
  <2> QED BY <2>1, <2>2
<1>3. \/ seed = Zero /\ entropy = "null" /\ (env.seeded => scale # "set")
      \/ seed = Told /\ entropy = "null" /\ env.seeded
  BY <1>1
<1> HIDE DEF seed
<1>4. Seeded(t, seed)
  BY <1>1, <1>2, <1>3, Zenon DEF Seeded
<1> QED BY <1>4

LEMMA ReadEntropySeeds ==
    ASSUME IInv, NEW t \in Thread, ReadEntropy(t)
    PROVE  \E seed : Seeded(t, seed)
<1>1. /\ pc[t] = "fread" /\ pc' = [pc EXCEPT ![t] = "first"]
      /\ entropy = "open" /\ reads' = reads + 1
      /\ generator' = [generator EXCEPT ![t] = [@ EXCEPT !.sampling = TRUE, !.drawn = 0,
                                                         !.seed = Entropy(reads + 1)]]
      /\ UNCHANGED <<env, process, isChild, handlers, report, scale, bank, mapped, entropy,
                     countdown, drawn, samples>>
  BY DEF ReadEntropy, Local, Seed, process_vars, random_vars
<1>2. Online
  BY <1>1 DEF IInv, SeedsInv
<1>3. reads' \in Nat /\ reads' >= reads
  <2>1. reads \in Nat
    BY DEF IInv, TypesInv
  <2>2. reads' = reads \/ reads' = reads + 1
    BY <1>1
  <2> QED BY <2>1, <2>2
<1>4. Seeded(t, Entropy(reads + 1))
  BY <1>1, <1>2, <1>3, Zenon DEF Seeded
<1> QED BY <1>4

LEMMA SeededStep ==
    ASSUME IInv, NEW t \in Thread, NEW seed, Seeded(t, seed)
    PROVE  IInv'
<1>1. /\ pc' = [pc EXCEPT ![t] = "first"]
      /\ generator' = [generator EXCEPT ![t] = [@ EXCEPT !.sampling = TRUE, !.drawn = 0,
                                                         !.seed = seed]]
      /\ UNCHANGED <<env, process, isChild, handlers, report, scale, bank, mapped, entropy,
                     countdown, drawn, samples>>
      /\ Online /\ reads \in Nat /\ reads' \in Nat /\ reads' >= reads
  BY DEF Seeded, IInv, TypesInv
<1>2. drawn[t] = << >> /\ pc[t] # "none"
  BY DEF IInv, DrawsInv, Seeded
<1>3. /\ seed \in Seeds' /\ Seeds \subseteq Seeds' /\ Countdown \subseteq Countdown'
  <2>1. 1..reads \subseteq 1..reads'
    BY <1>1
  <2>2. Seeds \subseteq Seeds'
    BY <2>1 DEF Seeds
  <2>3. Countdown \subseteq Countdown'
    BY <2>1 DEF Countdown
  <2>4. seed \in Seeds'
    <3>1. CASE seed \in {Zero, Told}
      BY <3>1 DEF Seeds
    <3>2. CASE seed = Entropy(reads + 1) /\ reads' = reads + 1
      BY <1>1, <3>2 DEF Seeds
    <3> QED BY <3>1, <3>2 DEF Seeded
  <2> QED BY <2>2, <2>3, <2>4
<1>4. /\ pc'[t] = "first"
      /\ pc' \in [Thread -> {"none", "created", "fread", "first", "initialized",
                             "application", "exit"}]
      /\ \A u \in Thread \ {t} : pc'[u] = pc[u] /\ generator'[u] = generator[u]
      /\ generator'[t].sampling = TRUE /\ generator'[t].drawn = 0
      /\ generator'[t].seed = seed /\ generator'[t].slot = generator[t].slot
  BY <1>1 DEF IInv, TypesInv
<1>5. TypesInv'
  <2>1. generator' \in [Thread -> [sampling : BOOLEAN, seed : Seeds', drawn : Nat,
                                   slot : 0..(BankSize - 1)]]
    <3> DEFINE g == [generator[t] EXCEPT !.sampling = TRUE, !.drawn = 0, !.seed = seed]
    <3>1. generator' = [generator EXCEPT ![t] = g]
      BY <1>1
    <3>2. g \in [sampling : BOOLEAN, seed : Seeds', drawn : Nat, slot : 0..(BankSize - 1)]
      BY <1>3 DEF IInv, TypesInv
    <3>3. \A u \in Thread : generator[u] \in [sampling : BOOLEAN, seed : Seeds', drawn : Nat,
                                              slot : 0..(BankSize - 1)]
      BY <1>3 DEF IInv, TypesInv
    <3>4. generator = [u \in Thread |-> generator[u]]
      BY DEF IInv, TypesInv
    <3> HIDE DEF g
    <3> QED BY <3>1, <3>2, <3>3, <3>4
  <2>2. countdown' \in [Thread -> Countdown']
    BY <1>1, <1>3 DEF IInv, TypesInv
  <2>3. drawn' \in [Thread -> Seq(Countdown')]
    <3>1. Seq(Countdown) \subseteq Seq(Countdown')
      BY <1>3
    <3> QED BY <1>1, <3>1 DEF IInv, TypesInv
  <2> QED BY <1>1, <1>4, <2>1, <2>2, <2>3 DEF IInv, TypesInv
<1>6. DrawsInv'
  <2>1. Len(<< >>) = 0 /\ DOMAIN << >> = {}
    OBVIOUS
  <2>2. ASSUME NEW u \in Thread, pc'[u] \in {"created", "fread", "first"}
        PROVE  drawn'[u] = << >>
    BY <1>1, <1>2, <1>4, <2>2 DEF IInv, DrawsInv
  <2>3. ASSUME NEW u \in Thread
        PROVE  /\ generator'[u].drawn = Len(drawn'[u])
               /\ generator'[u].slot = Len(drawn'[u]) % BankSize
               /\ \A i \in DOMAIN drawn'[u] :
                     /\ drawn'[u][i].from = "stream" => drawn'[u][i].item = i
                     /\ drawn'[u][i].from = "bank" => drawn'[u][i].item = (i - 1) % BankSize
                     /\ drawn'[u][i].from = "stream" =>
                            drawn'[u][i].seed = generator'[u].seed
    <3>1. CASE u = t
      <4>1. generator[t].slot = Len(drawn[t]) % BankSize
        BY DEF IInv, DrawsInv
      <4> QED BY <1>1, <1>2, <1>4, <2>1, <3>1, <4>1
    <3>2. CASE u # t
      <4>1. generator'[u] = generator[u] /\ drawn'[u] = drawn[u]
        BY <1>1, <1>4, <3>2
      <4> QED BY <4>1 DEF IInv, DrawsInv
    <3> QED BY <3>1, <3>2
  <2> QED BY <2>2, <2>3 DEF DrawsInv
<1>7. SeedsInv'
  <2>1. IF env.seeded THEN seed \in {Zero, Told}
        ELSE /\ seed # Told
             /\ \A u \in Thread \ {t} : generator[u].seed = seed => seed = Zero
    <3>1. CASE env.seeded
      <4>1. entropy = "null"
        BY <3>1 DEF IInv, SeedsInv
      <4> QED BY <3>1, <4>1 DEF Seeded
    <3>2. CASE ~env.seeded
      <4>1. CASE seed = Zero
        BY <3>2, <4>1 DEF Zero, Told
      <4>2. CASE seed = Entropy(reads + 1)
        <5>1. seed # Told
          BY <4>2 DEF Entropy, Told
        <5>2. ASSUME NEW u \in Thread PROVE generator[u].seed # seed
          <6>1. generator[u].seed \in Seeds
            BY DEF IInv, TypesInv
          <6>2. Entropy(reads + 1) \notin Seeds
            <7>1. Entropy(reads + 1) # Zero /\ Entropy(reads + 1) # Told
              BY DEF Entropy, Zero, Told
            <7>2. \A i \in 1..reads : Entropy(i).read = i /\ i # reads + 1
              BY <1>1 DEF Entropy
            <7>3. Entropy(reads + 1).read = reads + 1
              BY DEF Entropy
            <7> QED BY <7>1, <7>2, <7>3 DEF Seeds
          <6> QED BY <4>2, <6>1, <6>2
        <5> QED BY <3>2, <5>1, <5>2
      <4> QED BY <3>2, <4>1, <4>2 DEF Seeded
    <3> QED BY <3>1, <3>2
  <2>2. \A u \in Thread :
              IF env.seeded THEN generator'[u].seed \in {Zero, Told}
              ELSE /\ generator'[u].seed # Told
                   /\ \A v \in Thread \ {u} :
                          generator'[u].seed = generator'[v].seed => generator'[u].seed = Zero
    BY <1>1, <1>4, <2>1 DEF IInv, SeedsInv
  <2>3. ASSUME scale = "set", process \in {"starting", "running"}
        PROVE  /\ entropy = IF env.seeded THEN "null" ELSE "open"
               /\ \A u \in Thread : generator'[u].sampling => generator'[u].seed # Zero
    <3>1. /\ entropy = IF env.seeded THEN "null" ELSE "open"
          /\ \A u \in Thread : generator[u].sampling => generator[u].seed # Zero
      BY <1>1, <2>3 DEF IInv, SeedsInv
    <3>2. seed # Zero
      <4>1. Told # Zero /\ Entropy(reads + 1) # Zero
        BY DEF Told, Zero, Entropy
      <4> QED BY <2>3, <3>1, <4>1 DEF Seeded
    <3> QED BY <1>4, <3>1, <3>2
  <2>4. ASSUME NEW u \in Thread, NEW i \in DOMAIN drawn[u],
               drawn[u][i].from = "stream", process \in {"starting", "running"}
        PROVE  drawn[u][i].seed # Zero
    BY <2>4 DEF IInv, SeedsInv
  <2>5. entropy # "null" => Online /\ ~env.seeded
    BY DEF IInv, SeedsInv
  <2> QED BY <1>1, <2>2, <2>3, <2>4, <2>5 DEF SeedsInv, Online
<1>8. ChildInv'
  BY <1>1, <1>2, <1>4 DEF IInv, ChildInv
<1>9. StartInv'
  <2>1. \/ pc[Main] # "none" /\ t = Main
        \/ pc'[Main] = pc[Main] /\ t # Main
    BY <1>2, <1>4, EnvironmentAssumption
  <2>2. process = "starting" => t = Main
    BY <1>2 DEF IInv, StartInv
  <2> QED BY <1>1, <1>2, <1>4, <2>1, <2>2 DEF IInv, StartInv
<1>10. ReportInv'
  BY <1>1, <1>4 DEF IInv, ReportInv
<1> QED BY <1>5, <1>6, <1>7, <1>8, <1>9, <1>10 DEF IInv

LEMMA ChildDraws ==
    ASSUME IInv, isChild, NEW t \in Thread, ~generator[t].sampling, NEW c \in Draws(t)
    PROVE  c = Extreme
<1>1. env.random \in {"online", "offline", "fixed"}
  BY EnvironmentAssumption DEF IInv, TypesInv, Environment
<1>2. /\ env.random = "offline" => bank # "file"
      /\ env.random = "fixed" => scale = "zero"
  BY DEF IInv, ChildInv
<1>3. CASE env.random = "online"
  <2>1. c \in OnlineDraws(generator[t])
    BY <1>3 DEF Draws, Local
  <2> QED BY <2>1 DEF OnlineDraws
<1>4. CASE env.random = "offline"
  BY <1>2, <1>4 DEF Draws, Local
<1>5. CASE env.random = "fixed"
  BY <1>2, <1>5 DEF Draws, Local
<1> QED BY <1>1, <1>3, <1>4, <1>5

\* A thread draws; a sample that it took may be counted.
LEMMA DrewStep ==
    ASSUME IInv, NEW t \in Thread, NEW c \in Draws(t), Drew(t, c),
           pc[t] # "none", pc'[t] \notin {"none", "created", "fread", "first"},
           pc' \in [Thread -> {"none", "created", "fread", "first", "initialized",
                               "application", "exit"}],
           \A u \in Thread \ {t} : pc'[u] = pc[u] /\ samples'[u] = samples[u],
           samples' \in [Thread -> Nat],
           samples'[t] # samples[t] =>
               samples'[t] = samples[t] + 1 /\ countdown[t] # Extreme,
           process = "starting" => pc'[Main] = "initialized",
           UNCHANGED <<process_vars, random_vars, reads>>
    PROVE  IInv'
<1>1. UNCHANGED <<env, process, isChild, handlers, report, scale, bank, mapped, entropy, reads>>
  BY DEF process_vars, random_vars
<1>2. Seeds' = Seeds /\ Countdown' = Countdown
  BY <1>1 DEF Seeds, Countdown
<1>3. TypesInv'
  <2>1. /\ generator' \in [Thread -> [sampling : BOOLEAN, seed : Seeds, drawn : Nat,
                                      slot : 0..(BankSize - 1)]]'
        /\ countdown' \in [Thread -> Countdown]'
        /\ drawn' \in [Thread -> Seq(Countdown)]'
    BY <1>1, DrewTypes DEF IInv
  <2> QED BY <1>1, <1>2, <2>1 DEF IInv, TypesInv
<1>4. DrawsInv'
  BY DrewDraws DEF IInv
<1>5. \A u \in Thread : /\ generator'[u].seed = generator[u].seed
                        /\ generator'[u].sampling = generator[u].sampling
  BY DrewAlone DEF IInv
<1>6. countdown'[t] = c /\ \A u \in Thread \ {t} : countdown'[u] = countdown[u]
  BY DrewAlone DEF IInv
<1>7. SeedsInv'
  <2>1. ASSUME NEW u \in Thread, NEW i \in DOMAIN drawn'[u],
               drawn'[u][i].from = "stream", process' \in {"starting", "running"}
        PROVE  drawn'[u][i].seed # Zero
    <3>1. CASE u # t
      <4>1. drawn'[u] = drawn[u]
        BY <3>1, DrewAlone DEF IInv
      <4> QED BY <1>1, <2>1, <4>1 DEF IInv, SeedsInv
    <3>2. CASE u = t
      <4>1. drawn'[t] = Append(drawn[t], c) /\ drawn[t] \in Seq(Countdown)
        BY DrewAlone DEF IInv, TypesInv
      <4>2. /\ Len(drawn[t]) \in Nat /\ DOMAIN drawn[t] = 1..Len(drawn[t])
            /\ DOMAIN drawn'[t] = 1..(Len(drawn[t]) + 1)
            /\ drawn'[t][Len(drawn[t]) + 1] = c
            /\ \A j \in 1..Len(drawn[t]) : drawn'[t][j] = drawn[t][j]
        BY <4>1
      <4>3. CASE i = Len(drawn[t]) + 1
        <5>1. c.from = "stream"
          BY <2>1, <3>2, <4>2, <4>3
        <5>2. Online /\ generator[t].sampling /\ scale = "set"
          BY <5>1 DEF Drew
        <5>3. generator[t].seed # Zero
          BY <1>1, <2>1, <5>2 DEF IInv, SeedsInv
        <5>4. c.seed = generator[t].seed
          BY <5>1 DEF Drew, Extreme, One, Minimum, Period, Stored, Random
        <5> QED BY <3>2, <4>2, <4>3, <5>3, <5>4
      <4>4. CASE i \in 1..Len(drawn[t])
        BY <1>1, <2>1, <3>2, <4>2, <4>4 DEF IInv, SeedsInv
      <4> QED BY <3>2, <4>2, <4>3, <4>4
    <3> QED BY <3>1, <3>2
  <2>2. Online => \A u \in Thread :
              IF env.seeded THEN generator'[u].seed \in {Zero, Told}
              ELSE /\ generator'[u].seed # Told
                   /\ \A v \in Thread \ {u} :
                          generator'[u].seed = generator'[v].seed => generator'[u].seed = Zero
    BY <1>5 DEF IInv, SeedsInv
  <2>3. ~Online => \A u \in Thread : generator'[u].sampling = FALSE /\ generator'[u].seed = Zero
    BY <1>5 DEF IInv, SeedsInv
  <2>4. Online /\ scale = "set" /\ process \in {"starting", "running"} =>
          /\ entropy = IF env.seeded THEN "null" ELSE "open"
          /\ \A u \in Thread : generator'[u].sampling => generator'[u].seed # Zero
    BY <1>5 DEF IInv, SeedsInv
  <2>5. entropy # "null" => Online /\ ~env.seeded
    BY DEF IInv, SeedsInv
  <2> QED BY <1>1, <2>1, <2>2, <2>3, <2>4, <2>5 DEF SeedsInv, Online
<1>8. ChildInv'
  <2> SUFFICES ASSUME isChild PROVE ChildInv'
    BY <1>1 DEF ChildInv
  <2>1. generator[t].sampling \/ countdown'[t] = Extreme
    BY <1>6, ChildDraws
  <2>2. \/ generator'[t].sampling \/ samples'[t] = 0
        \/ samples'[t] = 1 /\ countdown'[t] = Extreme
    <3>1. \/ generator[t].sampling \/ samples[t] = 0
          \/ samples[t] = 1 /\ countdown[t] = Extreme
      BY DEF IInv, ChildInv
    <3> QED BY <1>5, <2>1, <3>1
  <2>3. ASSUME NEW u \in Thread \ {t}
        PROVE  /\ pc'[u] = "none" => samples'[u] = 0
               /\ \/ generator'[u].sampling \/ samples'[u] = 0
                  \/ samples'[u] = 1 /\ countdown'[u] = Extreme
    BY <1>5, <1>6 DEF IInv, ChildInv
  <2> QED BY <1>1, <2>2, <2>3 DEF IInv, ChildInv
<1>9. StartInv'
  <2> SUFFICES ASSUME process = "starting" PROVE StartInv'
    BY <1>1 DEF StartInv
  <2>1. t = Main
    BY DEF IInv, StartInv
  <2> QED BY <1>1, <2>1 DEF IInv, StartInv
<1>10. ReportInv'
  BY <1>1 DEF IInv, ReportInv
<1> QED BY <1>3, <1>4, <1>7, <1>8, <1>9, <1>10 DEF IInv

LEMMA StartThreadStep == ASSUME IInv, NEW t \in Thread, StartThread(t) PROVE IInv'
<1>1. /\ pc[t] \in {"created", "first"} /\ Draw(t)
      /\ pc' = [pc EXCEPT ![t] = IF process = "starting" THEN "initialized" ELSE "application"]
      /\ UNCHANGED <<process_vars, random_vars, reads, samples>>
  BY DEF StartThread, Seedless, Initializes, FirstDraw
<1>2. Len(drawn[t]) < MaxDraws
  <2>1. drawn[t] = << >>
    BY <1>1 DEF IInv, DrawsInv
  <2>2. Len(<< >>) = 0
    OBVIOUS
  <2> QED BY <2>1, <2>2, EnvironmentAssumption
<1>3. PICK c \in Draws(t) : Drew(t, c)
  BY <1>1, <1>2, DrawDrew DEF IInv
<1>4. /\ pc'[t] = IF process = "starting" THEN "initialized" ELSE "application"
      /\ \A u \in Thread \ {t} : pc'[u] = pc[u]
      /\ pc' \in [Thread -> {"none", "created", "fread", "first", "initialized",
                             "application", "exit"}]
  BY <1>1 DEF IInv, TypesInv
<1>5. process = "starting" => t = Main
  BY <1>1 DEF IInv, StartInv
<1>6. samples' = samples /\ samples \in [Thread -> Nat]
  BY <1>1 DEF IInv, TypesInv
<1> QED BY <1>1, <1>3, <1>4, <1>5, <1>6, DrewStep

LEMMA SampleStep == ASSUME IInv, NEW t \in Thread, Sample(t) PROVE IInv'
<1>1. /\ process \in {"running", "exiting"} /\ pc[t] \in {"application", "exit"}
      /\ countdown[t] # Extreme /\ Len(drawn[t]) < MaxDraws /\ Draw(t)
      /\ samples' = [samples EXCEPT ![t] = @ + 1]
      /\ UNCHANGED <<process_vars, random_vars, reads, pc>>
  BY DEF Sample, Instrumented
<1>2. PICK c \in Draws(t) : Drew(t, c)
  BY <1>1, DrawDrew DEF IInv
<1>3. /\ samples'[t] = samples[t] + 1 /\ samples' \in [Thread -> Nat]
      /\ \A u \in Thread \ {t} : samples'[u] = samples[u]
  <2>1. samples \in [Thread -> Nat]
    BY DEF IInv, TypesInv
  <2> QED BY <1>1, <2>1
<1>4. pc' = pc /\ pc \in [Thread -> {"none", "created", "fread", "first", "initialized",
                                     "application", "exit"}]
  BY <1>1 DEF IInv, TypesInv
<1> QED BY <1>1, <1>2, <1>3, <1>4, DrewStep

\* Only a fread of closed entropy, or a draw from a table that is gone, can
\* fault: the report, if any, is finalized by then.
LEMMA FaultNeeds ==
    ASSUME IInv, NEW t \in Thread, ReadClosed(t) \/ DrawFaults(t)
    PROVE  report # "open"
<1>1. CASE ReadClosed(t)
  BY <1>1 DEF ReadClosed, IInv, ReportInv
<1>2. CASE DrawFaults(t)
  BY <1>2 DEF DrawFaults, Drawable, IInv, ReportInv
<1> QED BY <1>1, <1>2

LEMMA FaultStep ==
    ASSUME IInv, NEW t \in Thread, ReadClosed(t) \/ DrawFaults(t), Fault,
           UNCHANGED <<random_vars, reads, thread_vars>>
    PROVE  IInv'
<1>1. /\ process' = "killed" /\ report' = report
      /\ UNCHANGED <<env, isChild, handlers, scale, bank, mapped, entropy, reads,
                     pc, generator, countdown, drawn, samples>>
  BY FaultNeeds DEF Fault, random_vars, thread_vars
<1>2. Seeds' = Seeds /\ Countdown' = Countdown /\ DrawsInv' /\ SeedsInv'
  BY <1>1, QuietStep
<1>3. TypesInv'
  BY <1>1, <1>2 DEF IInv, TypesInv
<1>4. ChildInv' /\ StartInv' /\ ReportInv'
  BY <1>1 DEF IInv, ChildInv, StartInv, ReportInv
<1> QED BY <1>2, <1>3, <1>4 DEF IInv

LEMMA ReadClosedStep == ASSUME IInv, NEW t \in Thread, ReadClosed(t) PROVE IInv'
<1>1. CASE Fault /\ UNCHANGED thread_vars
  BY <1>1, FaultStep DEF ReadClosed
<1>2. CASE ~(Fault /\ UNCHANGED thread_vars)
  <2>1. /\ pc[t] = "fread" /\ entropy # "open"
        /\ pc' = [pc EXCEPT ![t] = "first"]
        /\ UNCHANGED <<env, process, isChild, handlers, report, scale, bank, mapped,
                       entropy, reads, generator, countdown, drawn, samples>>
    BY <1>2 DEF ReadClosed, process_vars, random_vars
  <2>2. /\ pc' \in [Thread -> {"none", "created", "fread", "first", "initialized",
                               "application", "exit"}]
        /\ pc'[t] = "first" /\ \A u \in Thread \ {t} : pc'[u] = pc[u]
    BY <2>1 DEF IInv, TypesInv
  <2>3. Seeds' = Seeds /\ Countdown' = Countdown /\ DrawsInv' /\ SeedsInv'
    BY <2>1, <2>2, QuietStep
  <2>4. TypesInv'
    BY <2>1, <2>2, <2>3 DEF IInv, TypesInv
  <2>5. process # "starting"
    BY <2>1 DEF IInv, StartInv
  <2>6. ChildInv' /\ StartInv' /\ ReportInv'
    BY <2>1, <2>2, <2>5 DEF IInv, ChildInv, StartInv, ReportInv
  <2> QED BY <2>3, <2>4, <2>6 DEF IInv
<1> QED BY <1>1, <1>2

LEMMA ForkStep == ASSUME IInv, NEW t \in Thread, Fork(t) PROVE IInv'
<1>1. /\ process = "running" /\ pc[t] = "application" /\ ~isChild /\ isChild' = TRUE
      /\ report' = IF report = "open" THEN "closed" ELSE report
      /\ WithoutValue(t)
      /\ handlers' = IF env.random = "offline" THEN <<"random">> \o handlers ELSE handlers
      /\ scale' = IF env.random = "fixed" THEN "zero" ELSE scale
      /\ pc' = [u \in Thread |-> IF u = t THEN "application" ELSE "none"]
      /\ samples' = [u \in Thread |-> 0]
      /\ UNCHANGED <<env, process, entropy, reads>>
  BY DEF Fork, ForkRandom
<1>2. /\ Seeds' = Seeds /\ Countdown' = Countdown
      /\ bank' \in {"null", "file", "minus one"} /\ mapped' \in BOOLEAN
      /\ mapped' => bank' # "null"
      /\ generator' \in [Thread -> [sampling : BOOLEAN, seed : Seeds, drawn : Nat,
                                    slot : 0..(BankSize - 1)]]'
      /\ countdown' \in [Thread -> Countdown]'
      /\ drawn' \in [Thread -> Seq(Countdown)]'
      /\ DrawsInv'
      /\ \A u \in Thread : /\ generator'[u].seed = generator[u].seed
                           /\ generator'[u].sampling => generator[u].sampling
                           /\ \A i \in DOMAIN drawn'[u] : drawn'[u][i].from = "stream" =>
                                 i \in DOMAIN drawn[u] /\ drawn'[u][i] = drawn[u][i]
  <2>1. pc'[t] = "application" /\ \A u \in Thread \ {t} : pc'[u] = "none"
    BY <1>1
  <2> QED BY <1>1, <2>1, WithoutValueKeeps
<1>3. SeedsInv'
  <2>1. scale' = scale \/ ~Online
    BY <1>1 DEF Online
  <2> QED BY <1>1, <1>2, <2>1, SameSeeds
<1>4. TypesInv'
  <2>1. handlers' \in Seq({"random", "report"})
    BY <1>1, Registering DEF IInv, TypesInv
  <2>2. report' \in {"none", "open", "closed"} /\ scale' \in {"zero", "set"}
    BY <1>1 DEF IInv, TypesInv
  <2>3. /\ pc' \in [Thread -> {"none", "created", "fread", "first", "initialized",
                               "application", "exit"}]
        /\ samples' \in [Thread -> Nat]
    BY <1>1
  <2> QED BY <1>1, <1>2, <2>1, <2>2, <2>3 DEF IInv, TypesInv
<1>5. ChildInv'
  <2>1. env.random = "offline" => bank' # "file"
    BY <1>1 DEF WithoutValue
  <2> QED BY <1>1, <2>1 DEF ChildInv
<1>6. StartInv' /\ ReportInv'
  BY <1>1 DEF StartInv, ReportInv
<1> QED BY <1>2, <1>3, <1>4, <1>5, <1>6 DEF IInv

LEMMA ExitStep == ASSUME IInv, NEW t \in Thread, Exit(t) PROVE IInv'
<1>1. /\ process = "running" /\ process' = "exiting" /\ pc[t] = "application"
      /\ pc' = [pc EXCEPT ![t] = "exit"]
      /\ UNCHANGED <<env, isChild, handlers, report, scale, bank, mapped, entropy, reads,
                     generator, countdown, drawn, samples>>
  BY DEF Exit, random_vars
<1>2. /\ pc' \in [Thread -> {"none", "created", "fread", "first", "initialized",
                             "application", "exit"}]
      /\ pc'[t] = "exit" /\ \A u \in Thread \ {t} : pc'[u] = pc[u]
  BY <1>1 DEF IInv, TypesInv
<1>3. Seeds' = Seeds /\ Countdown' = Countdown /\ DrawsInv' /\ SeedsInv'
  BY <1>1, <1>2, QuietStep
<1>4. TypesInv'
  BY <1>1, <1>2, <1>3 DEF IInv, TypesInv
<1>5. ChildInv' /\ StartInv' /\ ReportInv'
  BY <1>1, <1>2 DEF IInv, ChildInv, StartInv, ReportInv
<1> QED BY <1>3, <1>4, <1>5 DEF IInv

LEMMA ExitingStep == ASSUME IInv, Exiting PROVE IInv'
<1>1. /\ process = "exiting" /\ process' \in {"exiting", "exited"}
      /\ UNCHANGED <<env, isChild, scale, reads, pc, generator, countdown, drawn, samples>>
      /\ report' \in {report, "closed"}
      /\ \/ handlers' = handlers
         \/ handlers # << >> /\ handlers' = Tail(handlers)
      /\ bank' \in {bank, "null"} /\ mapped' \in {mapped, FALSE}
      /\ entropy # "null" => entropy' \in {entropy, "closed", "null"}
      /\ entropy = "null" => entropy' = "null"
      /\ mapped' => bank' = bank
  <2>1. CASE FinalizeReport
    BY <2>1 DEF FinalizeReport, random_vars, thread_vars
  <2>2. CASE FinalizeRandom
    BY <2>2 DEF FinalizeRandom, thread_vars
  <2>3. CASE ForgetRandom
    BY <2>3 DEF ForgetRandom, thread_vars
  <2>4. CASE EndProcess
    BY <2>4 DEF EndProcess, random_vars, thread_vars
  <2> QED BY <2>1, <2>2, <2>3, <2>4 DEF Exiting
<1>2. Seeds' = Seeds /\ Countdown' = Countdown /\ DrawsInv' /\ SeedsInv'
  BY <1>1, QuietStep
<1>3. TypesInv'
  <2>1. handlers' \in Seq({"random", "report"})
    <3>1. handlers \in Seq({"random", "report"})
      BY DEF IInv, TypesInv
    <3> QED BY <1>1, <3>1, HeadTailProperties
  <2>2. mapped' => bank' # "null"
    BY <1>1 DEF IInv, TypesInv
  <2>3. /\ report' \in {"none", "open", "closed"} /\ bank' \in {"null", "file", "minus one"}
        /\ mapped' \in BOOLEAN /\ entropy' \in {"null", "open", "closed"}
    BY <1>1 DEF IInv, TypesInv
  <2> QED BY <1>1, <1>2, <2>1, <2>2, <2>3 DEF IInv, TypesInv
<1>4. ChildInv' /\ StartInv'
  BY <1>1 DEF IInv, ChildInv, StartInv
<1>5. ReportInv'
  <2> SUFFICES ASSUME report' = "open" PROVE ReportInv'
    BY DEF ReportInv
  <2>1. /\ report = "open" /\ handlers # << >> /\ Head(handlers) = "report"
        /\ UNCHANGED <<handlers, mapped, entropy>>
    BY DEF Exiting, FinalizeReport, FinalizeRandom, ForgetRandom, EndProcess,
           random_vars, IInv, ReportInv
  <2> QED BY <1>1, <2>1 DEF IInv, ReportInv
<1> QED BY <1>2, <1>3, <1>4, <1>5 DEF IInv

LEMMA NextIInv == IInv /\ [Next]_vars => IInv'
<1> SUFFICES ASSUME IInv, [Next]_vars PROVE IInv'
  OBVIOUS
<1>1. CASE UNCHANGED vars
  <2>1. UNCHANGED <<env, process, isChild, handlers, report, scale, bank, mapped, entropy,
                    reads, pc, generator, countdown, drawn, samples>>
    BY <1>1 DEF vars, process_vars, random_vars, thread_vars
  <2>2. Seeds' = Seeds /\ Countdown' = Countdown
    BY <2>1 DEF Seeds, Countdown
  <2>3. DrawsInv' /\ SeedsInv'
    BY <2>1, QuietStep
  <2>4. TypesInv'
    BY <2>1, <2>2 DEF IInv, TypesInv
  <2>5. ChildInv' /\ StartInv' /\ ReportInv'
    BY <2>1 DEF IInv, ChildInv, StartInv, ReportInv
  <2> QED BY <2>3, <2>4, <2>5 DEF IInv
<1>2. CASE Initialize
  BY <1>2, RefuseStep, InitializeRandomStep, InitializeUnsetStep, InitializeReportStep
     DEF Initialize
<1>3. CASE Exiting
  BY <1>3, ExitingStep
<1>4. ASSUME NEW t \in Thread, Starting(t) PROVE IInv'
  BY <1>4, SeedThreadSeeds, ReadEntropySeeds, SeededStep, TestEntropyStep, ReadClosedStep,
     StartThreadStep DEF Starting
<1>5. ASSUME NEW t \in Thread, DrawFaults(t) PROVE IInv'
  BY <1>5, FaultStep DEF DrawFaults
<1>6. ASSUME NEW t \in Thread, Create(t) \/ Sample(t) \/ Fork(t) \/ Exit(t) PROVE IInv'
  BY <1>6, CreateStep, SampleStep, ForkStep, ExitStep
<1> QED BY <1>1, <1>2, <1>3, <1>4, <1>5, <1>6 DEF Next, Ended

-----------------------------------------------------------------------------
(* Theorems *)

\* However threads interleave, fork and exit, each draws its own stream, or the
\* bank from its start, in order and from seeds that were read.
THEOREM Streams == Spec => []StreamsInOrder
<1>1. IInv => StreamsInOrder
  <2> SUFFICES ASSUME IInv PROVE StreamsInOrder
    OBVIOUS
  <2>1. TypeOK
    <3>1. \A t \in Thread : /\ generator[t].slot \in 0..(BankSize - 1)
                            /\ countdown[t] \in Countdown /\ drawn[t] \in Seq(Countdown)
      BY DEF IInv, TypesInv
    <3>2. \A t \in Thread : \A i \in DOMAIN drawn[t] : drawn[t][i] \in Countdown
      BY <3>1
    <3> QED BY <3>1, <3>2 DEF TypeOK, IInv, TypesInv
  <2>2. DrawsInOrder
    BY DEF IInv, DrawsInv, DrawsInOrder
  <2> QED BY <2>1, <2>2 DEF StreamsInOrder
<1> QED BY <1>1, InitIInv, NextIInv, PTL DEF Spec

\* While the program runs, every stream is that of the seed it was told, or of
\* one that no other thread draws from.
THEOREM Seeding == Spec => []SeededAsTold
<1>1. IInv => SeededAsTold
  <2> SUFFICES ASSUME IInv, process = "running", NEW t \in Thread, NEW i \in DOMAIN drawn[t],
                      drawn[t][i].from = "stream"
               PROVE  IF env.seeded THEN drawn[t][i].seed = Told
                      ELSE /\ drawn[t][i].seed # Zero
                           /\ \A u \in Thread \ {t} : \A j \in DOMAIN drawn[u] :
                                  drawn[u][j].seed # drawn[t][i].seed
    BY DEF SeededAsTold
  <2>1. drawn[t][i].seed = generator[t].seed /\ drawn[t][i].seed # Zero
    BY DEF IInv, DrawsInv, SeedsInv
  <2>2. Online
    BY <2>1 DEF IInv, SeedsInv
  <2>3. ASSUME NEW u \in Thread, NEW j \in DOMAIN drawn[u]
        PROVE  drawn[u][j].seed \in {Zero, generator[u].seed}
    <3>1. drawn[u][j] \in Countdown
      <4>1. drawn[u] \in Seq(Countdown)
        BY DEF IInv, TypesInv
      <4> QED BY <4>1
    <3>2. drawn[u][j].from = "stream" \/ drawn[u][j].seed = Zero
      BY <3>1 DEF Countdown, Extreme, One, Minimum, Period, Stored, Random
    <3> QED BY <3>2 DEF IInv, DrawsInv
  <2>4. CASE env.seeded
    BY <2>1, <2>2, <2>4 DEF IInv, SeedsInv
  <2>5. CASE ~env.seeded
    <3>1. \A u \in Thread \ {t} : generator[u].seed # generator[t].seed
      BY <2>1, <2>2, <2>5 DEF IInv, SeedsInv
    <3> QED BY <2>1, <2>3, <2>5, <3>1
  <2> QED BY <2>4, <2>5
<1> QED BY <1>1, InitIInv, NextIInv, PTL DEF Spec

\* A child takes at most the sample it inherited the countdown for, unless its
\* generator is seeded anew.
THEOREM Stopping == Spec => []ChildStops
<1>1. IInv => ChildStops
  <2> SUFFICES ASSUME IInv, isChild, NEW t \in Thread
               PROVE  generator[t].sampling \/ samples[t] <= 1
    BY DEF ChildStops
  <2>1. \/ generator[t].sampling \/ samples[t] = 0 \/ samples[t] = 1
    BY DEF IInv, ChildInv
  <2> QED BY <2>1
<1> QED BY <1>1, InitIInv, NextIInv, PTL DEF Spec

\* No fault finds the report open.
THEOREM Faults == Spec => FaultsAfterReport
<1>1. IInv /\ [Next]_vars => [process # "killed" /\ process' = "killed" => report # "open"]_vars
  <2> SUFFICES ASSUME IInv, [Next]_vars, process # "killed", process' = "killed"
               PROVE  report # "open"
    OBVIOUS
  <2>1. \E t \in Thread : ReadClosed(t) \/ DrawFaults(t)
    BY DEF Next, vars, Initialize, Refuse, InitializeRandom, InitializeUnset,
           InitializeReport, Exiting, FinalizeReport, FinalizeRandom, ForgetRandom,
           EndProcess, Ended, Create, Starting, SeedThread, TestEntropy, ReadEntropy,
           StartThread, Sample, Fork, Exit, process_vars
  <2> QED BY <2>1, FaultNeeds
<1> QED BY <1>1, InitIInv, NextIInv, PTL DEF Spec, FaultsAfterReport
=============================================================================
