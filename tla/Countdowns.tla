---------------------------- MODULE Countdowns ----------------------------
(***************************************************************************)
(* Where countdowns come from (lib/threads): the three randomizers, their  *)
(* initialisation from the environment, threads and forked processes that  *)
(* each draw their own sequence, and what exit takes away from threads     *)
(* that still run.                                                         *)
(*                                                                         *)
(* A countdown is what was drawn and from where, never a number.  Drawing  *)
(* one is one step: all a draw writes belongs to the thread.  One process  *)
(* is followed; at a fork, the parent or the child.                        *)
(***************************************************************************)
EXTENDS Integers, Sequences

CONSTANTS
    Thread, Main,    \* threads, and the one that runs the constructors
    Environments,    \* subset of Environment
    BankSize,        \* CBI_PRECOMPUTE_COUNT
    MaxDraws         \* bound: draws of one thread

\* How the program was built and called.  setting is of the variable its
\* randomizer reads: $SAMPLER_SPARSITY or $SAMPLER_EVENT_COUNTDOWNS; "huge" is
\* a sparsity for which the exponential draw can exceed an int.
Environment ==
    [random : {"online"}, setting : {"unset", "bad", "set", "huge"}, seeded : BOOLEAN,
     report : BOOLEAN]
    \cup [random : {"offline", "fixed"}, setting : {"unset", "bad", "set"}, seeded : {FALSE},
          report : BOOLEAN]

ASSUME EnvironmentAssumption ==
    /\ Main \in Thread
    /\ Environments \subseteq Environment
    /\ BankSize \in Nat \ {0} /\ MaxDraws \in Nat \ {0}

VARIABLES
    env,       \* the environment of the program
    process,   \* "starting", "running", "exiting", "exited", "refused", "killed"
    isChild,   \* this process was forked
    handlers,  \* what atexit registered, the last one first
    report,    \* cbi_reportFile: "none", "open", "closed"
    scale,     \* densityScale, or the fixed period: "zero" until it is set
    bank,      \* cbi_nextEventPrecomputed: "null", "file", "minus one"
    mapped,    \* the bank it points to is mapped
    entropy,   \* "null", "open", "closed": closed, and not yet set to null
    reads,     \* seeds read from it, by anyone
    pc,        \* Thread -> "none", "created", "fread", "first", "initialized",
               \*           "application", "exit"
    generator, \* Thread -> [sampling, seed, drawn, slot]: thread-local
    countdown, \* cbi_nextEventCountdown: thread-local
    drawn,     \* Thread -> all that it drew, in order
    samples    \* Thread -> samples it took

process_vars == <<env, process, isChild, handlers, report>>
random_vars  == <<scale, bank, mapped, entropy>>
thread_vars  == <<pc, generator, countdown, drawn, samples>>
vars == <<process_vars, random_vars, reads, thread_vars>>

\* The six bytes a generator is seeded with: the static ones, which are zero
\* unless $SAMPLER_SEED was read, or those of the n-th read of /dev/urandom.
Zero == [source |-> "zero", read |-> 0]
Told == [source |-> "SAMPLER_SEED", read |-> 0]
Entropy(n) == [source |-> "entropy", read |-> n]

\* INT_MAX, and the -1 that unsigned code reads as UINT_MAX.
Extreme == [from |-> "extreme", seed |-> Zero, item |-> 0]
One     == [from |-> "one",     seed |-> Zero, item |-> 1]
Minimum == [from |-> "INT_MIN", seed |-> Zero, item |-> 0]
Random(seed, n) == [from |-> "stream", seed |-> seed, item |-> n]
Stored(slot)    == [from |-> "bank",   seed |-> Zero, item |-> slot]
Period          == [from |-> "fixed",  seed |-> Zero, item |-> 0]

Fresh == [sampling |-> FALSE, seed |-> Zero, drawn |-> 0, slot |-> 0]

-----------------------------------------------------------------------------
(* Drawing *)

\* Mutated form: CBI_THREAD_LOCAL stands for nothing.
Local_Shared(t) == Main

\* The thread whose copy of a thread-local variable t uses.
Local(t) == t

\* random-online: the stream of the seed, stretched by densityScale.
OnlineDraws(g) ==
    IF ~g.sampling THEN {Extreme}
    ELSE IF scale = "zero" THEN {One}
    ELSE {Random(g.seed, g.drawn + 1)} \cup (IF env.setting = "huge" THEN {Minimum} ELSE {})

NextSlot(slot) == (slot + 1) % BankSize

\* What cbi_getNextEventCountdown may return.
Draws(t) ==
    LET g == generator[Local(t)] IN
    CASE env.random = "online"  -> OnlineDraws(g)
      [] env.random = "offline" -> {IF bank = "file" THEN Stored(g.slot) ELSE Extreme}
      [] env.random = "fixed"   -> {IF scale = "set" THEN Period ELSE Extreme}

\* cbi_getNextEventCountdown, stored in cbi_nextEventCountdown.
Draw(t) ==
    /\ env.random = "offline" => mapped
    /\ \E c \in Draws(t) :
          /\ countdown' = [countdown EXCEPT ![t] = c]
          /\ drawn' = [drawn EXCEPT ![t] = Append(@, c)]
    /\ generator' = [generator EXCEPT ![Local(t)].drawn = @ + 1,
                                      ![Local(t)].slot = NextSlot(@)]

\* A fault: the handler of report.c finds an open report and completes it, or
\* there is none; then the process dies.
Fault ==
    /\ process' = "killed"
    /\ report' = IF report = "open" THEN "closed" ELSE report
    /\ UNCHANGED <<env, isChild, handlers>>

\* A bank that is not there cannot be read.
Drawable == env.random = "offline" => mapped

-----------------------------------------------------------------------------
(* Initialisation *)

\* cbi_initializeRandom found a value it cannot use: exit(2).
Refuse ==
    /\ process = "starting" /\ env.setting = "bad"
    /\ process' = "refused"
    /\ UNCHANGED <<env, isChild, handlers, report, random_vars, reads, thread_vars>>

\* cbi_initializeRandom with a proper value; the constructor's thread goes on
\* to cbi_initialize_thread.
InitializeRandom ==
    /\ process = "starting" /\ env.setting \in {"set", "huge"} /\ pc[Main] = "none"
    /\ scale' = "set"
    /\ bank' = IF env.random = "offline" THEN "file" ELSE bank
    /\ mapped' = (env.random = "offline")
    /\ entropy' = IF env.random = "online" /\ ~env.seeded THEN "open" ELSE entropy
    /\ handlers' = IF env.random = "offline" \/ entropy' = "open"
                   THEN <<"random">> \o handlers ELSE handlers
    /\ pc' = [pc EXCEPT ![Main] = "created"]
    /\ UNCHANGED <<env, process, isChild, report, reads, generator, countdown, drawn, samples>>

\* cbi_initializeRandom in thread t without a value: online stops the thread's
\* generator, offline maps a table of -1 and draws, fixed sets the period only.
WithoutValue(t) ==
    \/ /\ env.random = "online"
       /\ generator' = [generator EXCEPT ![Local(t)].sampling = FALSE]
       /\ UNCHANGED <<bank, mapped, countdown, drawn>>
    \/ /\ env.random = "offline"
       /\ bank' = "minus one" /\ mapped' = TRUE
       /\ countdown' = [countdown EXCEPT ![t] = Extreme]
       /\ drawn' = [drawn EXCEPT ![t] = Append(@, Extreme)]
       /\ generator' = [generator EXCEPT ![Local(t)].drawn = @ + 1,
                                         ![Local(t)].slot = NextSlot(@)]
    \/ /\ env.random = "fixed"
       /\ UNCHANGED <<bank, mapped, generator, countdown, drawn>>

\* No variable: what WithoutValue does, and no seed, stream or scale.
InitializeUnset ==
    /\ process = "starting" /\ env.setting = "unset" /\ pc[Main] = "none"
    /\ WithoutValue(Main)
    /\ handlers' = IF env.random = "offline" THEN <<"random">> \o handlers ELSE handlers
    /\ pc' = [pc EXCEPT ![Main] = "initialized"]
    /\ UNCHANGED <<env, process, isChild, report, scale, entropy, reads, samples>>

\* Mutated form: the report's handler is registered first, and runs last.
InitializeReport_First ==
    /\ process = "starting" /\ pc[Main] = "initialized"
    /\ process' = "running" /\ pc' = [pc EXCEPT ![Main] = "application"]
    /\ report' = IF env.report THEN "open" ELSE "none"
    /\ handlers' = IF env.report THEN Append(handlers, "report") ELSE handlers
    /\ UNCHANGED <<env, isChild, random_vars, reads, generator, countdown, drawn, samples>>

\* cbi_initializeReport, last of initializeOnce; main can start.
InitializeReport ==
    /\ process = "starting" /\ pc[Main] = "initialized"
    /\ process' = "running" /\ pc' = [pc EXCEPT ![Main] = "application"]
    /\ report' = IF env.report THEN "open" ELSE "none"
    /\ handlers' = IF env.report THEN <<"report">> \o handlers ELSE handlers
    /\ UNCHANGED <<env, isChild, random_vars, reads, generator, countdown, drawn, samples>>

-----------------------------------------------------------------------------
(* Threads *)

Alive == process \in {"starting", "running", "exiting"}

\* Code that runs before any thread is created runs alone.
Initializes(t) == Alive /\ pc[t] = "created"

\* __wrap_pthread_create succeeds: a new thread, with its own fresh copies.
Create(t) ==
    /\ process \in {"running", "exiting"} /\ pc[t] = "none" /\ t # Main
    /\ \E u \in Thread : pc[u] = "application"
    /\ pc' = [pc EXCEPT ![t] = "created"]
    /\ generator' = [generator EXCEPT ![t] = Fresh]
    /\ countdown' = [countdown EXCEPT ![t] = Extreme]
    /\ drawn' = [drawn EXCEPT ![t] = << >>]
    /\ UNCHANGED <<process_vars, random_vars, reads, samples>>

\* Mutated form: threads of their own entropy share what was read first.
Seed_Once(t) == Entropy(1)

\* The n-th read of /dev/urandom.
Seed(t) == Entropy(reads + 1)

\* cbi_initialize_thread without entropy: the seed of the process.
SeedThread(t) ==
    /\ Initializes(t) /\ env.random = "online" /\ entropy = "null"
    /\ generator' = [generator EXCEPT
           ![Local(t)] = [@ EXCEPT !.sampling = TRUE, !.drawn = 0,
                                   !.seed = IF env.seeded /\ scale = "set" THEN Told ELSE Zero]]
    /\ pc' = [pc EXCEPT ![t] = "first"]
    /\ UNCHANGED <<process_vars, random_vars, reads, countdown, drawn, samples>>

\* ... with it: entropy was seen to be open,
TestEntropy(t) ==
    /\ Initializes(t) /\ env.random = "online" /\ entropy # "null"
    /\ pc' = [pc EXCEPT ![t] = "fread"]
    /\ UNCHANGED <<process_vars, random_vars, reads, generator, countdown, drawn, samples>>

\* ... and a seed is read from it.
ReadEntropy(t) ==
    /\ Alive /\ pc[t] = "fread" /\ entropy = "open"
    /\ generator' = [generator EXCEPT
           ![Local(t)] = [@ EXCEPT !.sampling = TRUE, !.drawn = 0, !.seed = Seed(t)]]
    /\ reads' = reads + 1
    /\ pc' = [pc EXCEPT ![t] = "first"]
    /\ UNCHANGED <<process_vars, random_vars, countdown, drawn, samples>>

\* fread of a stream that exit has closed in between: it fails, or faults.
ReadClosed(t) ==
    /\ Alive /\ pc[t] = "fread" /\ entropy # "open"
    /\ \/ Fault /\ UNCHANGED thread_vars
       \/ /\ pc' = [pc EXCEPT ![t] = "first"]
          /\ UNCHANGED <<process_vars, generator, countdown, drawn, samples>>
    /\ UNCHANGED <<random_vars, reads>>

\* The other randomizers have nothing to seed.
Seedless(t) == Initializes(t) /\ env.random # "online"

\* Mutated form: the thread starts with the countdown it was born with.
FirstDraw_None(t) == UNCHANGED <<generator, countdown, drawn>>

FirstDraw(t) == Draw(t)

\* The first countdown; then main's constructor goes on, or start(argument).
StartThread(t) ==
    /\ Alive /\ (pc[t] = "first" \/ Seedless(t)) /\ Drawable
    /\ FirstDraw(t)
    /\ pc' = [pc EXCEPT ![t] = IF process = "starting" THEN "initialized" ELSE "application"]
    /\ UNCHANGED <<process_vars, random_vars, reads, samples>>

\* Instrumented code: of the program, and after exit was called of its other
\* threads, its own exit handlers and its destructors.
Instrumented(t) ==
    /\ process \in {"running", "exiting"}
    /\ \/ pc[t] = "application"
       \/ pc[t] = "exit" /\ entropy # "closed" /\ (bank = "null" \/ mapped)

\* A countdown that is not extreme has run down: the sample is taken, and the
\* next countdown drawn.
Sample(t) ==
    /\ Instrumented(t)
    /\ countdown[t] # Extreme /\ Len(drawn[t]) < MaxDraws /\ Drawable
    /\ Draw(t)
    /\ samples' = [samples EXCEPT ![t] = @ + 1]
    /\ UNCHANGED <<process_vars, random_vars, reads, pc>>

\* The table is gone when a countdown is drawn.
DrawFaults(t) ==
    /\ Alive /\ ~Drawable
    /\ \/ pc[t] = "first" \/ Seedless(t)
       \/ Instrumented(t) /\ countdown[t] # Extreme
    /\ Fault
    /\ UNCHANGED <<random_vars, reads, thread_vars>>

-----------------------------------------------------------------------------
(* Fork and exit *)

\* Mutated form: the child goes on with its parent's settings.
ForkRandom_None(t) == UNCHANGED <<bank, mapped, generator, countdown, drawn>>

\* cbi_initializeRandom in the child: the variables are unset.
ForkRandom(t) == WithoutValue(t)

\* __wrap_fork, followed into the child: the calling thread is its only one.
\* Its report is closed without being written, all else is inherited.
Fork(t) ==
    /\ process = "running" /\ pc[t] = "application" /\ ~isChild
    /\ isChild' = TRUE
    /\ report' = IF report = "open" THEN "closed" ELSE report
    /\ ForkRandom(t)
    /\ handlers' = IF env.random = "offline" THEN <<"random">> \o handlers ELSE handlers
    /\ scale' = IF env.random = "fixed" THEN "zero" ELSE scale
    /\ pc' = [u \in Thread |-> IF u = t THEN "application" ELSE "none"]
    /\ samples' = [u \in Thread |-> 0]
    /\ UNCHANGED <<env, process, entropy, reads>>

\* A thread calls exit, or main returns.
Exit(t) ==
    /\ process = "running" /\ pc[t] = "application"
    /\ process' = "exiting"
    /\ pc' = [pc EXCEPT ![t] = "exit"]
    /\ UNCHANGED <<env, isChild, handlers, report, random_vars, reads,
                   generator, countdown, drawn, samples>>

\* report.c's finalize: the report is written and closed.
FinalizeReport ==
    /\ process = "exiting" /\ handlers # << >> /\ Head(handlers) = "report"
    /\ handlers' = Tail(handlers)
    /\ report' = IF report = "open" THEN "closed" ELSE report
    /\ UNCHANGED <<env, process, isChild, random_vars, reads, thread_vars>>

\* random-offline's or random-online's finalize: munmap, fclose ...
FinalizeRandom ==
    /\ process = "exiting" /\ handlers # << >> /\ Head(handlers) = "random"
    /\ mapped' = FALSE
    /\ entropy' = IF entropy = "open" THEN "closed" ELSE entropy
    /\ (mapped \/ entropy = "open")
    /\ UNCHANGED <<env, process, isChild, handlers, report, scale, bank, reads, thread_vars>>

\* ... and the pointer is cleared; all of it only if it was set.
ForgetRandom ==
    /\ process = "exiting" /\ handlers # << >> /\ Head(handlers) = "random"
    /\ ~mapped /\ entropy # "open"
    /\ handlers' = Tail(handlers)
    /\ bank' = "null" /\ entropy' = "null"
    /\ UNCHANGED <<env, process, isChild, report, scale, mapped, reads, thread_vars>>

EndProcess ==
    /\ process = "exiting" /\ handlers = << >>
    /\ process' = "exited"
    /\ UNCHANGED <<env, isChild, handlers, report, random_vars, reads, thread_vars>>

-----------------------------------------------------------------------------

Init ==
    /\ env \in Environments
    /\ process = "starting" /\ isChild = FALSE
    /\ handlers = << >> /\ report = "none"
    /\ scale = "zero" /\ bank = "null" /\ mapped = FALSE /\ entropy = "null" /\ reads = 0
    /\ pc = [t \in Thread |-> "none"]
    /\ generator = [t \in Thread |-> Fresh]
    /\ countdown = [t \in Thread |-> Extreme]
    /\ drawn = [t \in Thread |-> << >>]
    /\ samples = [t \in Thread |-> 0]

Initialize == Refuse \/ InitializeRandom \/ InitializeUnset \/ InitializeReport

Starting(t) ==
    SeedThread(t) \/ TestEntropy(t) \/ ReadEntropy(t) \/ ReadClosed(t) \/ StartThread(t)

\* Nothing is left to run.
Ended == process \in {"exited", "refused", "killed"} /\ UNCHANGED vars

Exiting == FinalizeReport \/ FinalizeRandom \/ ForgetRandom \/ EndProcess

Next ==
    \/ Initialize \/ Exiting \/ Ended
    \/ \E t \in Thread : \/ Create(t) \/ Starting(t) \/ Sample(t) \/ DrawFaults(t)
                         \/ Fork(t) \/ Exit(t)

Spec == Init /\ [][Next]_vars

\* Handlers run to the end, and threads are scheduled; nothing makes the
\* application create threads, fork, sample or exit.
FairSpec ==
    /\ Spec
    /\ WF_vars(Initialize) /\ WF_vars(Exiting)
    /\ \A t \in Thread : WF_vars(Starting(t))

-----------------------------------------------------------------------------
(* Properties *)

Countdown ==
    {Extreme, One, Minimum, Period}
    \cup {Stored(slot) : slot \in 0..(BankSize - 1)}
    \cup {Random(seed, n) : seed \in {Zero, Told} \cup {Entropy(i) : i \in 1..reads},
                            n \in 1..MaxDraws}

\* Types: no slot is off the table, no countdown of an unknown origin.
TypeOK ==
    /\ env \in Environments
    /\ process \in {"starting", "running", "exiting", "exited", "refused", "killed"}
    /\ handlers \in Seq({"random", "report"}) /\ report \in {"none", "open", "closed"}
    /\ bank \in {"null", "file", "minus one"} /\ mapped => bank # "null"
    /\ entropy \in {"null", "open", "closed"}
    /\ \A t \in Thread : /\ generator[t].slot \in 0..(BankSize - 1)
                         /\ countdown[t] \in Countdown
                         /\ \A i \in DOMAIN drawn[t] : drawn[t][i] \in Countdown

\* However threads interleave, and across a fork, the n-th draw of a thread is
\* the n-th item of its own stream, or of the bank from its start.
DrawsInOrder ==
    \A t \in Thread : \A i \in DOMAIN drawn[t] :
        /\ drawn[t][i].from = "stream" => drawn[t][i].item = i
        /\ drawn[t][i].from = "bank" => drawn[t][i].item = (i - 1) % BankSize

\* The streams are of known origin, no slot is off the table, and they are drawn
\* in their order.
StreamsInOrder == TypeOK /\ DrawsInOrder

\* Each thread seeds "its own generator using this same value", or else "using
\* a new seed drawn from this system entropy source" (sampler-guide.xml:733-742).
SeededAsTold ==
    process = "running" =>
        \A t \in Thread : \A i \in DOMAIN drawn[t] :
            drawn[t][i].from = "stream" =>
                IF env.seeded THEN drawn[t][i].seed = Told
                ELSE /\ drawn[t][i].seed # Zero
                     /\ \A u \in Thread \ {t} : \A j \in DOMAIN drawn[u] :
                            drawn[u][j].seed # drawn[t][i].seed

\* Asked to sample, the program does so in every thread: none that was created
\* gets stuck before its start routine, or runs it with the countdown it was
\* born with.
ThreadsSample ==
    \A t \in Thread :
        pc[t] = "created" ~>
            \/ pc[t] = "application" /\ (env.setting = "unset" \/ isChild \/ countdown[t] # Extreme)
            \/ pc[t] = "none" \/ process \in {"exited", "killed"}

\* "If not set, countdowns are always initialized to UINT_MAX, effectively
\* disabling sampling" (sampler-guide.xml:723-725): in no thread.
UnsetDisablesSampling == env.setting = "unset" => \A t \in Thread : samples[t] = 0

\* A child takes at most the one sample that its countdown was inherited for;
\* only threads that it creates, and whose generator is seeded anew, take more.
ChildStops == isChild => \A t \in Thread : generator[t].sampling \/ samples[t] <= 1

\* What exit takes away from threads that still run, the table or the entropy,
\* can kill the process, but not before the report is written.
FaultsAfterReport ==
    [][process # "killed" /\ process' = "killed" => report # "open"]_vars
=============================================================================
