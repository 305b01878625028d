---------------------------- MODULE RateLimiter ----------------------------
(***************************************************************************)
(* Limiter (pkg/ratelimit/ratelimit.go) with a positive rate: a ticker     *)
(* whose channel holds one tick, callers of Wait that compete for it, and  *)
(* jitter, which makes a caller that got a tick sleep before it passes.    *)
(*                                                                         *)
(* Time advances in units, Interval of them between two ticks.  debt is a  *)
(* history of what passed: every pass adds Interval, every unit takes one  *)
(* off, so a debt of at most d says that any n units saw at most           *)
(* (n + d) / Interval passes.                                              *)
(***************************************************************************)
EXTENDS Naturals

CONSTANTS
  Callers,  \* the goroutines that call Wait
  Interval, \* the time between two ticks
  Jitter    \* the longest extra sleep, jitter * interval; 0 for no jitter

ASSUME LimiterAssumption ==
  Interval \in Nat \ {0} /\ Jitter \in Nat /\ Jitter <= Interval

VARIABLES
  next,      \* the time until the next tick
  tick,      \* is there a tick in the channel?
  stopped,   \* was Stop called?
  cancelled, \* was the context of the callers cancelled?
  pc,        \* where each caller is: outside Wait, in its select, or asleep
  sleep,     \* how long each sleeper has left
  debt       \* history: the passes not yet paid for

vars == <<next, tick, stopped, cancelled, pc, sleep, debt>>

TypeOK ==
  /\ next \in 1..Interval
  /\ tick \in BOOLEAN
  /\ stopped \in BOOLEAN
  /\ cancelled \in BOOLEAN
  /\ pc \in [Callers -> {"out", "select", "asleep"}]
  /\ sleep \in [Callers -> 0..Jitter]
  /\ debt \in Nat

Init ==
  /\ next = Interval
  /\ tick = FALSE
  /\ stopped = FALSE
  /\ cancelled = FALSE
  /\ pc = [c \in Callers |-> "out"]
  /\ sleep = [c \in Callers |-> 0]
  /\ debt = 0

Goto(c, label) == pc' = [pc EXCEPT ![c] = label]
Passes == debt' = debt + Interval

\* Wait is called.
Wait(c) ==
  /\ pc[c] = "out"
  /\ Goto(c, "select")
  /\ UNCHANGED <<next, tick, stopped, cancelled, sleep, debt>>

\* Mutant: a full channel is read without emptying it.
TakeKeepsTick(c) ==
  /\ pc[c] = "select" /\ tick
  /\ Passes
  /\ Goto(c, "out")
  /\ UNCHANGED <<next, tick, stopped, cancelled, sleep>>

\* The select receives the tick.  A random factor of at most zero lets the
\* caller pass at once, a positive one makes it sleep first.
Take(c) ==
  /\ pc[c] = "select" /\ tick
  /\ tick' = FALSE
  /\ \/ Passes /\ Goto(c, "out") /\ UNCHANGED sleep
     \/ \E n \in 1..Jitter :
          sleep' = [sleep EXCEPT ![c] = n] /\ Goto(c, "asleep") /\ UNCHANGED debt
  /\ UNCHANGED <<next, stopped, cancelled>>

\* The sleep is over.
Wake(c) ==
  /\ pc[c] = "asleep" /\ sleep[c] = 0
  /\ Passes
  /\ Goto(c, "out")
  /\ UNCHANGED <<next, tick, stopped, cancelled, sleep>>

\* Mutant: the select for the tick does not look at the context.
AbandonSleep(c) ==
  /\ pc[c] = "asleep" /\ cancelled
  /\ Goto(c, "out")
  /\ sleep' = [sleep EXCEPT ![c] = 0]
  /\ UNCHANGED <<next, tick, stopped, cancelled, debt>>

\* Both selects return the context's error.
Abandon(c) ==
  /\ pc[c] # "out" /\ cancelled
  /\ Goto(c, "out")
  /\ sleep' = [sleep EXCEPT ![c] = 0]
  /\ UNCHANGED <<next, tick, stopped, cancelled, debt>>

\* A unit of time.  The ticker drops a tick that finds the channel full; a
\* sleeper whose time is up passes before time goes on.
Elapse ==
  /\ \A c \in Callers : pc[c] = "asleep" => sleep[c] > 0
  /\ next' = IF next = 1 THEN Interval ELSE next - 1
  /\ tick' = (tick \/ (next = 1 /\ ~stopped))
  /\ sleep' = [c \in Callers |-> IF sleep[c] > 0 THEN sleep[c] - 1 ELSE 0]
  /\ debt' = IF debt > 0 THEN debt - 1 ELSE 0
  /\ UNCHANGED <<stopped, cancelled, pc>>

\* Stop drops a tick that was not received.
Stop ==
  /\ ~stopped
  /\ stopped' = TRUE
  /\ tick' = FALSE
  /\ UNCHANGED <<next, cancelled, pc, sleep, debt>>

Cancel ==
  /\ ~cancelled
  /\ cancelled' = TRUE
  /\ UNCHANGED <<next, tick, stopped, pc, sleep, debt>>

Next ==
  \/ Elapse \/ Stop \/ Cancel
  \/ \E c \in Callers : Wait(c) \/ Take(c) \/ Wake(c) \/ Abandon(c)

(***************************************************************************)
(* Time passes, timers fire, and the receivers of a channel are served in  *)
(* the order they came, hence strong fairness for taking the tick.         *)
(***************************************************************************)
Spec == Init /\ [][Next]_vars
FairSpec ==
  /\ Spec
  /\ WF_vars(Elapse)
  /\ \A c \in Callers : SF_vars(Take(c)) /\ WF_vars(Wake(c)) /\ WF_vars(Abandon(c))
-----------------------------------------------------------------------------
\* The rate over any stretch of time: no more passes than ticks, but for the
\* tick that was kept, the tick about to come and the passes that jitter put
\* off.  The bound is the least one (ratelimit.go:34-35, 52-66).
RateBounded == debt < 2 * Interval + Jitter

\* A caller is not left waiting, in neither select: only a limiter that was
\* stopped under it and a context that nobody cancels can hold it for good
\* (ratelimit.go:52-66, 81-85).
EveryWaitReturns ==
  \A c \in Callers : pc[c] # "out" ~> pc[c] = "out" \/ (stopped /\ ~cancelled)
=============================================================================
