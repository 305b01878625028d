--------------------------- MODULE CrawlerProofs ---------------------------
(***************************************************************************)
(* Proofs about Crawler, for every number of workers, every web, every     *)
(* depth and every capacity of the channel; the last part is about how far *)
(* a crawl goes.                                                           *)
(***************************************************************************)
EXTENDS CrawlerProperties, Counting, FiniteSetTheorems, SequenceTheorems, TLAPS

\* Where the goroutines can be together, and what a worker holds there.
Shape ==
  /\ main \in {"seed", "seedSend"} <=> waiter = "off"
  /\ waiter = "off" => \A w \in Workers : pc[w] = "off"
  /\ main = "seedSend" => seeds # <<>>
  /\ main = "ok" => waiter = "closed"
  /\ \A w \in Workers : pc[w] \notin {"off", "idle", "exited"} => job[w] \in Job
  /\ \A w \in Workers : pc[w] \in {"mark", "send"} => todo[w] # <<>>

\* Before the WaitGroup is given the length of the channel it is zero.
Accounted ==
  /\ waiter = "off" => wg = 0
  /\ JobAccounting

\* The inductive invariant of the first group of theorems.
Inv == TypeOK /\ Shape /\ Accounted

IdleLabels == {"off", "idle", "exited"}
BusyLabels == {"robots", "limit", "fetch", "scan", "mark", "send", "finish"}
-----------------------------------------------------------------------------
(* Counting the workers. *)

\* A worker that joins or leaves a set of workers changes its cardinality by
\* one, and one that stays does not.
LEMMA CountChange ==
  ASSUME NEW S, NEW T, NEW w, IsFiniteSet(S), T = S \cup {w} \/ T = S \ {w}
  PROVE  /\ IsFiniteSet(T)
         /\ Cardinality(S) \in Nat
         /\ Cardinality(T) = Cardinality(S) + (IF w \in T THEN 1 ELSE 0)
                                            - (IF w \in S THEN 1 ELSE 0)
<1>1. Cardinality(S) \in Nat
  BY FS_CardinalityType
<1>2. CASE T = S \cup {w}
  <2>1. w \in T
    BY <1>2
  <2>2. IsFiniteSet(T) /\ Cardinality(T) = IF w \in S THEN Cardinality(S) ELSE Cardinality(S) + 1
    BY <1>2, FS_AddElement
  <2>3. QED
    BY <1>1, <2>1, <2>2
<1>3. CASE T = S \ {w}
  <2>1. w \notin T
    BY <1>3
  <2>2. IsFiniteSet(T) /\ Cardinality(T) = IF w \in S THEN Cardinality(S) - 1 ELSE Cardinality(S)
    BY <1>3, FS_RemoveElement
  <2>3. QED
    BY <1>1, <2>1, <2>2
<1>4. QED
  BY <1>2, <1>3

\* The sets of busy and of sending workers are finite.
LEMMA Finite == IsFiniteSet(Busy) /\ IsFiniteSet(Sending)
  BY WorkersAssumption, FS_Subset DEF Busy, Sending

\* What moving one worker to another label does to the two counts.
LEMMA GotoCounts ==
  ASSUME TypeOK, NEW w \in Workers, NEW label, Goto(w, label)
  PROVE  /\ Cardinality(Busy) \in Nat /\ Cardinality(Sending) \in Nat
         /\ Cardinality(Busy') = Cardinality(Busy)
              + (IF label \in IdleLabels THEN 0 ELSE 1)
              - (IF pc[w] \in IdleLabels THEN 0 ELSE 1)
         /\ Cardinality(Sending') = Cardinality(Sending)
              + (IF label = "send" THEN 1 ELSE 0) - (IF pc[w] = "send" THEN 1 ELSE 0)
<1>1. pc \in [Workers -> IdleLabels \cup BusyLabels] /\ pc' = [pc EXCEPT ![w] = label]
  BY DEF TypeOK, Goto, IdleLabels, BusyLabels
<1>2. (w \in Busy <=> pc[w] \notin IdleLabels) /\ (w \in Busy' <=> label \notin IdleLabels)
  BY <1>1 DEF Busy, IdleLabels
<1>3. (w \in Sending <=> pc[w] = "send") /\ (w \in Sending' <=> label = "send")
  BY <1>1 DEF Sending
<1>4. Busy' = Busy \cup {w} \/ Busy' = Busy \ {w}
  BY <1>1 DEF Busy
<1>5. Sending' = Sending \cup {w} \/ Sending' = Sending \ {w}
  BY <1>1 DEF Sending
<1>6. QED
  BY <1>2, <1>3, <1>4, <1>5, Finite, CountChange

\* A worker at work is open work, and two pieces of it while it is sending.
LEMMA BusyCounted ==
  ASSUME Inv, NEW w \in Workers, pc[w] \notin IdleLabels
  PROVE  waiter # "off" /\ main \notin {"seed", "seedSend"} /\ wg = OpenWork
         /\ wg >= (IF pc[w] = "send" THEN 2 ELSE 1)
<1>1. waiter # "off" /\ main \notin {"seed", "seedSend"} /\ wg = OpenWork
  BY DEF Inv, Shape, IdleLabels, Accounted, JobAccounting
<1>2. Cardinality(Busy) \in Nat /\ Cardinality(Busy) # 0
  BY Finite, FS_CardinalityType, FS_EmptySet DEF Busy, IdleLabels
<1>3. Cardinality(Sending) \in Nat /\ (pc[w] = "send" => Cardinality(Sending) # 0)
  BY Finite, FS_CardinalityType, FS_EmptySet DEF Sending
<1>4. SeedWork = 0
  BY <1>1 DEF SeedWork
<1>5. Len(queue) \in Nat
  BY DEF Inv, TypeOK
<1>6. QED
  BY <1>1, <1>2, <1>3, <1>4, <1>5 DEF OpenWork

-----------------------------------------------------------------------------
(* The steps keep the types. *)

\* Norm maps URLs to pages.
LEMMA NormPage == \A u \in URL : Norm[u] \in Page
  BY DEF Page

\* Claiming a page for a goroutine keeps the types of the two records of it.
LEMMA ClaimType ==
  ASSUME TypeOK, NEW a \in Workers \cup {Main}, NEW u \in URL, Claim(a, u)
  PROVE  visited' \in SUBSET Page /\ made' \in [Workers \cup {Main} -> [Page -> Nat]]
<1>1. made[a] \in [Page -> Nat] /\ made[a][Norm[u]] + 1 \in Nat
  BY NormPage DEF TypeOK
<1>2. made' = [made EXCEPT ![a] = [made[a] EXCEPT ![Norm[u]] = made[a][Norm[u]] + 1]]
  BY DEF Claim
<1>3. [made[a] EXCEPT ![Norm[u]] = made[a][Norm[u]] + 1] \in [Page -> Nat]
  BY <1>1
<1>4. QED
  BY <1>2, <1>3, NormPage DEF TypeOK, Claim

\* What a worker notes is an answer.
LEMMA NoteType ==
  ASSUME TypeOK, NEW w \in Workers, job[w] \in Job,
         NEW outcome \in Outcome \cup {"denied"}, Note(w, outcome)
  PROVE  answers' \in SUBSET Answer /\ MyPage(w) \in Page
<1>1. MyPage(w) \in Page /\ job[w].depth \in Nat
  BY NormPage DEF MyPage, Job
<1>2. QED
  BY <1>1 DEF TypeOK, Note, Answer

\* A step of the goroutine that called Run keeps the types.
LEMMA RunTypes ==
  ASSUME Inv, RunStep
  PROVE  TypeOK'
<1>1. TypeOK /\ Shape
  BY DEF Inv
<1> USE <1>1
<1>2. CASE SkipSeed
  BY <1>2 DEF SkipSeed, TypeOK, local, history
<1>3. CASE MarkSeed
  <2>1. Head(seeds) \in URL
    BY <1>3 DEF MarkSeed, TypeOK
  <2>2. visited' \in SUBSET Page /\ made' \in [Workers \cup {Main} -> [Page -> Nat]]
    BY <1>3, <2>1, ClaimType DEF MarkSeed
  <2>3. QED
    BY <1>3, <2>2 DEF MarkSeed, TypeOK, local
<1>4. CASE SendSeed
  <2>1. seeds # <<>>
    BY <1>4 DEF SendSeed, Shape
  <2>2. [url |-> Head(seeds), depth |-> 0] \in Job
    BY <2>1 DEF TypeOK, Job
  <2>3. queue' \in Seq(Job) /\ seeds' \in Seq(URL)
    BY <1>4, <2>1, <2>2 DEF SendSeed, TypeOK
  <2>4. QED
    BY <1>4, <2>3 DEF SendSeed, TypeOK, local, history
<1>5. CASE Spawn
  <2>1. wg' \in Nat
    BY <1>5 DEF Spawn, TypeOK
  <2>2. QED
    BY <1>5, <2>1 DEF Spawn, TypeOK, history
<1>6. CASE ReturnOk
  BY <1>6 DEF ReturnOk, TypeOK, local, history
<1>7. CASE ReturnCancelled
  BY <1>7 DEF ReturnCancelled, TypeOK, local, history
<1>8. QED
  BY <1>2, <1>3, <1>4, <1>5, <1>6, <1>7 DEF RunStep

Labels == IdleLabels \cup BusyLabels

\* Going to a label keeps the type of the program counters.
LEMMA GotoType ==
  ASSUME TypeOK, NEW w \in Workers, NEW label \in Labels, Goto(w, label)
  PROVE  pc' \in [Workers -> Labels]
  BY DEF TypeOK, Goto, Labels, IdleLabels, BusyLabels

\* A step that only moves a worker keeps the types.
LEMMA MovesTypes ==
  ASSUME TypeOK, NEW w \in Workers, NEW from, NEW to \in Labels, Moves(w, from, to)
  PROVE  TypeOK'
<1>1. pc' \in [Workers -> Labels]
  BY GotoType DEF Moves
<1>2. QED
  BY <1>1 DEF Moves, TypeOK, Labels, IdleLabels, BusyLabels, seeding, history

\* A step of a worker keeps the types.
LEMMA WorkerTypes ==
  ASSUME Inv, NEW w \in Workers, WorkerStep(w)
  PROVE  TypeOK'
<1>1. TypeOK /\ Shape
  BY DEF Inv
<1>2. ASSUME NEW label \in Labels, Goto(w, label)
      PROVE  pc' \in [Workers -> {"off", "idle", "robots", "limit", "fetch",
                                  "scan", "mark", "send", "finish", "exited"}]
  BY <1>1, <1>2, GotoType DEF Labels, IdleLabels, BusyLabels
<1>3. CASE Exit(w) \/ Allowed(w) \/ LimiterPasses(w) \/ LimiterFails(w)
           \/ KeepLink(w) \/ LinksDone(w)
  <2>1. \E from, to \in Labels : Moves(w, from, to)
    BY <1>3 DEF Exit, Allowed, LimiterPasses, LimiterFails, KeepLink, LinksDone,
                Labels, IdleLabels, BusyLabels
  <2>2. QED
    BY <1>1, <2>1, MovesTypes
<1> USE <1>1
<1>4. CASE Take(w)
  <2>1. Head(queue) \in Job /\ Tail(queue) \in Seq(Job)
    BY <1>4 DEF Take, TypeOK
  <2>2. pc' \in [Workers -> {"off", "idle", "robots", "limit", "fetch",
                             "scan", "mark", "send", "finish", "exited"}]
    BY <1>4, <1>2 DEF Take, Labels, BusyLabels
  <2>3. QED
    BY <1>4, <2>1, <2>2 DEF Take, TypeOK, seeding, history
<1>5. CASE Denied(w)
  <2>1. job[w] \in Job
    BY <1>5 DEF Denied, Shape
  <2>2. answers' \in SUBSET Answer
    BY <1>5, <2>1, NoteType DEF Denied
  <2>3. QED
    BY <1>5, <2>2, <1>2 DEF Denied, TypeOK, seeding, Labels, BusyLabels
<1>6. CASE Fetch(w)
  <2>1. job[w] \in Job
    BY <1>6 DEF Fetch, Shape
  <2>2. PICK outcome \in Outcomes(MyPage(w)) :
          /\ Note(w, outcome)
          /\ IF Expands(job[w].depth, outcome)
               THEN /\ todo' = [todo EXCEPT ![w] = Links[MyPage(w)]]
                    /\ Goto(w, "scan")
               ELSE Goto(w, "finish") /\ UNCHANGED todo
    BY <1>6 DEF Fetch
  <2>3. MyPage(w) \in Page
    BY <2>1, NormPage DEF MyPage, Job
  <2>4. outcome \in Outcome
    BY <2>2, <2>3, WebAssumption DEF Outcomes, Outcome
  <2>5. answers' \in SUBSET Answer
    BY <2>1, <2>2, <2>4, NoteType
  <2>6. Links[MyPage(w)] \in Seq(URL)
    BY <2>3, WebAssumption
  <2>7. todo' \in [Workers -> Seq(URL)]
    BY <2>2, <2>6 DEF TypeOK
  <2>8. pc' \in [Workers -> {"off", "idle", "robots", "limit", "fetch",
                             "scan", "mark", "send", "finish", "exited"}]
    BY <2>2, <1>2 DEF Labels, BusyLabels
  <2>9. QED
    BY <1>6, <2>5, <2>7, <2>8 DEF Fetch, TypeOK, seeding
<1>7. ASSUME DropLink(w), pc[w] = "send" \/ todo[w] # <<>>
      PROVE  todo' \in [Workers -> Seq(URL)]
  <2>1. todo[w] # <<>> /\ todo[w] \in Seq(URL)
    BY <1>7 DEF Shape, TypeOK
  <2>2. QED
    BY <1>7, <2>1 DEF DropLink, TypeOK
<1>8. CASE SkipLink(w)
  BY <1>7, <1>8 DEF SkipLink, TypeOK, seeding, history
<1>9. ASSUME pc[w] \in {"mark", "send"}
      PROVE  Link(w) \in URL
  BY <1>9 DEF Shape, Link, TypeOK
<1>10. CASE MarkLink(w)
  <2>1. visited' \in SUBSET Page /\ made' \in [Workers \cup {Main} -> [Page -> Nat]]
    BY <1>9, <1>10, ClaimType DEF MarkLink
  <2>2. wg' \in Nat
    BY <1>10 DEF MarkLink, TypeOK
  <2>3. QED
    BY <1>10, <2>1, <2>2, <1>2 DEF MarkLink, TypeOK, seeding, Labels, BusyLabels
<1>11. CASE SendLink(w)
  <2>1. job[w] \in Job
    BY <1>11 DEF SendLink, Shape
  <2>2. [url |-> Link(w), depth |-> job[w].depth + 1] \in Job
    BY <1>9, <1>11, <2>1 DEF SendLink, Job
  <2>3. queue' \in Seq(Job)
    BY <1>11, <2>2 DEF SendLink, TypeOK
  <2>4. QED
    BY <1>11, <2>3, <1>7, <1>2 DEF SendLink, TypeOK, seeding, history, Labels, BusyLabels
<1>12. ASSUME pc[w] \notin IdleLabels PROVE wg - 1 \in Nat
  BY <1>12, BusyCounted DEF TypeOK
<1>13. CASE GiveUp(w)
  BY <1>13, <1>7, <1>12, <1>2 DEF GiveUp, TypeOK, seeding, history, Labels, IdleLabels, BusyLabels
<1>14. CASE Done(w)
  BY <1>14, <1>12, <1>2 DEF Done, TypeOK, seeding, history, Labels, IdleLabels, BusyLabels
<1>15. QED
  BY <1>3, <1>4, <1>5, <1>6, <1>8, <1>10, <1>11, <1>13, <1>14 DEF WorkerStep

-----------------------------------------------------------------------------
(* The steps keep the shape. *)

\* What one worker does to its own program counter, job and links; the others
\* are where they were.
LEMMA OthersStay ==
  ASSUME Inv, NEW w \in Workers, WorkerStep(w), NEW v \in Workers, v # w
  PROVE  pc'[v] = pc[v] /\ job'[v] = job[v] /\ todo'[v] = todo[v]
  BY DEF Inv, TypeOK, WorkerStep, Take, Exit, Allowed, Denied, LimiterPasses, LimiterFails,
         Fetch, KeepLink, SkipLink, LinksDone, MarkLink, SendLink, GiveUp, Done,
         Moves, Goto, DropLink, history

\* The worker that steps has a job wherever it needs one, and a link.
LEMMA OwnShape ==
  ASSUME Inv, NEW w \in Workers, WorkerStep(w)
  PROVE  /\ pc'[w] # "off"
         /\ pc'[w] \notin IdleLabels => job'[w] \in Job
         /\ pc'[w] \in {"mark", "send"} => todo'[w] # <<>>
<1>1. TypeOK /\ Shape
  BY DEF Inv
<1> USE <1>1 DEF IdleLabels, Moves, Goto
<1>2. CASE Take(w)
  BY <1>2 DEF Take, TypeOK
<1>3. CASE Exit(w) \/ Allowed(w) \/ LimiterPasses(w) \/ LimiterFails(w) \/ LinksDone(w)
  BY <1>3 DEF Exit, Allowed, LimiterPasses, LimiterFails, LinksDone, TypeOK, Shape
<1>4. CASE Denied(w) \/ Fetch(w) \/ KeepLink(w)
  BY <1>4 DEF Denied, Fetch, KeepLink, TypeOK, Shape
<1>5. CASE SkipLink(w) \/ MarkLink(w)
  BY <1>5 DEF SkipLink, MarkLink, TypeOK, Shape
<1>6. CASE SendLink(w) \/ GiveUp(w) \/ Done(w)
  BY <1>6 DEF SendLink, GiveUp, Done, TypeOK, Shape
<1>7. QED
  BY <1>2, <1>3, <1>4, <1>5, <1>6 DEF WorkerStep

\* A worker leaves the goroutine that called Run and the waiter alone.
LEMMA WorkerLeaves ==
  ASSUME NEW w \in Workers, WorkerStep(w)
  PROVE  UNCHANGED <<main, seeds, waiter, cancelled>> /\ pc[w] # "off"
  BY DEF WorkerStep, Take, Exit, Allowed, Denied, LimiterPasses, LimiterFails,
         Fetch, KeepLink, SkipLink, LinksDone, MarkLink, SendLink, GiveUp, Done, Moves, seeding

\* Every step keeps the shape.
LEMMA ShapeStep ==
  ASSUME Inv, [Next]_vars
  PROVE  Shape'
<1>1. TypeOK /\ Shape
  BY DEF Inv
<1> USE <1>1
<1>2. CASE RunStep
  <2>1. CASE SkipSeed
    BY <2>1 DEF SkipSeed, Shape, local, history
  <2>2. CASE MarkSeed
    BY <2>2 DEF MarkSeed, Shape, local
  <2>3. CASE SendSeed
    BY <2>3 DEF SendSeed, Shape, local, history
  <2>4. CASE Spawn
    BY <2>4 DEF Spawn, Shape, history
  <2>5. CASE ReturnOk \/ ReturnCancelled
    BY <2>5 DEF ReturnOk, ReturnCancelled, Shape, local, history
  <2>6. QED
    BY <1>2, <2>1, <2>2, <2>3, <2>4, <2>5 DEF RunStep
<1>3. CASE CloseDone \/ Cancel
  BY <1>3 DEF CloseDone, Cancel, Shape, seeding, local, history
<1>4. ASSUME NEW w \in Workers, WorkerStep(w) PROVE Shape'
  <2>1. UNCHANGED <<main, seeds, waiter>> /\ pc[w] # "off"
    BY <1>4, WorkerLeaves
  <2>2. \A v \in Workers : v # w =>
          pc'[v] = pc[v] /\ job'[v] = job[v] /\ todo'[v] = todo[v]
    BY <1>4, OthersStay
  <2>3. /\ pc'[w] \notin IdleLabels => job'[w] \in Job
        /\ pc'[w] \in {"mark", "send"} => todo'[w] # <<>>
    BY <1>4, OwnShape
  <2>4. QED
    BY <2>1, <2>2, <2>3 DEF Shape, IdleLabels
<1>5. CASE UNCHANGED vars
  BY <1>5 DEF vars, Shape
<1>6. QED
  BY <1>2, <1>3, <1>4, <1>5 DEF Next
-----------------------------------------------------------------------------
(* The steps keep the account. *)

\* A step of the goroutine that called Run keeps the account: the WaitGroup
\* takes over exactly what is in the channel.
LEMMA RunAccounted ==
  ASSUME Inv, RunStep
  PROVE  Accounted'
<1>1. TypeOK /\ Shape /\ Accounted
  BY DEF Inv
<1> USE <1>1
<1>2. CASE SkipSeed \/ MarkSeed \/ SendSeed
  BY <1>2 DEF SkipSeed, MarkSeed, SendSeed, Shape, Accounted, JobAccounting, local
<1>3. CASE Spawn
  <2>1. wg = 0 /\ SeedWork' = 0 /\ waiter' = "waiting"
    BY <1>3 DEF Spawn, Shape, Accounted, SeedWork
  <2>2. Busy' = {} /\ Sending' = {}
    BY <1>3 DEF Spawn, Busy, Sending
  <2>3. wg' = OpenWork'
    BY <1>3, <2>1, <2>2, FS_EmptySet DEF Spawn, OpenWork, TypeOK
  <2>4. QED
    BY <2>1, <2>3 DEF Accounted, JobAccounting
<1>4. CASE ReturnOk \/ ReturnCancelled
  <2>1. UNCHANGED <<waiter, wg, queue, pc>> /\ SeedWork' = SeedWork
    BY <1>4 DEF ReturnOk, ReturnCancelled, local, SeedWork
  <2>2. QED
    BY <2>1 DEF Accounted, JobAccounting, OpenWork, Busy, Sending
<1>5. QED
  BY <1>2, <1>3, <1>4 DEF RunStep

\* A step of a worker changes the counter and the open work alike.
LEMMA WorkerAccounted ==
  ASSUME Inv, NEW w \in Workers, WorkerStep(w)
  PROVE  waiter # "off" /\ wg' = OpenWork' /\ (wg = 0 => wg' = 0)
<1>1. TypeOK /\ Shape /\ Accounted
  BY DEF Inv
<1> USE <1>1
<1>2. UNCHANGED <<main, seeds, waiter>> /\ pc[w] # "off"
  BY WorkerLeaves
<1>3. waiter # "off" /\ wg = OpenWork /\ SeedWork = 0 /\ SeedWork' = 0
  BY <1>2 DEF Shape, Accounted, JobAccounting, SeedWork
<1>4. pc[w] \notin IdleLabels => wg >= (IF pc[w] = "send" THEN 2 ELSE 1)
  BY BusyCounted DEF Inv
<1>5. Len(queue) \in Nat /\ wg \in Nat
  BY DEF TypeOK
<1>6. ASSUME NEW from \in Labels, NEW to \in Labels, Goto(w, to), pc[w] = from
      PROVE  /\ Cardinality(Busy) \in Nat /\ Cardinality(Sending) \in Nat
             /\ Cardinality(Busy') = Cardinality(Busy)
                  + (IF to \in IdleLabels THEN 0 ELSE 1) - (IF from \in IdleLabels THEN 0 ELSE 1)
             /\ Cardinality(Sending') = Cardinality(Sending)
                  + (IF to = "send" THEN 1 ELSE 0) - (IF from = "send" THEN 1 ELSE 0)
  BY <1>6, GotoCounts
<1> USE <1>3, <1>5 DEF OpenWork, Labels, IdleLabels, BusyLabels
<1>7. CASE Take(w)
  <2>1. Len(queue') = Len(queue) - 1 /\ wg' = wg
    BY <1>7 DEF Take, TypeOK
  <2>2. wg # 0
    BY <1>7, <2>1, Finite, FS_CardinalityType DEF Take, TypeOK
  <2>3. PICK to \in {"robots", "limit"} : Goto(w, to)
    BY <1>7 DEF Take
  <2>4. QED
    BY <1>6, <1>7, <2>1, <2>2, <2>3 DEF Take
<1>8. CASE Exit(w)
  BY <1>6, <1>8 DEF Exit, Moves
<1>9. CASE Allowed(w) \/ LimiterPasses(w) \/ LimiterFails(w) \/ KeepLink(w) \/ LinksDone(w)
  BY <1>6, <1>9 DEF Allowed, LimiterPasses, LimiterFails, KeepLink, LinksDone, Moves
<1>10. CASE Denied(w)
  BY <1>6, <1>10 DEF Denied
<1>11. CASE Fetch(w)
  <2>1. PICK to \in {"scan", "finish"} : Goto(w, to)
    BY <1>11 DEF Fetch
  <2>2. QED
    BY <1>6, <1>11, <2>1 DEF Fetch
<1>12. CASE SkipLink(w)
  BY <1>12 DEF SkipLink, Busy, Sending
<1>13. CASE MarkLink(w)
  BY <1>4, <1>6, <1>13 DEF MarkLink
<1>14. CASE SendLink(w)
  <2>1. Len(queue') = Len(queue) + 1
    BY <1>14 DEF SendLink, TypeOK
  <2>2. QED
    BY <1>4, <1>6, <1>14, <2>1 DEF SendLink
<1>15. CASE GiveUp(w)
  BY <1>4, <1>6, <1>15 DEF GiveUp
<1>16. CASE Done(w)
  BY <1>4, <1>6, <1>16 DEF Done
<1>17. QED
  BY <1>7, <1>8, <1>9, <1>10, <1>11, <1>12, <1>13, <1>14, <1>15, <1>16 DEF WorkerStep

\* Every step keeps the account, and a counter that is zero stays zero.
LEMMA AccountedStep ==
  ASSUME Inv, [Next]_vars
  PROVE  Accounted' /\ (waiter # "off" /\ wg = 0 => wg' = 0)
<1>1. TypeOK /\ Shape /\ Accounted
  BY DEF Inv
<1>2. CASE RunStep
  <2>1. waiter # "off" => wg' = wg
    BY <1>1, <1>2 DEF Shape, RunStep, SkipSeed, MarkSeed, SendSeed, Spawn, ReturnOk, ReturnCancelled
  <2>2. QED
    BY <1>1, <1>2, <2>1, RunAccounted DEF TypeOK
<1>3. CASE CloseDone
  BY <1>1, <1>3 DEF CloseDone, Accounted, JobAccounting, OpenWork, SeedWork, Busy, Sending,
                    seeding, local
<1>4. CASE Cancel \/ UNCHANGED vars
  BY <1>1, <1>4 DEF Cancel, vars, Accounted, JobAccounting, OpenWork, SeedWork, Busy, Sending,
                    seeding, local
<1>5. ASSUME NEW w \in Workers, WorkerStep(w)
      PROVE  Accounted' /\ (wg = 0 => wg' = 0)
  BY <1>1, <1>5, WorkerAccounted, WorkerLeaves DEF Accounted, JobAccounting
<1>6. QED
  BY <1>2, <1>3, <1>4, <1>5 DEF Next

\* Init establishes the invariant and every step keeps it.
LEMMA InvInit == Init => Inv
<1> SUFFICES ASSUME Init PROVE Inv
  OBVIOUS
<1>1. [p \in Page |-> 0] \in [Page -> Nat]
  OBVIOUS
<1>2. made \in [Workers \cup {Main} -> [Page -> Nat]]
  BY <1>1 DEF Init
<1>3. seeds \in Seq(URL)
  BY WebAssumption DEF Init
<1>4. todo \in [Workers -> Seq(URL)] /\ queue \in Seq(Job)
  BY DEF Init
<1>5. TypeOK
  BY <1>2, <1>3, <1>4 DEF Init, TypeOK
<1>6. QED
  BY <1>5 DEF Init, Inv, Shape, Accounted, JobAccounting

\* The inductive step: types, shape and account together.
LEMMA InvStep == Inv /\ [Next]_vars => Inv'
<1> SUFFICES ASSUME Inv, [Next]_vars PROVE Inv'
  OBVIOUS
<1>1. TypeOK'
  <2>1. CASE CloseDone \/ Cancel \/ UNCHANGED vars
    BY <2>1 DEF Inv, TypeOK, CloseDone, Cancel, vars, seeding, local, history
  <2>2. QED
    BY <2>1, RunTypes, WorkerTypes DEF Next
<1>2. QED
  BY <1>1, ShapeStep, AccountedStep DEF Inv

\* Types, shape and account hold in every state of every crawl.
THEOREM Invariance == Spec => []Inv
  BY InvInit, InvStep, PTL DEF Spec

\* Every variable keeps its type; in particular jobsWg never goes negative,
\* at which Go panics (crawler.go:119, 204).
THEOREM TypeCorrect == Spec => []TypeOK
<1>1. Inv => TypeOK
  BY DEF Inv
<1>2. QED
  BY <1>1, Invariance, PTL

\* jobsWg counts the open jobs, no more and no less, for any number of workers
\* (crawler.go:103-130, 200, 204).
THEOREM JobsAccounted == Spec => []JobAccounting
<1>1. Inv => JobAccounting
  BY DEF Inv, Accounted
<1>2. QED
  BY <1>1, Invariance, PTL

\* jobsWg is never raised from zero while the waiter waits or has seen zero
\* (crawler.go:127-130, 200).
THEOREM NeverRevived == Spec => WaitGroupNotRevived
<1>1. Inv /\ [Next]_vars => [waiter # "off" /\ wg = 0 => wg' = 0]_vars
  BY AccountedStep
<1>2. QED
  BY <1>1, Invariance, PTL DEF Spec, WaitGroupNotRevived
-----------------------------------------------------------------------------
(* What a nil error means. *)

\* When the account is zero there is no work at all.
LEMMA NothingOpen ==
  ASSUME Inv, waiter = "closed"
  PROVE  queue = <<>> /\ Busy = {} /\ Sending = {} /\ main \notin {"seed", "seedSend"}
<1>1. OpenWork = 0 /\ SeedWork = 0 /\ main \notin {"seed", "seedSend"}
  BY DEF Inv, Shape, Accounted, JobAccounting, SeedWork
<1>2. Cardinality(Busy) \in Nat /\ Cardinality(Sending) \in Nat /\ Len(queue) \in Nat
  BY Finite, FS_CardinalityType DEF Inv, TypeOK
<1>3. Cardinality(Busy) = 0 /\ Cardinality(Sending) = 0 /\ Len(queue) = 0
  BY <1>1, <1>2 DEF OpenWork
<1>4. queue = <<>>
  BY <1>3 DEF Inv, TypeOK
<1>5. QED
  BY <1>1, <1>3, <1>4, Finite, FS_EmptySet

\* After a nil error nothing happens any more: the workers that are left over
\* are idle and have nothing to take (crawler.go:135-139).
THEOREM QuietThen == Spec => QuietAfterNil
<1>1. Inv /\ [Next]_vars
        => [main = "ok" => UNCHANGED <<queue, visited, wg, made, answers>>]_vars
  <2> SUFFICES ASSUME Inv, Next, main = "ok"
               PROVE  UNCHANGED <<queue, visited, wg, made, answers>>
    BY DEF vars
  <2>1. queue = <<>> /\ Busy = {}
    BY NothingOpen DEF Inv, Shape
  <2>2. CASE RunStep
    BY <2>2 DEF RunStep, SkipSeed, MarkSeed, SendSeed, Spawn, ReturnOk, ReturnCancelled
  <2>3. CASE CloseDone \/ Cancel
    BY <2>3 DEF CloseDone, Cancel, history
  <2>4. ASSUME NEW w \in Workers, WorkerStep(w)
        PROVE  UNCHANGED <<queue, visited, wg, made, answers>>
    <3>1. pc[w] \in IdleLabels
      BY <2>1 DEF Busy, IdleLabels
    <3>2. Exit(w)
      BY <2>1, <2>4, <3>1 DEF IdleLabels, WorkerStep, Take, Allowed, Denied, LimiterPasses,
         LimiterFails, Fetch, KeepLink, SkipLink, LinksDone, MarkLink, SendLink, GiveUp, Done, Moves
    <3>3. QED
      BY <3>2 DEF Exit, Moves, history
  <2>5. QED
    BY <2>2, <2>3, <2>4 DEF Next
<1>2. QED
  BY <1>1, Invariance, PTL DEF Spec, QuietAfterNil
-----------------------------------------------------------------------------
(* At most one job per worker and page. *)

Agents == Workers \cup {Main}

\* A worker past shouldVisit saw the page unvisited: neither it nor a seed
\* had claimed it, and only it itself could have since.
Claims ==
  /\ \A a \in Agents, p \in Page : made[a][p] <= 1 /\ (made[a][p] > 0 => p \in visited)
  /\ \A p \in Page : made[Main][p] > 0 => \A w \in Workers : made[w][p] = 0
  /\ \A w \in Workers : pc[w] = "mark" =>
       made[w][Norm[Link(w)]] = 0 /\ made[Main][Norm[Link(w)]] = 0

\* What a claim changes.
LEMMA ClaimEffect ==
  ASSUME TypeOK, NEW a \in Agents, NEW u \in URL, Claim(a, u)
  PROVE  /\ visited' = visited \cup {Norm[u]}
         /\ \A b \in Agents, p \in Page :
              made'[b][p] = IF b = a /\ p = Norm[u] THEN made[b][p] + 1 ELSE made[b][p]
  BY NormPage DEF TypeOK, Claim, Agents

\* The links of a worker that looks at one are URLs.
LEMMA LinkURL ==
  ASSUME Inv, NEW w \in Workers, pc[w] \in {"mark", "send"} \/ todo[w] # <<>>
  PROVE  Link(w) \in URL /\ Norm[Link(w)] \in Page
<1>1. todo[w] \in Seq(URL) /\ todo[w] # <<>>
  BY DEF Inv, TypeOK, Shape
<1>2. QED
  BY <1>1, NormPage DEF Link

\* Every step keeps the claims.
LEMMA ClaimsStep ==
  ASSUME Inv, Claims, [Next]_vars
  PROVE  Claims'
<1>1. TypeOK /\ Shape /\ \A a \in Agents, p \in Page : made[a][p] \in Nat
  BY DEF Inv, TypeOK, Agents
<1> USE <1>1
<1>2. CASE MarkSeed
  <2>1. Head(seeds) \in URL /\ Norm[Head(seeds)] \notin visited
    BY <1>2 DEF MarkSeed, TypeOK, ShouldVisit
  <2>2. /\ visited' = visited \cup {Norm[Head(seeds)]}
        /\ \A b \in Agents, p \in Page :
             made'[b][p] = IF b = Main /\ p = Norm[Head(seeds)] THEN made[b][p] + 1
                                                                ELSE made[b][p]
    BY <1>2, <2>1, ClaimEffect DEF MarkSeed, Agents
  <2>3. \A b \in Agents : made[b][Norm[Head(seeds)]] = 0
    BY <2>1, NormPage DEF Claims
  <2>4. \A w \in Workers : pc'[w] = "off"
    BY <1>2 DEF MarkSeed, Shape, local
  <2>5. \A a \in Agents, p \in Page : made'[a][p] <= 1 /\ (made'[a][p] > 0 => p \in visited')
    BY <2>2, <2>3 DEF Claims
  <2>6. \A p \in Page : made'[Main][p] > 0 => \A w \in Workers : made'[w][p] = 0
    BY <2>2, <2>3, WorkersAssumption DEF Claims, Agents
  <2>7. QED
    BY <2>4, <2>5, <2>6 DEF Claims
<1>3. CASE SkipSeed \/ SendSeed \/ ReturnOk \/ ReturnCancelled \/ CloseDone \/ Cancel
           \/ UNCHANGED vars
  BY <1>3 DEF SkipSeed, SendSeed, ReturnOk, ReturnCancelled, CloseDone, Cancel, vars,
              Claims, Link, seeding, local, history
<1>4. CASE Spawn
  BY <1>4 DEF Spawn, Claims, history
<1>5. ASSUME NEW w \in Workers, WorkerStep(w)
      PROVE  Claims'
  <2>1. \A v \in Workers : v # w => pc'[v] = pc[v] /\ Link(v)' = Link(v)
    BY <1>5, OthersStay DEF Link
  <2>2. CASE MarkLink(w)
    <3>1. Link(w) \in URL /\ Norm[Link(w)] \in Page
      BY <2>2, LinkURL DEF MarkLink
    <3>2. /\ visited' = visited \cup {Norm[Link(w)]}
          /\ \A b \in Agents, p \in Page :
               made'[b][p] = IF b = w /\ p = Norm[Link(w)] THEN made[b][p] + 1
                                                            ELSE made[b][p]
      BY <2>2, <3>1, ClaimEffect DEF MarkLink, Agents
    <3>3. made[w][Norm[Link(w)]] = 0 /\ made[Main][Norm[Link(w)]] = 0
      BY <2>2 DEF MarkLink, Claims
    <3>4. pc'[w] = "send"
      BY <2>2 DEF MarkLink, Goto, TypeOK
    <3>5. \A a \in Agents, p \in Page : made'[a][p] <= 1 /\ (made'[a][p] > 0 => p \in visited')
      BY <3>2, <3>3 DEF Claims
    <3>6. \A p \in Page : made'[Main][p] > 0 => \A v \in Workers : made'[v][p] = 0
      BY <3>1, <3>2, <3>3, WorkersAssumption DEF Claims, Agents
    <3>7. ASSUME NEW v \in Workers, pc'[v] = "mark"
          PROVE  made'[v][Norm[Link(v)']] = 0 /\ made'[Main][Norm[Link(v)']] = 0
      <4>1. v # w /\ pc[v] = "mark" /\ Link(v)' = Link(v)
        BY <2>1, <3>4, <3>7
      <4>2. Norm[Link(v)] \in Page
        BY <4>1, LinkURL
      <4>3. QED
        BY <3>2, <4>1, <4>2, WorkersAssumption DEF Claims, Agents
    <3>8. QED
      BY <3>5, <3>6, <3>7 DEF Claims
  <2>3. CASE KeepLink(w)
    <3>1. Norm[Link(w)] \in Page /\ Norm[Link(w)] \notin visited
      BY <2>3, LinkURL DEF KeepLink, ShouldVisit
    <3>2. UNCHANGED <<made, visited, todo>>
      BY <2>3 DEF KeepLink, Moves, history
    <3>3. made[w][Norm[Link(w)]] = 0 /\ made[Main][Norm[Link(w)]] = 0
      BY <3>1 DEF Claims, Agents
    <3>4. QED
      BY <2>1, <3>2, <3>3 DEF Claims, Link
  <2>4. CASE ~MarkLink(w) /\ ~KeepLink(w)
    <3>1. UNCHANGED <<made, visited>> /\ pc'[w] # "mark"
      BY <1>5, <2>4 DEF WorkerStep, Take, Exit, Allowed, Denied, LimiterPasses, LimiterFails,
         Fetch, SkipLink, LinksDone, SendLink, GiveUp, Done, Moves, Goto, TypeOK, history
    <3>2. QED
      BY <2>1, <3>1 DEF Claims
  <2>5. QED
    BY <2>2, <2>3, <2>4
<1>6. QED
  BY <1>2, <1>3, <1>4, <1>5 DEF Next, RunStep

\* The race between shouldVisit and markVisited is bounded: no goroutine makes
\* two jobs for one page and nobody remakes a seed (crawler.go:93-98, 198-199).
THEOREM OneJobEach == Spec => []OneJobPerWorker
<1>1. Init => Claims
  BY DEF Init, Claims, Agents
<1>2. Inv /\ Claims /\ [Next]_vars => Claims'
  BY ClaimsStep
<1>3. Claims => OneJobPerWorker
  BY DEF Claims, OneJobPerWorker, Agents
<1>4. QED
  BY <1>1, <1>2, <1>3, Invariance, PTL DEF Spec
-----------------------------------------------------------------------------
(* No page is forgotten. *)

\* Taking the first element of a sequence and appending one at its end.
LEMMA TailCovers ==
  ASSUME NEW S, NEW s \in Seq(S), s # <<>>
  PROVE  /\ \A i \in DOMAIN s : s[i] = Head(s) \/ \E k \in DOMAIN Tail(s) : Tail(s)[k] = s[i]
         /\ \A k \in DOMAIN Tail(s) : \E i \in DOMAIN s : s[i] = Tail(s)[k]
         /\ 1 \in DOMAIN s /\ s[1] = Head(s)
<1>1. Len(s) \in Nat /\ Len(s) >= 1 /\ DOMAIN s = 1..Len(s) /\ Head(s) = s[1]
  OBVIOUS
<1>2. Len(Tail(s)) = Len(s) - 1 /\ DOMAIN Tail(s) = 1..(Len(s) - 1)
  OBVIOUS
<1>3. \A k \in 1..(Len(s) - 1) : Tail(s)[k] = s[k + 1]
  OBVIOUS
<1>4. ASSUME NEW i \in DOMAIN s, i # 1
      PROVE  \E k \in DOMAIN Tail(s) : Tail(s)[k] = s[i]
  <2>1. i - 1 \in DOMAIN Tail(s) /\ Tail(s)[i - 1] = s[i]
    BY <1>1, <1>2, <1>3, <1>4
  <2>2. QED
    BY <2>1
<1>5. ASSUME NEW k \in DOMAIN Tail(s)
      PROVE  \E i \in DOMAIN s : s[i] = Tail(s)[k]
  <2>1. k + 1 \in DOMAIN s /\ s[k + 1] = Tail(s)[k]
    BY <1>1, <1>2, <1>3, <1>5
  <2>2. QED
    BY <2>1
<1>6. QED
  BY <1>1, <1>4, <1>5

\* Appending keeps every element and adds one.
LEMMA AppendCovers ==
  ASSUME NEW S, NEW s \in Seq(S), NEW e \in S
  PROVE  /\ \A i \in DOMAIN s : i \in DOMAIN Append(s, e) /\ Append(s, e)[i] = s[i]
         /\ \E k \in DOMAIN Append(s, e) : Append(s, e)[k] = e
         /\ \A k \in DOMAIN Append(s, e) :
              Append(s, e)[k] = e \/ (k \in DOMAIN s /\ Append(s, e)[k] = s[k])
<1>1. Len(s) \in Nat /\ DOMAIN s = 1..Len(s) /\ DOMAIN Append(s, e) = 1..(Len(s) + 1)
  OBVIOUS
<1>2. Append(s, e)[Len(s) + 1] = e /\ \A i \in 1..Len(s) : Append(s, e)[i] = s[i]
  OBVIOUS
<1>3. QED
  BY <1>1, <1>2

\* Every page the crawl works on is in the visited map.
Known ==
  /\ main = "seedSend" => Norm[Head(seeds)] \in visited
  /\ \A i \in DOMAIN queue : Norm[queue[i].url] \in visited
  /\ \A w \in Workers : pc[w] \notin IdleLabels => MyPage(w) \in visited
  /\ \A w \in Workers : pc[w] = "send" => Norm[Link(w)] \in visited
  /\ Answered \subseteq visited

\* A step of a worker as the others see it.
LEMMA WorkerFrame ==
  ASSUME Inv, NEW w \in Workers, WorkerStep(w)
  PROVE  /\ visited \subseteq visited' /\ Answered \subseteq Answered'
         /\ UNCHANGED <<main, seeds, cancelled>>
         /\ main # "seedSend"
         /\ \A v \in Workers : v # w =>
              pc'[v] = pc[v] /\ MyPage(v)' = MyPage(v) /\ Link(v)' = Link(v) /\ todo'[v] = todo[v]
<1>1. UNCHANGED <<main, seeds, cancelled>> /\ main # "seedSend"
  BY WorkerLeaves DEF Inv, Shape
<1>2. visited \subseteq visited' /\ answers \subseteq answers'
  BY DEF WorkerStep, Take, Exit, Allowed, Denied, LimiterPasses, LimiterFails,
         Fetch, KeepLink, SkipLink, LinksDone, MarkLink, SendLink, GiveUp, Done,
         Moves, Claim, Note, history
<1>3. QED
  BY <1>1, <1>2, OthersStay DEF MyPage, Link, Answered

\* What a worker notes answers its page and no other.
LEMMA NoteEffect ==
  ASSUME NEW w \in Workers, NEW outcome, Note(w, outcome)
  PROVE  Answered' = Answered \cup {MyPage(w)}
<1> DEFINE new == [page |-> MyPage(w), depth |-> job[w].depth, outcome |-> outcome]
<1>1. answers' = answers \cup {new} /\ new.page = MyPage(w)
  BY DEF Note
<1> HIDE DEF new
<1>2. {r.page : r \in answers'} = {r.page : r \in answers} \cup {new.page}
  BY <1>1
<1>3. QED
  BY <1>1, <1>2 DEF Answered

\* Every step of a worker keeps the pages it works on known.
LEMMA WorkerKnown ==
  ASSUME Inv, Known, NEW w \in Workers, WorkerStep(w)
  PROVE  Known'
<1>1. TypeOK /\ Shape
  BY DEF Inv
<1>2. /\ visited \subseteq visited' /\ UNCHANGED main /\ main # "seedSend"
      /\ \A v \in Workers : v # w =>
           pc'[v] = pc[v] /\ MyPage(v)' = MyPage(v) /\ Link(v)' = Link(v)
  BY WorkerFrame
<1> USE <1>1
<1>3. SUFFICES /\ \A i \in DOMAIN queue' : Norm[queue'[i].url] \in visited'
               /\ pc'[w] \notin IdleLabels => MyPage(w)' \in visited'
               /\ pc'[w] = "send" => Norm[Link(w)'] \in visited'
               /\ Answered' \subseteq visited'
  <2>1. \A v \in Workers : pc'[v] \notin IdleLabels => MyPage(v)' \in visited'
    BY <1>2, <1>3 DEF Known
  <2>2. \A v \in Workers : pc'[v] = "send" => Norm[Link(v)'] \in visited'
    BY <1>2, <1>3 DEF Known
  <2>3. QED
    BY <1>2, <1>3, <2>1, <2>2 DEF Known
<1>4. CASE Take(w)
  <2>1. queue # <<>> /\ queue \in Seq(Job) /\ queue' = Tail(queue) /\ job'[w] = queue[1]
    BY <1>4, TailCovers DEF Take, TypeOK
  <2>2. \A k \in DOMAIN queue' : \E i \in DOMAIN queue : queue[i] = queue'[k]
    BY <2>1, TailCovers
  <2>3. Norm[job'[w].url] \in visited
    BY <2>1, TailCovers DEF Known
  <2>4. UNCHANGED <<visited, answers>> /\ pc'[w] # "send"
    BY <1>4 DEF Take, Goto, TypeOK, history
  <2>5. QED
    BY <2>2, <2>3, <2>4 DEF Known, MyPage, Answered
<1>5. CASE Exit(w) \/ Allowed(w) \/ LimiterPasses(w) \/ LimiterFails(w) \/ KeepLink(w)
           \/ LinksDone(w) \/ SkipLink(w) \/ GiveUp(w) \/ Done(w)
  BY <1>5 DEF Exit, Allowed, LimiterPasses, LimiterFails, KeepLink, LinksDone, SkipLink, GiveUp,
     Done, Moves, Goto, TypeOK, Known, MyPage, Answered, IdleLabels, history
<1>6. CASE Denied(w) \/ Fetch(w)
  <2>1. \E outcome : Note(w, outcome)
    BY <1>6 DEF Denied, Fetch
  <2>2. Answered' = Answered \cup {MyPage(w)}
    BY <2>1, NoteEffect
  <2>3. UNCHANGED <<queue, visited, job>> /\ pc[w] \notin IdleLabels /\ pc'[w] # "send"
    BY <1>6 DEF Denied, Fetch, Goto, TypeOK, IdleLabels
  <2>4. QED
    BY <2>2, <2>3 DEF Known, MyPage
<1>7. CASE MarkLink(w)
  BY <1>7 DEF MarkLink, Claim, Link, Known, MyPage, Answered, IdleLabels
<1>8. CASE SendLink(w)
  <2>1. job[w] \in Job /\ Link(w) \in URL
    BY <1>8, LinkURL DEF SendLink, Shape
  <2>2. [url |-> Link(w), depth |-> job[w].depth + 1] \in Job
    BY <2>1 DEF Job
  <2>3. queue \in Seq(Job)
    BY DEF TypeOK
  <2>4. \A k \in DOMAIN queue' : 
         queue'[k].url = Link(w) \/ (k \in DOMAIN queue /\ queue'[k] = queue[k])
    BY <1>8, <2>2, <2>3, AppendCovers DEF SendLink
  <2>5. UNCHANGED <<visited, answers, job>> /\ pc[w] = "send" /\ pc'[w] = "scan"
    BY <1>8 DEF SendLink, Goto, TypeOK, history
  <2>6. QED
    BY <2>4, <2>5 DEF Known, MyPage, Answered, IdleLabels
<1>9. QED
  BY <1>4, <1>5, <1>6, <1>7, <1>8 DEF WorkerStep

\* Every step keeps the pages the crawl works on known.
LEMMA KnownStep ==
  ASSUME Inv, Known, [Next]_vars
  PROVE  Known'
<1>1. TypeOK /\ Shape
  BY DEF Inv
<1> USE <1>1
<1>2. CASE MarkSeed
  <2>1. \A w \in Workers : pc[w] = "off"
    BY <1>2 DEF MarkSeed, Shape
  <2>2. QED
    BY <1>2, <2>1 DEF MarkSeed, Claim, Known, Answered, IdleLabels, local
<1>3. CASE SendSeed
  <2>1. Head(seeds) \in URL /\ queue \in Seq(Job)
    BY <1>3 DEF SendSeed, Shape, TypeOK
  <2>2. [url |-> Head(seeds), depth |-> 0] \in Job
    BY <2>1 DEF Job
  <2>3. \A k \in DOMAIN queue' :
          queue'[k].url = Head(seeds) \/ (k \in DOMAIN queue /\ queue'[k] = queue[k])
    BY <1>3, <2>1, <2>2, AppendCovers DEF SendSeed
  <2>4. UNCHANGED <<visited, answers, pc, job, todo>> /\ main = "seedSend" /\ main' = "seed"
    BY <1>3 DEF SendSeed, local, history
  <2>5. QED
    BY <2>3, <2>4 DEF Known, MyPage, Link, Answered
<1>4. CASE Spawn
  BY <1>4 DEF Spawn, Known, Answered, IdleLabels, history
<1>5. CASE SkipSeed \/ ReturnOk \/ ReturnCancelled \/ CloseDone \/ Cancel \/ UNCHANGED vars
  BY <1>5 DEF SkipSeed, ReturnOk, ReturnCancelled, CloseDone, Cancel, vars, Known, MyPage, Link,
              Answered, seeding, local, history
<1>6. QED
  BY <1>2, <1>3, <1>4, <1>5, WorkerKnown DEF Next, RunStep

\* A page that is on its way stays on its way or is answered, unless the
\* context is cancelled.
LEMMA StaysOnItsWay ==
  ASSUME Inv, [Next]_vars, ~cancelled', NEW p, OnItsWay(p)
  PROVE  OnItsWay(p)' \/ p \in Answered'
<1>1. TypeOK /\ Shape /\ ~cancelled
  BY DEF Inv, TypeOK, Next, RunStep, SkipSeed, MarkSeed, SendSeed, Spawn, ReturnOk,
         ReturnCancelled, CloseDone, Cancel, vars, WorkerStep, Take, Exit, Allowed, Denied,
         LimiterPasses, LimiterFails, Fetch, KeepLink, SkipLink, LinksDone, MarkLink, SendLink,
         GiveUp, Done, Moves
<1> USE <1>1
<1>2. CASE SendSeed
  <2>1. Head(seeds) \in URL /\ queue \in Seq(Job)
    BY <1>2 DEF SendSeed, Shape, TypeOK
  <2>2. [url |-> Head(seeds), depth |-> 0] \in Job
    BY <2>1 DEF Job
  <2>3. /\ \A i \in DOMAIN queue : i \in DOMAIN queue' /\ queue'[i] = queue[i]
        /\ \E k \in DOMAIN queue' : queue'[k].url = Head(seeds)
    BY <1>2, <2>1, <2>2, AppendCovers DEF SendSeed
  <2>4. UNCHANGED <<pc, job, todo>>
    BY <1>2 DEF SendSeed, local
  <2>5. QED
    BY <2>3, <2>4 DEF OnItsWay, MyPage, Link
<1>3. CASE MarkSeed
  BY <1>3 DEF MarkSeed, OnItsWay, MyPage, Link, local
<1>4. CASE Spawn
  <2>1. \A w \in Workers : pc[w] = "off"
    BY <1>4 DEF Spawn, Shape
  <2>2. QED
    BY <1>4, <2>1 DEF Spawn, OnItsWay
<1>5. CASE SkipSeed \/ ReturnOk \/ ReturnCancelled \/ CloseDone \/ Cancel \/ UNCHANGED vars
  BY <1>5 DEF SkipSeed, ReturnOk, ReturnCancelled, CloseDone, Cancel, vars, OnItsWay, MyPage,
              Link, seeding, local
<1>6. ASSUME NEW w \in Workers, WorkerStep(w)
      PROVE  OnItsWay(p)' \/ p \in Answered'
  <2>1. /\ main # "seedSend" /\ Answered \subseteq Answered'
        /\ \A v \in Workers : v # w =>
             pc'[v] = pc[v] /\ MyPage(v)' = MyPage(v) /\ Link(v)' = Link(v)
    BY <1>6, WorkerFrame
  <2>2. ASSUME NEW v \in Workers, v # w,
               \/ pc[v] \in {"robots", "limit", "fetch"} /\ p = MyPage(v)
               \/ pc[v] = "send" /\ p = Norm[Link(v)]
        PROVE  OnItsWay(p)'
    BY <2>1, <2>2 DEF OnItsWay
  <2>3. ASSUME NEW i \in DOMAIN queue, p = Norm[queue[i].url]
        PROVE  OnItsWay(p)'
    <3>1. CASE Take(w)
      <4>1. queue # <<>> /\ queue \in Seq(Job) /\ queue' = Tail(queue) /\ job'[w] = Head(queue)
        BY <3>1 DEF Take, TypeOK
      <4>2. queue[i] = Head(queue) \/ \E k \in DOMAIN Tail(queue) : Tail(queue)[k] = queue[i]
        BY <4>1, TailCovers
      <4>3. CASE queue[i] = Head(queue)
        <5>1. pc'[w] \in {"robots", "limit"} /\ MyPage(w)' = p
          BY <2>3, <3>1, <4>1, <4>3 DEF Take, Goto, TypeOK, MyPage
        <5>2. QED
          BY <5>1 DEF OnItsWay
      <4>4. QED
        BY <2>3, <4>1, <4>2, <4>3 DEF OnItsWay
    <3>2. CASE SendLink(w)
      <4>1. job[w] \in Job /\ Link(w) \in URL /\ queue \in Seq(Job)
        BY <3>2, LinkURL DEF SendLink, Shape, TypeOK
      <4>2. [url |-> Link(w), depth |-> job[w].depth + 1] \in Job
        BY <4>1 DEF Job
      <4>3. i \in DOMAIN queue' /\ queue'[i] = queue[i]
        BY <3>2, <4>1, <4>2, AppendCovers DEF SendLink
      <4>4. QED
        BY <2>3, <4>3 DEF OnItsWay
    <3>3. CASE ~Take(w) /\ ~SendLink(w)
      <4>1. queue' = queue
        BY <1>6, <3>3 DEF WorkerStep, Exit, Allowed, Denied, LimiterPasses, LimiterFails, Fetch,
           KeepLink, SkipLink, LinksDone, MarkLink, GiveUp, Done, Moves
      <4>2. QED
        BY <2>3, <4>1 DEF OnItsWay
    <3>4. QED
      BY <3>1, <3>2, <3>3
  <2>4. CASE pc[w] \in {"robots", "limit", "fetch"} /\ p = MyPage(w)
    <3>1. CASE Denied(w) \/ Fetch(w)
      <4>1. \E outcome : Note(w, outcome)
        BY <3>1 DEF Denied, Fetch
      <4>2. QED
        BY <2>4, <4>1, NoteEffect
    <3>2. CASE Allowed(w) \/ LimiterPasses(w)
      <4>1. pc'[w] \in {"limit", "fetch"} /\ MyPage(w)' = MyPage(w)
        BY <3>2 DEF Allowed, LimiterPasses, Moves, Goto, TypeOK, MyPage
      <4>2. QED
        BY <2>4, <4>1 DEF OnItsWay
    <3>3. QED
      BY <1>6, <2>4, <3>1, <3>2 DEF WorkerStep, Take, Exit, LimiterFails, KeepLink, SkipLink,
         LinksDone, MarkLink, SendLink, GiveUp, Done, Moves
  <2>5. CASE pc[w] = "send" /\ p = Norm[Link(w)]
    <3>1. SendLink(w)
      BY <1>6, <2>5 DEF WorkerStep, Take, Exit, Allowed, Denied, LimiterPasses, LimiterFails,
         Fetch, KeepLink, SkipLink, LinksDone, MarkLink, GiveUp, Done, Moves
    <3>2. job[w] \in Job /\ Link(w) \in URL /\ queue \in Seq(Job)
      BY <3>1, LinkURL DEF SendLink, Shape, TypeOK
    <3>3. [url |-> Link(w), depth |-> job[w].depth + 1] \in Job
      BY <3>2 DEF Job
    <3>4. \E k \in DOMAIN queue' : queue'[k].url = Link(w)
      BY <3>1, <3>2, <3>3, AppendCovers DEF SendLink
    <3>5. QED
      BY <2>5, <3>4 DEF OnItsWay
  <2>6. QED
    BY <2>1, <2>2, <2>3, <2>4, <2>5 DEF OnItsWay
<1>7. QED
  BY <1>2, <1>3, <1>4, <1>5, <1>6 DEF Next, RunStep

\* A page that is marked by a step is on its way after it.
LEMMA NewOnItsWay ==
  ASSUME Inv, [Next]_vars, NEW p \in visited', p \notin visited
  PROVE  OnItsWay(p)'
<1>1. TypeOK /\ Shape
  BY DEF Inv
<1>2. CASE MarkSeed
  BY <1>2 DEF MarkSeed, Claim, OnItsWay
<1>3. ASSUME NEW w \in Workers, MarkLink(w) PROVE OnItsWay(p)'
  BY <1>1, <1>3 DEF MarkLink, Claim, Goto, Link, TypeOK, OnItsWay
<1>4. QED
  BY <1>2, <1>3 DEF Next, RunStep, SkipSeed, SendSeed, Spawn, ReturnOk, ReturnCancelled,
     CloseDone, Cancel, vars, WorkerStep, Take, Exit, Allowed, Denied, LimiterPasses,
     LimiterFails, Fetch, KeepLink, SkipLink, LinksDone, SendLink, GiveUp, Done, Moves, history

\* Every step keeps track of every page.
LEMMA NotForgottenStep ==
  ASSUME Inv, NoPageForgotten, [Next]_vars
  PROVE  NoPageForgotten'
<1>1. SUFFICES ASSUME ~cancelled', NEW p \in visited'
               PROVE  p \in Answered' \/ OnItsWay(p)'
  BY DEF NoPageForgotten
<1>2. ~cancelled /\ answers \subseteq answers'
  BY <1>1 DEF Inv, TypeOK, Next, RunStep, SkipSeed, MarkSeed, SendSeed, Spawn, ReturnOk,
         ReturnCancelled, CloseDone, Cancel, vars, WorkerStep, Take, Exit, Allowed, Denied,
         LimiterPasses, LimiterFails, Fetch, KeepLink, SkipLink, LinksDone, MarkLink, SendLink,
         GiveUp, Done, Moves, Note, history
<1>3. Answered \subseteq Answered'
  BY <1>2 DEF Answered
<1>4. CASE p \notin visited
  BY <1>4, NewOnItsWay
<1>5. CASE p \in visited
  BY <1>1, <1>2, <1>3, <1>5, StaysOnItsWay DEF NoPageForgotten
<1>6. QED
  BY <1>4, <1>5

\* A page that is marked as visited gets its answer or is still in somebody's
\* hands, for as long as nobody cancels (crawler.go:95-96, 199-205).
THEOREM NoneForgotten == Spec => []NoPageForgotten
<1>1. Init => NoPageForgotten
  BY DEF Init, NoPageForgotten
<1>2. Inv /\ NoPageForgotten /\ [Next]_vars => NoPageForgotten'
  BY NotForgottenStep
<1>3. QED
  BY <1>1, <1>2, Invariance, PTL DEF Spec
-----------------------------------------------------------------------------
(* The links of an expanded page are followed. *)

\* A link of an expanded page is in the visited map or some worker still has
\* it in front of it.
Followed ==
  \A r \in answers : Expands(r.depth, r.outcome) =>
    \A q \in PagesOf(Links[r.page]) :
      \/ q \in visited
      \/ \E w \in Workers : pc[w] \in {"scan", "mark", "send"} /\ q \in PagesOf(todo[w])

\* The pages of a list of links are the page of its head and those of its tail.
LEMMA PagesOfTail ==
  ASSUME NEW s \in Seq(URL), s # <<>>
  PROVE  PagesOf(s) \subseteq {Norm[Head(s)]} \cup PagesOf(Tail(s))
  BY TailCovers DEF PagesOf

\* A link that a worker has in front of it is visited when it is dropped.
LEMMA LinkStep ==
  ASSUME Inv, Known, NEW w \in Workers, WorkerStep(w),
         pc[w] \in {"scan", "mark", "send"}, NEW q \in PagesOf(todo[w])
  PROVE  \/ q \in visited'
         \/ pc'[w] \in {"scan", "mark", "send"} /\ q \in PagesOf(todo'[w])
<1>1. TypeOK /\ Shape /\ todo[w] # <<>> /\ todo[w] \in Seq(URL)
  BY DEF Inv, TypeOK, PagesOf
<1>2. ASSUME DropLink(w), pc'[w] = "scan", Norm[Link(w)] \in visited' \/ Norm[Link(w)] \notin InScope
      PROVE  q \in visited' \/ (pc'[w] = "scan" /\ q \in PagesOf(todo'[w]))
  <2>1. todo'[w] = Tail(todo[w])
    BY <1>1, <1>2 DEF DropLink, TypeOK
  <2>2. q \in InScope
    BY DEF PagesOf
  <2>3. q = Norm[Link(w)] \/ q \in PagesOf(Tail(todo[w]))
    BY <1>1, PagesOfTail DEF Link
  <2>4. QED
    BY <1>2, <2>1, <2>2, <2>3
<1>3. CASE SkipLink(w)
  BY <1>1, <1>2, <1>3 DEF SkipLink, ShouldVisit, history
<1>4. CASE SendLink(w) \/ GiveUp(w)
  BY <1>1, <1>2, <1>4 DEF SendLink, GiveUp, Known, Goto, TypeOK
<1>5. CASE KeepLink(w) \/ MarkLink(w)
  BY <1>1, <1>5 DEF KeepLink, MarkLink, Moves, Goto, TypeOK
<1>6. ~LinksDone(w)
  BY <1>1 DEF LinksDone
<1>7. QED
  BY <1>3, <1>4, <1>5, <1>6 DEF WorkerStep, Take, Exit, Allowed, Denied, LimiterPasses,
     LimiterFails, Fetch, Done, Moves

\* Every step follows the links.
LEMMA FollowedStep ==
  ASSUME Inv, Known, Followed, [Next]_vars
  PROVE  Followed'
<1>1. TypeOK /\ Shape
  BY DEF Inv
<1>2. CASE RunStep \/ CloseDone \/ Cancel \/ UNCHANGED vars
  <2>1. UNCHANGED <<answers, todo>> /\ visited \subseteq visited'
    BY <1>2 DEF RunStep, SkipSeed, MarkSeed, SendSeed, Spawn, ReturnOk, ReturnCancelled, CloseDone,
       Cancel, vars, Claim, local, history
  <2>2. \A w \in Workers : pc[w] \in {"scan", "mark", "send"} => pc'[w] = pc[w]
    BY <1>1, <1>2 DEF RunStep, SkipSeed, MarkSeed, SendSeed, Spawn, ReturnOk, ReturnCancelled,
       CloseDone, Cancel, vars, Shape, local
  <2>3. QED
    BY <2>1, <2>2 DEF Followed
<1>3. ASSUME NEW w \in Workers, WorkerStep(w)
      PROVE  Followed'
  <2>1. /\ visited \subseteq visited'
        /\ \A v \in Workers : v # w => pc'[v] = pc[v] /\ todo'[v] = todo[v]
    BY <1>3, WorkerFrame
  <2>2. ASSUME NEW r \in answers, Expands(r.depth, r.outcome), NEW q \in PagesOf(Links[r.page])
        PROVE  \/ q \in visited'
               \/ \E v \in Workers : pc'[v] \in {"scan", "mark", "send"} /\ q \in PagesOf(todo'[v])
    <3>1. CASE q \in visited
      BY <2>1, <3>1
    <3>2. ASSUME NEW v \in Workers, pc[v] \in {"scan", "mark", "send"}, q \in PagesOf(todo[v])
          PROVE  \/ q \in visited'
                 \/ \E u \in Workers : pc'[u] \in {"scan", "mark", "send"} /\ q \in PagesOf(todo'[u])
      BY <1>3, <2>1, <3>2, LinkStep
    <3>3. QED
      BY <2>2, <3>1, <3>2 DEF Followed
  <2>3. ASSUME NEW r \in answers', r \notin answers, Expands(r.depth, r.outcome)
        PROVE  pc'[w] = "scan" /\ todo'[w] = Links[r.page]
    <3>1. ~Denied(w)
      BY <2>3 DEF Denied, Note, Expands
    <3>2. Fetch(w)
      BY <1>3, <2>3, <3>1 DEF WorkerStep, Take, Exit, Allowed, LimiterPasses, LimiterFails,
         KeepLink, SkipLink, LinksDone, MarkLink, SendLink, GiveUp, Done, Moves, history
    <3>3. PICK outcome \in Outcomes(MyPage(w)) :
            /\ Note(w, outcome)
            /\ IF Expands(job[w].depth, outcome)
                 THEN /\ todo' = [todo EXCEPT ![w] = Links[MyPage(w)]]
                      /\ Goto(w, "scan")
                 ELSE Goto(w, "finish") /\ UNCHANGED todo
      BY <3>2 DEF Fetch
    <3>4. r = [page |-> MyPage(w), depth |-> job[w].depth, outcome |-> outcome]
      BY <2>3, <3>3 DEF Note
    <3>5. r.page = MyPage(w) /\ r.depth = job[w].depth /\ r.outcome = outcome
      BY <3>4
    <3>6. QED
      BY <1>1, <2>3, <3>3, <3>5 DEF Goto, TypeOK
  <2>4. QED
    BY <2>2, <2>3 DEF Followed, Expands
<1>4. QED
  BY <1>2, <1>3 DEF Next

\* The two invariants together.
THEOREM KnownAndFollowed == Spec => [](Known /\ Followed)
<1>1. Init => Known /\ Followed
  BY DEF Init, Known, Followed, Answered, IdleLabels
<1>2. Inv /\ (Known /\ Followed) /\ [Next]_vars => (Known /\ Followed)'
  BY KnownStep, FollowedStep
<1>3. QED
  BY <1>1, <1>2, Invariance, PTL DEF Spec

\* A nil error: nothing in the channel, nobody at work, every link of every
\* page that was to be expanded seen (crawler.go:103-108, 135-139).
THEOREM NilIsDone == Spec => []NilMeansDone
<1>1. Inv /\ (Known /\ Followed) => NilMeansDone
  <2> SUFFICES ASSUME Inv, Followed, main = "ok"
               PROVE  /\ queue = <<>> /\ Busy = {}
                      /\ \A r \in answers : Expands(r.depth, r.outcome) =>
                           PagesOf(Links[r.page]) \subseteq visited
    BY DEF NilMeansDone
  <2>1. queue = <<>> /\ Busy = {}
    BY NothingOpen DEF Inv, Shape
  <2>2. \A w \in Workers : pc[w] \notin {"scan", "mark", "send"}
    BY <2>1 DEF Busy
  <2>3. QED
    BY <2>1, <2>2 DEF Followed
<1>2. QED
  BY <1>1, Invariance, KnownAndFollowed, PTL
-----------------------------------------------------------------------------
(* Run keeps its promise. *)

\* The states the promise speaks about: Inv, and the pages that are found are
\* the ones that are answered or on their way.
Kept == Inv /\ Known /\ NoPageForgotten

\* A step of the goroutine that called Run is a step of the promise.
LEMMA RunPromised ==
  ASSUME Kept, RunStep
  PROVE  [Promise!Next]_(Promise!vars)
<1>1. Inv /\ TypeOK /\ Shape /\ Len(queue) \in Nat
  BY DEF Kept, Inv, TypeOK
<1>2. Cardinality(Busy) \in Nat /\ Cardinality(Sending) \in Nat
  BY Finite, FS_CardinalityType
<1> USE <1>1, <1>2
<1>3. CASE SkipSeed
  BY <1>3 DEF SkipSeed, Promise!vars, OpenWork, SeedWork, Busy, Sending, Answered, Returned,
              local, history
<1>4. CASE MarkSeed
  <2>1. Busy' = Busy /\ Sending' = Sending /\ Answered' = Answered /\ queue' = queue
    BY <1>4 DEF MarkSeed, Busy, Sending, Answered, local
  <2>2. SeedWork = 1 /\ SeedWork' = 2 /\ ~Returned /\ ~Returned'
    BY <1>4 DEF MarkSeed, SeedWork, Returned
  <2>3. OpenWork > 0 /\ OpenWork' = OpenWork + 1
    BY <2>1, <2>2 DEF OpenWork
  <2>4. Norm[Head(seeds)] \in Page
    BY <1>4, NormPage DEF MarkSeed, TypeOK
  <2>5. Promise!Discover
    BY <1>4, <2>1, <2>2, <2>3, <2>4 DEF Promise!Discover, MarkSeed, Claim
  <2>6. QED
    BY <2>5 DEF Promise!Next
<1>5. CASE SendSeed
  <2>1. /\ UNCHANGED <<visited, cancelled>>
        /\ Busy' = Busy /\ Sending' = Sending /\ Answered' = Answered
    BY <1>5 DEF SendSeed, Busy, Sending, Answered, local, history
  <2>2. SeedWork = 2 /\ SeedWork' = 1 /\ ~Returned /\ ~Returned'
    BY <1>5 DEF SendSeed, SeedWork, Returned
  <2>3. Len(queue') = Len(queue) + 1
    BY <1>5 DEF SendSeed, TypeOK
  <2>4. OpenWork' = OpenWork
    BY <2>1, <2>2, <2>3 DEF OpenWork
  <2>5. QED
    BY <2>1, <2>2, <2>4 DEF Promise!vars
<1>6. CASE Spawn
  <2>1. Busy = {} /\ Sending = {} /\ Busy' = {} /\ Sending' = {}
    BY <1>6 DEF Spawn, Shape, Busy, Sending
  <2>2. SeedWork = 1 /\ SeedWork' = 0 /\ ~Returned /\ ~Returned'
    BY <1>6 DEF Spawn, SeedWork, Returned
  <2>3. UNCHANGED <<queue, visited, cancelled>> /\ Answered' = Answered
    BY <1>6 DEF Spawn, Answered, history
  <2>4. OpenWork > 0 /\ OpenWork' = OpenWork - 1
    BY <2>1, <2>2, <2>3, FS_EmptySet DEF OpenWork
  <2>5. Promise!Finish
    BY <2>2, <2>3, <2>4 DEF Promise!Finish
  <2>6. QED
    BY <2>5 DEF Promise!Next
<1>7. ASSUME main = "wait", main' \in {"ok", "cancelled"},
             UNCHANGED <<queue, visited, cancelled, pc, answers>>
      PROVE  UNCHANGED <<OpenWork, visited, Answered, cancelled>> /\ ~Returned /\ Returned'
  BY <1>7 DEF OpenWork, SeedWork, Busy, Sending, Answered, Returned
<1>8. CASE ReturnOk
  <2>1. UNCHANGED <<OpenWork, visited, Answered, cancelled>> /\ ~Returned /\ Returned'
    BY <1>7, <1>8 DEF ReturnOk, local, history
  <2>2. queue = <<>> /\ Busy = {} /\ Sending = {} /\ main \notin {"seed", "seedSend"}
    BY <1>8, NothingOpen DEF ReturnOk
  <2>3. OpenWork = 0
    BY <2>2, FS_EmptySet DEF OpenWork, SeedWork
  <2>4. \A p \in Page : ~OnItsWay(p)
    BY <2>2 DEF OnItsWay, Busy, Sending
  <2>5. cancelled \/ Answered = visited
    BY <2>4 DEF Kept, Known, NoPageForgotten, TypeOK
  <2>6. Promise!ReturnOk
    BY <1>8, <2>1, <2>3, <2>5 DEF Promise!ReturnOk, ReturnOk, Returned
  <2>7. QED
    BY <2>6 DEF Promise!Next
<1>9. CASE ReturnCancelled
  <2>1. UNCHANGED <<OpenWork, visited, Answered, cancelled>> /\ ~Returned /\ Returned'
    BY <1>7, <1>9 DEF ReturnCancelled, local, history
  <2>2. Promise!ReturnCancelled
    BY <1>9, <2>1 DEF Promise!ReturnCancelled, ReturnCancelled, Returned
  <2>3. QED
    BY <2>2 DEF Promise!Next
<1>10. QED
  BY <1>3, <1>4, <1>5, <1>6, <1>8, <1>9 DEF RunStep

\* A step of a worker is a step of the promise.
LEMMA WorkerPromised ==
  ASSUME Kept, NEW w \in Workers, WorkerStep(w)
  PROVE  [Promise!Next]_(Promise!vars)
<1>1. Inv /\ TypeOK /\ Known /\ wg \in Nat
  BY DEF Kept, Inv, TypeOK
<1>2. UNCHANGED <<main, cancelled>> /\ pc[w] # "off"
  BY WorkerLeaves
<1>3. wg = OpenWork /\ wg' = OpenWork'
  BY <1>1, <1>2, WorkerAccounted DEF Inv, Accounted, JobAccounting
<1>4. pc[w] \notin IdleLabels => wg > 0 /\ main # "ok"
  <2>1. SUFFICES ASSUME pc[w] \notin IdleLabels PROVE wg > 0 /\ main # "ok"
    OBVIOUS
  <2>2. wg > 0
    BY <1>1, <2>1, BusyCounted
  <2>3. Busy # {}
    BY <2>1 DEF Busy, IdleLabels
  <2>4. QED
    BY <1>1, <2>2, <2>3, NothingOpen DEF Inv, Shape
<1>5. CASE UNCHANGED <<wg, visited, answers>>
  BY <1>2, <1>3, <1>5 DEF Promise!vars, Answered, Returned
<1>6. CASE Denied(w) \/ Fetch(w)
  <2>1. \E outcome : Note(w, outcome)
    BY <1>6 DEF Denied, Fetch
  <2>2. Answered' = Answered \cup {MyPage(w)} /\ UNCHANGED <<wg, visited>> /\ pc[w] \notin IdleLabels
    BY <1>6, <2>1, NoteEffect DEF Denied, Fetch, IdleLabels
  <2>3. MyPage(w) \in visited
    BY <1>1, <2>2 DEF Known
  <2>4. Promise!Reply
    BY <1>2, <1>3, <1>4, <2>2, <2>3 DEF Promise!Reply, Returned
  <2>5. QED
    BY <2>4 DEF Promise!Next
<1>7. CASE MarkLink(w)
  <2>1. Norm[Link(w)] \in Page
    BY <1>1, <1>7, LinkURL DEF MarkLink
  <2>2. /\ visited' = visited \cup {Norm[Link(w)]} /\ wg' = wg + 1 /\ Answered' = Answered
        /\ pc[w] \notin IdleLabels
    BY <1>7 DEF MarkLink, Claim, Answered, IdleLabels
  <2>3. Promise!Discover
    BY <1>2, <1>3, <1>4, <2>1, <2>2 DEF Promise!Discover, Returned
  <2>4. QED
    BY <2>3 DEF Promise!Next
<1>8. CASE GiveUp(w) \/ Done(w)
  <2>1. UNCHANGED visited /\ wg' = wg - 1 /\ Answered' = Answered /\ pc[w] \notin IdleLabels
    BY <1>8 DEF GiveUp, Done, Answered, IdleLabels, history
  <2>2. Promise!Finish
    BY <1>2, <1>3, <1>4, <2>1 DEF Promise!Finish, Returned
  <2>3. QED
    BY <2>2 DEF Promise!Next
<1>9. QED
  BY <1>5, <1>6, <1>7, <1>8 DEF WorkerStep, Take, Exit, Allowed, LimiterPasses, LimiterFails,
     KeepLink, SkipLink, LinksDone, SendLink, Moves, history

\* Run implements the promise: every step of the goroutines is a step of it or
\* changes nothing it speaks about, for any number of workers and any web.
THEOREM Refinement == Spec => Promised
<1>1. Init => Promise!Init
  <2> SUFFICES ASSUME Init PROVE Promise!Init
    OBVIOUS
  <2>1. Busy = {} /\ Sending = {} /\ SeedWork = 1 /\ Len(queue) = 0
    BY DEF Init, Busy, Sending, SeedWork
  <2>2. OpenWork = 1
    BY <2>1, FS_EmptySet DEF OpenWork
  <2>3. QED
    BY <2>2 DEF Init, Promise!Init, Answered, Returned
<1>2. Kept /\ [Next]_vars => [Promise!Next]_(Promise!vars)
  <2> SUFFICES ASSUME Kept, [Next]_vars PROVE [Promise!Next]_(Promise!vars)
    OBVIOUS
  <2>1. CASE CloseDone \/ UNCHANGED vars
    BY <2>1 DEF CloseDone, vars, Promise!vars, OpenWork, SeedWork, Busy, Sending, Answered,
                Returned, seeding, local, history
  <2>2. CASE Cancel
    <3>1. Promise!GiveUp
      BY <2>2 DEF Cancel, Promise!GiveUp, OpenWork, SeedWork, Busy, Sending, Answered,
                  Returned, seeding, local, history
    <3>2. QED
      BY <3>1 DEF Promise!Next
  <2>3. QED
    BY <2>1, <2>2, RunPromised, WorkerPromised DEF Next
<1>3. Spec => []Kept
  BY Invariance, KnownAndFollowed, NoneForgotten, PTL DEF Kept
<1>4. QED
  BY <1>1, <1>2, <1>3, PTL DEF Spec, Promised, Promise!Spec
-----------------------------------------------------------------------------
(* The pages within so many links. *)

\* The pages of the seeds, and the pages that are one link further.
Base == {p \in InScope : made[Main][p] > 0}
Wider(S) == S \cup UNION {PagesOf(Links[p]) : p \in S}

\* There is a function that starts with S and widens at each number.
LEMMA WideningExists ==
  ASSUME NEW S, NEW bound \in Nat
  PROVE  \E f : f = [n \in 0..bound |-> IF n = 0 THEN S ELSE Wider(f[n - 1])]
<1> DEFINE Widens(f, b) == f = [n \in 0..b |-> IF n = 0 THEN S ELSE Wider(f[n - 1])]
           Good == {b \in Nat : \E f : Widens(f, b)}
<1>1. 0 \in Good
  <2> DEFINE f == [n \in 0..0 |-> S]
  <2>1. f = [n \in 0..0 |-> IF n = 0 THEN S ELSE Wider(f[n - 1])]
    OBVIOUS
  <2> QED
    BY <2>1
<1>2. ASSUME NEW b \in Nat, b \in Good PROVE b + 1 \in Good
  <2>1. PICK f : f = [n \in 0..b |-> IF n = 0 THEN S ELSE Wider(f[n - 1])]
    BY <1>2
  <2> DEFINE g == [n \in 0..(b + 1) |-> IF n <= b THEN f[n] ELSE Wider(f[b])]
  <2>2. ASSUME NEW n \in 0..(b + 1)
        PROVE  g[n] = IF n = 0 THEN S ELSE Wider(g[n - 1])
    <3>1. CASE n = 0
      BY <2>1, <3>1
    <3>2. CASE n # 0 /\ n <= b
      <4>1. n \in 0..b /\ n - 1 \in 0..b /\ n - 1 \in 0..(b + 1)
        BY <3>2
      <4>2. g[n - 1] = f[n - 1] /\ g[n] = f[n]
        BY <4>1
      <4> QED
        BY <2>1, <3>2, <4>1, <4>2
    <3>3. CASE n = b + 1
      BY <3>3
    <3> QED
      BY <3>1, <3>2, <3>3
  <2>3. g = [n \in 0..(b + 1) |-> IF n = 0 THEN S ELSE Wider(g[n - 1])]
    BY <2>2
  <2> HIDE DEF g
  <2>4. Widens(g, b + 1)
    BY <2>3
  <2> HIDE DEF Widens
  <2> QED
    BY <2>4
<1> HIDE DEF Widens
<1>3. \A b \in Good : \E f : Widens(f, b)
  OBVIOUS
<1> HIDE DEF Good
<1>4. bound \in Good
  BY <1>1, <1>2, Induction
<1> QED
  BY <1>3, <1>4 DEF Widens

\* Within is that function.
LEMMA WithinUnfolds ==
  \A n \in 0..MaxDepth : Within[n] = IF n = 0 THEN Base ELSE Wider(Within[n - 1])
<1>1. MaxDepth \in Nat
  BY ConfigAssumption DEF ConfigAssumption
<1>2. \E f : f = [n \in 0..MaxDepth |-> IF n = 0 THEN Base ELSE Wider(f[n - 1])]
  BY <1>1, WideningExists, Zenon
<1>3. Within = CHOOSE f : f = [n \in 0..MaxDepth |-> IF n = 0 THEN Base ELSE Wider(f[n - 1])]
  BY DEF Within, Base, Wider
<1>4. Within = [n \in 0..MaxDepth |-> IF n = 0 THEN Base ELSE Wider(Within[n - 1])]
  BY <1>2, <1>3
<1> QED
  BY <1>4

\* The same after a step, when other pages may be the seeds'.
LEMMA WithinUnfoldsAfter ==
  \A n \in 0..MaxDepth : Within'[n] = IF n = 0 THEN Base' ELSE Wider(Within'[n - 1])
<1>1. (\A n \in 0..MaxDepth : Within[n] = IF n = 0 THEN Base ELSE Wider(Within[n - 1]))'
  BY WithinUnfolds, PTL
<1> QED
  BY <1>1

\* From more pages more pages are reached.
LEMMA WideningGrows ==
  ASSUME NEW A, NEW B, A \subseteq B, NEW f, NEW g,
         \A n \in 0..MaxDepth : f[n] = IF n = 0 THEN A ELSE Wider(f[n - 1]),
         \A n \in 0..MaxDepth : g[n] = IF n = 0 THEN B ELSE Wider(g[n - 1])
  PROVE  \A n \in 0..MaxDepth : f[n] \subseteq g[n]
<1> DEFINE Good == {n \in 0..MaxDepth : f[n] \subseteq g[n]}
<1>1. MaxDepth \in Nat
  BY ConfigAssumption
<1>2. 0 \in Good
  BY <1>1
<1>3. ASSUME NEW n \in 0..MaxDepth, n \in Good, n < MaxDepth PROVE n + 1 \in Good
  <2>1. n + 1 \in 0..MaxDepth /\ n + 1 # 0 /\ (n + 1) - 1 = n
    BY <1>1, <1>3
  <2>2. f[n + 1] = Wider(f[n]) /\ g[n + 1] = Wider(g[n])
    BY <2>1
  <2>3. Wider(f[n]) \subseteq Wider(g[n])
    BY <1>3 DEF Wider
  <2> QED
    BY <2>1, <2>2, <2>3
<1> HIDE DEF Good
<1>4. 0..MaxDepth \subseteq Good
  BY <1>1, <1>2, <1>3, Induction
<1> QED
  BY <1>4 DEF Good

\* Seeds that are added take nothing out of reach, and while none is added the
\* reach stays as it is.
LEMMA WithinKept ==
  /\ Base \subseteq Base' => \A n \in 0..MaxDepth : Within[n] \subseteq Within'[n]
  /\ Base' = Base => \A n \in 0..MaxDepth : Within'[n] = Within[n]
<1>1. Base \subseteq Base' => \A n \in 0..MaxDepth : Within[n] \subseteq Within'[n]
  BY WithinUnfolds, WithinUnfoldsAfter, WideningGrows
<1>2. ASSUME Base' = Base PROVE \A n \in 0..MaxDepth : Within'[n] \subseteq Within[n]
  <2>1. \A n \in 0..MaxDepth : Within'[n] = IF n = 0 THEN Base ELSE Wider(Within'[n - 1])
    BY <1>2, WithinUnfoldsAfter
  <2> QED
    BY <2>1, WithinUnfolds, WideningGrows
<1> QED
  BY <1>1, <1>2

\* What is within n links is in scope, and within any more links.
LEMMA WithinNested ==
  /\ \A n \in 0..MaxDepth : Within[n] \subseteq InScope
  /\ \A m, n \in 0..MaxDepth : m <= n => Within[m] \subseteq Within[n]
<1> DEFINE Good == {n \in 0..MaxDepth : /\ Within[n] \subseteq InScope
                                        /\ \A m \in 0..n : Within[m] \subseteq Within[n]}
<1>1. MaxDepth \in Nat
  BY ConfigAssumption
<1>2. 0 \in Good
  <2>1. Within[0] = Base /\ 0 \in 0..MaxDepth /\ \A m \in 0..0 : m = 0
    BY <1>1, WithinUnfolds
  <2>2. Within[0] \subseteq InScope
    BY <2>1 DEF Base
  <2> QED
    BY <2>1, <2>2
<1>3. ASSUME NEW n \in 0..MaxDepth, n \in Good, n < MaxDepth PROVE n + 1 \in Good
  <2>1. n + 1 \in 0..MaxDepth /\ n + 1 # 0 /\ (n + 1) - 1 = n
    BY <1>1, <1>3
  <2>2. Within[n + 1] = Wider(Within[n])
    BY <2>1, WithinUnfolds
  <2>3. Within[n] \subseteq Within[n + 1] /\ Within[n + 1] \subseteq InScope
    BY <1>3, <2>2 DEF Wider, PagesOf
  <2>4. \A m \in 0..(n + 1) : m \in 0..n \/ m = n + 1
    BY <1>1
  <2> QED
    BY <1>3, <2>1, <2>3, <2>4
<1> HIDE DEF Good
<1>4. 0..MaxDepth \subseteq Good
  BY <1>1, <1>2, <1>3, Induction
<1> QED
  BY <1>1, <1>4 DEF Good

\* A link of a page within n links leads to a page within n + 1.
LEMMA OneLinkFurther ==
  ASSUME NEW n \in 0..MaxDepth, n < MaxDepth, NEW p \in Within[n],
         NEW q \in PagesOf(Links[p])
  PROVE  n + 1 \in 0..MaxDepth /\ q \in Within[n + 1]
<1>1. n + 1 \in 0..MaxDepth /\ n + 1 # 0 /\ (n + 1) - 1 = n
  BY ConfigAssumption
<1>2. Within[n + 1] = Wider(Within[n])
  BY <1>1, WithinUnfolds
<1> QED
  BY <1>1, <1>2 DEF Wider
-----------------------------------------------------------------------------
(* The depth of a job. *)

AtLinks == {"scan", "mark", "send"}

\* p is at most d links away from a seed, and d is allowed.
Reached(p, d) == d \in 0..MaxDepth /\ p \in Within[d]

\* Whatever the crawl has in hand is reached over as many links as it says, and
\* the links a worker looks at are those of its page.
Reach ==
  /\ main = "seedSend" => Reached(Norm[Head(seeds)], 0)
  /\ \A i \in DOMAIN queue : Reached(Norm[queue[i].url], queue[i].depth)
  /\ \A w \in Workers : pc[w] \notin IdleLabels => Reached(MyPage(w), job[w].depth)
  /\ \A w \in Workers : pc[w] \in AtLinks =>
       job[w].depth < MaxDepth /\ PagesOf(todo[w]) \subseteq PagesOf(Links[MyPage(w)])
  /\ \A w \in Workers : pc[w] \in {"mark", "send"} => Norm[Link(w)] \in InScope
  /\ \A r \in answers : Reached(r.page, r.depth)

\* Only a seed that is marked adds to the seeds' pages, and none is taken away.
LEMMA BaseStep ==
  ASSUME Inv, [Next]_vars
  PROVE  Base \subseteq Base' /\ (~MarkSeed => Base' = Base)
<1>1. TypeOK
  BY DEF Inv
<1>2. CASE MarkSeed
  <2>1. Head(seeds) \in URL
    BY <1>1, <1>2 DEF MarkSeed, TypeOK
  <2>2. \A p \in Page : made[Main][p] \in Nat /\
          made'[Main][p] = IF p = Norm[Head(seeds)] THEN made[Main][p] + 1 ELSE made[Main][p]
    <3>1. Claim(Main, Head(seeds)) /\ Main \in Agents
      BY <1>2 DEF MarkSeed, Agents
    <3>2. \A b \in Agents, p \in Page :
            made'[b][p] = IF b = Main /\ p = Norm[Head(seeds)] THEN made[b][p] + 1 ELSE made[b][p]
      BY <1>1, <2>1, <3>1, ClaimEffect
    <3>3. \A p \in Page : made[Main][p] \in Nat
      BY <1>1 DEF TypeOK
    <3> QED
      BY <3>1, <3>2, <3>3
  <2> QED
    BY <1>2, <2>2, WebAssumption DEF Base
<1>3. CASE SkipSeed \/ SendSeed \/ Spawn \/ ReturnOk \/ ReturnCancelled \/ CloseDone \/ Cancel
           \/ UNCHANGED vars
  <2>1. UNCHANGED made
    BY <1>3 DEF SkipSeed, SendSeed, Spawn, ReturnOk, ReturnCancelled, CloseDone, Cancel, vars, history
  <2> QED
    BY <2>1, <1>3 DEF Base, MarkSeed, SkipSeed, SendSeed, Spawn, ReturnOk, ReturnCancelled
<1>4. ASSUME NEW w \in Workers, WorkerStep(w)
      PROVE  Base' = Base
  <2>1. CASE MarkLink(w)
    <3>1. Link(w) \in URL
      BY <2>1, LinkURL DEF MarkLink
    <3>2. \A p \in Page : made'[Main][p] = made[Main][p]
      BY <1>1, <2>1, <3>1, ClaimEffect, WorkersAssumption DEF MarkLink, Agents
    <3> QED
      BY <3>2, WebAssumption DEF Base
  <2>2. CASE ~MarkLink(w)
    <3>1. UNCHANGED made
      BY <1>4, <2>2 DEF WorkerStep, Take, Exit, Allowed, Denied, LimiterPasses, LimiterFails,
         Fetch, KeepLink, SkipLink, LinksDone, SendLink, GiveUp, Done, Moves, history
    <3> QED
      BY <3>1 DEF Base
  <2> QED
    BY <2>1, <2>2
<1> QED
  BY <1>2, <1>3, <1>4 DEF Next, RunStep

\* What is reached stays reached.
LEMMA StaysReached ==
  ASSUME Inv, [Next]_vars
  PROVE  \A p, d : Reached(p, d) => d \in 0..MaxDepth /\ p \in Within'[d]
BY BaseStep, WithinKept DEF Reached

\* Every step of the goroutine that called Run keeps the reach.
LEMMA RunReach ==
  ASSUME Inv, Reach, [Next]_vars, RunStep
  PROVE  Reach'
<1>1. TypeOK /\ Shape
  BY DEF Inv
<1>2. \A p, d : Reached(p, d) => d \in 0..MaxDepth /\ p \in Within'[d]
  BY StaysReached
<1> USE <1>1
<1>3. CASE SkipSeed \/ ReturnOk \/ ReturnCancelled
  <2>1. UNCHANGED <<queue, local, answers>> /\ main' # "seedSend"
    BY <1>3 DEF SkipSeed, ReturnOk, ReturnCancelled, history
  <2> QED
    BY <1>2, <2>1 DEF Reach, Reached, local, MyPage, Link
<1>4. CASE MarkSeed
  <2>1. Head(seeds) \in URL /\ Norm[Head(seeds)] \in InScope
    BY <1>4 DEF MarkSeed, ShouldVisit, TypeOK
  <2>2. made'[Main][Norm[Head(seeds)]] = made[Main][Norm[Head(seeds)]] + 1
        /\ made[Main][Norm[Head(seeds)]] \in Nat
    <3>1. Claim(Main, Head(seeds)) /\ Main \in Agents
      BY <1>4 DEF MarkSeed, Agents
    <3>2. \A b \in Agents, p \in Page :
            made'[b][p] = IF b = Main /\ p = Norm[Head(seeds)] THEN made[b][p] + 1 ELSE made[b][p]
      BY <2>1, <3>1, ClaimEffect
    <3>3. \A p \in Page : made[Main][p] \in Nat
      BY DEF TypeOK
    <3> QED
      BY <2>1, <3>1, <3>2, <3>3, NormPage
  <2>3. Norm[Head(seeds)] \in Base' /\ 0 \in 0..MaxDepth
    BY <2>1, <2>2, ConfigAssumption DEF Base
  <2>4. Norm[Head(seeds)] \in Within'[0]
    BY <2>3, WithinUnfoldsAfter
  <2>5. UNCHANGED <<seeds, queue, local, answers>>
    BY <1>4 DEF MarkSeed
  <2> QED
    BY <1>2, <2>3, <2>4, <2>5 DEF Reach, Reached, local, MyPage, Link
<1>5. CASE SendSeed
  <2>1. [url |-> Head(seeds), depth |-> 0] \in Job
    BY <1>5 DEF SendSeed, Shape, TypeOK, Job
  <2>2. \A k \in DOMAIN queue' : queue'[k] = [url |-> Head(seeds), depth |-> 0]
          \/ (k \in DOMAIN queue /\ queue'[k] = queue[k])
    BY <1>5, <2>1, AppendCovers DEF SendSeed, TypeOK
  <2>3. \A k \in DOMAIN queue' : Reached(Norm[queue'[k].url], queue'[k].depth)
    BY <1>5, <2>2 DEF Reach, SendSeed
  <2>4. UNCHANGED <<local, answers>> /\ main' # "seedSend"
    BY <1>5 DEF SendSeed, history
  <2> QED
    BY <1>2, <2>3, <2>4 DEF Reach, Reached, local, MyPage, Link
<1>6. CASE Spawn
  <2>1. UNCHANGED <<queue, answers>> /\ main' # "seedSend" /\ \A w \in Workers : pc'[w] = "idle"
    BY <1>6 DEF Spawn, history
  <2> QED
    BY <1>2, <2>1 DEF Reach, Reached, IdleLabels, AtLinks
<1> QED
  BY <1>3, <1>4, <1>5, <1>6 DEF RunStep

\* The tail of a list of links leads nowhere the list does not.
LEMMA PagesOfRest ==
  ASSUME NEW s \in Seq(URL), s # <<>>
  PROVE  /\ PagesOf(Tail(s)) \subseteq PagesOf(s)
         /\ Norm[Head(s)] \in InScope => Norm[Head(s)] \in PagesOf(s)
BY TailCovers DEF PagesOf

\* What a worker adds to the answers is for its page, at the depth of its job.
LEMMA NewAnswer ==
  ASSUME Inv, NEW w \in Workers, WorkerStep(w), NEW r \in answers', r \notin answers
  PROVE  /\ pc[w] \notin IdleLabels /\ r.page = MyPage(w) /\ r.depth = job[w].depth
         /\ \/ Denied(w) /\ r.outcome = "denied"
            \/ Fetch(w) /\ r.outcome \in Outcomes(MyPage(w))
<1>1. CASE Denied(w)
  <2>1. r = [page |-> MyPage(w), depth |-> job[w].depth, outcome |-> "denied"]
    BY <1>1 DEF Denied, Note
  <2> QED
    BY <1>1, <2>1 DEF Denied, IdleLabels
<1>2. CASE Fetch(w)
  <2>1. PICK outcome \in Outcomes(MyPage(w)) : Note(w, outcome)
    BY <1>2 DEF Fetch
  <2>2. r = [page |-> MyPage(w), depth |-> job[w].depth, outcome |-> outcome]
    BY <2>1 DEF Note
  <2> QED
    BY <1>2, <2>2 DEF Fetch, IdleLabels
<1> QED
  BY <1>1, <1>2 DEF WorkerStep, Take, Exit, Allowed, LimiterPasses, LimiterFails,
     KeepLink, SkipLink, LinksDone, MarkLink, SendLink, GiveUp, Done, Moves, history

\* What the channel holds after a worker's step was there, or is its link.
LEMMA NewInQueue ==
  ASSUME Inv, NEW w \in Workers, WorkerStep(w), NEW k \in DOMAIN queue'
  PROVE  \/ \E i \in DOMAIN queue : queue'[k] = queue[i]
         \/ SendLink(w) /\ queue'[k].url = Link(w) /\ queue'[k].depth = job[w].depth + 1
<1>1. TypeOK /\ Shape
  BY DEF Inv
<1>2. CASE Take(w)
  <2>1. queue # <<>> /\ queue \in Seq(Job) /\ queue' = Tail(queue)
    BY <1>1, <1>2 DEF Take, TypeOK
  <2> QED
    BY <2>1, TailCovers
<1>3. CASE SendLink(w)
  <2>1. Link(w) \in URL /\ job[w] \in Job
    BY <1>1, <1>3, LinkURL DEF SendLink, Shape
  <2> DEFINE new == [url |-> Link(w), depth |-> job[w].depth + 1]
  <2>2. new \in Job /\ new.url = Link(w) /\ new.depth = job[w].depth + 1
    BY <2>1 DEF Job
  <2>3. queue' = Append(queue, new) /\ queue \in Seq(Job)
    BY <1>1, <1>3 DEF SendLink, TypeOK
  <2> HIDE DEF new
  <2>4. queue'[k] = new \/ (k \in DOMAIN queue /\ queue'[k] = queue[k])
    BY <2>2, <2>3, AppendCovers
  <2> QED
    BY <1>3, <2>2, <2>4
<1>4. CASE ~Take(w) /\ ~SendLink(w)
  <2>1. queue' = queue
    BY <1>4 DEF WorkerStep, Exit, Allowed, Denied, LimiterPasses, LimiterFails, Fetch,
       KeepLink, SkipLink, LinksDone, MarkLink, GiveUp, Done, Moves
  <2> QED
    BY <2>1
<1> QED
  BY <1>2, <1>3, <1>4

\* Where the job and the links of the worker that steps come from.
LEMMA OwnWork ==
  ASSUME Inv, NEW w \in Workers, WorkerStep(w), pc'[w] \notin IdleLabels
  PROVE  /\ \/ Take(w) /\ pc'[w] \notin AtLinks /\ \E i \in DOMAIN queue : job'[w] = queue[i]
            \/ pc[w] \notin IdleLabels /\ job'[w] = job[w] /\ MyPage(w)' = MyPage(w)
         /\ pc'[w] \in AtLinks =>
              \/ Fetch(w) /\ job[w].depth < MaxDepth /\ todo'[w] = Links[MyPage(w)]
                 /\ pc'[w] = "scan"
              \/ /\ pc[w] \in AtLinks /\ (todo'[w] = todo[w] \/ (todo'[w] = Tail(todo[w]) /\ todo[w] # <<>>))
                 /\ pc'[w] \in {"mark", "send"} =>
                      todo'[w] = todo[w] /\ (pc[w] = "mark" \/ ShouldVisit(Link(w)))
<1>1. TypeOK /\ Shape
  BY DEF Inv
<1> USE <1>1 DEF IdleLabels, AtLinks
<1>2. CASE Take(w)
  <2>1. queue # <<>> /\ queue \in Seq(Job) /\ job'[w] = Head(queue)
    BY <1>2 DEF Take, TypeOK
  <2>2. 1 \in DOMAIN queue /\ queue[1] = Head(queue)
    BY <2>1, TailCovers
  <2>3. pc'[w] \notin AtLinks
    BY <1>2 DEF Take, Goto, TypeOK
  <2> QED
    BY <1>2, <2>1, <2>2, <2>3
<1>3. CASE Allowed(w) \/ LimiterPasses(w) \/ LimiterFails(w) \/ LinksDone(w) \/ Denied(w)
  BY <1>3 DEF Allowed, LimiterPasses, LimiterFails, LinksDone, Denied, Moves, Goto, MyPage, TypeOK
<1>4. CASE Fetch(w)
  BY <1>4 DEF Fetch, Expands, Goto, MyPage, TypeOK
<1>5. CASE KeepLink(w)
  BY <1>5 DEF KeepLink, Moves, Goto, MyPage, TypeOK
<1>6. CASE MarkLink(w)
  BY <1>6 DEF MarkLink, Goto, MyPage, TypeOK
<1>7. CASE SkipLink(w) \/ SendLink(w) \/ GiveUp(w)
  BY <1>7 DEF SkipLink, SendLink, GiveUp, DropLink, Goto, MyPage, TypeOK, Shape
<1>8. CASE Exit(w) \/ Done(w)
  BY <1>8 DEF Exit, Done, Moves, Goto, TypeOK
<1> QED
  BY <1>2, <1>3, <1>4, <1>5, <1>6, <1>7, <1>8 DEF WorkerStep

\* Every step of a worker keeps the reach.
LEMMA WorkerReach ==
  ASSUME Inv, Reach, [Next]_vars, NEW w \in Workers, WorkerStep(w)
  PROVE  Reach'
<1>1. TypeOK /\ Shape
  BY DEF Inv
<1>2. \A p, d : Reached(p, d) => d \in 0..MaxDepth /\ p \in Within'[d]
  BY StaysReached
<1>3. /\ UNCHANGED main /\ main # "seedSend"
      /\ \A v \in Workers : v # w => /\ pc'[v] = pc[v] /\ MyPage(v)' = MyPage(v)
                                    /\ Link(v)' = Link(v) /\ todo'[v] = todo[v]
                                    /\ job'[v] = job[v]
  BY WorkerFrame, OthersStay
<1>4. ASSUME pc[w] \in AtLinks
      PROVE  todo[w] \in Seq(URL) /\ MyPage(w) \in Within[job[w].depth]
             /\ job[w].depth \in 0..MaxDepth
  BY <1>1, <1>4 DEF TypeOK, Reach, Reached, IdleLabels, AtLinks
<1>5. ASSUME NEW k \in DOMAIN queue'
      PROVE  Reached(Norm[queue'[k].url], queue'[k].depth)
  <2>1. CASE \E i \in DOMAIN queue : queue'[k] = queue[i]
    BY <2>1 DEF Reach
  <2>2. CASE SendLink(w) /\ queue'[k].url = Link(w) /\ queue'[k].depth = job[w].depth + 1
    <3>1. pc[w] = "send" /\ todo[w] # <<>>
      BY <1>1, <2>2 DEF SendLink, Shape
    <3>2. job[w].depth < MaxDepth /\ PagesOf(todo[w]) \subseteq PagesOf(Links[MyPage(w)])
          /\ Norm[Link(w)] \in InScope
      BY <3>1 DEF Reach, AtLinks
    <3>3. Norm[Link(w)] \in PagesOf(Links[MyPage(w)])
      BY <1>4, <3>1, <3>2, PagesOfRest DEF Link, AtLinks
    <3>4. job[w].depth + 1 \in 0..MaxDepth /\ Norm[Link(w)] \in Within[job[w].depth + 1]
      BY <1>4, <3>1, <3>2, <3>3, OneLinkFurther DEF AtLinks
    <3> QED
      BY <2>2, <3>4 DEF Reached
  <2> QED
    BY <2>1, <2>2, <1>5, NewInQueue
<1>6. ASSUME pc'[w] \notin IdleLabels
      PROVE  Reached(MyPage(w)', job'[w].depth)
  BY <1>6, OwnWork DEF Reach, MyPage
<1>7. ASSUME pc'[w] \in AtLinks
      PROVE  /\ job'[w].depth < MaxDepth
             /\ PagesOf(todo'[w]) \subseteq PagesOf(Links[MyPage(w)'])
             /\ pc'[w] \in {"mark", "send"} => Norm[Link(w)'] \in InScope
  <2>1. /\ pc'[w] \notin IdleLabels
        /\ job'[w] = job[w] /\ MyPage(w)' = MyPage(w)
    BY <1>7, OwnWork DEF IdleLabels, AtLinks
  <2>2. CASE Fetch(w) /\ job[w].depth < MaxDepth /\ todo'[w] = Links[MyPage(w)] /\ pc'[w] = "scan"
    BY <2>1, <2>2
  <2>3. CASE /\ pc[w] \in AtLinks
             /\ (todo'[w] = todo[w] \/ (todo'[w] = Tail(todo[w]) /\ todo[w] # <<>>))
             /\ pc'[w] \in {"mark", "send"} =>
                  todo'[w] = todo[w] /\ (pc[w] = "mark" \/ ShouldVisit(Link(w)))
    <3>1. job[w].depth < MaxDepth /\ PagesOf(todo[w]) \subseteq PagesOf(Links[MyPage(w)])
      BY <2>3 DEF Reach
    <3>2. PagesOf(todo'[w]) \subseteq PagesOf(todo[w])
      BY <1>4, <2>3, PagesOfRest
    <3>3. ASSUME pc'[w] \in {"mark", "send"} PROVE Norm[Link(w)'] \in InScope
      BY <2>3, <3>3 DEF Reach, ShouldVisit, Link
    <3> QED
      BY <2>1, <3>1, <3>2, <3>3
  <2> QED
    BY <1>7, <2>1, <2>2, <2>3, OwnWork
<1>8. ASSUME NEW r \in answers' PROVE Reached(r.page, r.depth)
  BY NewAnswer DEF Reach
<1>9. \A v \in Workers : pc'[v] \notin IdleLabels => Reached(MyPage(v)', job'[v].depth)
  BY <1>3, <1>6 DEF Reach
<1>10. \A v \in Workers : pc'[v] \in AtLinks =>
         /\ job'[v].depth < MaxDepth
         /\ PagesOf(todo'[v]) \subseteq PagesOf(Links[MyPage(v)'])
         /\ pc'[v] \in {"mark", "send"} => Norm[Link(v)'] \in InScope
  BY <1>3, <1>7 DEF Reach, AtLinks
<1> QED
  BY <1>2, <1>3, <1>5, <1>8, <1>9, <1>10 DEF Reach, Reached, AtLinks

\* Every step keeps the reach.
LEMMA ReachStep ==
  ASSUME Inv, Reach, [Next]_vars
  PROVE  Reach'
<1>1. CASE CloseDone \/ Cancel \/ UNCHANGED vars
  <2>1. UNCHANGED <<main, seeds, queue, local, answers>>
    BY <1>1 DEF CloseDone, Cancel, vars, seeding, local, history
  <2> QED
    BY <2>1, StaysReached DEF Reach, Reached, local, MyPage, Link
<1> QED
  BY <1>1, RunReach, WorkerReach DEF Next

\* Every job of every behaviour is at a number of links that leads to its page.
THEOREM Reaching == Spec => []Reach
<1>1. Init => Reach
  BY DEF Init, Reach, IdleLabels, AtLinks
<1>2. Inv /\ Reach /\ [Next]_vars => Reach'
  BY ReachStep
<1> QED
  BY <1>1, <1>2, Invariance, PTL DEF Spec

\* No job is deeper than MaxDepth, and the page of a job is at most as many
\* links away from a seed as its depth says, through pages in scope: for any
\* web, any number of workers and any answers (crawler.go:185, 198, 202).
THEOREM DepthIsSound == Spec => []DepthSound
<1>1. Inv /\ Reach => DepthSound
  <2> SUFFICES ASSUME Inv, Reach, NEW j \in JobsAtHand
               PROVE  j.depth <= MaxDepth /\ Norm[j.url] \in Within[j.depth]
    BY DEF DepthSound
  <2>1. CASE \E i \in DOMAIN queue : j = queue[i]
    BY <2>1, ConfigAssumption DEF Reach, Reached
  <2>2. CASE \E w \in Busy : j = job[w]
    BY <2>2, ConfigAssumption DEF Reach, Reached, Busy, IdleLabels, MyPage
  <2> QED
    BY <2>1, <2>2 DEF JobsAtHand
<1> QED
  BY <1>1, Invariance, Reaching, PTL
-----------------------------------------------------------------------------
(* One page at a time, and every page that has a link to follow was read. *)

\* The channel is sorted by depth, and it holds two depths at most: those of
\* the job in process and of the jobs that come of it.
Level ==
  /\ \A i, j \in DOMAIN queue : i <= j =>
       queue[i].depth <= queue[j].depth /\ queue[j].depth <= queue[i].depth + 1
  /\ \A w \in Workers : pc[w] \notin IdleLabels => \A i \in DOMAIN queue :
       job[w].depth <= queue[i].depth /\ queue[i].depth <= job[w].depth + 1
  /\ waiter = "off" => answers = {} /\ \A i \in DOMAIN queue : queue[i].depth = 0

\* Every page nearer than a job was seen before the job was made, and every
\* page as near as it before the job was taken.
SeenBelow(d) == \A n \in 0..MaxDepth : n < d => Within[n] \subseteq visited
Searched ==
  /\ \A i \in DOMAIN queue : SeenBelow(queue[i].depth)
  /\ \A w \in Workers : pc[w] \notin IdleLabels => SeenBelow(job[w].depth + 1)

\* Nothing has a depth greater than its distance.
NotWithin(p, d) == \A n \in 0..MaxDepth : n < d => p \notin Within[n]
Shortest ==
  /\ \A i \in DOMAIN queue : NotWithin(Norm[queue[i].url], queue[i].depth)
  /\ \A w \in Workers : pc[w] \notin IdleLabels => NotWithin(MyPage(w), job[w].depth)
  /\ \A w \in Workers : pc[w] \in {"mark", "send"} => NotWithin(Norm[Link(w)], job[w].depth + 1)
  /\ \A r \in answers : NotWithin(r.page, r.depth)

Breadth == ~cancelled => Level /\ Searched /\ Shortest

\* What the crawl is known to keep, for any number of workers.
Sound == Inv /\ Reach /\ Claims /\ Known /\ Followed /\ NoPageForgotten

\* Taking the first element of a sequence moves the others to the front by one.
LEMMA TailIndex ==
  ASSUME NEW S, NEW s \in Seq(S), s # <<>>
  PROVE  \A k \in DOMAIN Tail(s) : k \in Nat /\ k + 1 \in DOMAIN s /\ Tail(s)[k] = s[k + 1]
<1>1. Len(s) \in Nat /\ Len(s) >= 1 /\ DOMAIN s = 1..Len(s)
  OBVIOUS
<1>2. DOMAIN Tail(s) = 1..(Len(s) - 1) /\ \A k \in 1..(Len(s) - 1) : Tail(s)[k] = s[k + 1]
  OBVIOUS
<1> QED
  BY <1>1, <1>2

\* Appending to a sequence leaves the elements where they were.
LEMMA AppendIndex ==
  ASSUME NEW S, NEW s \in Seq(S), NEW e \in S
  PROVE  \A k \in DOMAIN Append(s, e) :
           \/ k \in DOMAIN s /\ Append(s, e)[k] = s[k]
           \/ Append(s, e)[k] = e /\ \A i \in DOMAIN Append(s, e) : i <= k
<1>1. Len(s) \in Nat /\ DOMAIN s = 1..Len(s) /\ DOMAIN Append(s, e) = 1..(Len(s) + 1)
  OBVIOUS
<1>2. Append(s, e)[Len(s) + 1] = e /\ \A i \in 1..Len(s) : Append(s, e)[i] = s[i]
  OBVIOUS
<1> QED
  BY <1>1, <1>2

\* While nothing is cancelled a worker that steps has a job before or after its
\* step, so the others have none.
LEMMA OthersRest ==
  ASSUME Sound, OneAtATime, OneAtATime', ~cancelled, NEW w \in Workers, WorkerStep(w),
         NEW v \in Workers, v # w
  PROVE  pc[v] \in IdleLabels /\ pc'[v] \in IdleLabels
<1>1. TypeOK /\ pc'[v] = pc[v]
  BY OthersStay DEF Sound, Inv
<1>2. w \in Busy \/ w \in Busy'
  <2>1. Take(w) => pc'[w] \in {"robots", "limit"}
    BY <1>1 DEF Take, Goto, TypeOK
  <2>2. ~Take(w) => pc[w] \notin IdleLabels
    BY DEF WorkerStep, Exit, Allowed, Denied, LimiterPasses, LimiterFails, Fetch, KeepLink,
       SkipLink, LinksDone, MarkLink, SendLink, GiveUp, Done, Moves, IdleLabels
  <2> QED
    BY <2>1, <2>2 DEF Busy, IdleLabels
<1>3. v \notin Busy /\ v \notin Busy'
  BY <1>1, <1>2 DEF OneAtATime, Busy
<1> QED
  BY <1>3 DEF Busy, IdleLabels

\* Every step keeps the channel sorted.
LEMMA LevelStep ==
  ASSUME Sound, OneAtATime, OneAtATime', ~cancelled, Level, [Next]_vars
  PROVE  Level'
<1>1. TypeOK /\ Shape /\ \A i \in DOMAIN queue : queue[i].depth \in Nat
  <2>1. TypeOK /\ Shape
    BY DEF Sound, Inv
  <2>2. \A i \in DOMAIN queue : queue[i] \in Job
    BY <2>1 DEF TypeOK
  <2> QED
    BY <2>1, <2>2 DEF Job
<1>2. CASE SendSeed
  <2> DEFINE new == [url |-> Head(seeds), depth |-> 0]
  <2>1. new \in Job /\ new.depth = 0 /\ queue' = Append(queue, new) /\ queue \in Seq(Job)
    BY <1>1, <1>2 DEF SendSeed, Shape, TypeOK, Job
  <2> HIDE DEF new
  <2>2. waiter = "off" /\ UNCHANGED <<waiter, answers, pc>> /\ \A w \in Workers : pc[w] = "off"
    BY <1>1, <1>2 DEF SendSeed, Shape, local, history
  <2>3. \A k \in DOMAIN queue' : queue'[k].depth = 0
    BY <2>1, <2>2, AppendIndex DEF Level
  <2> QED
    BY <2>2, <2>3 DEF Level, IdleLabels
<1>3. CASE MarkSeed \/ SkipSeed \/ ReturnOk \/ ReturnCancelled \/ CloseDone \/ Cancel \/ UNCHANGED vars
  <2>1. UNCHANGED <<queue, pc, job, answers>> /\ (waiter' = "off" => waiter = "off")
    BY <1>3 DEF MarkSeed, SkipSeed, ReturnOk, ReturnCancelled, CloseDone, Cancel, vars, local, history
  <2> QED
    BY <2>1 DEF Level
<1>4. CASE Spawn
  BY <1>4 DEF Spawn, Level, IdleLabels
<1>5. ASSUME NEW w \in Workers, WorkerStep(w)
      PROVE  Level'
  <2>1. waiter' # "off" /\ \A v \in Workers : v # w => pc'[v] \in IdleLabels
    BY <1>1, <1>5, WorkerLeaves, OthersRest DEF Shape
  <2>2. CASE Take(w)
    <3>1. queue \in Seq(Job) /\ queue # <<>> /\ queue' = Tail(queue) /\ job'[w] = queue[1]
          /\ 1 \in DOMAIN queue
      BY <1>1, <2>2, TailCovers DEF Take, TypeOK
    <3>2. \A k \in DOMAIN queue' : k \in Nat /\ k + 1 \in DOMAIN queue /\ queue'[k] = queue[k + 1]
      BY <3>1, TailIndex
    <3>3. \A i, j \in DOMAIN queue' : i <= j =>
            queue'[i].depth <= queue'[j].depth /\ queue'[j].depth <= queue'[i].depth + 1
      BY <3>2 DEF Level
    <3>4. \A i \in DOMAIN queue' :
            job'[w].depth <= queue'[i].depth /\ queue'[i].depth <= job'[w].depth + 1
      BY <3>1, <3>2 DEF Level
    <3> QED
      BY <2>1, <3>3, <3>4 DEF Level
  <2>3. CASE SendLink(w)
    <3>1. Link(w) \in URL /\ job[w] \in Job /\ pc[w] \notin IdleLabels /\ job' = job
      BY <1>1, <2>3, LinkURL DEF SendLink, Shape, IdleLabels, Sound
    <3> DEFINE new == [url |-> Link(w), depth |-> job[w].depth + 1]
    <3>2. new \in Job /\ new.depth = job[w].depth + 1 /\ job[w].depth \in Nat
      BY <3>1 DEF Job
    <3>3. queue' = Append(queue, new) /\ queue \in Seq(Job)
      BY <1>1, <2>3 DEF SendLink, TypeOK
    <3> HIDE DEF new
    <3>4. \A k \in DOMAIN queue' :
            \/ k \in DOMAIN queue /\ queue'[k] = queue[k]
            \/ queue'[k] = new /\ \A i \in DOMAIN queue' : i <= k
      BY <3>2, <3>3, AppendIndex
    <3>5. \A i \in DOMAIN queue' : job[w].depth <= queue'[i].depth /\ queue'[i].depth <= job[w].depth + 1
                                 /\ queue'[i].depth \in Nat
      BY <1>1, <3>1, <3>2, <3>4 DEF Level
    <3>6. DOMAIN queue' \subseteq Nat
      BY <3>2, <3>3
    <3>7. ASSUME NEW i \in DOMAIN queue', NEW j \in DOMAIN queue', i <= j
          PROVE  queue'[i].depth <= queue'[j].depth /\ queue'[j].depth <= queue'[i].depth + 1
      <4>1. CASE queue'[j] = new
        BY <3>2, <3>5, <4>1
      <4>2. CASE j \in DOMAIN queue /\ queue'[j] = queue[j] /\ i \in DOMAIN queue /\ queue'[i] = queue[i]
        BY <3>7, <4>2 DEF Level
      <4>3. CASE queue'[i] = new /\ \A k \in DOMAIN queue' : k <= i
        <5>1. i = j
          BY <3>6, <3>7, <4>3
        <5> QED
          BY <3>5, <5>1
      <4> QED
        BY <3>4, <4>1, <4>2, <4>3
    <3> QED
      BY <2>1, <3>1, <3>5, <3>7 DEF Level
  <2>4. CASE ~Take(w) /\ ~SendLink(w)
    <3>1. queue' = queue /\ (pc'[w] \notin IdleLabels => pc[w] \notin IdleLabels /\ job'[w] = job[w])
      <4>1. queue' = queue
        BY <1>5, <2>4 DEF WorkerStep, Exit, Allowed, Denied, LimiterPasses, LimiterFails, Fetch,
           KeepLink, SkipLink, LinksDone, MarkLink, GiveUp, Done, Moves
      <4> QED
        BY <1>5, <2>4, <4>1, OwnWork DEF Sound
    <3> QED
      BY <2>1, <3>1 DEF Level
  <2> QED
    BY <2>2, <2>3, <2>4
<1> QED
  BY <1>2, <1>3, <1>4, <1>5 DEF Next, RunStep

\* When the worker takes a job, every page that is as near as it was seen: a
\* page one link nearer was answered, with HTML, and its links were followed.
LEMMA LayerSeen ==
  ASSUME Sound, OneAtATime, OneAtATime', AllRead, ~cancelled, Level, Searched, Shortest,
         NEW w \in Workers, Take(w)
  PROVE  Within[queue[1].depth] \subseteq visited
<1>1. /\ TypeOK /\ Shape /\ pc[w] = "idle" /\ 1 \in DOMAIN queue /\ queue \in Seq(Job)
      /\ queue[1].depth \in 0..MaxDepth /\ main # "seedSend"
  <2>1. TypeOK /\ Shape /\ pc[w] = "idle" /\ queue # <<>> /\ queue \in Seq(Job)
    BY DEF Sound, Inv, TypeOK, Take
  <2>2. 1 \in DOMAIN queue
    BY <2>1, TailCovers
  <2> QED
    BY <2>1, <2>2 DEF Sound, Reach, Reached, Shape
<1>2. \A v \in Workers : v # w => pc[v] \in IdleLabels
  BY OthersRest DEF WorkerStep
<1> DEFINE e == queue[1].depth
<1>3. CASE e = 0
  <2>1. Base \subseteq visited
    BY WebAssumption DEF Base, Sound, Claims, Agents
  <2> QED
    BY <1>1, <1>3, <2>1, WithinUnfolds
<1>4. CASE e # 0
  <2>1. e - 1 \in 0..MaxDepth /\ e - 1 < e /\ e - 1 < MaxDepth /\ MaxDepth \in Nat
    BY <1>1, <1>4, ConfigAssumption
  <2>2. Within[e] = Wider(Within[e - 1])
    BY <1>1, <1>4, WithinUnfolds
  <2>3. Within[e - 1] \subseteq visited
    BY <1>1, <2>1 DEF Searched, SeenBelow
  <2>4. ASSUME NEW p \in Within[e - 1], NEW q \in PagesOf(Links[p])
        PROVE  q \in visited
    <3>1. p \in Answered \/ OnItsWay(p)
      BY <2>3, <2>4 DEF Sound, NoPageForgotten
    <3>2. ~OnItsWay(p)
      <4>1. \A v \in Workers : pc[v] \in IdleLabels
        BY <1>1, <1>2 DEF IdleLabels
      <4>2. ASSUME NEW i \in DOMAIN queue, p = Norm[queue[i].url] PROVE FALSE
        <5>1. i \in Nat /\ 1 <= i
          BY <1>1
        <5>2. e <= queue[i].depth /\ queue[i].depth \in 0..MaxDepth
          BY <1>1, <5>1 DEF Level, Sound, Reach, Reached
        <5>3. e - 1 < queue[i].depth
          BY <1>1, <2>1, <5>2
        <5> QED
          BY <2>1, <2>4, <4>2, <5>3 DEF Shortest, NotWithin
      <4> QED
        BY <1>1, <4>1, <4>2 DEF OnItsWay, IdleLabels
    <3>3. PICK r \in answers : r.page = p
      BY <3>1, <3>2 DEF Answered
    <3>4. r.depth \in 0..MaxDepth
      BY DEF Sound, Reach, Reached
    <3>5. r.depth < MaxDepth
      <4>1. ~(e - 1 < r.depth)
        BY <2>1, <2>4, <3>3 DEF Shortest, NotWithin
      <4> QED
        BY <2>1, <3>4, <4>1, <1>1
    <3>6. r.outcome = "html"
      BY <2>4, <3>3 DEF AllRead
    <3>7. q \in visited \/ \E v \in Workers : pc[v] \in {"scan", "mark", "send"}
      BY <2>4, <3>3, <3>5, <3>6 DEF Sound, Followed, Expands
    <3> QED
      BY <1>1, <1>2, <3>7 DEF IdleLabels
  <2> QED
    BY <2>2, <2>3, <2>4 DEF Wider
<1> QED
  BY <1>3, <1>4

\* A step of a worker adds no seed.
LEMMA WorkerBase ==
  ASSUME Inv, NEW w \in Workers, WorkerStep(w)
  PROVE  /\ \A n \in 0..MaxDepth : Within'[n] = Within[n]
         /\ visited \subseteq visited'
         /\ ~MarkSeed /\ Next
<1>1. ~MarkSeed
  BY WorkerLeaves DEF MarkSeed, Inv, Shape
<1>2. Next
  BY DEF Next
<1>3. visited \subseteq visited'
  BY WorkerFrame
<1> QED
  BY <1>1, <1>2, <1>3, BaseStep, WithinKept

\* Every step keeps what was searched.
LEMMA SearchedStep ==
  ASSUME Sound, OneAtATime, OneAtATime', AllRead, ~cancelled, Level, Searched, Shortest,
         [Next]_vars, Level', Inv'
  PROVE  Searched'
<1>1. TypeOK /\ Shape /\ MaxDepth \in Nat
  BY ConfigAssumption DEF Sound, Inv
<1>2. CASE waiter' = "off"
  <2>1. /\ \A i \in DOMAIN queue' : queue'[i].depth = 0
        /\ \A w \in Workers : pc'[w] = "off"
    BY <1>2 DEF Level, Inv, Shape
  <2> QED
    BY <2>1 DEF Searched, SeenBelow, IdleLabels
<1>3. CASE Spawn
  <2>1. waiter = "off" /\ queue' = queue /\ \A w \in Workers : pc'[w] = "idle"
    BY <1>1, <1>3 DEF Spawn, Shape
  <2>2. \A i \in DOMAIN queue' : queue'[i].depth = 0
    BY <2>1 DEF Level
  <2> QED
    BY <2>1, <2>2 DEF Searched, SeenBelow, IdleLabels
<1>4. CASE ReturnOk \/ ReturnCancelled \/ CloseDone \/ Cancel \/ UNCHANGED vars
  <2>1. UNCHANGED <<queue, pc, job, visited, made>>
    BY <1>4 DEF ReturnOk, ReturnCancelled, CloseDone, Cancel, vars, local, history
  <2>2. \A n \in 0..MaxDepth : Within'[n] = Within[n]
    BY <2>1, WithinKept DEF Base
  <2> QED
    BY <2>1, <2>2 DEF Searched, SeenBelow
<1>5. ASSUME NEW w \in Workers, WorkerStep(w)
      PROVE  Searched'
  <2>1. /\ \A n \in 0..MaxDepth : Within'[n] = Within[n]
        /\ visited \subseteq visited'
        /\ \A v \in Workers : v # w => pc'[v] \in IdleLabels
    BY <1>5, WorkerBase, OthersRest DEF Sound
  <2>2. \A d : SeenBelow(d) => \A n \in 0..MaxDepth : n < d => Within'[n] \subseteq visited'
    BY <2>1 DEF SeenBelow
  <2>3. ASSUME NEW k \in DOMAIN queue' PROVE SeenBelow(queue'[k].depth)
    BY <1>5, NewInQueue DEF Sound, Searched, SendLink, IdleLabels
  <2>4. ASSUME pc'[w] \notin IdleLabels PROVE SeenBelow(job'[w].depth + 1)
    <3>1. CASE Take(w)
      <4>1. queue # <<>> /\ queue \in Seq(Job) /\ job'[w] = queue[1]
        BY <1>1, <3>1, TailCovers DEF Take, TypeOK
      <4>2. Within[queue[1].depth] \subseteq visited /\ SeenBelow(queue[1].depth)
            /\ queue[1].depth \in Nat
        <5>1. 1 \in DOMAIN queue /\ queue[1] \in Job
          BY <4>1, TailCovers
        <5> QED
          BY <3>1, <5>1, LayerSeen DEF Searched, Job
      <4>3. \A n \in 0..MaxDepth : n < queue[1].depth + 1 => n < queue[1].depth \/ n = queue[1].depth
        BY <4>2
      <4> QED
        BY <4>1, <4>2, <4>3 DEF SeenBelow
    <3>2. CASE pc[w] \notin IdleLabels /\ job'[w] = job[w]
      BY <3>2 DEF Searched
    <3> QED
      BY <1>5, <2>4, <3>1, <3>2, OwnWork DEF Sound
  <2> QED
    BY <2>1, <2>2, <2>3, <2>4 DEF Searched, SeenBelow
<1>6. CASE MarkSeed \/ SkipSeed \/ SendSeed
  <2>1. waiter' = "off"
    BY <1>1, <1>6 DEF MarkSeed, SkipSeed, SendSeed, Shape
  <2> QED
    BY <1>2, <2>1
<1> QED
  BY <1>3, <1>4, <1>5, <1>6 DEF Next, RunStep

\* Every step keeps the depths least.
LEMMA ShortestStep ==
  ASSUME Sound, OneAtATime, OneAtATime', ~cancelled, Level, Searched, Shortest, [Next]_vars, Level', Inv'
  PROVE  Shortest'
<1>1. TypeOK /\ Shape /\ MaxDepth \in Nat
  BY ConfigAssumption DEF Sound, Inv
<1>2. CASE waiter' = "off"
  <2>1. /\ \A i \in DOMAIN queue' : queue'[i].depth = 0
        /\ \A w \in Workers : pc'[w] = "off"
        /\ answers' = {}
    BY <1>2 DEF Level, Inv, Shape
  <2> QED
    BY <2>1 DEF Shortest, NotWithin, IdleLabels
<1>3. CASE Spawn
  <2>1. waiter = "off" /\ queue' = queue /\ answers' = answers /\ \A w \in Workers : pc'[w] = "idle"
    BY <1>1, <1>3 DEF Spawn, Shape, history
  <2>2. answers' = {} /\ \A i \in DOMAIN queue' : queue'[i].depth = 0
    BY <2>1 DEF Level
  <2> QED
    BY <2>1, <2>2 DEF Shortest, NotWithin, IdleLabels
<1>4. CASE ReturnOk \/ ReturnCancelled \/ CloseDone \/ Cancel \/ UNCHANGED vars
  <2>1. UNCHANGED <<queue, pc, job, todo, answers, made>>
    BY <1>4 DEF ReturnOk, ReturnCancelled, CloseDone, Cancel, vars, local, history
  <2>2. \A n \in 0..MaxDepth : Within'[n] = Within[n]
    BY <2>1, WithinKept DEF Base
  <2> QED
    BY <2>1, <2>2 DEF Shortest, NotWithin, MyPage, Link
<1>5. ASSUME NEW w \in Workers, WorkerStep(w)
      PROVE  Shortest'
  <2>1. /\ \A n \in 0..MaxDepth : Within'[n] = Within[n]
        /\ \A v \in Workers : v # w => pc'[v] \in IdleLabels
    BY <1>5, WorkerBase, OthersRest DEF Sound
  <2>2. \A p, d : NotWithin(p, d) => \A n \in 0..MaxDepth : n < d => p \notin Within'[n]
    BY <2>1 DEF NotWithin
  <2>3. ASSUME NEW k \in DOMAIN queue' PROVE NotWithin(Norm[queue'[k].url], queue'[k].depth)
    BY <1>5, NewInQueue DEF Sound, Shortest, SendLink
  <2>4. ASSUME pc'[w] \notin IdleLabels PROVE NotWithin(MyPage(w)', job'[w].depth)
    BY <1>5, <2>4, OwnWork DEF Sound, Shortest, MyPage
  <2>5. ASSUME pc'[w] \in {"mark", "send"}
        PROVE  NotWithin(Norm[Link(w)'], job'[w].depth + 1)
    <3>1. /\ pc[w] \in AtLinks /\ job'[w] = job[w] /\ Link(w)' = Link(w)
          /\ pc[w] = "mark" \/ ShouldVisit(Link(w))
      BY <1>5, <2>5, OwnWork DEF Sound, AtLinks, IdleLabels, Link
    <3>2. CASE ShouldVisit(Link(w))
      <4>1. SeenBelow(job[w].depth + 1)
        BY <3>1 DEF Searched, AtLinks, IdleLabels
      <4> QED
        BY <3>1, <3>2, <4>1 DEF SeenBelow, NotWithin, ShouldVisit
    <3> QED
      BY <3>1, <3>2 DEF Shortest
  <2>6. ASSUME NEW r \in answers' PROVE NotWithin(r.page, r.depth)
    BY <1>5, NewAnswer DEF Sound, Shortest
  <2> QED
    BY <2>1, <2>2, <2>3, <2>4, <2>5, <2>6 DEF Shortest, NotWithin, IdleLabels
<1>6. CASE MarkSeed \/ SkipSeed \/ SendSeed
  <2>1. waiter' = "off"
    BY <1>1, <1>6 DEF MarkSeed, SkipSeed, SendSeed, Shape
  <2> QED
    BY <1>2, <2>1
<1> QED
  BY <1>3, <1>4, <1>5, <1>6 DEF Next, RunStep

\* What a crawl is known to keep holds of every behaviour, for any number of workers.
THEOREM Soundness == Spec => []Sound
<1>1. Init => Claims
  BY DEF Init, Claims, Agents
<1>2. Inv /\ Claims /\ [Next]_vars => Claims'
  BY ClaimsStep
<1> QED
  BY <1>1, <1>2, Invariance, Reaching, KnownAndFollowed, NoneForgotten, PTL DEF Spec, Sound

\* A crawl that is always undisturbed goes level by level until it is cancelled.
THEOREM BreadthKept == Spec => ([]Undisturbed => []Breadth)
<1>1. Init => Breadth
  BY DEF Init, Breadth, Level, Searched, Shortest, IdleLabels
<1>2. Sound /\ Sound' /\ Undisturbed /\ Undisturbed' /\ Breadth /\ [Next]_vars => Breadth'
  <2> SUFFICES ASSUME Sound, Sound', Undisturbed, Undisturbed', Breadth, [Next]_vars, ~cancelled'
               PROVE  (Level /\ Searched /\ Shortest)'
    BY DEF Breadth
  <2>1. ~cancelled
    BY WorkerLeaves DEF Next, RunStep, SkipSeed, MarkSeed, SendSeed, Spawn, ReturnOk, ReturnCancelled,
       CloseDone, Cancel, vars
  <2>2. Level /\ Searched /\ Shortest /\ Inv'
    BY <2>1 DEF Breadth, Sound
  <2>3. OneAtATime /\ AllRead /\ OneAtATime'
    BY DEF Undisturbed
  <2>4. Level'
    BY <2>1, <2>2, <2>3, LevelStep
  <2> QED
    BY <2>1, <2>2, <2>3, <2>4, SearchedStep, ShortestStep
<1> QED
  BY <1>1, <1>2, Soundness, PTL DEF Spec

\* Whatever the web, the number of workers and the channel: a crawl in which no
\* two workers ever have a job at once and that can read every page with links
\* is breadth first: no job is deeper than the distance of its page
\* (crawler.go:18, 82, 202).
THEOREM IsBreadthFirst == Spec => BreadthFirstAlone
<1>1. Sound /\ Breadth => BreadthFirst
  <2> SUFFICES ASSUME Sound, Breadth, ~cancelled, NEW j \in JobsAtHand, NEW n \in 0..(j.depth - 1)
               PROVE  Norm[j.url] \notin Within[n]
    BY DEF BreadthFirst
  <2>1. NotWithin(Norm[j.url], j.depth) /\ j.depth \in 0..MaxDepth
    <3>1. CASE \E i \in DOMAIN queue : j = queue[i]
      BY <3>1 DEF Breadth, Shortest, Sound, Reach, Reached
    <3>2. CASE \E w \in Busy : j = job[w]
      BY <3>2 DEF Breadth, Shortest, Sound, Reach, Reached, Busy, IdleLabels, MyPage
    <3> QED
      BY <3>1, <3>2 DEF JobsAtHand
  <2>2. n \in 0..MaxDepth /\ n < j.depth
    BY <2>1, ConfigAssumption
  <2> QED
    BY <2>1, <2>2 DEF NotWithin
<1> QED
  BY <1>1, Soundness, BreadthKept, PTL DEF BreadthFirstAlone

\* Such a crawl that returns nil answered the pages within MaxDepth links of its
\* seeds, all of them and no other (README.md:11, crawler.go:82).
THEOREM CoversAll == Spec => FullCoverageAlone
<1>1. Sound /\ NilMeansDone /\ Breadth /\ Undisturbed => FullCoverage
  <2> SUFFICES ASSUME Sound, NilMeansDone, Breadth, AllRead, main = "ok", ~cancelled
               PROVE  Answered = Within[MaxDepth]
    BY DEF FullCoverage, Undisturbed
  <2>1. MaxDepth \in Nat /\ MaxDepth \in 0..MaxDepth /\ 0 \in 0..MaxDepth
    BY ConfigAssumption
  <2>2. queue = <<>> /\ Busy = {}
    BY DEF NilMeansDone
  <2>3. visited \subseteq Answered
    <3>1. \A p : ~OnItsWay(p)
      BY <2>2 DEF OnItsWay, Busy
    <3> QED
      BY <3>1 DEF Sound, NoPageForgotten
  <2>4. Answered \subseteq Within[MaxDepth]
    <3>1. ASSUME NEW r \in answers PROVE r.page \in Within[MaxDepth]
      <4>1. r.depth \in 0..MaxDepth /\ r.page \in Within[r.depth] /\ r.depth <= MaxDepth
        BY <2>1 DEF Sound, Reach, Reached
      <4> QED
        BY <2>1, <4>1, WithinNested
    <3> QED
      BY <3>1 DEF Answered
  <2> DEFINE Good == {n \in 0..MaxDepth : Within[n] \subseteq Answered}
  <2>5. 0 \in Good
    <3>1. Base \subseteq visited
      BY WebAssumption DEF Base, Sound, Claims, Agents
    <3> QED
      BY <2>1, <2>3, <3>1, WithinUnfolds
  <2>6. ASSUME NEW n \in 0..MaxDepth, n \in Good, n < MaxDepth PROVE n + 1 \in Good
    <3>1. n + 1 \in 0..MaxDepth /\ n + 1 # 0 /\ (n + 1) - 1 = n
      BY <2>1, <2>6
    <3>2. Within[n + 1] = Wider(Within[n])
      BY <3>1, WithinUnfolds
    <3>3. ASSUME NEW p \in Within[n], NEW q \in PagesOf(Links[p])
          PROVE  q \in Answered
      <4>1. PICK r \in answers : r.page = p
        BY <2>6, <3>3 DEF Answered
      <4>2. r.depth \in 0..MaxDepth /\ ~(n < r.depth)
        BY <2>6, <3>3, <4>1 DEF Breadth, Shortest, NotWithin, Sound, Reach, Reached
      <4>3. r.depth < MaxDepth
        BY <2>1, <2>6, <4>2
      <4>4. r.outcome = "html"
        BY <3>3, <4>1 DEF AllRead
      <4> QED
        BY <2>3, <3>3, <4>1, <4>3, <4>4 DEF NilMeansDone, Expands
    <3>4. Within[n + 1] \subseteq Answered
      BY <2>6, <3>2, <3>3 DEF Wider
    <3> QED
      BY <3>1, <3>4
  <2> HIDE DEF Good
  <2>7. 0..MaxDepth \subseteq Good
    BY <2>1, <2>5, <2>6, Induction
  <2>8. Within[MaxDepth] \subseteq Answered
    BY <2>1, <2>7 DEF Good
  <2> QED
    BY <2>4, <2>8
<1> QED
  BY <1>1, Soundness, NilIsDone, BreadthKept, PTL DEF FullCoverageAlone
=============================================================================
