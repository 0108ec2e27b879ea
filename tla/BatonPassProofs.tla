-------------------------- MODULE BatonPassProofs ---------------------------
(***************************************************************************)
(* Proofs about BatonPass and OrderlyBaton, for any files, any number of   *)
(* runs, commands and segments.                                            *)
(*                                                                         *)
(* Of Spec, in any order of the threads' steps: no superseded encoder run  *)
(* is left uncancelled (IInv), n.mu is held exactly between EnsureCheck    *)
(* and EnsureLaunch (LockHeldInside), and the state keeps its types, the   *)
(* sequence numbers their bound (TInv).                                    *)
(*                                                                         *)
(* Of OrderlySpec, one event at a time: OInv, which says who sees to the   *)
(* queue, which run is at work, how it stands with the head of the queue   *)
(* and what a thread can rely on at each stage of its work. The properties *)
(* that the code's comments and tests claim follow from it.                *)
(*                                                                         *)
(* Last, that OrderlySpec implements StreamedPlaylist, from OInv and SInv, *)
(* which says what became of each run.                                     *)
(***************************************************************************)
EXTENDS OrderlyBaton, SequenceTheorems, TLAPS

RunFields == {"file", "seq", "entry", "sent", "cancelled", "ok"}

\* The shape of the state that a step's EXCEPTs rely on.
Shape ==
  /\ pc = [t \in Threads |-> pc[t]]
  /\ DOMAIN runs = Runs
  /\ \A r \in Runs : DOMAIN runs[r] = RunFields

IInv == Shape /\ SupersededCancelled

\* Every step but the launch: no new run, none forgets its cancellation.
Tame ==
  /\ runCtx' = runCtx
  /\ Launched' \subseteq Launched
  /\ \A r \in Runs : runs[r].cancelled => runs'[r].cancelled

\* The local threads are not runs.
LEMMA ThreadKinds == Client \notin Runs /\ Gossip \notin Runs /\ Runs \subseteq Threads
                     /\ Client \in Threads /\ Gossip \in Threads
  BY BoundsAssumption, SMT DEF Client, Gossip, Runs, Threads

\* A thread that goes anywhere but to "idle", or that is no run, adds no run
\* to the launched ones.
LEMMA GotoTame ==
  ASSUME Shape, NEW t \in Threads, NEW from, NEW to, Goto(t, from, to),
         t \in Runs => from # "idle"
  PROVE  Launched' \subseteq Launched /\ pc' = [u \in Threads |-> pc'[u]]
  BY DEF Goto, Launched, Shape

\* Cancelling a run changes no other run and keeps the shape.
LEMMA CancelTame ==
  ASSUME Shape, NEW r \in Runs \union {None}, CancelRun(r)
  PROVE  /\ DOMAIN runs' = Runs
         /\ \A s \in Runs : DOMAIN runs'[s] = RunFields
         /\ \A s \in Runs : runs[s].cancelled => runs'[s].cancelled
  BY DEF CancelRun, Shape, RunFields

\* A step that leaves the runs and n.runnerCtx alone.
LEMMA OtherTame ==
  ASSUME Shape, NEW t \in Threads, NEW from, NEW to, Goto(t, from, to),
         t \in Runs => from # "idle", UNCHANGED <<runCtx, runs>>
  PROVE  Tame /\ Shape'
  BY GotoTame DEF Tame, Shape

\* The commands of the user and the steps of a skip.
LEMMA UserTame ==
  ASSUME Shape, UserSteps \/ SkipSteps \/ PlayerCompleted \/ GossipReact
  PROVE  Tame /\ Shape'
<1> USE ThreadKinds
<1>1. ASSUME NEW f \in Files, AppendCmd(f) PROVE Tame /\ Shape'
  BY <1>1, OtherTame DEF AppendCmd, UserCommand, rvars
<1>2. ASSUME NEW i \in Positions(queue), RemoveCmd(i) PROVE Tame /\ Shape'
  BY <1>2, OtherTame DEF RemoveCmd, UserCommand, rvars
<1>3. CASE ClearCmd
  BY <1>3, OtherTame DEF ClearCmd, UserCommand, rvars
<1>4. ASSUME NEW c \in Commands, SkipCmd(c) PROVE Tame /\ Shape'
  BY <1>4, OtherTame DEF SkipCmd, UserCommand, rvars
<1>5. CASE SkipStop
  <2>1. PICK to : Goto(Client, "skipStop", to)
    BY <1>5 DEF SkipStop
  <2>2. CancelRun(runCtx) /\ UNCHANGED runCtx
    BY <1>5 DEF SkipStop
  <2> QED BY <2>1, <2>2, GotoTame DEF Tame, Shape, CancelRun, RunFields
<1>6. CASE SkipSeq
  BY <1>6, OtherTame DEF SkipSeq, rvars
<1>7. CASE UpdateGlobalMediaSequence(Client, "skipUpdate", "skipMove")
  BY <1>7, OtherTame DEF UpdateGlobalMediaSequence, rvars
<1>8. CASE SkipMove
  BY <1>8, OtherTame DEF SkipMove, rvars
<1>9. CASE PlayerCompleted
  BY <1>9, OtherTame DEF PlayerCompleted, rvars
<1>10. CASE GossipReact
  BY <1>10, OtherTame DEF GossipReact, rvars
<1> QED BY <1>1, <1>2, <1>3, <1>4, <1>5, <1>6, <1>7, <1>8, <1>9, <1>10
        DEF UserSteps, SkipSteps

\* A step that may cancel a run.
LEMMA StopTame ==
  ASSUME Shape, NEW t \in Threads, NEW from, NEW to, Goto(t, from, to),
         t \in Runs => from # "idle", CancelRun(runCtx), UNCHANGED runCtx
  PROVE  Tame /\ Shape'
  BY GotoTame DEF Tame, Shape, CancelRun, RunFields

\* The queue's re-evaluation, but for its launch.
LEMMA QueueTame ==
  ASSUME Shape, NEW t \in Threads, QueueSteps(t), ~EnsureLaunch(t)
  PROVE  Tame /\ Shape'
<1> USE DEF rvars
<1>1. CASE Stop(t)
  BY <1>1, StopTame DEF Stop
<1>2. CASE Check(t)
  BY <1>2, OtherTame DEF Check
<1>3. CASE InternalNext(t)
  BY <1>3, OtherTame DEF InternalNext
<1>4. CASE Forget(t)
  BY <1>4, OtherTame DEF Forget
<1>5. CASE React(t)
  BY <1>5, OtherTame DEF React
<1>6. CASE GetNextStartSequence(t)
  BY <1>6, OtherTame DEF GetNextStartSequence
<1>7. CASE EnsureActive(t)
  <2>1. PICK to : Goto(t, "ensure", to)
    BY <1>7 DEF EnsureActive, Finish
  <2> QED BY <1>7, <2>1, OtherTame DEF EnsureActive
<1>8. CASE EnsureStopped(t)
  <2>1. PICK to : Goto(t, "ensure", to)
    BY <1>8 DEF EnsureStopped, Finish
  <2>2. CASE runner.running
    BY <1>8, <2>1, <2>2, StopTame DEF EnsureStopped
  <2>3. CASE ~runner.running
    BY <1>8, <2>1, <2>3, OtherTame DEF EnsureStopped
  <2> QED BY <2>2, <2>3
<1>9. CASE EnsureCheck(t)
  BY <1>9, OtherTame DEF EnsureCheck
<1>10. CASE EnsureTag(t)
  BY <1>10, OtherTame DEF EnsureTag
<1>11. CASE EnsureWrite(t)
  BY <1>11, OtherTame DEF EnsureWrite
<1> QED BY <1>1, <1>2, <1>3, <1>4, <1>5, <1>6, <1>7, <1>8, <1>9, <1>10, <1>11
        DEF QueueSteps

\* A step of a run that writes a field of its own, not its cancellation.
LEMMA OwnFieldTame ==
  ASSUME Shape, NEW r \in Runs, NEW from, NEW to, Goto(r, from, to), from # "idle",
         UNCHANGED runCtx, NEW f \in RunFields \ {"cancelled"}, NEW v,
         runs' = [runs EXCEPT ![r] = [runs[r] EXCEPT ![f] = v]]
  PROVE  Tame /\ Shape'
<1>1. Launched' \subseteq Launched /\ pc' = [u \in Threads |-> pc'[u]]
  BY GotoTame, ThreadKinds
<1>2. DOMAIN runs' = Runs /\ \A s \in Runs : DOMAIN runs'[s] = RunFields
  BY DEF Shape
<1>3. \A s \in Runs : runs'[s].cancelled = runs[s].cancelled
  BY DEF Shape, RunFields
<1> QED BY <1>1, <1>2, <1>3 DEF Tame, Shape

\* The steps of a run's own goroutine, and its ffmpeg's failure.
LEMMA RunTame ==
  ASSUME Shape, NEW r \in Runs, RunSteps(r) \/ Fail(r)
  PROVE  Tame /\ Shape'
<1> USE ThreadKinds DEF rvars
<1>1. CASE StartAgain(r)
  BY <1>1, OwnFieldTame DEF StartAgain, Ended, RunFields
<1>2. CASE Start(r)
  BY <1>2, OtherTame DEF Start
<1>3. CASE LoopCancelled(r)
  <2>1. Launched' \subseteq Launched /\ pc' = [u \in Threads |-> pc'[u]]
    BY <1>3 DEF LoopCancelled, Launched, Streaming
  <2> QED BY <1>3, <2>1 DEF LoopCancelled, Tame, Shape
<1>4. CASE Loop(r)
  BY <1>4, OtherTame DEF Loop
<1>5. CASE Exec(r)
  BY <1>5, OwnFieldTame DEF Exec, RunFields
<1>6. CASE ExecSuperseded(r)
  BY <1>6, OtherTame DEF ExecSuperseded
<1>7. CASE Segment(r)
  <2>1. \A s \in Runs : runs'[s].cancelled = runs[s].cancelled
                        /\ DOMAIN runs'[s] = RunFields
    BY <1>7 DEF Segment, Shape, RunFields
  <2>2. DOMAIN runs' = Runs
    BY <1>7 DEF Segment, Shape
  <2> QED BY <1>7, <2>1, <2>2 DEF Segment, Tame, Shape, Launched
<1>8. CASE Eof(r)
  BY <1>8, OwnFieldTame DEF Eof, Ended, RunFields
<1>9. CASE Killed(r)
  BY <1>9, OtherTame DEF Killed
<1>10. CASE Exited(r)
  <2> DEFINE own == runner.cmd = r /\ ~runs[r].cancelled
             to == IF own /\ ~runs[r].ok THEN "retry" ELSE "cleanup"
             ok == own /\ runs[r].ok
  <2>1. Goto(r, "exited", to) /\ Ended(r, ok) /\ UNCHANGED runCtx
    BY <1>10 DEF Exited
  <2> HIDE DEF to, ok
  <2> QED BY <2>1, OwnFieldTame DEF Ended, RunFields
<1>11. CASE Retry(r)
  BY <1>11, OtherTame DEF Retry
<1>12. CASE Cleanup(r)
  BY <1>12, OtherTame DEF Cleanup
<1>13. CASE Returned(r)
  BY <1>13, OtherTame DEF Returned
<1>14. CASE Report(r)
  BY <1>14, OtherTame DEF Report
<1>15. CASE UpdateGlobalMediaSequence(r, "update", "notify")
  BY <1>15, OtherTame DEF UpdateGlobalMediaSequence
<1>16. CASE Notify(r)
  BY <1>16, OtherTame DEF Notify
<1>17. CASE Fail(r)
  BY <1>17, OtherTame DEF Fail
<1> QED BY <1>1, <1>2, <1>3, <1>4, <1>5, <1>6, <1>7, <1>8, <1>9, <1>10, <1>11,
           <1>12, <1>13, <1>14, <1>15, <1>16, <1>17 DEF RunSteps

\* The launch adds the new run only, and cancels the one it supersedes, so
\* that all the launched runs but the new one are cancelled.
LEMMA LaunchKeeps ==
  ASSUME IInv, NEW t \in Threads, EnsureLaunch(t)
  PROVE  IInv'
<1> DEFINE r == CHOOSE s \in Runs :
                  pc[s] = "idle" /\ \A u \in Runs : pc[u] = "idle" => s <= u
           new == [NoRun EXCEPT !.file = local[t].file, !.seq = local[t].base,
                                !.entry = local[t].entry.id]
           to == IF local[t].stream # None THEN "forget" ELSE Rest(t)
<1>1. DOMAIN new = RunFields
  BY DEF NoRun, RunFields
<1>2. /\ pc' = [pc EXCEPT ![r] = "spawned", ![t] = to]
      /\ runs' = [s \in Runs |-> IF s = r THEN new
                                 ELSE Superseded(s)]
      /\ runCtx' = r
      /\ pc[t] = "launch"
  BY DEF EnsureLaunch
<1> HIDE DEF r, new, to
<1>3. pc' = [u \in Threads |-> pc'[u]]
  BY <1>2 DEF IInv, Shape
<1>4. DOMAIN runs' = Runs /\ \A s \in Runs : DOMAIN runs'[s] = RunFields
  BY <1>1, <1>2 DEF IInv, Shape, Superseded
<1>5. Launched' \subseteq Launched \union {r}
  <2>1. \A s \in Runs : s # r /\ s # t => pc'[s] = pc[s]
    BY <1>2, ThreadKinds DEF IInv, Shape
  <2> QED BY <1>2, <2>1 DEF Launched
<1>6. \A s \in Launched : s # r => runs'[s].cancelled
  BY <1>2 DEF IInv, Shape, RunFields, Launched, SupersededCancelled,
               Superseded
<1> QED BY <1>2, <1>3, <1>4, <1>5, <1>6 DEF IInv, Shape, SupersededCancelled

\* Nothing is launched at first.
LEMMA InitIInv == Init => IInv
<1> SUFFICES ASSUME Init PROVE IInv
  OBVIOUS
<1>1. \A r \in Runs : pc[r] = "idle"
  BY ThreadKinds DEF Init
<1>2. pc = [t \in Threads |-> pc[t]]
  BY DEF Init
<1>3. DOMAIN runs = Runs /\ \A r \in Runs : DOMAIN runs[r] = RunFields
  BY DEF Init, NoRun, RunFields
<1> QED BY <1>1, <1>2, <1>3 DEF IInv, Shape, SupersededCancelled, Launched

\* A tame step keeps what the launch establishes.
LEMMA TameKeeps == IInv /\ Tame /\ Shape' => IInv'
  BY DEF IInv, Tame, SupersededCancelled, Launched

\* Every step of the system keeps the invariant.
LEMMA NextIInv == IInv /\ [Next]_vars => IInv'
<1> SUFFICES ASSUME IInv, [Next]_vars PROVE IInv'
  OBVIOUS
<1>0. Shape
  BY DEF IInv
<1>1. CASE UserSteps \/ GossipReact
  BY <1>0, <1>1, UserTame, TameKeeps
<1>2. CASE PlayerEnds
  BY <1>0, <1>2, TameKeeps DEF PlayerEnds, rvars, Tame, Shape, Launched
<1>3. ASSUME NEW t \in Threads, ThreadStep(t) PROVE IInv'
  <2>1. CASE t = Client /\ (SkipSteps \/ PlayerCompleted)
    BY <1>0, <2>1, UserTame, TameKeeps
  <2>2. CASE QueueSteps(t)
    BY <1>0, <2>2, QueueTame, TameKeeps, LaunchKeeps
  <2>3. CASE t \in Runs /\ RunSteps(t)
    BY <1>0, <2>3, RunTame, TameKeeps
  <2> QED BY <1>3, <2>1, <2>2, <2>3 DEF ThreadStep
<1>4. ASSUME NEW r \in Runs, Fail(r) PROVE IInv'
  BY <1>0, <1>4, RunTame, TameKeeps
<1>5. CASE UNCHANGED vars
  BY <1>5 DEF vars, IInv, Shape, SupersededCancelled, Launched
<1> QED BY <1>1, <1>2, <1>3, <1>4, <1>5 DEF Next

\* EnsureRunnerState never loses track of an encoder: every run but the one
\* n.runnerCtx belongs to has been told to stop, however many threads
\* re-evaluate the queue, and in whatever order.
THEOREM SupersededAlwaysCancelled == Spec => []SupersededCancelled
<1>1. IInv => SupersededCancelled
  BY DEF IInv
<1> QED BY InitIInv, NextIInv, <1>1, PTL DEF Spec

-----------------------------------------------------------------------------
(* n.mu, which EnsureRunnerState locks and unlocks by hand.                *)

\* Where EnsureRunnerState has n.mu between two of its critical sections.
Inside == {"tag", "write", "launch"}

\* The lock is that thread's which is inside, and no other is: two threads
\* never decide on a launch at the same time, and who is out has let go of it.
LockHeldInside == \A t \in Threads : pc[t] \in Inside <=> lock = t

LInv == Shape /\ LockHeldInside

\* A thread that stays out, or in, and leaves the lock alone.
LEMMA GotoHolds ==
  ASSUME LInv, NEW t \in Threads, NEW from, NEW to, Goto(t, from, to),
         from \in Inside <=> to \in Inside, UNCHANGED lock
  PROVE  LockHeldInside'
<1>1. /\ pc[t] = from /\ pc'[t] = to
      /\ \A u \in Threads \ {t} : pc'[u] = pc[u]
  BY DEF Goto, LInv, Shape
<1> QED BY <1>1 DEF LInv, LockHeldInside

\* Who has nothing left to do is out.
LEMMA RestOutside == \A t : Rest(t) \notin Inside
BY DEF Rest, Inside

\* The commands of the user, the steps of a skip, and the player's report.
LEMMA UserHolds ==
  ASSUME LInv, UserSteps \/ SkipSteps \/ PlayerCompleted \/ GossipReact
  PROVE  LockHeldInside'
<1> USE ThreadKinds DEF Inside
<1>1. ASSUME NEW f \in Files, AppendCmd(f) PROVE LockHeldInside'
  BY <1>1, GotoHolds DEF AppendCmd, UserCommand
<1>2. ASSUME NEW i \in Positions(queue), RemoveCmd(i) PROVE LockHeldInside'
  BY <1>2, GotoHolds DEF RemoveCmd, UserCommand
<1>3. CASE ClearCmd
  BY <1>3, GotoHolds DEF ClearCmd, UserCommand
<1>4. ASSUME NEW c \in Commands, SkipCmd(c) PROVE LockHeldInside'
  BY <1>4, GotoHolds DEF SkipCmd, UserCommand
<1>5. CASE SkipStop
  BY <1>5, GotoHolds DEF SkipStop
<1>6. CASE SkipSeq
  BY <1>6, GotoHolds DEF SkipSeq
<1>7. CASE UpdateGlobalMediaSequence(Client, "skipUpdate", "skipMove")
  BY <1>7, GotoHolds DEF UpdateGlobalMediaSequence
<1>8. CASE SkipMove
  BY <1>8, GotoHolds DEF SkipMove
<1>9. CASE PlayerCompleted
  BY <1>9, GotoHolds DEF PlayerCompleted
<1>10. CASE GossipReact
  BY <1>10, GotoHolds DEF GossipReact
<1> QED BY <1>1, <1>2, <1>3, <1>4, <1>5, <1>6, <1>7, <1>8, <1>9, <1>10
        DEF UserSteps, SkipSteps

\* The queue's re-evaluation: EnsureCheck takes the free lock, EnsureLaunch
\* gives it back.
LEMMA QueueHolds ==
  ASSUME LInv, NEW t \in Threads, QueueSteps(t)
  PROVE  LockHeldInside'
<1> USE RestOutside DEF Inside
<1>1. CASE Stop(t)
  BY <1>1, GotoHolds DEF Stop
<1>2. CASE Check(t)
  BY <1>2, GotoHolds DEF Check
<1>3. CASE InternalNext(t)
  BY <1>3, GotoHolds DEF InternalNext
<1>4. CASE Forget(t)
  BY <1>4, GotoHolds DEF Forget
<1>5. CASE React(t)
  BY <1>5, GotoHolds DEF React
<1>6. CASE GetNextStartSequence(t)
  BY <1>6, GotoHolds DEF GetNextStartSequence
<1>7. CASE EnsureActive(t) \/ EnsureStopped(t)
  <2>1. Goto(t, "ensure", "forget") \/ Goto(t, "ensure", Rest(t))
    BY <1>7 DEF EnsureActive, EnsureStopped, Finish
  <2> QED BY <1>7, <2>1, GotoHolds DEF EnsureActive, EnsureStopped
<1>8. CASE EnsureCheck(t)
  <2>1. /\ lock = None /\ lock' = t /\ pc'[t] = "tag"
        /\ \A u \in Threads \ {t} : pc'[u] = pc[u]
    BY <1>8 DEF EnsureCheck, Goto, LInv, Shape
  <2>2. \A u \in Threads : u # None
    BY BoundsAssumption DEF Threads, None
  <2> QED BY <2>1, <2>2 DEF LInv, LockHeldInside
<1>9. CASE EnsureTag(t)
  BY <1>9, GotoHolds DEF EnsureTag
<1>10. CASE EnsureWrite(t)
  BY <1>10, GotoHolds DEF EnsureWrite
<1>11. CASE EnsureLaunch(t)
  <2>1. /\ pc[t] = "launch" /\ lock' = None
        /\ \E r : pc' = [pc EXCEPT ![r] = "spawned",
                                   ![t] = IF local[t].stream # None THEN "forget" ELSE Rest(t)]
    BY <1>11 DEF EnsureLaunch
  <2>2. PICK r : pc' = [pc EXCEPT ![r] = "spawned",
                                  ![t] = IF local[t].stream # None THEN "forget" ELSE Rest(t)]
    BY <2>1
  <2>3. \A u \in Threads \ {t} : pc[u] \notin Inside
    BY <2>1 DEF LInv, LockHeldInside
  <2>4. pc'[t] \notin Inside
    BY <2>2 DEF LInv, Shape
  <2>5. \A u \in Threads \ {t} : pc'[u] \notin Inside
    BY <2>2, <2>3 DEF LInv, Shape
  <2>6. \A u \in Threads : u # None
    BY BoundsAssumption DEF Threads, None
  <2> QED BY <2>1, <2>4, <2>5, <2>6 DEF LockHeldInside
<1> QED BY <1>1, <1>2, <1>3, <1>4, <1>5, <1>6, <1>7, <1>8, <1>9, <1>10, <1>11
        DEF QueueSteps

\* A run's own goroutine is never inside before it advances the queue.
LEMMA RunHolds ==
  ASSUME LInv, NEW r \in Runs, RunSteps(r) \/ Fail(r)
  PROVE  LockHeldInside'
<1> USE ThreadKinds DEF Inside
<1>1. CASE StartAgain(r) \/ Start(r) \/ Loop(r)
  BY <1>1, GotoHolds DEF StartAgain, Start, Loop
<1>2. CASE LoopCancelled(r)
  <2>1. /\ UNCHANGED lock /\ pc[r] = "loop"
        /\ \A s \in Threads : pc'[s] = IF s = r THEN "cleanup"
             ELSE IF s = runner.cmd /\ pc[s] = "ffmpeg" THEN "exited" ELSE pc[s]
    BY <1>2 DEF LoopCancelled, Streaming
  <2> QED BY <2>1 DEF LInv, LockHeldInside
<1>3. CASE Exec(r) \/ ExecSuperseded(r)
  BY <1>3, GotoHolds DEF Exec, ExecSuperseded
<1>4. CASE Segment(r)
  BY <1>4 DEF Segment, LInv, LockHeldInside
<1>5. CASE Eof(r) \/ Killed(r) \/ Fail(r)
  BY <1>5, GotoHolds DEF Eof, Killed, Fail
<1>6. CASE Exited(r)
  BY <1>6, GotoHolds DEF Exited
<1>7. CASE Retry(r)
  BY <1>7, GotoHolds DEF Retry
<1>8. CASE Cleanup(r) \/ Returned(r)
  BY <1>8, GotoHolds DEF Cleanup, Returned
<1>9. CASE Report(r)
  BY <1>9, GotoHolds DEF Report
<1>10. CASE UpdateGlobalMediaSequence(r, "update", "notify")
  BY <1>10, GotoHolds DEF UpdateGlobalMediaSequence
<1>11. CASE Notify(r)
  BY <1>11, GotoHolds DEF Notify
<1> QED BY <1>1, <1>2, <1>3, <1>4, <1>5, <1>6, <1>7, <1>8, <1>9, <1>10, <1>11 DEF RunSteps

\* Every step keeps the lock with who is inside.
LEMMA NextHolds == IInv /\ LInv /\ [Next]_vars => LockHeldInside'
<1> SUFFICES ASSUME LInv, [Next]_vars PROVE LockHeldInside'
  OBVIOUS
<1>1. CASE UserSteps \/ GossipReact
  BY <1>1, UserHolds
<1>2. CASE PlayerEnds
  BY <1>2 DEF PlayerEnds, LInv, LockHeldInside
<1>3. ASSUME NEW t \in Threads, ThreadStep(t) PROVE LockHeldInside'
  <2>1. CASE t = Client /\ (SkipSteps \/ PlayerCompleted)
    BY <2>1, UserHolds
  <2>2. CASE QueueSteps(t)
    BY <2>2, QueueHolds
  <2>3. CASE t \in Runs /\ RunSteps(t)
    BY <2>3, RunHolds
  <2> QED BY <1>3, <2>1, <2>2, <2>3 DEF ThreadStep
<1>4. ASSUME NEW r \in Runs, Fail(r) PROVE LockHeldInside'
  BY <1>4, RunHolds
<1>5. CASE UNCHANGED vars
  BY <1>5 DEF vars, LInv, LockHeldInside
<1> QED BY <1>1, <1>2, <1>3, <1>4, <1>5 DEF Next

\* n.mu is held by the thread that is between EnsureRunnerState's check and its
\* launch, and by nobody else: no path leaves with it, and no two threads launch
\* at once, however many there are.
THEOREM LockAlwaysHeldInside == Spec => []LockHeldInside
<1>1. Init => LockHeldInside
  <2>1. \A t \in Threads : t # None
    BY BoundsAssumption DEF Threads, None
  <2> QED BY <2>1 DEF Init, LockHeldInside, Inside
<1>2. IInv => Shape
  BY DEF IInv
<1>3. IInv /\ LockHeldInside /\ [Next]_vars => LockHeldInside'
  BY NextHolds DEF LInv, IInv
<1> QED BY InitIInv, NextIInv, <1>1, <1>3, PTL DEF Spec

-----------------------------------------------------------------------------
(* Types: all numbers are those of the streams launched so far.            *)

\* Nobody has counted beyond n.
Below(n) == mediaSeq <= n /\ nextSeq <= n /\ \A t \in Threads : local[t].base <= n

\* Runs are launched in order, and each takes up SegsPerFile numbers at most.
Numbered ==
  /\ \A r \in Launched : runs[r].seq <= (r - 1) * SegsPerFile
  /\ \A s \in Runs \ Launched : Below((s - 1) * SegsPerFile) /\ \A r \in Launched : r < s

\* Who is about to write an entry has one.
Tagged == \A t \in Threads : pc[t] = "write" => local[t].entry \in Entry

\* Runs are launched one after the other, and who has decided on a launch has
\* a run to launch.
InOrder ==
  /\ \E n \in Nat : Launched = 1 .. n
  /\ lock # None => \E r \in Runs : r \notin Launched

TInv == TypeOK /\ Numbered /\ Tagged /\ InOrder

\* The numbers of one run end where those of the next may begin.
LEMMA Products ==
  ASSUME NEW r \in Runs, NEW s \in Int, r < s
  PROVE  /\ (r - 1) * SegsPerFile \in Nat /\ (s - 1) * SegsPerFile \in Nat
         /\ (r - 1) * SegsPerFile + SegsPerFile <= (s - 1) * SegsPerFile
<1> DEFINE d == s - 1 - r
<1>1. r \in Nat /\ r > 0 /\ SegsPerFile \in Nat /\ d \in Nat
  BY BoundsAssumption DEF Runs
<1>2. d * SegsPerFile \in Nat /\ (r - 1) * SegsPerFile \in Nat
  BY <1>1
<1>3. (s - 1) * SegsPerFile = (r - 1) * SegsPerFile + SegsPerFile + d * SegsPerFile
  BY <1>1
<1> QED BY <1>1, <1>2, <1>3

\* Streams are natural numbers, and every run's may be counted to its end.
LEMMA StreamsAre ==
  /\ MaxStream \in Nat /\ 0 \in Streams /\ Streams \subseteq Nat
  /\ \A r \in Runs : (r - 1) * SegsPerFile + SegsPerFile <= MaxStream
<1>1. MaxStream \in Nat
  BY BoundsAssumption DEF MaxStream
<1>2. ASSUME NEW r \in Runs PROVE (r - 1) * SegsPerFile + SegsPerFile <= MaxStream
  <2>1. MaxRuns + 1 \in Int /\ r < MaxRuns + 1 /\ (MaxRuns + 1) - 1 = MaxRuns
    BY BoundsAssumption DEF Runs
  <2> QED BY <2>1, Products DEF MaxStream
<1> QED BY <1>1, <1>2 DEF Streams

\* A thread moves on.
LEMMA GotoType ==
  ASSUME TypeOK, NEW t \in Threads, NEW from, NEW to \in Stage, Goto(t, from, to)
  PROVE  /\ pc' \in [Threads -> Stage] /\ pc[t] = from /\ pc'[t] = to
         /\ \A u \in Threads \ {t} : pc'[u] = pc[u]
         /\ (t \in Runs => from # "idle" /\ to # "idle") => Launched' = Launched
  BY ThreadKinds DEF Goto, TypeOK, Launched

\* What a thread knows.
LEMMA LocalType ==
  ASSUME TypeOK, NEW t \in Threads
  PROVE  /\ local[t] \in Locals /\ NoLocals \in Locals
         /\ local[t].base \in Streams /\ local[t].stream \in Streams \union {None}
         /\ local[t].file \in Files \union {NoFile} /\ local[t].entry \in Entry \union {NoEntry}
         /\ \A new \in Locals : [local EXCEPT ![t] = new] \in [Threads -> Locals]
         /\ \A s \in Streams : [local EXCEPT ![t].base = s] \in [Threads -> Locals]
<1>1. local \in [Threads -> Locals]
  BY DEF TypeOK
<1>2. NoLocals \in Locals
  BY StreamsAre DEF Locals, NoLocals
<1>3. /\ local[t].base \in Streams /\ local[t].stream \in Streams \union {None}
      /\ local[t].file \in Files \union {NoFile} /\ local[t].entry \in Entry \union {NoEntry}
  BY <1>1 DEF Locals
<1>4. \A s \in Streams : [local[t] EXCEPT !.base = s] \in Locals
  BY <1>1 DEF Locals
<1>5. \A s \in Streams : [local EXCEPT ![t].base = s] \in [Threads -> Locals]
  BY <1>1, <1>4
<1> QED BY <1>1, <1>2, <1>3, <1>5

\* A thread learns something, or a number.
LEMMA LearnType ==
  ASSUME TypeOK, NEW t \in Threads, NEW new \in Locals, local' = [local EXCEPT ![t] = new]
  PROVE  local' \in [Threads -> Locals] /\ local'[t] = new /\ \A u \in Threads \ {t} : local'[u] = local[u]
  BY LocalType DEF TypeOK

LEMMA BaseType ==
  ASSUME TypeOK, NEW t \in Threads, NEW s \in Streams, local' = [local EXCEPT ![t].base = s]
  PROVE  /\ local' \in [Threads -> Locals] /\ local'[t] = [local[t] EXCEPT !.base = s]
         /\ local'[t].base = s /\ \A u \in Threads \ {t} : local'[u] = local[u]
<1>1. local \in [Threads -> Locals] /\ local' \in [Threads -> Locals]
  BY LocalType DEF TypeOK
<1>2. local'[t] = [local[t] EXCEPT !.base = s] /\ \A u \in Threads \ {t} : local'[u] = local[u]
  BY <1>1
<1>3. [local[t] EXCEPT !.base = s].base = s
  BY <1>1 DEF Locals
<1> QED BY <1>1, <1>2, <1>3

\* What is changed of a run.
LEMMA RunType ==
  ASSUME TypeOK, NEW r \in Runs
  PROVE  /\ runs[r] \in Run /\ NoRun \in Run
         /\ [runs EXCEPT ![r].cancelled = TRUE] \in [Runs -> Run]
         /\ \A b \in BOOLEAN : [runs EXCEPT ![r].ok = b] \in [Runs -> Run]
         /\ \A n \in 0 .. SegsPerFile : [runs EXCEPT ![r].sent = n] \in [Runs -> Run]
<1>1. runs \in [Runs -> Run]
  BY DEF TypeOK
<1>2. NoRun \in Run
  BY StreamsAre, BoundsAssumption DEF Run, NoRun
<1>3. /\ [runs[r] EXCEPT !.cancelled = TRUE] \in Run
      /\ \A b \in BOOLEAN : [runs[r] EXCEPT !.ok = b] \in Run
      /\ \A n \in 0 .. SegsPerFile : [runs[r] EXCEPT !.sent = n] \in Run
  BY <1>1 DEF Run
<1> QED BY <1>1, <1>2, <1>3

\* Cancelling keeps the runs' types and numbers.
LEMMA CancelType ==
  ASSUME TypeOK, CancelRun(runCtx)
  PROVE  runs' \in [Runs -> Run] /\ \A r \in Runs : runs'[r].seq = runs[r].seq
<1>1. CASE runCtx = None
  BY <1>1 DEF CancelRun, TypeOK
<1>2. CASE runCtx # None
  <2>1. runCtx \in Runs /\ runs' = [runs EXCEPT ![runCtx].cancelled = TRUE]
    BY <1>2 DEF CancelRun, TypeOK
  <2>2. runs' \in [Runs -> Run]
    BY <2>1, RunType
  <2> QED BY <2>1, <2>2 DEF TypeOK, Run
<1> QED BY <1>1, <1>2

\* A step in which a thread reads or counts no more than is there.
LEMMA NumberedStays ==
  ASSUME TInv, TypeOK', Launched' = Launched, \A r \in Launched : runs'[r].seq = runs[r].seq,
         nextSeq' = nextSeq, mediaSeq' = mediaSeq \/ \E u \in Threads : mediaSeq' = local[u].base,
         \A u \in Threads : local'[u].base \in {0, mediaSeq, nextSeq, local[u].base}
  PROVE  Numbered'
<1>1. ASSUME NEW n \in Nat, Below(n) PROVE Below(n)'
  BY <1>1 DEF Below
<1>2. \A s \in Runs : (s - 1) * SegsPerFile \in Nat
  BY BoundsAssumption DEF Runs
<1> QED BY <1>1, <1>2 DEF TInv, Numbered

\* What removing position i leaves: one entry less, those behind i moved up.
LEMMA RemoveAtResult ==
  ASSUME NEW S, NEW s \in Seq(S), NEW i \in 1 .. Len(s)
  PROVE  /\ RemoveAt(s, i) \in Seq(S)
         /\ Len(RemoveAt(s, i)) = Len(s) - 1
         /\ \A k \in 1 .. Len(s) - 1 :
              RemoveAt(s, i)[k] = IF k < i THEN s[k] ELSE s[k + 1]
<1> DEFINE front == SubSeq(s, 1, i - 1)
           back == SubSeq(s, i + 1, Len(s))
<1>1. /\ front \in Seq(S) /\ Len(front) = i - 1
      /\ \A k \in 1 .. i - 1 : front[k] = s[k]
  OBVIOUS
<1>2. /\ back \in Seq(S) /\ Len(back) = Len(s) - i
      /\ \A k \in 1 .. Len(s) - i : back[k] = s[i + k]
  OBVIOUS
<1>3. RemoveAt(s, i) = front \o back
  BY DEF RemoveAt
<1> HIDE DEF front, back
<1>4. Len(front) + Len(back) = Len(s) - 1
  BY <1>1, <1>2
<1>5. /\ front \o back \in Seq(S)
      /\ Len(front \o back) = Len(front) + Len(back)
      /\ \A k \in 1 .. Len(front) + Len(back) :
           (front \o back)[k] = IF k <= Len(front) THEN front[k]
                               ELSE back[k - Len(front)]
  BY <1>1, <1>2, ConcatProperties
<1>6. ASSUME NEW k \in 1 .. Len(s) - 1
      PROVE  (front \o back)[k] = IF k < i THEN s[k] ELSE s[k + 1]
  <2>1. CASE k < i
    BY <1>1, <1>4, <1>5, <2>1
  <2>2. CASE ~(k < i)
    <3>1. /\ ~(k <= Len(front))
          /\ k - Len(front) \in 1 .. Len(s) - i
          /\ i + (k - Len(front)) = k + 1
      BY <1>1, <2>2
    <3>2. (front \o back)[k] = back[k - Len(front)]
      BY <1>4, <1>5, <3>1
    <3>3. back[k - Len(front)] = s[k + 1]
      BY <1>2, <3>1
    <3> QED BY <2>2, <3>2, <3>3
  <2> QED BY <2>1, <2>2
<1> QED BY <1>3, <1>4, <1>5, <1>6

-----------------------------------------------------------------------------
\* What is not counted nor a thread's own.
RestOK ==
  /\ queue \in [items : Seq(Entry), cursor : Nat]
  /\ encDone \subseteq Streams /\ playDone \subseteq Streams
  /\ runCtx \in Runs \union {None}
  /\ runner \in [running : BOOLEAN, file : Files \union {NoFile}, seq : Streams,
                 cmd : Runs \union {None}]
  /\ lock \in Threads \union {None}
  /\ player \in [stream : Streams \union {None}, reported : BOOLEAN]
  /\ inbox \in Seq(Streams)
  /\ count \in [commands : 0 .. MaxCommands, disturbances : 0 .. MaxDisturbances]

\* A thread that moves on, reads and counts, but launches no run.
LEMMA StepKeeps ==
  ASSUME TInv, NEW t \in Threads, NEW from, NEW to \in Stage, Goto(t, from, to),
         t \in Runs => from # "idle" /\ to # "idle",
         RestOK', nextSeq' = nextSeq, mediaSeq' \in {mediaSeq, local[t].base},
         local' \in [Threads -> Locals], \A u \in Threads \ {t} : local'[u] = local[u],
         local'[t].base \in {0, mediaSeq, nextSeq, local[t].base},
         to = "write" => local'[t].entry \in Entry,
         lock' = lock \/ \E s \in Runs : s \notin Launched,
         runs' \in [Runs -> Run], \A r \in Runs : runs'[r].seq = runs[r].seq
  PROVE  TInv'
<1>1. pc' \in [Threads -> Stage] /\ Launched' = Launched
  BY GotoType DEF TInv
<1>2. mediaSeq' \in Streams /\ nextSeq' \in Streams
  BY LocalType DEF TInv, TypeOK
<1>3. TypeOK'
  BY <1>1, <1>2 DEF RestOK, TypeOK
<1>4. Numbered'
  BY <1>1, <1>3, NumberedStays DEF Launched
<1>5. Tagged'
  BY GotoType DEF TInv, Tagged
<1>6. InOrder'
  BY <1>1 DEF TInv, InOrder
<1> QED BY <1>3, <1>4, <1>5, <1>6 DEF TInv

\* The same, of a thread that learns nothing.
LEMMA PlainKeeps ==
  ASSUME TInv, NEW t \in Threads, NEW from, NEW to \in Stage, Goto(t, from, to),
         t \in Runs => from # "idle" /\ to # "idle",
         to # "write", RestOK', UNCHANGED <<mediaSeq, nextSeq, local, runs>>,
         lock' = lock \/ \E s \in Runs : s \notin Launched
  PROVE  TInv'
<1>1. local \in [Threads -> Locals] /\ runs \in [Runs -> Run]
  BY DEF TInv, TypeOK
<1> QED BY <1>1, StepKeeps

\* The operations of the playlist keep its type.
LEMMA QueueTypes ==
  ASSUME NEW q \in [items : Seq(Entry), cursor : Nat]
  PROVE  /\ EmptyQueue \in [items : Seq(Entry), cursor : Nat]
         /\ \A e \in Entry : /\ AppendEntry(q, e) \in [items : Seq(Entry), cursor : Nat]
                             /\ SetCurrent(q, e) \in [items : Seq(Entry), cursor : Nat]
         /\ \A i \in Positions(q) : RemoveEntry(q, i) \in [items : Seq(Entry), cursor : Nat]
         /\ Advance(q) \in [items : Seq(Entry), cursor : Nat]
         /\ Rewind(q) \in [items : Seq(Entry), cursor : Nat]
         /\ HasCurrent(q) => Current(q) \in Entry
<1>1. q.items \in Seq(Entry) /\ q.cursor \in Nat /\ Len(q.items) \in Nat
  OBVIOUS
<1>2. EmptyQueue \in [items : Seq(Entry), cursor : Nat]
  BY DEF EmptyQueue
<1>3. ASSUME NEW e \in Entry PROVE AppendEntry(q, e) \in [items : Seq(Entry), cursor : Nat]
  BY <1>1 DEF AppendEntry
<1>4. ASSUME NEW e \in Entry PROVE SetCurrent(q, e) \in [items : Seq(Entry), cursor : Nat]
  <2>1. CASE HasCurrent(q)
    <3>1. [q EXCEPT !.items[q.cursor] = e] = [items |-> [q.items EXCEPT ![q.cursor] = e], cursor |-> q.cursor]
      OBVIOUS
    <3>2. [q.items EXCEPT ![q.cursor] = e] \in Seq(Entry)
      BY <1>1, <2>1, ExceptSeq DEF HasCurrent, Positions
    <3> QED BY <1>1, <2>1, <3>1, <3>2 DEF SetCurrent
  <2>2. CASE ~HasCurrent(q)
    BY <2>2 DEF SetCurrent
  <2> QED BY <2>1, <2>2
<1>5. ASSUME NEW i \in Positions(q) PROVE RemoveEntry(q, i) \in [items : Seq(Entry), cursor : Nat]
  <2> DEFINE rest == RemoveAt(q.items, i)
  <2>1. rest \in Seq(Entry) /\ Len(rest) \in Nat /\ i \in 1 .. Len(q.items)
    BY <1>1, RemoveAtResult DEF Positions
  <2> HIDE DEF rest
  <2>2. (IF q.cursor > i \/ q.cursor > Len(rest) THEN q.cursor - 1 ELSE q.cursor) \in Nat
    BY <1>1, <2>1
  <2> QED BY <2>1, <2>2 DEF RemoveEntry, rest
<1>6. Advance(q) \in [items : Seq(Entry), cursor : Nat] /\ Rewind(q) \in [items : Seq(Entry), cursor : Nat]
  BY <1>1 DEF Advance, CanAdvance, Rewind, CanRewind
<1>7. HasCurrent(q) => Current(q) \in Entry
  BY <1>1 DEF HasCurrent, Positions, Current
<1> QED BY <1>2, <1>3, <1>4, <1>5, <1>6, <1>7

\* Changing fields of what a thread knows, whatever the sets the fields are of.
LEMMA LocalsEdited ==
  ASSUME NEW S, NEW F, NEW B, NEW E, NEW C,
         NEW l \in [stream : S, file : F, base : B, entry : E, cmd : C],
         NEW c \in C, NEW e \in E, NEW s \in S
  PROVE  /\ [l EXCEPT !.cmd = c, !.entry = e] \in [stream : S, file : F, base : B, entry : E, cmd : C]
         /\ [l EXCEPT !.cmd = c, !.entry = e].base = l.base
         /\ [l EXCEPT !.stream = s] \in [stream : S, file : F, base : B, entry : E, cmd : C]
         /\ [l EXCEPT !.stream = s].base = l.base
<1>1. [l EXCEPT !.cmd = c, !.entry = e] \in [stream : S, file : F, base : B, entry : E, cmd : C]
  OBVIOUS
<1>2. [l EXCEPT !.cmd = c, !.entry = e].base = l.base
  OBVIOUS
<1>3. [l EXCEPT !.stream = s] \in [stream : S, file : F, base : B, entry : E, cmd : C]
  OBVIOUS
<1>4. [l EXCEPT !.stream = s].base = l.base
  OBVIOUS
<1> QED BY <1>1, <1>2, <1>3, <1>4

\* A thread learns a command and its entry.
LEMMA KnowsCmd ==
  ASSUME NEW l \in Locals, NEW c \in Commands, NEW e \in Entry \union {NoEntry}
  PROVE  [l EXCEPT !.cmd = c, !.entry = e] \in Locals /\ [l EXCEPT !.cmd = c, !.entry = e].base = l.base
<1>1. c \in Commands \union {""}
  OBVIOUS
<1> QED BY <1>1, LocalsEdited DEF Locals

\* A thread learns a stream.
LEMMA KnowsStream ==
  ASSUME NEW l \in Locals, NEW s \in Streams
  PROVE  [l EXCEPT !.stream = s] \in Locals /\ [l EXCEPT !.stream = s].base = l.base
<1>1. s \in Streams \union {None} /\ l.cmd \in Commands \union {""} /\ l.entry \in Entry \union {NoEntry}
  BY DEF Locals
<1> QED BY <1>1, LocalsEdited DEF Locals

\* The commands of the user, the steps of a skip, and the player's report.
LEMMA UserTypes ==
  ASSUME TInv, UserSteps \/ SkipSteps \/ PlayerCompleted \/ GossipReact
  PROVE  TInv'
<1> USE ThreadKinds
<1>0. TypeOK /\ RestOK
  BY DEF TInv, TypeOK, RestOK
<1>1. ASSUME NEW c, NEW to, UserCommand(c, to)
      PROVE  /\ count.commands + 1 \in 1 .. MaxCommands
             /\ count' \in [commands : 0 .. MaxCommands, disturbances : 0 .. MaxDisturbances]
  BY <1>0, <1>1, BoundsAssumption DEF UserCommand, RestOK
<1>2. ASSUME NEW f \in Files, AppendCmd(f) PROVE TInv'
  <2>1. [id |-> count.commands + 1, file |-> f, first |-> 0] \in Entry
    BY <1>1, <1>2, StreamsAre DEF AppendCmd, Entry
  <2>2. RestOK'
    BY <1>0, <1>1, <1>2, <2>1, QueueTypes DEF AppendCmd, RestOK, rvars
  <2>3. Goto(Client, "idle", "react") /\ "react" \in Stage
    BY <1>2 DEF AppendCmd, UserCommand, Stage
  <2> QED BY <1>2, <2>2, <2>3, PlainKeeps DEF AppendCmd, rvars
<1>3. ASSUME NEW i \in Positions(queue), RemoveCmd(i) PROVE TInv'
  <2>1. RestOK'
    BY <1>0, <1>1, <1>3, QueueTypes DEF RemoveCmd, RestOK, rvars
  <2>2. Goto(Client, "idle", "react") /\ "react" \in Stage
    BY <1>3 DEF RemoveCmd, UserCommand, Stage
  <2> QED BY <1>3, <2>1, <2>2, PlainKeeps DEF RemoveCmd, rvars
<1>4. CASE ClearCmd
  <2>1. RestOK'
    BY <1>0, <1>1, <1>4, QueueTypes DEF ClearCmd, RestOK, rvars
  <2>2. Goto(Client, "idle", "stop") /\ "stop" \in Stage
    BY <1>4 DEF ClearCmd, UserCommand, Stage
  <2> QED BY <1>4, <2>1, <2>2, PlainKeeps DEF ClearCmd, rvars
<1>5. ASSUME NEW c \in Commands, SkipCmd(c) PROVE TInv'
  <2> DEFINE e == IF HasCurrent(queue) THEN Current(queue) ELSE NoEntry
             new == [local[Client] EXCEPT !.cmd = c, !.entry = e]
  <2>1. RestOK'
    BY <1>0, <1>1, <1>5 DEF SkipCmd, RestOK, rvars, qvars
  <2>2. Goto(Client, "idle", "skipStop") /\ "skipStop" \in Stage
    BY <1>5 DEF SkipCmd, UserCommand, Stage
  <2>3. e \in Entry \union {NoEntry}
    BY <1>0, QueueTypes DEF RestOK
  <2> HIDE DEF e
  <2>4. new \in Locals /\ new.base = local[Client].base
    <3>1. local[Client] \in Locals
      BY <1>0, LocalType
    <3> QED BY <2>3, <3>1, KnowsCmd
  <2>5. local' = [local EXCEPT ![Client] = new]
    BY <1>5 DEF SkipCmd, e
  <2> HIDE DEF new
  <2>6. local' \in [Threads -> Locals] /\ local'[Client] = new /\ \A u \in Threads \ {Client} : local'[u] = local[u]
    BY <1>0, <2>4, <2>5, LocalType DEF TypeOK
  <2> QED BY <1>0, <1>5, <2>1, <2>2, <2>4, <2>6, StepKeeps DEF SkipCmd, rvars, qvars, TypeOK
<1>6. CASE SkipStop
  <2> DEFINE to == IF local[Client].entry # NoEntry THEN "skipSeq" ELSE "skipMove"
  <2>1. Goto(Client, "skipStop", to) /\ to \in Stage /\ to # "write"
    BY <1>6 DEF SkipStop, Stage
  <2>2. RestOK' /\ local' \in [Threads -> Locals]
    BY <1>0, <1>6 DEF SkipStop, RestOK, qvars, TypeOK
  <2>3. runs' \in [Runs -> Run] /\ \A r \in Runs : runs'[r].seq = runs[r].seq
    BY <1>0, <1>6, CancelType DEF SkipStop
  <2> HIDE DEF to
  <2> QED BY <1>6, <2>1, <2>2, <2>3, StepKeeps DEF SkipStop, qvars
<1>7. CASE SkipSeq
  <2>1. Goto(Client, "skipSeq", "skipUpdate") /\ "skipUpdate" \in Stage
    BY <1>7 DEF SkipSeq, Stage
  <2>2. RestOK'
    BY <1>0, <1>7 DEF SkipSeq, RestOK, qvars, rvars
  <2>3. nextSeq \in Streams /\ local' = [local EXCEPT ![Client].base = nextSeq]
    BY <1>0, <1>7 DEF SkipSeq, TypeOK
  <2>4. /\ local' \in [Threads -> Locals] /\ local'[Client].base = nextSeq
        /\ \A u \in Threads \ {Client} : local'[u] = local[u]
    BY <1>0, <2>3, BaseType
  <2> QED BY <1>0, <1>7, <2>1, <2>2, <2>4, StepKeeps DEF SkipSeq, qvars, rvars, TypeOK
<1>8. CASE UpdateGlobalMediaSequence(Client, "skipUpdate", "skipMove")
  <2>1. Goto(Client, "skipUpdate", "skipMove") /\ "skipMove" \in Stage
    BY <1>8 DEF UpdateGlobalMediaSequence, Stage
  <2>2. RestOK'
    BY <1>0, <1>8 DEF UpdateGlobalMediaSequence, RestOK, rvars
  <2>3. mediaSeq' \in {mediaSeq, local[Client].base}
    BY <1>8 DEF UpdateGlobalMediaSequence, Later
  <2> QED BY <1>0, <1>8, <2>1, <2>2, <2>3, StepKeeps DEF UpdateGlobalMediaSequence, rvars, TypeOK
<1>9. CASE SkipMove
  <2>1. Goto(Client, "skipMove", "react") /\ "react" \in Stage
    BY <1>9 DEF SkipMove, Stage
  <2>2. RestOK'
    BY <1>0, <1>9, QueueTypes DEF SkipMove, RestOK, rvars
  <2>3. /\ local' \in [Threads -> Locals] /\ local'[Client].base = 0
        /\ \A u \in Threads \ {Client} : local'[u] = local[u]
    BY <1>0, <1>9, LocalType DEF SkipMove, TypeOK, NoLocals
  <2> QED BY <1>0, <1>9, <2>1, <2>2, <2>3, StepKeeps DEF SkipMove, rvars, TypeOK
<1>10. CASE PlayerCompleted
  <2>1. Goto(Client, "idle", "check") /\ "check" \in Stage
    BY <1>10 DEF PlayerCompleted, Stage
  <2>2. Head(inbox) \in Streams /\ Tail(inbox) \in Seq(Streams)
    BY <1>0, <1>10 DEF PlayerCompleted, RestOK
  <2>3. RestOK'
    BY <1>0, <1>10, <2>2 DEF PlayerCompleted, RestOK, rvars
  <2>4. /\ local' \in [Threads -> Locals] /\ local'[Client].base = local[Client].base
        /\ \A u \in Threads \ {Client} : local'[u] = local[u]
    <3> DEFINE new == [local[Client] EXCEPT !.stream = Head(inbox)]
    <3>1. new \in Locals /\ new.base = local[Client].base
      <4>1. local[Client] \in Locals
        BY <1>0, LocalType
      <4> QED BY <2>2, <4>1, KnowsStream
    <3>2. local' = [local EXCEPT ![Client] = new]
      BY <1>10 DEF PlayerCompleted
    <3> HIDE DEF new
    <3> QED BY <1>0, <3>1, <3>2, LocalType DEF TypeOK
  <2> QED BY <1>0, <1>10, <2>1, <2>3, <2>4, StepKeeps DEF PlayerCompleted, rvars, TypeOK
<1>11. CASE GossipReact
  <2>1. Goto(Gossip, "idle", "react") /\ "react" \in Stage
    BY <1>11 DEF GossipReact, Stage
  <2>2. RestOK'
    BY <1>0, <1>11, BoundsAssumption DEF GossipReact, RestOK, rvars, qvars
  <2> QED BY <1>0, <1>11, <2>1, <2>2, PlainKeeps DEF GossipReact, rvars, qvars
<1> QED BY <1>2, <1>3, <1>4, <1>5, <1>6, <1>7, <1>8, <1>9, <1>10, <1>11 DEF UserSteps, SkipSteps

\* The queue's re-evaluation, but for its launch.
LEMMA QueueStepTypes ==
  ASSUME TInv, NEW t \in Threads, QueueSteps(t), ~EnsureLaunch(t)
  PROVE  TInv'
<1>0. TypeOK /\ RestOK /\ local \in [Threads -> Locals] /\ NoLocals \in Locals /\ NoLocals.base = 0
  BY LocalType DEF TInv, TypeOK, RestOK, NoLocals
<1>1. Rest(t) \in Stage /\ Rest(t) # "write" /\ (t \in Runs => Rest(t) # "idle")
  BY DEF Rest, Stage
<1>2. CASE Stop(t)
  <2>1. Goto(t, "stop", "react") /\ "react" \in Stage
    BY <1>2 DEF Stop, Stage
  <2>2. RestOK'
    BY <1>0, <1>2 DEF Stop, RestOK, qvars
  <2>3. runs' \in [Runs -> Run] /\ \A r \in Runs : runs'[r].seq = runs[r].seq
    BY <1>0, <1>2, CancelType DEF Stop
  <2> QED BY <1>0, <1>2, <2>1, <2>2, <2>3, StepKeeps DEF Stop, qvars
<1>3. CASE Check(t)
  <2>1. PICK to \in {"next", Rest(t)} : Goto(t, "check", to)
    BY <1>3 DEF Check
  <2>2. to \in Stage /\ to # "write" /\ (t \in Runs => to # "idle")
    BY <1>1, <2>1 DEF Stage
  <2>3. RestOK' /\ UNCHANGED <<mediaSeq, nextSeq, runs, lock>>
    BY <1>0, <1>3 DEF Check, RestOK, rvars
  <2>4. local' = local \/ local' = [local EXCEPT ![t] = NoLocals]
    BY <1>3 DEF Check
  <2>5. /\ local' \in [Threads -> Locals] /\ local'[t].base \in {0, local[t].base}
        /\ \A u \in Threads \ {t} : local'[u] = local[u]
    BY <1>0, <2>4, LearnType
  <2> QED BY <1>0, <2>1, <2>2, <2>3, <2>5, StepKeeps DEF TypeOK
<1>4. CASE InternalNext(t)
  <2> DEFINE to == IF CanAdvance(queue) THEN "react" ELSE "stop"
  <2>1. Goto(t, "next", to) /\ to \in Stage /\ to \notin {"idle", "write"}
    BY <1>4 DEF InternalNext, Stage
  <2>2. RestOK'
    BY <1>0, <1>4, QueueTypes DEF InternalNext, RestOK, rvars
  <2> HIDE DEF to
  <2> QED BY <1>4, <2>1, <2>2, PlainKeeps DEF InternalNext, rvars
<1>5. CASE Forget(t)
  <2>1. Goto(t, "forget", Rest(t))
    BY <1>5 DEF Forget
  <2>2. RestOK' /\ UNCHANGED <<mediaSeq, nextSeq, runs, lock>>
    BY <1>0, <1>5 DEF Forget, RestOK, rvars
  <2>3. local' = [local EXCEPT ![t] = NoLocals]
    BY <1>5 DEF Forget
  <2>4. /\ local' \in [Threads -> Locals] /\ local'[t].base = 0
        /\ \A u \in Threads \ {t} : local'[u] = local[u]
    BY <1>0, <2>3, LearnType
  <2> QED BY <1>0, <1>1, <2>1, <2>2, <2>4, StepKeeps DEF TypeOK
<1>6. CASE React(t)
  <2> DEFINE to == IF HasCurrent(queue) THEN "base" ELSE "ensure"
             f == IF HasCurrent(queue) THEN Current(queue).file ELSE NoFile
             new == [local[t] EXCEPT !.file = f, !.base = 0]
  <2>1. Goto(t, "react", to) /\ to \in Stage /\ to \notin {"idle", "write"}
    BY <1>6 DEF React, Stage
  <2>2. RestOK' /\ UNCHANGED <<mediaSeq, nextSeq, runs, lock>>
    BY <1>0, <1>6 DEF React, RestOK, qvars, rvars
  <2>3. f \in Files \union {NoFile}
    BY <1>0, QueueTypes DEF RestOK, Entry
  <2>4. local' = [local EXCEPT ![t] = new]
    BY <1>6 DEF React
  <2> HIDE DEF f, to
  <2>5. new \in Locals /\ new.base = 0
    BY <1>0, <2>3, StreamsAre DEF Locals
  <2> HIDE DEF new
  <2>6. /\ local' \in [Threads -> Locals] /\ local'[t].base = 0
        /\ \A u \in Threads \ {t} : local'[u] = local[u]
    BY <1>0, <2>4, <2>5, LearnType
  <2> QED BY <1>0, <2>1, <2>2, <2>6, StepKeeps DEF TypeOK
<1>7. CASE GetNextStartSequence(t)
  <2>1. Goto(t, "base", "ensure") /\ "ensure" \in Stage
    BY <1>7 DEF GetNextStartSequence, Stage
  <2>2. RestOK' /\ UNCHANGED <<mediaSeq, nextSeq, runs, lock>>
    BY <1>0, <1>7 DEF GetNextStartSequence, RestOK, qvars, rvars
  <2>3. mediaSeq \in Streams /\ local' = [local EXCEPT ![t].base = mediaSeq]
    BY <1>0, <1>7 DEF GetNextStartSequence, TypeOK
  <2>4. /\ local' \in [Threads -> Locals] /\ local'[t].base = mediaSeq
        /\ \A u \in Threads \ {t} : local'[u] = local[u]
    BY <1>0, <2>3, BaseType
  <2> QED BY <1>0, <2>1, <2>2, <2>4, StepKeeps DEF TypeOK
<1>8. CASE EnsureActive(t) \/ EnsureStopped(t)
  <2>1. PICK to \in {"forget", Rest(t)} :
          Goto(t, "ensure", to) /\ (local' = local \/ local' = [local EXCEPT ![t] = NoLocals])
    BY <1>8 DEF EnsureActive, EnsureStopped, Finish
  <2>2. to \in Stage /\ to # "write" /\ (t \in Runs => to # "idle")
    BY <1>1, <2>1 DEF Stage
  <2>3. RestOK' /\ UNCHANGED <<mediaSeq, nextSeq, lock>>
    BY <1>0, <1>8 DEF EnsureActive, EnsureStopped, RestOK, qvars, rvars
  <2>4. /\ local' \in [Threads -> Locals] /\ local'[t].base \in {0, local[t].base}
        /\ \A u \in Threads \ {t} : local'[u] = local[u]
    BY <1>0, <2>1, LearnType
  <2>5. CancelRun(runCtx) \/ runs' = runs
    BY <1>8 DEF EnsureActive, EnsureStopped, rvars
  <2>6. runs' \in [Runs -> Run] /\ \A r \in Runs : runs'[r].seq = runs[r].seq
    BY <1>0, <2>5, CancelType DEF TypeOK
  <2> QED BY <1>0, <2>1, <2>2, <2>3, <2>4, <2>6, StepKeeps DEF TypeOK
<1>9. CASE EnsureCheck(t)
  <2>1. Goto(t, "ensure", "tag") /\ "tag" \in Stage
    BY <1>9 DEF EnsureCheck, Stage
  <2>2. RestOK'
    BY <1>0, <1>9 DEF EnsureCheck, RestOK, qvars, rvars
  <2>3. \E s \in Runs : s \notin Launched
    BY <1>9 DEF EnsureCheck, Launched
  <2> QED BY <1>9, <2>1, <2>2, <2>3, PlainKeeps DEF EnsureCheck, qvars, rvars
<1>10. CASE EnsureTag(t)
  <2>1. RestOK' /\ UNCHANGED <<mediaSeq, nextSeq, runs, lock>>
    BY <1>0, <1>10 DEF EnsureTag, RestOK, qvars, rvars
  <2>2. CASE HasCurrent(queue)
    <3> DEFINE e == [Current(queue) EXCEPT !.first = local[t].base]
               new == [local[t] EXCEPT !.entry = e]
    <3>1. Goto(t, "tag", "write") /\ "write" \in Stage
      BY <1>10, <2>2 DEF EnsureTag, Stage
    <3>2. local' = [local EXCEPT ![t] = new]
      BY <1>0, <1>10, <2>2 DEF EnsureTag
    <3>3. e \in Entry
      <4>1. Current(queue) \in Entry /\ local[t].base \in Streams
        BY <1>0, <2>2, QueueTypes, LocalType DEF RestOK
      <4> QED BY <4>1 DEF Entry
    <3> HIDE DEF e
    <3>4. new \in Locals /\ new.base = local[t].base /\ new.entry = e
      BY <1>0, <3>3 DEF Locals
    <3> HIDE DEF new
    <3>5. /\ local' \in [Threads -> Locals] /\ local'[t].base = local[t].base
          /\ local'[t].entry \in Entry
          /\ \A u \in Threads \ {t} : local'[u] = local[u]
      BY <1>0, <3>2, <3>3, <3>4, LearnType
    <3> QED BY <1>0, <2>1, <3>1, <3>5, StepKeeps DEF TypeOK
  <2>3. CASE ~HasCurrent(queue)
    <3>1. Goto(t, "tag", "launch") /\ "launch" \in Stage /\ local' = local
      BY <1>10, <2>3 DEF EnsureTag, Stage
    <3> QED BY <1>10, <2>1, <3>1, PlainKeeps DEF EnsureTag
  <2> QED BY <2>2, <2>3
<1>11. CASE EnsureWrite(t)
  <2>1. Goto(t, "write", "launch") /\ "launch" \in Stage
    BY <1>11 DEF EnsureWrite, Stage
  <2>2. queue' \in [items : Seq(Entry), cursor : Nat]
    <3>1. local[t].entry \in Entry
      BY <2>1 DEF Goto, TInv, Tagged
    <3> QED BY <1>0, <1>11, <3>1, QueueTypes DEF EnsureWrite, RestOK
  <2>3. RestOK'
    BY <1>0, <1>11, <2>2 DEF EnsureWrite, RestOK, rvars
  <2> QED BY <1>11, <2>1, <2>3, PlainKeeps DEF EnsureWrite, rvars
<1> QED BY <1>2, <1>3, <1>4, <1>5, <1>6, <1>7, <1>8, <1>9, <1>10, <1>11 DEF QueueSteps


\* The goroutine of a run, until it advances the queue.
LEMMA RunStepTypes ==
  ASSUME TInv, NEW r \in Runs, RunSteps(r) \/ Fail(r)
  PROVE  TInv'
<1>0. /\ TypeOK /\ RestOK /\ local \in [Threads -> Locals] /\ runs \in [Runs -> Run]
      /\ r \in Threads
      /\ runs[r].file \in Files \union {NoFile} /\ runs[r].seq \in Streams
      /\ runs[r].sent \in 0 .. SegsPerFile /\ runs[r].ok \in BOOLEAN /\ runs[r].cancelled \in BOOLEAN
  BY ThreadKinds DEF TInv, TypeOK, RestOK, Run
<1>1. ASSUME NEW b \in BOOLEAN, Ended(r, b)
      PROVE  runs' \in [Runs -> Run] /\ \A s \in Runs : runs'[s].seq = runs[s].seq
  BY <1>0, <1>1, RunType DEF Ended, Run
<1>2. CASE StartAgain(r)
  <2>1. Goto(r, "spawned", "returned") /\ "returned" \in Stage /\ RestOK'
    BY <1>0, <1>2 DEF StartAgain, Stage, RestOK, qvars
  <2> QED BY <1>0, <1>1, <1>2, <2>1, StepKeeps DEF StartAgain, qvars, TypeOK
<1>3. CASE Start(r)
  <2>1. Goto(r, "spawned", "loop") /\ "loop" \in Stage
    BY <1>3 DEF Start, Stage
  <2>2. runner' \in [running : BOOLEAN, file : Files \union {NoFile}, seq : Streams, cmd : Runs \union {None}]
    BY <1>0, <1>3 DEF Start, RestOK
  <2>3. RestOK'
    BY <1>0, <1>3, <2>2 DEF Start, RestOK, qvars
  <2> QED BY <1>0, <1>3, <2>1, <2>3, PlainKeeps DEF Start, qvars
<1>4. CASE LoopCancelled(r)
  <2>1. /\ UNCHANGED <<qvars, nextSeq, rvars, lock, local, player, inbox, count>>
        /\ pc[r] = "loop"
        /\ pc' = [s \in Threads |-> IF s = r THEN "cleanup"
                                    ELSE IF s = runner.cmd /\ pc[s] = "ffmpeg" THEN "exited" ELSE pc[s]]
    BY <1>4 DEF LoopCancelled, Streaming
  <2>2. pc' \in [Threads -> Stage]
    BY <1>0, <2>1 DEF Stage, TypeOK
  <2>3. TypeOK'
    BY <1>0, <2>1, <2>2 DEF TypeOK, qvars, rvars
  <2>4. Launched' = Launched
    BY <1>0, <2>1, ThreadKinds DEF Launched
  <2>5. Numbered'
    BY <2>1, <2>4 DEF TInv, Numbered, Below, qvars, rvars
  <2>6. Tagged'
    BY <2>1 DEF TInv, Tagged
  <2>7. InOrder'
    BY <2>1, <2>4 DEF TInv, InOrder
  <2> QED BY <2>3, <2>5, <2>6, <2>7 DEF TInv
<1>5. CASE Loop(r)
  <2>1. Goto(r, "loop", "exec") /\ "exec" \in Stage /\ RestOK'
    BY <1>0, <1>5 DEF Loop, Stage, RestOK, qvars, rvars
  <2> QED BY <1>0, <1>5, <2>1, PlainKeeps DEF Loop, qvars, rvars
<1>6. CASE Exec(r)
  <2>1. Goto(r, "exec", "ffmpeg") /\ "ffmpeg" \in Stage
    BY <1>6 DEF Exec, Stage
  <2>2. runner' \in [running : BOOLEAN, file : Files \union {NoFile}, seq : Streams, cmd : Runs \union {None}]
    BY <1>0, <1>6 DEF Exec, RestOK
  <2>3. RestOK'
    BY <1>0, <1>6, <2>2 DEF Exec, RestOK, qvars
  <2>4. 0 \in 0 .. SegsPerFile /\ runs' = [runs EXCEPT ![r].sent = 0]
    BY <1>6, BoundsAssumption DEF Exec
  <2>5. runs' \in [Runs -> Run] /\ \A s \in Runs : runs'[s].seq = runs[s].seq
    BY <1>0, <2>4, RunType DEF Run
  <2> QED BY <1>0, <1>6, <2>1, <2>3, <2>5, StepKeeps DEF Exec, qvars, TypeOK
<1>7. CASE ExecSuperseded(r)
  <2>1. Goto(r, "exec", "cleanup") /\ "cleanup" \in Stage /\ RestOK'
    BY <1>0, <1>7 DEF ExecSuperseded, Stage, RestOK, qvars, rvars
  <2> QED BY <1>0, <1>7, <2>1, PlainKeeps DEF ExecSuperseded, qvars, rvars
<1>8. CASE Segment(r)
  <2> DEFINE n == runs[r].seq + runs[r].sent + 1
  <2>0. /\ UNCHANGED <<qvars, runCtx, runner, lock, pc, local, player, inbox, count>>
        /\ pc[r] = "ffmpeg" /\ runs[r].sent + 1 \in 0 .. SegsPerFile
        /\ runs' = [runs EXCEPT ![r].sent = runs[r].sent + 1]
        /\ nextSeq' \in {nextSeq, n}
    BY <1>0, <1>8, BoundsAssumption DEF Segment, Streaming, Later
  <2>1. r \in Launched /\ runs[r].seq <= (r - 1) * SegsPerFile
    BY <2>0 DEF TInv, Numbered, Launched
  <2>2. /\ (r - 1) * SegsPerFile \in Int /\ runs[r].seq \in Nat
        /\ n \in Nat /\ n <= (r - 1) * SegsPerFile + SegsPerFile
    <3> DEFINE m == (r - 1) * SegsPerFile
    <3>1. m \in Int
      BY BoundsAssumption DEF Runs
    <3>2. runs[r].seq \in Nat /\ runs[r].seq <= m /\ SegsPerFile \in Nat
      BY <1>0, <2>1, StreamsAre, BoundsAssumption
    <3> HIDE DEF m
    <3>3. runs[r].sent \in Nat /\ runs[r].sent + 1 <= SegsPerFile
      BY <1>0, <2>0, <3>2
    <3>4. n \in Nat /\ n <= m + SegsPerFile
      BY <3>1, <3>2, <3>3
    <3> QED BY <3>1, <3>2, <3>4 DEF m
  <2>3. n \in Streams
    <3>1. n \in Nat /\ n <= MaxStream /\ MaxStream \in Nat
      <4> HIDE DEF n
      <4> QED BY <2>2, StreamsAre, BoundsAssumption
    <3> QED BY <3>1 DEF Streams
  <2>4. runs' \in [Runs -> Run] /\ \A s \in Runs : runs'[s].seq = runs[s].seq
    BY <1>0, <2>0, RunType DEF Run
  <2>5. TypeOK'
    BY <1>0, <2>0, <2>3, <2>4 DEF TypeOK, qvars
  <2>6. \A s \in Runs \ Launched : n <= (s - 1) * SegsPerFile
    <3> TAKE s \in Runs \ Launched
    <3>1. r < s /\ s \in Int
      BY <2>1 DEF TInv, Numbered, Runs
    <3>2. (s - 1) * SegsPerFile \in Nat /\ (r - 1) * SegsPerFile + SegsPerFile <= (s - 1) * SegsPerFile
      BY <3>1, Products
    <3> QED BY <2>2, <3>2, BoundsAssumption
  <2> HIDE DEF n
  <2>7. Numbered'
    BY <2>0, <2>4, <2>6 DEF TInv, Numbered, Below, Launched, qvars
  <2>8. Tagged'
    BY <2>0 DEF TInv, Tagged
  <2>9. InOrder'
    BY <2>0 DEF TInv, InOrder, Launched
  <2> QED BY <2>5, <2>7, <2>8, <2>9 DEF TInv
<1>9. CASE Eof(r)
  <2>1. Goto(r, "ffmpeg", "exited") /\ "exited" \in Stage /\ RestOK'
    BY <1>0, <1>9 DEF Eof, Stage, RestOK, qvars
  <2> QED BY <1>0, <1>1, <1>9, <2>1, StepKeeps DEF Eof, qvars, TypeOK
<1>10. CASE Killed(r)
  <2>1. Goto(r, "ffmpeg", "exited") /\ "exited" \in Stage /\ RestOK'
    BY <1>0, <1>10 DEF Killed, Stage, RestOK, qvars, rvars
  <2> QED BY <1>0, <1>10, <2>1, PlainKeeps DEF Killed, qvars, rvars
<1>11. CASE Fail(r)
  <2>1. Goto(r, "ffmpeg", "exited") /\ "exited" \in Stage
    BY <1>11 DEF Fail, Stage
  <2>2. count' \in [commands : 0 .. MaxCommands, disturbances : 0 .. MaxDisturbances]
    <3>1. /\ count \in [commands : 0 .. MaxCommands, disturbances : 0 .. MaxDisturbances]
          /\ count.disturbances < MaxDisturbances /\ MaxDisturbances \in Nat
          /\ count' = [count EXCEPT !.disturbances = @ + 1]
      BY <1>0, <1>11, BoundsAssumption DEF Fail, RestOK
    <3>2. count.disturbances + 1 \in 0 .. MaxDisturbances
      BY <3>1
    <3> QED BY <3>1, <3>2
  <2>3. RestOK'
    BY <1>0, <1>11, <2>2 DEF Fail, RestOK, qvars, rvars
  <2> QED BY <1>0, <1>11, <2>1, <2>3, PlainKeeps DEF Fail, qvars, rvars
<1>12. CASE Exited(r)
  <2>1. PICK to \in {"retry", "cleanup"} : Goto(r, "exited", to)
    BY <1>12 DEF Exited
  <2>2. to \in Stage /\ RestOK'
    BY <1>0, <1>12, <2>1 DEF Exited, Stage, RestOK, qvars
  <2>3. PICK b \in BOOLEAN : Ended(r, b)
    BY <1>0, <1>12 DEF Exited
  <2>4. runs' \in [Runs -> Run] /\ \A s \in Runs : runs'[s].seq = runs[s].seq
    BY <1>1, <2>3
  <2> QED BY <1>0, <1>12, <2>1, <2>2, <2>4, StepKeeps DEF Exited, qvars, TypeOK
<1>13. CASE Retry(r)
  <2>1. PICK to \in {"loop", "cleanup"} : Goto(r, "retry", to)
    BY <1>13 DEF Retry
  <2>2. to \in Stage /\ RestOK'
    BY <1>0, <1>13, <2>1 DEF Retry, Stage, RestOK, qvars, rvars
  <2> QED BY <1>0, <1>13, <2>1, <2>2, PlainKeeps DEF Retry, qvars, rvars
<1>14. CASE Cleanup(r)
  <2>1. Goto(r, "cleanup", "returned") /\ "returned" \in Stage
    BY <1>14 DEF Cleanup, Stage
  <2>2. runner' \in [running : BOOLEAN, file : Files \union {NoFile}, seq : Streams, cmd : Runs \union {None}]
    BY <1>0, <1>14 DEF Cleanup, RestOK
  <2>3. RestOK'
    BY <1>0, <1>14, <2>2 DEF Cleanup, RestOK, qvars
  <2> QED BY <1>0, <1>14, <2>1, <2>3, PlainKeeps DEF Cleanup, qvars
<1>15. CASE Returned(r)
  <2>1. PICK to \in {"report", "done"} : Goto(r, "returned", to)
    BY <1>15 DEF Returned
  <2>2. to \in Stage /\ RestOK'
    BY <1>0, <1>15, <2>1 DEF Returned, Stage, RestOK, qvars, rvars
  <2> QED BY <1>0, <1>15, <2>1, <2>2, PlainKeeps DEF Returned, qvars, rvars
<1>16. CASE Report(r)
  <2>1. PICK to \in {"update", "done"} :
          Goto(r, "report", to) /\ (local' = local \/ local' = [local EXCEPT ![r].base = nextSeq])
    BY <1>16 DEF Report
  <2>2. to \in Stage /\ RestOK' /\ UNCHANGED <<mediaSeq, nextSeq, runs, lock>>
    BY <1>0, <1>16, <2>1 DEF Report, Stage, RestOK, qvars, rvars
  <2>3. nextSeq \in Streams
    BY <1>0 DEF TypeOK
  <2>4. /\ local' \in [Threads -> Locals] /\ local'[r].base \in {nextSeq, local[r].base}
        /\ \A u \in Threads \ {r} : local'[u] = local[u]
    BY <1>0, <2>1, <2>3, BaseType
  <2> QED BY <1>0, <2>1, <2>2, <2>4, StepKeeps DEF TypeOK
<1>17. CASE UpdateGlobalMediaSequence(r, "update", "notify")
  <2>1. Goto(r, "update", "notify") /\ "notify" \in Stage
    BY <1>17 DEF UpdateGlobalMediaSequence, Stage
  <2>2. RestOK'
    BY <1>0, <1>17 DEF UpdateGlobalMediaSequence, RestOK, rvars
  <2>3. mediaSeq' \in {mediaSeq, local[r].base}
    BY <1>17 DEF UpdateGlobalMediaSequence, Later
  <2> QED BY <1>0, <1>17, <2>1, <2>2, <2>3, StepKeeps DEF UpdateGlobalMediaSequence, rvars, TypeOK
<1>18. CASE Notify(r)
  <2>1. Goto(r, "notify", "check") /\ "check" \in Stage
    BY <1>18 DEF Notify, Stage
  <2>2. RestOK' /\ UNCHANGED <<mediaSeq, nextSeq, runs, lock>>
    BY <1>0, <1>18 DEF Notify, RestOK, rvars
  <2> DEFINE new == [local[r] EXCEPT !.stream = runs[r].seq]
  <2>3. new \in Locals /\ new.base = local[r].base
    BY <1>0 DEF Locals
  <2>4. local' = [local EXCEPT ![r] = new]
    BY <1>0, <1>18 DEF Notify
  <2> HIDE DEF new
  <2>5. /\ local' \in [Threads -> Locals] /\ local'[r].base = local[r].base
        /\ \A u \in Threads \ {r} : local'[u] = local[u]
    BY <1>0, <2>3, <2>4, LearnType
  <2> QED BY <1>0, <2>1, <2>2, <2>5, StepKeeps DEF TypeOK
<1> QED BY <1>2, <1>3, <1>4, <1>5, <1>6, <1>7, <1>8, <1>9, <1>10, <1>11, <1>12, <1>13, <1>14,
           <1>15, <1>16, <1>17, <1>18 DEF RunSteps

\* The next run to launch.
LEMMA NextRun ==
  ASSUME InOrder, TypeOK, \E s \in Runs : s \notin Launched
  PROVE  LET r == CHOOSE s \in Runs :
                    pc[s] = "idle" /\ \A u \in Runs : pc[u] = "idle" => s <= u
         IN  /\ r \in Runs /\ pc[r] = "idle" /\ r \notin Launched
             /\ \A s \in Launched : s < r
             /\ \A s \in Runs : s \notin Launched /\ s # r => r < s
             /\ Launched \union {r} = 1 .. r
<1>1. PICK n \in Nat : Launched = 1 .. n
  BY DEF InOrder
<1>2. \A s \in Runs : s \in Launched <=> s <= n
  BY <1>1 DEF Runs
<1>3. MaxRuns \in Nat /\ n + 1 \in Runs
  BY <1>2, BoundsAssumption DEF Runs
<1>4. \A s \in Runs : pc[s] = "idle" <=> s > n
  BY <1>2, <1>3 DEF Launched, Runs
<1> DEFINE P(s) == pc[s] = "idle" /\ \A u \in Runs : pc[u] = "idle" => s <= u
           r == CHOOSE s \in Runs : P(s)
<1>5. P(n + 1) /\ n + 1 \in Runs
  BY <1>1, <1>3, <1>4 DEF Runs
<1>6. r \in Runs /\ P(r)
  BY <1>5
<1> HIDE DEF r
<1>7. r = n + 1
  <2>1. r <= n + 1 /\ n + 1 <= r
    BY <1>1, <1>3, <1>4, <1>5, <1>6
  <2> QED BY <1>1, <1>6, <2>1 DEF Runs
<1>8. /\ r \in Runs /\ pc[r] = "idle" /\ r \notin Launched
      /\ \A s \in Launched : s < r
      /\ \A s \in Runs : s \notin Launched /\ s # r => r < s
      /\ Launched \union {r} = 1 .. r
  BY <1>1, <1>3, <1>4, <1>6, <1>7 DEF Runs, Launched
<1> QED BY <1>8 DEF r

\* A launched run's arguments.
LEMMA NewRunType ==
  ASSUME TypeOK, NEW t \in Threads
  PROVE  LET new == [NoRun EXCEPT !.file = local[t].file, !.seq = local[t].base,
                                  !.entry = local[t].entry.id]
         IN  /\ new \in Run
             /\ new.file = local[t].file /\ new.seq = local[t].base
             /\ new.entry = local[t].entry.id
             /\ new.sent = 0 /\ new.cancelled = FALSE /\ new.ok = FALSE
<1>1. local[t].entry.id \in 0 .. MaxCommands
  <2>1. local[t].entry \in Entry \union {NoEntry} /\ MaxCommands \in Nat
    BY LocalType, BoundsAssumption
  <2> QED BY <2>1 DEF Entry, NoEntry
<1>2. local[t].file \in Files \union {NoFile} /\ local[t].base \in Streams /\ NoRun \in Run
  BY LocalType, StreamsAre, BoundsAssumption DEF Run, NoRun
<1> QED BY <1>1, <1>2 DEF Run, NoRun

\* The launch takes the first number that no run launched before can reach.
LEMMA LaunchTypes ==
  ASSUME TInv, LockHeldInside, NEW t \in Threads, EnsureLaunch(t)
  PROVE  TInv'
<1> DEFINE r == CHOOSE s \in Runs :
                  pc[s] = "idle" /\ \A u \in Runs : pc[u] = "idle" => s <= u
           to == IF local[t].stream # None THEN "forget" ELSE Rest(t)
           new == [NoRun EXCEPT !.file = local[t].file, !.seq = local[t].base,
                                !.entry = local[t].entry.id]
<1>0. TypeOK /\ RestOK /\ InOrder /\ local \in [Threads -> Locals] /\ runs \in [Runs -> Run]
      /\ pc \in [Threads -> Stage]
  BY DEF TInv, TypeOK, RestOK
<1>1. /\ pc[t] = "launch" /\ pc' = [pc EXCEPT ![r] = "spawned", ![t] = to]
      /\ local' = IF local[t].stream # None THEN local ELSE [local EXCEPT ![t] = NoLocals]
      /\ runs' = [s \in Runs |-> IF s = r THEN new ELSE Superseded(s)]
      /\ runCtx' = r /\ nextSeq' = local[t].base
      /\ player' = [stream |-> local[t].base, reported |-> FALSE]
      /\ lock' = None /\ UNCHANGED <<queue, mediaSeq, encDone, playDone, runner, inbox, count>>
  BY DEF EnsureLaunch, qvars
<1>2. \E s \in Runs : s \notin Launched
  <2>1. lock = t /\ t # None
    BY <1>1, BoundsAssumption DEF LockHeldInside, Inside, Threads, None
  <2> QED BY <1>0, <2>1 DEF InOrder
<1>3. /\ r \in Runs /\ pc[r] = "idle" /\ r \notin Launched
      /\ \A s \in Launched : s < r
      /\ \A s \in Runs : s \notin Launched /\ s # r => r < s
      /\ Launched \union {r} = 1 .. r
  BY <1>0, <1>2, NextRun
<1>4. new \in Run /\ new.seq = local[t].base
  BY <1>0, NewRunType
<1>5. to \in Stage /\ to # "write" /\ (t \in Runs => to # "idle")
  BY DEF Rest, Stage
<1> HIDE DEF r, to, new
<1>6. pc' \in [Threads -> Stage] /\ \A u \in Threads : pc'[u] = "write" => pc[u] = "write" /\ u # t
  BY <1>0, <1>1, <1>3, <1>5, ThreadKinds DEF Stage
<1>7. Launched' = Launched \union {r}
  <2>1. \A s \in Runs : s # r /\ s # t => pc'[s] = pc[s]
    BY <1>0, <1>1, ThreadKinds
  <2>2. pc'[r] # "idle"
    BY <1>0, <1>1, <1>3, ThreadKinds
  <2>3. t \in Runs => pc'[t] # "idle"
    BY <1>0, <1>1, <1>5, ThreadKinds
  <2> QED BY <1>1, <1>3, <2>1, <2>2, <2>3 DEF Launched
<1>8. /\ local' \in [Threads -> Locals] /\ local'[t].base \in {0, local[t].base}
      /\ \A u \in Threads \ {t} : local'[u] = local[u]
  BY <1>0, <1>1, LocalType, LearnType DEF NoLocals
<1>9. runs' \in [Runs -> Run] /\ runs'[r].seq = local[t].base /\ \A s \in Runs \ {r} : runs'[s].seq = runs[s].seq
  <2>1. \A s \in Runs : Superseded(s) \in Run /\ Superseded(s).seq = runs[s].seq
    BY <1>0 DEF Superseded, Run
  <2> QED BY <1>1, <1>3, <1>4, <2>1
<1>10. local[t].base \in Streams
  BY <1>0, LocalType
<1>11. player' \in [stream : Streams \union {None}, reported : BOOLEAN]
  BY <1>1, <1>10
<1>12. TypeOK'
  BY <1>0, <1>1, <1>3, <1>6, <1>8, <1>9, <1>10, <1>11 DEF TypeOK
<1>13. Numbered'
  <2>1. mediaSeq' = mediaSeq /\ mediaSeq \in Nat /\ nextSeq' = local[t].base
    BY <1>0, <1>1, StreamsAre DEF TypeOK
  <2>2. ASSUME NEW s \in Runs, s \notin Launched
        PROVE  Below((s - 1) * SegsPerFile)'
    <3>1. Below((s - 1) * SegsPerFile) /\ (s - 1) * SegsPerFile \in Nat
      BY <2>2, BoundsAssumption DEF TInv, Numbered, Runs
    <3> DEFINE n == (s - 1) * SegsPerFile
    <3> HIDE DEF n
    <3>2. Below(n)'
      BY <1>8, <2>1, <3>1 DEF Below, n
    <3> QED BY <3>2 DEF n
  <2>3. \A s \in Launched' : runs'[s].seq <= (s - 1) * SegsPerFile
    <3>1. \A s \in Launched : runs'[s].seq <= (s - 1) * SegsPerFile
      BY <1>3, <1>9 DEF TInv, Numbered, Launched
    <3>2. runs'[r].seq <= (r - 1) * SegsPerFile
      BY <1>3, <1>9 DEF TInv, Numbered, Below
    <3> QED BY <1>7, <3>1, <3>2
  <2>4. \A s \in Runs \ Launched' : Below((s - 1) * SegsPerFile)' /\ \A u \in Launched' : u < s
    BY <1>3, <1>7, <2>2 DEF TInv, Numbered
  <2> QED BY <2>3, <2>4 DEF Numbered
<1>14. Tagged'
  BY <1>6, <1>8 DEF TInv, Tagged
<1>15. InOrder'
  BY <1>1, <1>3, <1>7 DEF InOrder, Runs
<1> QED BY <1>12, <1>13, <1>14, <1>15 DEF TInv

\* The types hold at first.
LEMMA InitTInv == Init => TInv
<1> SUFFICES ASSUME Init PROVE TInv
  OBVIOUS
<1>1. /\ 0 \in Streams /\ NoLocals \in Locals /\ NoRun \in Run /\ NoLocals.base = 0
      /\ EmptyQueue \in [items : Seq(Entry), cursor : Nat]
  BY StreamsAre, BoundsAssumption DEF NoLocals, Locals, NoRun, Run, EmptyQueue
<1>2. Launched = {}
  BY ThreadKinds DEF Init, Launched
<1>3. TypeOK
  <2>1. pc \in [Threads -> Stage] /\ local \in [Threads -> Locals] /\ runs \in [Runs -> Run]
    BY <1>1 DEF Init, Stage
  <2>2. /\ queue \in [items : Seq(Entry), cursor : Nat] /\ mediaSeq \in Streams /\ nextSeq \in Streams
        /\ encDone \subseteq Streams /\ playDone \subseteq Streams
        /\ runCtx \in Runs \union {None} /\ lock \in Threads \union {None}
        /\ inbox \in Seq(Streams)
    BY <1>1 DEF Init
  <2>3. runner \in [running : BOOLEAN, file : Files \union {NoFile}, seq : Streams, cmd : Runs \union {None}]
    BY <1>1 DEF Init
  <2>4. player \in [stream : Streams \union {None}, reported : BOOLEAN]
    BY DEF Init
  <2>5. count \in [commands : 0 .. MaxCommands, disturbances : 0 .. MaxDisturbances]
    BY BoundsAssumption DEF Init
  <2> QED BY <2>1, <2>2, <2>3, <2>4, <2>5 DEF TypeOK
<1>4. Numbered
  <2>1. \A s \in Runs : (s - 1) * SegsPerFile \in Nat
    BY BoundsAssumption DEF Runs
  <2>2. mediaSeq = 0 /\ nextSeq = 0 /\ \A t \in Threads : local[t].base = 0
    BY <1>1 DEF Init
  <2>3. \A n \in Nat : Below(n)
    BY <2>2 DEF Below
  <2> QED BY <1>2, <2>1, <2>3 DEF Numbered
<1>5. Tagged
  BY DEF Init, Tagged
<1>6. InOrder
  <2>1. Launched = 1 .. 0 /\ lock = None
    BY <1>2 DEF Init
  <2> QED BY <2>1 DEF InOrder
<1> QED BY <1>3, <1>4, <1>5, <1>6 DEF TInv

\* Every step keeps the types and the numbers.
LEMMA NextTInv == TInv /\ LockHeldInside /\ [Next]_vars => TInv'
<1> SUFFICES ASSUME TInv, LockHeldInside, [Next]_vars PROVE TInv'
  OBVIOUS
<1>1. CASE UserSteps \/ GossipReact
  BY <1>1, UserTypes
<1>2. CASE PlayerEnds
  <2>0. TypeOK
    BY DEF TInv
  <2>1. player \in [stream : Streams \union {None}, reported : BOOLEAN] /\ inbox \in Seq(Streams)
    BY <2>0 DEF TypeOK
  <2>2. player.stream \in Streams
    BY <1>2, <2>1 DEF PlayerEnds
  <2>3. player' \in [stream : Streams \union {None}, reported : BOOLEAN] /\ inbox' \in Seq(Streams)
    <3>1. player' = [player EXCEPT !.reported = TRUE] /\ inbox' = Append(inbox, player.stream)
      BY <1>2 DEF PlayerEnds
    <3>2. player' \in [stream : Streams \union {None}, reported : BOOLEAN]
      BY <2>1, <3>1
    <3>3. inbox' \in Seq(Streams)
      BY <2>1, <2>2, <3>1
    <3> QED BY <3>2, <3>3
  <2>4. UNCHANGED <<qvars, nextSeq, rvars, lock, pc, local, count>>
    BY <1>2 DEF PlayerEnds
  <2>5. TypeOK'
    BY <2>0, <2>3, <2>4 DEF TypeOK, qvars, rvars
  <2> QED BY <2>4, <2>5 DEF TInv, Numbered, Below, Tagged, InOrder, Launched, qvars, rvars
<1>3. ASSUME NEW t \in Threads, ThreadStep(t) PROVE TInv'
  <2>1. CASE t = Client /\ (SkipSteps \/ PlayerCompleted)
    BY <2>1, UserTypes
  <2>2. CASE QueueSteps(t)
    BY <2>2, QueueStepTypes, LaunchTypes
  <2>3. CASE t \in Runs /\ RunSteps(t)
    BY <2>3, RunStepTypes
  <2> QED BY <1>3, <2>1, <2>2, <2>3 DEF ThreadStep
<1>4. ASSUME NEW r \in Runs, Fail(r) PROVE TInv'
  BY <1>4, RunStepTypes
<1>5. CASE UNCHANGED vars
  BY <1>5 DEF vars, TInv, TypeOK, Numbered, Below, Tagged, InOrder, Launched
<1> QED BY <1>1, <1>2, <1>3, <1>4, <1>5 DEF Next

\* However the threads interleave, the state keeps its types; in particular no
\* sequence number that queue_controller.go or node.go puts in a stream, in the
\* ring buffer or in an entry ever exceeds what the runs launched so far may
\* have made: SegsPerFile each.
THEOREM TypeCorrect == Spec => []TypeOK
<1>1. Init => IInv /\ LockHeldInside /\ TInv
  <2>1. Init => LockHeldInside
    <3>1. \A t \in Threads : t # None
      BY BoundsAssumption DEF Threads, None
    <3> QED BY <3>1 DEF Init, LockHeldInside, Inside
  <2> QED BY <2>1, InitIInv, InitTInv
<1>2. IInv /\ LockHeldInside /\ TInv /\ [Next]_vars => (IInv /\ LockHeldInside /\ TInv)'
  BY NextIInv, NextHolds, NextTInv DEF LInv, IInv
<1>3. TInv => TypeOK
  BY DEF TInv
<1> QED BY <1>1, <1>2, <1>3, PTL DEF Spec

-----------------------------------------------------------------------------
(* OrderlySpec: one event at a time. At most one thread sees to the queue, *)
(* at most one run is at work, the current one, and it is of the current   *)
(* entry.                                                                  *)

\* Where a thread is that sees to the queue, and in particular to a skip.
Skipping == {"skipStop", "skipSeq", "skipUpdate", "skipMove"}
Steering == Skipping \union {"check", "next", "stop", "react", "base", "ensure",
                             "tag", "write", "launch", "forget"}
Steers(t) == pc[t] \in Steering

\* Where a run is from its launch to its report.
Working == {"spawned", "loop", "exec", "ffmpeg", "exited", "retry", "cleanup",
            "returned", "report", "update", "notify"}
Works(r) == pc[r] \in Working

AtRest == \A r \in Runs : ~Works(r)
Unsteered == \A t \in Threads : ~Steers(t)
OnlyFfmpeg == \A r \in Runs : Works(r) => pc[r] = "ffmpeg"

Solo ==
  /\ \A t, u \in Threads : Steers(t) /\ Steers(u) => t = u
  /\ \A r \in Runs : Works(r) \/ (Steers(r) /\ pc[r] # "forget") => r = runCtx
  /\ \A t \in Threads : pc[t] \in Skipping => t = Client
  /\ \A t \in Threads \ Runs : pc[t] = "idle" \/ Steers(t)

\* A report waits only until the Client is free, which it is.
Waiting == inbox # << >> => Len(inbox) = 1 /\ Unsteered /\ OnlyFfmpeg

\* The current run has the highest number, and what is counted is beyond the
\* ends that were reported.
Numbers ==
  /\ runCtx = None => Launched = {}
  /\ runCtx # None => runCtx \in Launched /\ nextSeq >= runs[runCtx].seq + runs[runCtx].sent
  /\ \A r \in Launched : /\ runs[r].seq <= mediaSeq
                         /\ r # runCtx => runs[r].seq < runs[runCtx].seq
                         /\ runs[r].ok => runs[r].sent = SegsPerFile
                         /\ \A s \in Launched : r # s => runs[r].seq # runs[s].seq
  /\ \A s \in encDone : s < mediaSeq

\* If all commands were APPENDs, an entry's number is its position, and those
\* up to the cursor have been launched once.
Appended ==
  /\ \A i \in Positions(queue) : queue.items[i].id = i
  /\ \A r \in Launched : /\ runs[r].entry <= Len(queue.items)
                         /\ HasCurrent(queue) => runs[r].entry <= queue.cursor
                         /\ \A s \in Launched : r # s => runs[r].entry # runs[s].entry

Playlist ==
  /\ queue.cursor <= Len(queue.items)
  /\ Len(queue.items) <= count.commands
  /\ OnlyAppended => Appended

\* The current run is of the current entry.
Matched ==
  /\ HasCurrent(queue) /\ runCtx # None
  /\ runs[runCtx].entry = Current(queue).id
  /\ runs[runCtx].file = Current(queue).file
  /\ runs[runCtx].seq = Current(queue).first

\* The shared runner has been given the run's task.
AtTask(r) == runner.running /\ runner.file = runs[r].file /\ runner.seq = runs[r].seq

\* A cancelled run is at work only while a skip waits for it to be gone.
Stops(r) ==
  /\ pc[Client] = "skipSeq"
  /\ pc[r] \in {"ffmpeg", "exited", "cleanup", "returned", "report"}
  /\ pc[r] \in {"returned", "report"} => ~runner.running

GoesOn(r) ==
  /\ pc[r] \in {"spawned", "returned", "report", "update", "notify"} => ~runner.running
  /\ pc[r] \in {"loop", "exec", "retry", "ffmpeg", "exited"} => AtTask(r)
  /\ pc[r] \in {"ffmpeg", "exited"} => runner.cmd = r
  /\ pc[r] \in {"spawned", "loop", "exec", "retry", "ffmpeg"} => ~runs[r].ok
  /\ pc[r] \in {"cleanup", "returned", "report", "update", "notify"} => runs[r].ok
  /\ pc[r] # "notify" => mediaSeq = runs[r].seq
  /\ pc[r] = "notify" => mediaSeq > runs[r].seq
  /\ pc[r] = "update" => local[r].base > runs[r].seq

\* Meanwhile others see to the queue only while it streams, or before.
LeftAlone(r) ==
  \A t \in Threads : Steers(t) =>
    pc[r] = "ffmpeg" \/ (pc[t] = "forget" /\ pc[r] \in {"spawned", "loop", "exec"})

Work ==
  /\ \A r \in Runs : Works(r) /\ runs[r].cancelled => Matched /\ Stops(r)
  /\ \A r \in Runs : Works(r) /\ ~runs[r].cancelled => Matched /\ GoesOn(r) /\ LeftAlone(r)
  /\ AtRest => ~runner.running

\* How it stands with the head of the queue: it is being encoded; its encoder is
\* done and it may still be played; there is none; or it is to be launched.
Spent == AtRest /\ \A r \in Launched : runs[r].seq < mediaSeq
HeadEncoding == Matched /\ pc[runCtx] = "ffmpeg" /\ ~runs[runCtx].cancelled
HeadEncoded ==
  Matched /\ Spent /\ Current(queue).first \in encDone /\ runs[runCtx].sent = SegsPerFile
NoHead == ~HasCurrent(queue) /\ Spent
HeadDue ==
  /\ HasCurrent(queue) /\ Spent
  /\ OnlyAppended => \A r \in Launched : runs[r].entry < queue.cursor

Calm == HeadEncoding \/ HeadEncoded \/ NoHead
Plan(t) == local[t].file = Current(queue).file /\ local[t].base = mediaSeq

\* What a thread that sees to the queue can rely on, from stage to stage.
Stages(t) ==
  /\ pc[t] \in Skipping => ~OnlyAppended
  /\ pc[t] = "skipStop" => /\ Calm
                           /\ local[t].entry # NoEntry <=> HasCurrent(queue)
                           /\ HasCurrent(queue) => nextSeq > Current(queue).first
  /\ pc[t] = "skipSeq" => Matched /\ runs[runCtx].cancelled /\ nextSeq > Current(queue).first
  /\ pc[t] = "skipUpdate" => Matched /\ AtRest /\ local[t].base > Current(queue).first
  /\ pc[t] = "skipMove" => Spent
  /\ pc[t] = "check" => Calm
  /\ pc[t] = "next" => /\ HeadEncoded /\ local[t].stream = Current(queue).first
                       /\ local[t].stream \in playDone
  /\ pc[t] = "stop" => NoHead
  /\ pc[t] = "react" => HeadEncoding \/ NoHead \/ HeadDue
  /\ pc[t] = "base" => (HeadEncoding \/ HeadDue) /\ local[t].file = Current(queue).file
  /\ pc[t] = "ensure" => NoHead \/ ((HeadEncoding \/ HeadDue) /\ Plan(t))
  /\ pc[t] \in {"tag", "write", "launch"} => HeadDue /\ Plan(t)
  /\ pc[t] = "write" => local[t].entry = [Current(queue) EXCEPT !.first = mediaSeq]
  /\ pc[t] = "launch" => local[t].entry = Current(queue) /\ Current(queue).first = mediaSeq
  /\ pc[t] = "forget" => ~AtRest \/ NoHead

Settled == Unsteered => ~AtRest \/ HeadEncoded \/ NoHead

OInv ==
  /\ Solo /\ Waiting /\ Numbers /\ Playlist /\ Work
  /\ \A t \in Threads : Stages(t)
  /\ Settled

\* All that is known of a state, of any order of steps and of an orderly one.
Known == IInv /\ LockHeldInside /\ TInv /\ OInv

\* Where a step of one thread leaves everybody.
LEMMA MovesOn ==
  ASSUME pc \in [Threads -> Stage], NEW t \in Threads, NEW from, NEW to, Goto(t, from, to)
  PROVE  pc[t] = from /\ pc'[t] = to /\ \A u \in Threads \ {t} : pc'[u] = pc[u]
  BY DEF Goto

\* Who rests sees to nothing and works no more.
LEMMA RestIsOut ==
  ASSUME NEW t
  PROVE  /\ Rest(t) \notin Steering /\ Rest(t) \notin Working /\ (t \in Runs => Rest(t) = "done")
         /\ (t \notin Runs => Rest(t) = "idle")
  BY DEF Rest, Steering, Skipping, Working

\* What a step of thread t, which sees to the queue before it or after it, does
\* to the other threads and to the runs at work: nothing.
Moved(t) ==
  /\ Solo' /\ Waiting' /\ Launched' = Launched
  /\ \A u \in Threads \ {t} : pc'[u] = pc[u] /\ ~Steers(u) /\ ~Steers(u)'
  /\ \A r \in Runs : /\ Works(r)' <=> Works(r)
                     /\ Works(r) => r # t /\ pc'[r] = pc[r] /\ r = runCtx
  /\ AtRest' <=> AtRest

\* The thread that sees to the queue moves on, or is finished with it: it is
\* still the only one, and the runs are at work as before.
LEMMA SteerMove ==
  ASSUME TypeOK, Solo, Waiting, NEW t \in Threads, NEW from \in Steering, NEW to,
         Goto(t, from, to), to \in Steering \union {Rest(t)},
         to \in Skipping => from \in Skipping, from = "forget" => to = Rest(t),
         UNCHANGED <<runCtx, inbox>>
  PROVE  Moved(t) /\ Steers(t) /\ pc[t] = from /\ pc'[t] = to
<1> USE ThreadKinds
<1>1. /\ pc[t] = from /\ pc'[t] = to /\ \A u \in Threads \ {t} : pc'[u] = pc[u]
  BY MovesOn DEF TypeOK
<1>2. Steers(t) /\ \A u \in Threads \ {t} : ~Steers(u) /\ ~Steers(u)'
  BY <1>1 DEF Solo, Steers
<1>3. \A r \in Runs : /\ Works(r)' <=> Works(r)
                      /\ Works(r) => r # t /\ pc'[r] = pc[r] /\ r = runCtx
  <2>1. to \notin Working /\ from \notin Working
    BY RestIsOut DEF Steering, Skipping, Working
  <2> QED BY <1>1, <2>1 DEF Works, Solo
<1>4. Launched' = Launched
  BY <1>1, RestIsOut DEF Launched, Steering, Skipping
<1>5. Solo'
  <2>1. \A u, v \in Threads : Steers(u)' /\ Steers(v)' => u = v
    BY <1>2
  <2>2. ASSUME NEW r \in Runs, Works(r)' \/ (Steers(r)' /\ pc'[r] # "forget") PROVE r = runCtx
    <3>1. CASE Works(r)'
      BY <1>3, <3>1
    <3>2. CASE Steers(r)' /\ pc'[r] # "forget"
      <4>1. r = t /\ from # "forget"
        BY <1>1, <1>2, <3>2, RestIsOut DEF Steers
      <4> QED BY <1>1, <1>2, <4>1 DEF Solo
    <3> QED BY <2>2, <3>1, <3>2
  <2>3. \A u \in Threads : pc'[u] \in Skipping => u = Client
    BY <1>1 DEF Solo
  <2>4. \A u \in Threads \ Runs : pc'[u] = "idle" \/ Steers(u)'
    BY <1>1, RestIsOut DEF Solo, Steers
  <2> QED BY <2>1, <2>2, <2>3, <2>4 DEF Solo
<1>6. Waiting'
  BY <1>2 DEF Waiting, Unsteered
<1> QED BY <1>1, <1>2, <1>3, <1>4, <1>5, <1>6 DEF AtRest, Moved

\* When nobody sees to the queue and no run is at work but in ffmpeg, the head
\* is in one of the three states a change of the queue may meet.
LEMMA CalmThen ==
  ASSUME TypeOK, OInv, Unsteered, OnlyFfmpeg
  PROVE  /\ Calm
         /\ \A r \in Runs : Works(r) => r = runCtx /\ ~runs[r].cancelled /\ HeadEncoding
         /\ HasCurrent(queue) => Matched
<1>1. ASSUME NEW r \in Runs, Works(r) PROVE r = runCtx /\ ~runs[r].cancelled /\ HeadEncoding
  <2>1. r = runCtx /\ pc[r] = "ffmpeg"
    BY <1>1 DEF OInv, Solo, OnlyFfmpeg
  <2>2. ~runs[r].cancelled
    BY <1>1, ThreadKinds DEF OInv, Work, Stops, Unsteered, Steers, Steering, Skipping
  <2> QED BY <1>1, <2>1, <2>2 DEF OInv, Work, HeadEncoding
<1>2. Calm
  BY <1>1 DEF OInv, Settled, Calm, AtRest
<1> QED BY <1>1, <1>2 DEF Calm, HeadEncoding, HeadEncoded, NoHead

\* A thread that is not a run begins to see to the queue.
LEMMA BeginMove ==
  ASSUME TypeOK, OInv, NEW t \in Threads \ Runs, NEW to \in Steering, Goto(t, "idle", to),
         to \in Skipping => t = Client, Unsteered, OnlyFfmpeg, UNCHANGED runCtx, inbox' = << >>
  PROVE  Moved(t) /\ pc[t] = "idle" /\ pc'[t] = to
<1> USE ThreadKinds
<1>1. /\ pc[t] = "idle" /\ pc'[t] = to /\ \A u \in Threads \ {t} : pc'[u] = pc[u]
  BY MovesOn DEF TypeOK
<1>2. \A u \in Threads \ {t} : ~Steers(u) /\ ~Steers(u)'
  BY <1>1 DEF Unsteered, Steers
<1>3. \A r \in Runs : /\ pc'[r] = pc[r] /\ r # t
                      /\ Works(r)' <=> Works(r)
                      /\ Works(r) => r = runCtx
  BY <1>1 DEF Works, OInv, Solo
<1>4. Launched' = Launched
  BY <1>3 DEF Launched
<1>5. Solo'
  <2>1. \A u, v \in Threads : Steers(u)' /\ Steers(v)' => u = v
    BY <1>2
  <2>2. \A r \in Runs : Works(r)' \/ (Steers(r)' /\ pc'[r] # "forget") => r = runCtx
    BY <1>2, <1>3
  <2>3. \A u \in Threads : pc'[u] \in Skipping => u = Client
    BY <1>1 DEF OInv, Solo
  <2>4. \A u \in Threads \ Runs : pc'[u] = "idle" \/ Steers(u)'
    BY <1>1 DEF OInv, Solo, Steers
  <2> QED BY <2>1, <2>2, <2>3, <2>4 DEF Solo
<1>6. Waiting'
  BY DEF Waiting
<1> QED BY <1>1, <1>2, <1>3, <1>4, <1>5, <1>6 DEF AtRest, Moved

\* A run at work moves on, or is gone.
LEMMA RunMove ==
  ASSUME TypeOK, Solo, NEW r \in Runs, NEW from \in Working, NEW to \in Working \union {"done"},
         Goto(r, from, to), UNCHANGED runCtx, inbox' = << >>
  PROVE  /\ Solo' /\ Waiting' /\ Launched' = Launched /\ r \in Launched
         /\ pc[r] = from /\ pc'[r] = to /\ r = runCtx
         /\ \A t \in Threads \ {r} : pc'[t] = pc[t]
         /\ \A t \in Threads : Steers(t)' <=> Steers(t)
         /\ \A t \in Threads : Steers(t) => t # r
         /\ \A s \in Runs : Works(s)' => s = r
         /\ to \in Working => ~AtRest'
         /\ to = "done" => AtRest'
<1> USE ThreadKinds
<1>1. /\ pc[r] = from /\ pc'[r] = to /\ \A t \in Threads \ {r} : pc'[t] = pc[t]
  BY MovesOn DEF TypeOK
<1>2. from \notin Steering /\ to \notin Steering /\ from # "idle" /\ to # "idle"
  BY DEF Steering, Skipping, Working
<1>3. \A t \in Threads : (Steers(t)' <=> Steers(t)) /\ (Steers(t) => t # r)
  BY <1>1, <1>2 DEF Steers
<1>4. r = runCtx /\ \A s \in Runs : Works(s) => s = r
  BY <1>1 DEF Solo, Works
<1>5. \A s \in Runs : Works(s)' => s = r
  BY <1>1, <1>4 DEF Works
<1>6. Launched' = Launched /\ r \in Launched
  BY <1>1, <1>2 DEF Launched
<1>7. Solo'
  <2>1. \A t, u \in Threads : Steers(t)' /\ Steers(u)' => t = u
    BY <1>3 DEF Solo
  <2>2. \A s \in Runs : Works(s)' \/ (Steers(s)' /\ pc'[s] # "forget") => s = runCtx
    BY <1>1, <1>3, <1>4, <1>5 DEF Solo
  <2>3. \A t \in Threads : pc'[t] \in Skipping => t = Client
    BY <1>1, <1>2 DEF Solo, Steering
  <2>4. \A t \in Threads \ Runs : pc'[t] = "idle" \/ Steers(t)'
    BY <1>1, <1>3 DEF Solo
  <2> QED BY <2>1, <2>2, <2>3, <2>4 DEF Solo
<1>8. to \in Working => ~AtRest'
  BY <1>1 DEF AtRest, Works
<1>9. to = "done" => AtRest'
  BY <1>1, <1>5 DEF AtRest, Works, Working
<1> QED BY <1>1, <1>3, <1>4, <1>5, <1>6, <1>7, <1>8, <1>9 DEF Waiting

\* While a thread sees to the queue, but waits for no cancelled run.
LEMMA NoneCancelled ==
  ASSUME OInv, NEW t \in Threads, Steers(t), pc[t] # "skipSeq"
  PROVE  \A r \in Runs : Works(r) => /\ ~runs[r].cancelled
                                     /\ pc[r] = "ffmpeg" \/ pc[t] = "forget"
                                     /\ pc[r] = "ffmpeg" => HeadEncoding
<1> TAKE r \in Runs
<1> SUFFICES ASSUME Works(r)
             PROVE  /\ ~runs[r].cancelled
                    /\ pc[r] = "ffmpeg" \/ pc[t] = "forget"
                    /\ pc[r] = "ffmpeg" => HeadEncoding
  OBVIOUS
<1>1. ~runs[r].cancelled
  <2>1. Steers(Client) => Client = t
    BY ThreadKinds DEF OInv, Solo
  <2> QED BY <2>1 DEF OInv, Work, Stops, Steers, Steering, Skipping
<1>2. Matched /\ LeftAlone(r) /\ r = runCtx
  BY <1>1 DEF OInv, Work, Solo
<1> QED BY <1>1, <1>2 DEF LeftAlone, HeadEncoding

\* A command makes OnlyAppended true of no queue that it was not true of before.
LEMMA StillAppended ==
  ASSUME Playlist, TypeOK, queue' = queue, count'.commands \in Nat, count'.commands >= count.commands
  PROVE  OnlyAppended' => OnlyAppended
<1>1. count.commands \in Nat /\ Len(queue.items) \in Nat
  BY BoundsAssumption DEF TypeOK
<1> QED BY <1>1 DEF Playlist, OnlyAppended

\* A step that changes nothing about the queue, the counters and the runs.
LEMMA SameWork ==
  ASSUME TypeOK, OInv, NEW t \in Threads, Moved(t),
         UNCHANGED <<queue, mediaSeq, nextSeq, runCtx, runner, runs>>, encDone' \subseteq encDone,
         \A u \in Threads \ {t} : local'[u] = local[u],
         count'.commands \in Nat, count'.commands >= count.commands,
         \A r \in Runs : Works(r) => ~runs[r].cancelled /\ (pc[r] = "ffmpeg" \/ ~Steers(t)')
  PROVE  /\ Numbers' /\ Playlist' /\ Work' /\ (OnlyAppended' => OnlyAppended)
         /\ (HasCurrent(queue)' <=> HasCurrent(queue)) /\ Current(queue)' = Current(queue)
         /\ (Matched' <=> Matched) /\ (Spent' <=> Spent)
         /\ HeadEncoding => HeadEncoding'
         /\ NoHead => NoHead'
         /\ HeadDue => HeadDue'
         /\ HeadEncoded /\ Current(queue).first \in encDone' => HeadEncoded'
<1>1. OnlyAppended' => OnlyAppended
  BY StillAppended DEF OInv
<1>2. Launched' = Launched /\ (AtRest' <=> AtRest)
  BY DEF Moved
<1>3. Numbers'
  <2>1. runCtx = None => Launched = {}
    BY DEF OInv, Numbers
  <2> QED BY <1>2, <2>1 DEF OInv, Numbers
<1>4. Playlist'
  <2>1. Appended => Appended'
    BY <1>2 DEF Appended
  <2>2. count.commands \in Nat /\ Len(queue.items) \in Nat
    BY BoundsAssumption DEF TypeOK
  <2> QED BY <1>1, <2>1, <2>2 DEF OInv, Playlist
<1>5. (Matched' <=> Matched) /\ (HasCurrent(queue)' <=> HasCurrent(queue)) /\ Current(queue)' = Current(queue)
  BY DEF Matched
<1>6. (Spent' <=> Spent)
  BY <1>2 DEF Spent
<1>7. Work'
  <2>1. ASSUME NEW r \in Runs, Works(r)' PROVE Matched' /\ ~runs'[r].cancelled /\ GoesOn(r)' /\ LeftAlone(r)'
    <3>1. Works(r) /\ r \in Threads \ {t} /\ pc'[r] = pc[r] /\ local'[r] = local[r]
      BY <2>1, ThreadKinds DEF Moved
    <3>2. ~runs[r].cancelled /\ GoesOn(r) /\ Matched
      BY <3>1 DEF OInv, Work
    <3>3. GoesOn(r)'
      BY <3>1, <3>2 DEF GoesOn, AtTask
    <3>4. LeftAlone(r)'
      BY <3>1 DEF LeftAlone, Moved
    <3> QED BY <1>5, <3>2, <3>3, <3>4
  <2>2. AtRest' => ~runner'.running
    BY <1>2 DEF OInv, Work
  <2> QED BY <2>1, <2>2 DEF Work
<1>8. HeadEncoding => HeadEncoding'
  <2>1. HeadEncoding => runCtx \in Runs /\ Works(runCtx)
    BY DEF HeadEncoding, Works, Working, Matched, TypeOK
  <2> QED BY <1>5, <2>1 DEF HeadEncoding, Moved
<1>9. /\ NoHead => NoHead'
      /\ HeadDue => HeadDue'
      /\ HeadEncoded /\ Current(queue).first \in encDone' => HeadEncoded'
  BY <1>1, <1>2, <1>5, <1>6 DEF NoHead, HeadDue, HeadEncoded
<1> QED BY <1>1, <1>3, <1>4, <1>5, <1>6, <1>7, <1>8, <1>9

\* What there is to show of a step of the thread that sees to the queue.
LEMMA Assembled ==
  ASSUME NEW t \in Threads, Moved(t), Numbers', Playlist', Work', Stages(t)',
         Steers(t)' \/ ~AtRest' \/ HeadEncoded' \/ NoHead'
  PROVE  OInv'
<1>1. \A u \in Threads \ {t} : Stages(u)'
  BY DEF Moved, Stages, Steers, Steering, Skipping
<1>2. Settled'
  BY DEF Settled, Unsteered
<1> QED BY <1>1, <1>2 DEF OInv, Moved

\* ReactToQueueUpdate: the head is still what it was, at each of its steps.
LEMMA ReactOrderly ==
  ASSUME TypeOK, OInv, NEW t \in Threads, React(t) \/ GetNextStartSequence(t)
  PROVE  OInv'
<1> USE DEF Steering, Skipping
<1>1. CASE React(t)
  <2> DEFINE to == IF HasCurrent(queue) THEN "base" ELSE "ensure"
  <2>1. Goto(t, "react", to) /\ UNCHANGED <<qvars, nextSeq, rvars, lock, player, inbox, count>>
    BY <1>1 DEF React
  <2>2. Moved(t) /\ Steers(t) /\ pc[t] = "react" /\ pc'[t] = to
    BY <2>1, SteerMove DEF OInv, rvars
  <2>3. /\ \A u \in Threads \ {t} : local'[u] = local[u]
        /\ HasCurrent(queue) => local'[t].file = Current(queue).file
    <3>1. local \in [Threads -> Locals]
      BY DEF TypeOK
    <3>2. \A f : [local[t] EXCEPT !.file = f, !.base = 0].file = f
      BY <3>1 DEF Locals
    <3>3. PICK f : /\ local' = [local EXCEPT ![t] = [local[t] EXCEPT !.file = f, !.base = 0]]
                   /\ HasCurrent(queue) => f = Current(queue).file
      BY <1>1 DEF React
    <3> QED BY <3>1, <3>2, <3>3
  <2>4. /\ Numbers' /\ Playlist' /\ Work'
        /\ (HasCurrent(queue)' <=> HasCurrent(queue)) /\ Current(queue)' = Current(queue)
        /\ HeadEncoding => HeadEncoding'
        /\ NoHead => NoHead'
        /\ HeadDue => HeadDue'
    <3>1. \A r \in Runs : Works(r) => ~runs[r].cancelled /\ (pc[r] = "ffmpeg" \/ ~Steers(t)')
      BY <2>2, NoneCancelled
    <3>2. count'.commands \in Nat /\ count'.commands >= count.commands
      BY <2>1, BoundsAssumption DEF TypeOK
    <3> QED BY <2>1, <2>2, <2>3, <3>1, <3>2, SameWork DEF qvars, rvars
  <2>5. HeadEncoding \/ NoHead \/ HeadDue
    BY <2>2 DEF OInv, Stages
  <2>6. Stages(t)'
    BY <2>2, <2>3, <2>4, <2>5 DEF Stages, NoHead, HeadEncoding, Matched, HeadDue
  <2> QED BY <2>2, <2>4, <2>6, Assembled DEF Steers
<1>2. CASE GetNextStartSequence(t)
  <2>1. Goto(t, "base", "ensure") /\ UNCHANGED <<qvars, nextSeq, rvars, lock, player, inbox, count>>
    BY <1>2 DEF GetNextStartSequence
  <2>2. Moved(t) /\ Steers(t) /\ pc[t] = "base" /\ pc'[t] = "ensure"
    BY <2>1, SteerMove DEF OInv, rvars
  <2>3. /\ \A u \in Threads \ {t} : local'[u] = local[u]
        /\ local'[t].file = local[t].file /\ local'[t].base = mediaSeq
    <3>1. local \in [Threads -> Locals] /\ local' = [local EXCEPT ![t] = [local[t] EXCEPT !.base = mediaSeq]]
      BY <1>2 DEF TypeOK, GetNextStartSequence
    <3>2. [local[t] EXCEPT !.base = mediaSeq].file = local[t].file /\ [local[t] EXCEPT !.base = mediaSeq].base = mediaSeq
      BY <3>1 DEF Locals
    <3> QED BY <3>1, <3>2
  <2>4. /\ Numbers' /\ Playlist' /\ Work'
        /\ (HasCurrent(queue)' <=> HasCurrent(queue)) /\ Current(queue)' = Current(queue)
        /\ HeadEncoding => HeadEncoding'
        /\ HeadDue => HeadDue'
    <3>1. \A r \in Runs : Works(r) => ~runs[r].cancelled /\ (pc[r] = "ffmpeg" \/ ~Steers(t)')
      BY <2>2, NoneCancelled
    <3>2. count'.commands \in Nat /\ count'.commands >= count.commands
      BY <2>1, BoundsAssumption DEF TypeOK
    <3> QED BY <2>1, <2>2, <2>3, <3>1, <3>2, SameWork DEF qvars, rvars
  <2>5. (HeadEncoding \/ HeadDue) /\ local[t].file = Current(queue).file
    BY <2>2 DEF OInv, Stages
  <2>6. Stages(t)'
    BY <2>1, <2>2, <2>3, <2>4, <2>5 DEF Stages, Plan, qvars
  <2> QED BY <2>2, <2>4, <2>6, Assembled DEF Steers
<1> QED BY <1>1, <1>2

\* EnsureRunnerState's decision: an encoder that is at the head is left to it,
\* and one is launched only if the head is due.
LEMMA EnsureOrderly ==
  ASSUME TypeOK, OInv, NEW t \in Threads, EnsureActive(t) \/ EnsureStopped(t) \/ EnsureCheck(t)
  PROVE  OInv'
<1> USE DEF Steering, Skipping
<1>0. pc[t] = "ensure" /\ (NoHead \/ ((HeadEncoding \/ HeadDue) /\ Plan(t)))
  BY DEF EnsureActive, EnsureStopped, EnsureCheck, Finish, Goto, OInv, Stages
<1>1. /\ Steers(t) /\ \A r \in Runs : Works(r) => ~runs[r].cancelled /\ pc[r] = "ffmpeg" /\ HeadEncoding
      /\ ~AtRest => HeadEncoding
  BY <1>0, NoneCancelled DEF Steers, AtRest
<1>2. count.commands \in Nat /\ count.commands >= count.commands
  BY BoundsAssumption DEF TypeOK
<1>3. HeadEncoding => AtTask(runCtx) /\ mediaSeq = runs[runCtx].seq
  <2>1. HeadEncoding => runCtx \in Runs /\ Works(runCtx) /\ ~runs[runCtx].cancelled /\ pc[runCtx] = "ffmpeg"
    BY DEF HeadEncoding, Matched, Works, Working, TypeOK
  <2> QED BY <2>1 DEF OInv, Work, GoesOn
<1>4. HasCurrent(queue) => Current(queue).file \in Files
  BY QueueTypes DEF TypeOK, Entry
<1>5. CASE EnsureActive(t) \/ EnsureStopped(t)
  <2>1. runs' = runs /\ UNCHANGED <<qvars, nextSeq, runCtx, runner, inbox, count>>
    <3>1. CASE EnsureActive(t)
      BY <3>1 DEF EnsureActive, rvars
    <3>2. CASE EnsureStopped(t)
      <4>1. ~ShouldRun(t)
        BY <3>2 DEF EnsureStopped
      <4>2. ~HasCurrent(queue)
        <5>1. HasCurrent(queue) => Plan(t)
          BY <1>0 DEF NoHead
        <5> QED BY <1>4, <4>1, <5>1, NoFileAssumption DEF ShouldRun, Plan
      <4>3. AtRest
        BY <1>0, <4>2 DEF NoHead, Spent, HeadEncoding, Matched, HeadDue
      <4> QED BY <3>2, <4>3 DEF EnsureStopped, OInv, Work
    <3> QED BY <1>5, <3>1, <3>2
  <2>2. ~AtRest \/ NoHead
    <3>1. CASE EnsureActive(t)
      BY <3>1 DEF EnsureActive, AlreadyActive, OInv, Work
    <3>2. CASE EnsureStopped(t)
      <4>1. HasCurrent(queue) => Plan(t)
        BY <1>0 DEF NoHead
      <4>2. ~HasCurrent(queue)
        BY <1>4, <3>2, <4>1, NoFileAssumption DEF EnsureStopped, ShouldRun, Plan
      <4> QED BY <1>0, <4>2 DEF HeadEncoding, Matched, HeadDue
    <3> QED BY <1>5, <3>1, <3>2
  <2>3. PICK to \in {"forget", Rest(t)} :
          /\ Goto(t, "ensure", to) /\ (local' = local \/ local' = [local EXCEPT ![t] = NoLocals])
    BY <1>5 DEF EnsureActive, EnsureStopped, Finish
  <2>4. Moved(t) /\ pc'[t] = to
    BY <2>1, <2>3, SteerMove, RestIsOut DEF OInv
  <2>5. \A u \in Threads \ {t} : local'[u] = local[u]
    BY <2>3 DEF TypeOK
  <2>6. Numbers' /\ Playlist' /\ Work' /\ (NoHead => NoHead')
    BY <1>1, <1>2, <2>1, <2>4, <2>5, SameWork DEF qvars
  <2>7. Stages(t)'
    BY <2>2, <2>4, <2>6, RestIsOut DEF Stages, Moved
  <2> QED BY <2>2, <2>4, <2>6, <2>7, Assembled DEF Moved
<1>6. CASE EnsureCheck(t)
  <2>1. Goto(t, "ensure", "tag") /\ UNCHANGED <<qvars, nextSeq, rvars, local, player, inbox, count>>
    BY <1>6 DEF EnsureCheck
  <2>2. HeadDue /\ Plan(t)
    <3>1. HasCurrent(queue) /\ ~AlreadyActive(t) /\ Plan(t)
      BY <1>0, <1>6 DEF EnsureCheck, ShouldRun, NoHead
    <3>2. ~HeadEncoding
      BY <1>3, <3>1 DEF HeadEncoding, Matched, AtTask, AlreadyActive, Plan
    <3> QED BY <1>0, <3>1, <3>2 DEF NoHead
  <2>3. Moved(t) /\ pc'[t] = "tag"
    BY <2>1, SteerMove DEF OInv, rvars
  <2>4. /\ Numbers' /\ Playlist' /\ Work' /\ Current(queue)' = Current(queue) /\ (HeadDue => HeadDue')
    BY <1>1, <1>2, <2>1, <2>3, SameWork DEF qvars, rvars
  <2>5. Stages(t)'
    BY <2>1, <2>2, <2>3, <2>4 DEF Stages, Plan, qvars
  <2> QED BY <2>3, <2>4, <2>5, Assembled DEF Steers
<1> QED BY <1>5, <1>6

\* EnsureRunnerState's writing of the head: the entry is the one that is due.
LEMMA TagOrderly ==
  ASSUME TypeOK, OInv, NEW t \in Threads, EnsureTag(t)
  PROVE  OInv'
<1> USE DEF Steering, Skipping
<1>1. pc[t] = "tag" /\ HeadDue /\ Plan(t) /\ HasCurrent(queue) /\ AtRest
  BY DEF EnsureTag, Goto, OInv, Stages, HeadDue, Spent
<1>2. /\ Goto(t, "tag", "write") /\ UNCHANGED <<qvars, nextSeq, rvars, lock, player, inbox, count>>
      /\ local' = [local EXCEPT ![t].entry = [Current(queue) EXCEPT !.first = local[t].base]]
  BY <1>1 DEF EnsureTag
<1>3. Moved(t) /\ pc'[t] = "write"
  BY <1>2, SteerMove DEF OInv, rvars
<1>4. /\ \A u \in Threads \ {t} : local'[u] = local[u]
      /\ local'[t].file = local[t].file /\ local'[t].base = local[t].base
      /\ local'[t].entry = [Current(queue) EXCEPT !.first = local[t].base]
  <2>1. local \in [Threads -> Locals]
    BY DEF TypeOK
  <2>2. ASSUME NEW e, local' = [local EXCEPT ![t] = [local[t] EXCEPT !.entry = e]]
        PROVE  /\ \A u \in Threads \ {t} : local'[u] = local[u]
               /\ local'[t].file = local[t].file /\ local'[t].base = local[t].base /\ local'[t].entry = e
    <3>1. [local[t] EXCEPT !.entry = e].file = local[t].file /\ [local[t] EXCEPT !.entry = e].base = local[t].base
          /\ [local[t] EXCEPT !.entry = e].entry = e
      BY <2>1 DEF Locals
    <3> QED BY <2>1, <2>2, <3>1
  <2> QED BY <1>2, <2>2
<1>5. /\ Numbers' /\ Playlist' /\ Work' /\ Current(queue)' = Current(queue) /\ (HeadDue => HeadDue')
  <2>1. count'.commands \in Nat /\ count'.commands >= count.commands
    BY <1>2, BoundsAssumption DEF TypeOK
  <2> QED BY <1>1, <1>2, <1>3, <1>4, <2>1, SameWork DEF qvars, rvars, AtRest
<1>6. Stages(t)'
  BY <1>1, <1>2, <1>3, <1>4, <1>5 DEF Stages, Plan, qvars
<1> QED BY <1>3, <1>5, <1>6, Assembled DEF Steers

\* SetItemAtCursor changes the current entry and no other.
LEMMA SetCurrentKeeps ==
  ASSUME NEW q \in [items : Seq(Entry), cursor : Nat], HasCurrent(q), NEW e \in Entry, e.id = Current(q).id
  PROVE  LET new == SetCurrent(q, e)
         IN  /\ HasCurrent(new) /\ Current(new) = e /\ new.cursor = q.cursor
             /\ Len(new.items) = Len(q.items) /\ Positions(new) = Positions(q)
             /\ \A i \in Positions(q) : new.items[i].id = q.items[i].id
<1> DEFINE items == [q.items EXCEPT ![q.cursor] = e]
<1>1. q.items \in Seq(Entry) /\ q.cursor \in 1 .. Len(q.items) /\ Len(q.items) \in Nat
  BY DEF HasCurrent, Positions
<1>2. SetCurrent(q, e) = [items |-> items, cursor |-> q.cursor]
  <2>1. [q EXCEPT !.items[q.cursor] = e] = [items |-> items, cursor |-> q.cursor]
    OBVIOUS
  <2> QED BY <2>1 DEF SetCurrent
<1>3. /\ items \in Seq(Entry) /\ Len(items) = Len(q.items) /\ items[q.cursor] = e
      /\ \A i \in 1 .. Len(q.items) : i # q.cursor => items[i] = q.items[i]
  BY <1>1, ExceptSeq
<1> HIDE DEF items
<1> QED BY <1>1, <1>2, <1>3 DEF HasCurrent, Current, Positions

LEMMA WriteOrderly ==
  ASSUME TypeOK, OInv, NEW t \in Threads, EnsureWrite(t)
  PROVE  OInv'
<1> USE DEF Steering, Skipping
<1>1. /\ pc[t] = "write" /\ HeadDue /\ Plan(t) /\ HasCurrent(queue) /\ AtRest
      /\ local[t].entry = [Current(queue) EXCEPT !.first = mediaSeq]
  BY DEF EnsureWrite, Goto, OInv, Stages, HeadDue, Spent
<1>2. /\ Goto(t, "write", "launch") /\ queue' = SetCurrent(queue, local[t].entry)
      /\ UNCHANGED <<mediaSeq, encDone, playDone, nextSeq, rvars, lock, local, player, inbox, count>>
  BY DEF EnsureWrite
<1>3. Moved(t) /\ pc'[t] = "launch"
  BY <1>2, SteerMove DEF OInv, rvars
<1>4. /\ HasCurrent(queue') /\ Current(queue') = local[t].entry /\ queue'.cursor = queue.cursor
      /\ Len(queue'.items) = Len(queue.items) /\ Positions(queue') = Positions(queue)
      /\ \A i \in Positions(queue) : queue'.items[i].id = queue.items[i].id
      /\ Current(queue').file = Current(queue).file /\ Current(queue').first = mediaSeq
  <2>1. Current(queue) \in Entry /\ mediaSeq \in Streams /\ queue \in [items : Seq(Entry), cursor : Nat]
    BY <1>1, QueueTypes DEF TypeOK
  <2>2. /\ local[t].entry \in Entry /\ local[t].entry.id = Current(queue).id
        /\ local[t].entry.file = Current(queue).file /\ local[t].entry.first = mediaSeq
    <3>1. ASSUME NEW e \in Entry
          PROVE  LET f == [e EXCEPT !.first = mediaSeq]
                 IN  f \in Entry /\ f.id = e.id /\ f.file = e.file /\ f.first = mediaSeq
      BY <2>1 DEF Entry
    <3> DEFINE f == [Current(queue) EXCEPT !.first = mediaSeq]
    <3>2. f \in Entry /\ f.id = Current(queue).id /\ f.file = Current(queue).file /\ f.first = mediaSeq
      BY <2>1, <3>1
    <3>3. local[t].entry = f
      BY <1>1
    <3> HIDE DEF f
    <3> QED BY <3>2, <3>3
  <2> DEFINE e == local[t].entry
             new == SetCurrent(queue, e)
  <2>3. e \in Entry /\ e.id = Current(queue).id /\ HasCurrent(queue)
    BY <1>1, <2>2
  <2> HIDE DEF e
  <2>4. /\ HasCurrent(new) /\ Current(new) = e /\ new.cursor = queue.cursor
        /\ Len(new.items) = Len(queue.items) /\ Positions(new) = Positions(queue)
        /\ \A i \in Positions(queue) : new.items[i].id = queue.items[i].id
    BY <2>1, <2>3, SetCurrentKeeps
  <2>5. queue' = new
    BY <1>2 DEF e
  <2> HIDE DEF new
  <2> QED BY <2>2, <2>4, <2>5 DEF e
<1>5. Launched' = Launched /\ AtRest' /\ (OnlyAppended' <=> OnlyAppended)
  BY <1>1, <1>2, <1>3, <1>4 DEF Moved, OnlyAppended
<1>6. Numbers'
  BY <1>2, <1>5 DEF OInv, Numbers, rvars
<1>7. Playlist'
  <2>1. Appended => Appended'
    BY <1>1, <1>2, <1>4, <1>5 DEF Appended, rvars
  <2> QED BY <1>2, <1>4, <1>5, <2>1 DEF OInv, Playlist
<1>8. Work'
  BY <1>1, <1>2, <1>5 DEF OInv, Work, AtRest, rvars
<1>9. HeadDue'
  BY <1>1, <1>2, <1>4, <1>5 DEF HeadDue, Spent, rvars
<1>10. Stages(t)'
  BY <1>1, <1>2, <1>3, <1>4, <1>9 DEF Stages, Plan
<1> QED BY <1>3, <1>6, <1>7, <1>8, <1>10, Assembled DEF Steers

\* What the launch does: a run that was not launched takes the thread's
\* arguments.
LEMMA LaunchStep ==
  ASSUME TInv, LockHeldInside, NEW t \in Threads, EnsureLaunch(t)
  PROVE  \E r \in Runs, to \in {"forget", Rest(t)} :
           /\ r \notin Launched /\ r # t
           /\ pc[t] = "launch" /\ pc'[r] = "spawned" /\ pc'[t] = to
           /\ \A u \in Threads \ {r, t} : pc'[u] = pc[u]
           /\ runCtx' = r /\ nextSeq' = local[t].base
           /\ UNCHANGED <<queue, mediaSeq, encDone, playDone, runner, inbox, count>>
           /\ runs'[r].file = local[t].file /\ runs'[r].seq = local[t].base
           /\ runs'[r].entry = local[t].entry.id
           /\ runs'[r].sent = 0 /\ ~runs'[r].cancelled /\ ~runs'[r].ok
           /\ \A s \in Launched : /\ runs'[s].seq = runs[s].seq /\ runs'[s].sent = runs[s].sent
                                  /\ runs'[s].ok = runs[s].ok /\ runs'[s].entry = runs[s].entry
<1> DEFINE r == CHOOSE s \in Runs :
                  pc[s] = "idle" /\ \A u \in Runs : pc[u] = "idle" => s <= u
           to == IF local[t].stream # None THEN "forget" ELSE Rest(t)
           new == [NoRun EXCEPT !.file = local[t].file, !.seq = local[t].base,
                                !.entry = local[t].entry.id]
<1>0. TypeOK /\ InOrder /\ pc \in [Threads -> Stage] /\ runs \in [Runs -> Run]
  BY DEF TInv, TypeOK
<1>1. /\ pc[t] = "launch" /\ pc' = [pc EXCEPT ![r] = "spawned", ![t] = to]
      /\ local' = IF local[t].stream # None THEN local ELSE [local EXCEPT ![t] = NoLocals]
      /\ runs' = [s \in Runs |-> IF s = r THEN new ELSE Superseded(s)]
      /\ runCtx' = r /\ nextSeq' = local[t].base
      /\ UNCHANGED <<queue, mediaSeq, encDone, playDone, runner, inbox, count>>
  BY DEF EnsureLaunch, qvars
<1>2. \E s \in Runs : s \notin Launched
  <2>1. lock = t /\ t # None
    BY <1>1, BoundsAssumption DEF LockHeldInside, Inside, Threads, None
  <2> QED BY <1>0, <2>1 DEF InOrder
<1>3. r \in Runs /\ pc[r] = "idle" /\ r \notin Launched
  BY <1>0, <1>2, NextRun
<1>4. /\ new.file = local[t].file /\ new.seq = local[t].base /\ new.entry = local[t].entry.id
      /\ new.sent = 0 /\ new.cancelled = FALSE /\ new.ok = FALSE
  BY <1>0, NewRunType
<1>5. to \in {"forget", Rest(t)}
  OBVIOUS
<1> HIDE DEF r, to, new
<1>6. /\ pc'[r] = "spawned" /\ pc'[t] = to /\ r # t
      /\ \A u \in Threads \ {r, t} : pc'[u] = pc[u]
  BY <1>0, <1>1, <1>3, ThreadKinds
<1>7. /\ runs'[r] = new
      /\ \A s \in Launched : /\ runs'[s].seq = runs[s].seq /\ runs'[s].sent = runs[s].sent
                             /\ runs'[s].ok = runs[s].ok /\ runs'[s].entry = runs[s].entry
  <2>1. \A s \in Runs : /\ Superseded(s).seq = runs[s].seq /\ Superseded(s).sent = runs[s].sent
                        /\ Superseded(s).ok = runs[s].ok /\ Superseded(s).entry = runs[s].entry
    BY <1>0 DEF Superseded, Run
  <2> QED BY <1>1, <1>3, <2>1 DEF Launched
<1> QED BY <1>1, <1>3, <1>4, <1>5, <1>6, <1>7

\* The launch: the head is due, so that its run is the first at work under its
\* number, which no other run has.
LEMMA LaunchOrderly ==
  ASSUME TInv, LockHeldInside, OInv, NEW t \in Threads, EnsureLaunch(t)
  PROVE  OInv'
<1>0. TypeOK /\ pc \in [Threads -> Stage] /\ runs \in [Runs -> Run]
  BY DEF TInv, TypeOK
<1>1. PICK r \in Runs, to \in {"forget", Rest(t)} :
           /\ r \notin Launched /\ r # t
           /\ pc[t] = "launch" /\ pc'[r] = "spawned" /\ pc'[t] = to
           /\ \A u \in Threads \ {r, t} : pc'[u] = pc[u]
           /\ runCtx' = r /\ nextSeq' = local[t].base
           /\ UNCHANGED <<queue, mediaSeq, encDone, playDone, runner, inbox, count>>
           /\ runs'[r].file = local[t].file /\ runs'[r].seq = local[t].base
           /\ runs'[r].entry = local[t].entry.id
           /\ runs'[r].sent = 0 /\ ~runs'[r].cancelled /\ ~runs'[r].ok
           /\ \A s \in Launched : /\ runs'[s].seq = runs[s].seq /\ runs'[s].sent = runs[s].sent
                                  /\ runs'[s].ok = runs[s].ok /\ runs'[s].entry = runs[s].entry
  BY LaunchStep
<1>2. /\ HeadDue /\ HasCurrent(queue) /\ Spent /\ AtRest
      /\ local[t].file = Current(queue).file /\ local[t].base = mediaSeq
      /\ local[t].entry = Current(queue) /\ Current(queue).first = mediaSeq
  BY <1>1 DEF OInv, Stages, Plan, HeadDue, Spent
<1>3. r # None
  BY BoundsAssumption DEF Runs, None
<1>4. /\ Steers(t) /\ ~Steers(r)' /\ Works(r)' /\ (Steers(t)' => to = "forget") /\ ~Works(t)'
      /\ \A u \in Threads \ {t} : ~Steers(u) /\ ~Steers(u)'
  <2>1. Steers(t) /\ \A u \in Threads \ {t} : ~Steers(u)
    BY <1>1 DEF OInv, Solo, Steers, Steering
  <2> QED BY <1>1, <2>1, RestIsOut DEF Steers, Works, Steering, Skipping, Working
<1>5. \A s \in Runs : Works(s)' => s = r
  BY <1>1, <1>2, <1>4, ThreadKinds DEF AtRest, Works
<1>6. Launched' = Launched \union {r}
  <2>1. pc'[r] # "idle" /\ (t \in Runs => pc'[t] # "idle" /\ pc[t] # "idle")
    BY <1>1, RestIsOut
  <2> QED BY <1>1, <2>1, ThreadKinds DEF Launched
<1>7. \A s \in Launched : s # r
  BY <1>1
<1>8. Solo'
  <2>1. \A u, v \in Threads : Steers(u)' /\ Steers(v)' => u = v
    BY <1>4
  <2>2. \A s \in Runs : Works(s)' \/ (Steers(s)' /\ pc'[s] # "forget") => s = runCtx'
    BY <1>1, <1>3, <1>4, <1>5, ThreadKinds
  <2>3. \A u \in Threads : pc'[u] \in Skipping => u = Client
    BY <1>1, <1>3, <1>4, RestIsOut DEF OInv, Solo, Skipping, Steering
  <2>4. \A u \in Threads \ Runs : pc'[u] = "idle" \/ Steers(u)'
    BY <1>1, <1>3, RestIsOut DEF OInv, Solo, Steers, Steering
  <2> QED BY <2>1, <2>2, <2>3, <2>4 DEF Solo
<1>9. Waiting'
  BY <1>1, <1>4 DEF OInv, Waiting, Unsteered
<1>10. Numbers'
  <2>1. mediaSeq \in Nat /\ \A s \in Launched : runs[s].seq \in Nat
    BY <1>0, StreamsAre DEF TypeOK, Run, Launched
  <2>2. \A s \in Launched : runs[s].seq < mediaSeq
    BY <1>2 DEF Spent
  <2>3. nextSeq' >= runs'[r].seq + runs'[r].sent
    BY <1>1, <1>2, <1>7, <2>1
  <2>4. ASSUME NEW s \in Launched'
        PROVE  /\ runs'[s].seq <= mediaSeq' /\ (s # r => runs'[s].seq < runs'[r].seq)
               /\ runs'[s].ok => runs'[s].sent = SegsPerFile
               /\ \A u \in Launched' : s # u => runs'[s].seq # runs'[u].seq
    <3>1. CASE s = r
      BY <1>1, <1>2, <1>6, <1>7, <2>1, <2>2, <3>1
    <3>2. CASE s # r
      <4>1. s \in Launched
        BY <1>6, <3>2
      <4>2. \A u \in Launched' : s # u => runs'[s].seq # runs'[u].seq
        BY <1>1, <1>2, <1>6, <1>7, <2>1, <2>2, <4>1 DEF OInv, Numbers
      <4> QED BY <1>1, <1>2, <1>7, <2>1, <2>2, <4>1, <4>2 DEF OInv, Numbers
    <3> QED BY <3>1, <3>2
  <2> QED BY <1>1, <1>3, <1>6, <2>3, <2>4 DEF OInv, Numbers
<1>11. Playlist'
  <2>1. ASSUME OnlyAppended PROVE Appended'
    <3>1. queue.cursor \in 1 .. Len(queue.items) /\ Len(queue.items) \in Nat
      BY <1>0, <1>2 DEF HasCurrent, Positions, TypeOK
    <3>2. Appended /\ Current(queue).id = queue.cursor
      BY <1>2, <2>1 DEF OInv, Playlist, Appended, Current, HasCurrent
    <3>3. runs'[r].entry = queue.cursor
      BY <1>1, <1>2, <3>2
    <3>4. \A s \in Launched : runs'[s].entry < queue.cursor /\ runs'[s].entry \in Nat
      BY <1>0, <1>1, <1>2, <1>7, <2>1, BoundsAssumption DEF HeadDue, Run, Launched
    <3>5. \A s \in Launched' : runs'[s].entry <= queue.cursor /\ runs'[s].entry \in Nat
                               /\ runs'[s].entry <= Len(queue.items)
      BY <1>6, <3>1, <3>3, <3>4
    <3>6. \A s, u \in Launched' : s # u => runs'[s].entry # runs'[u].entry
      <4>1. \A s, u \in Launched : s # u => runs'[s].entry # runs'[u].entry
        BY <1>1, <3>2 DEF Appended
      <4> QED BY <1>6, <3>1, <3>3, <3>4, <4>1
    <3> QED BY <1>1, <3>2, <3>5, <3>6 DEF Appended
  <2> QED BY <1>1, <2>1 DEF OInv, Playlist, OnlyAppended
<1>12. Matched' /\ ~runs'[r].cancelled
  BY <1>1, <1>2, <1>3, <1>7 DEF Matched
<1>13. Work'
  <2>1. GoesOn(r)'
    BY <1>1, <1>2, <1>3, <1>7 DEF OInv, Work, GoesOn
  <2>2. LeftAlone(r)'
    BY <1>1, <1>3, <1>4 DEF LeftAlone
  <2> QED BY <1>4, <1>5, <1>12, <2>1, <2>2 DEF Work, AtRest
<1>14. ~AtRest'
  BY <1>4 DEF AtRest
<1>15. \A u \in Threads : Stages(u)'
  <2>1. \A u \in Threads : ~Steers(u)' \/ pc'[u] = "forget"
    BY <1>1, <1>3, <1>4
  <2> QED BY <1>14, <2>1 DEF Stages, Steers, Steering, Skipping
<1> QED BY <1>8, <1>9, <1>10, <1>11, <1>13, <1>14, <1>15 DEF OInv, Settled

\* checkAndAttemptQueueAdvance: only of a head whose encoder is done.
LEMMA CheckOrderly ==
  ASSUME TypeOK, OInv, NEW t \in Threads, Check(t)
  PROVE  OInv'
<1> USE DEF Steering, Skipping
<1> DEFINE s == local[t].stream
           isHead == HasCurrent(queue) /\ Current(queue).first = s
           advance == isHead /\ s \in encDone /\ s \in playDone
           to == IF advance THEN "next" ELSE Rest(t)
<1>1. /\ Goto(t, "check", to) /\ local' = (IF advance THEN local ELSE [local EXCEPT ![t] = NoLocals])
      /\ encDone' = (IF isHead THEN encDone ELSE encDone \ {s})
      /\ playDone' = (IF isHead THEN playDone ELSE playDone \ {s})
      /\ UNCHANGED <<queue, mediaSeq, nextSeq, rvars, lock, player, inbox, count>>
  BY DEF Check
<1>2. Moved(t) /\ pc[t] = "check" /\ pc'[t] = to
  <2>1. to \in Steering \union {Rest(t)} /\ to \notin Skipping
    BY RestIsOut
  <2>2. Goto(t, "check", to) /\ UNCHANGED <<runCtx, inbox>>
    BY <1>1 DEF rvars
  <2> HIDE DEF to
  <2> QED BY <2>1, <2>2, SteerMove DEF OInv
<1>3. Steers(t) /\ Calm
  BY <1>2 DEF OInv, Stages, Steers
<1>4. \A r \in Runs : Works(r) => ~runs[r].cancelled /\ pc[r] = "ffmpeg"
  BY <1>2, <1>3, NoneCancelled
<1>5. \A u \in Threads \ {t} : local'[u] = local[u]
  BY <1>1 DEF TypeOK
<1>6. count'.commands \in Nat /\ count'.commands >= count.commands
  BY <1>1, BoundsAssumption DEF TypeOK
<1>7. /\ Numbers' /\ Playlist' /\ Work' /\ (NoHead => NoHead') /\ (HeadEncoding => HeadEncoding')
      /\ HeadEncoded /\ Current(queue).first \in encDone' => HeadEncoded'
      /\ Current(queue)' = Current(queue)
  <2>1. encDone' \subseteq encDone
    BY <1>1
  <2> QED BY <1>1, <1>2, <1>4, <1>5, <1>6, <2>1, SameWork DEF rvars
<1>8. CASE advance
  <2>1. HeadEncoded
    <3>1. HeadEncoding => mediaSeq = Current(queue).first
      <4>1. HeadEncoding => runCtx \in Runs /\ Works(runCtx) /\ ~runs[runCtx].cancelled /\ pc[runCtx] = "ffmpeg"
        BY DEF HeadEncoding, Matched, Works, Working, TypeOK
      <4>2. HeadEncoding => mediaSeq = runs[runCtx].seq
        BY <4>1 DEF OInv, Work, GoesOn
      <4> QED BY <4>2 DEF HeadEncoding, Matched
    <3>2. Current(queue).first < mediaSeq
      BY <1>8 DEF OInv, Numbers
    <3>3. mediaSeq \in Nat
      BY StreamsAre DEF TypeOK
    <3> QED BY <1>3, <1>8, <3>1, <3>2, <3>3 DEF Calm, NoHead
  <2>2. HeadEncoded' /\ local'[t].stream = Current(queue)'.first /\ local'[t].stream \in playDone'
    BY <1>1, <1>7, <1>8, <2>1 DEF HeadEncoded
  <2>3. pc'[t] = "next"
    BY <1>2, <1>8
  <2>4. Stages(t)'
    BY <2>2, <2>3 DEF Stages
  <2> QED BY <1>2, <1>7, <2>2, <2>4, Assembled
<1>9. CASE ~advance
  <2>1. pc'[t] = Rest(t)
    BY <1>2, <1>9
  <2>2. Stages(t)'
    BY <2>1, RestIsOut DEF Stages
  <2>3. HeadEncoding => ~AtRest
    BY DEF HeadEncoding, Matched, AtRest, Works, Working, TypeOK
  <2>4. HeadEncoded => HeadEncoded'
    BY <1>1, <1>7 DEF HeadEncoded, Matched
  <2>5. ~AtRest' \/ HeadEncoded' \/ NoHead'
    BY <1>2, <1>3, <1>7, <2>3, <2>4 DEF Calm, Moved
  <2> QED BY <1>2, <1>7, <2>2, <2>5, Assembled
<1> QED BY <1>8, <1>9

\* What is left to do once a NEXT has been handled.
LEMMA ForgetOrderly ==
  ASSUME TypeOK, OInv, NEW t \in Threads, Forget(t)
  PROVE  OInv'
<1> USE DEF Steering, Skipping
<1>1. /\ Goto(t, "forget", Rest(t)) /\ encDone' \subseteq encDone /\ local' = [local EXCEPT ![t] = NoLocals]
      /\ UNCHANGED <<queue, mediaSeq, nextSeq, rvars, lock, player, inbox, count>>
  BY DEF Forget
<1>2. Moved(t) /\ Steers(t) /\ pc[t] = "forget" /\ pc'[t] = Rest(t)
  <2>1. Rest(t) \notin Skipping
    BY RestIsOut
  <2>2. Goto(t, "forget", Rest(t)) /\ UNCHANGED <<runCtx, inbox>>
    BY <1>1 DEF rvars
  <2> QED BY <2>1, <2>2, SteerMove DEF OInv
<1>3. \A r \in Runs : Works(r) => ~runs[r].cancelled /\ ~Steers(t)'
  BY <1>2, NoneCancelled, RestIsOut DEF Steers
<1>4. \A u \in Threads \ {t} : local'[u] = local[u]
  BY <1>1 DEF TypeOK
<1>5. count'.commands \in Nat /\ count'.commands >= count.commands
  BY <1>1, BoundsAssumption DEF TypeOK
<1>6. Numbers' /\ Playlist' /\ Work' /\ (NoHead => NoHead')
  BY <1>1, <1>2, <1>3, <1>4, <1>5, SameWork DEF rvars
<1>7. ~AtRest' \/ NoHead'
  BY <1>2, <1>6 DEF OInv, Stages, Moved
<1>8. Stages(t)'
  BY <1>2, RestIsOut DEF Stages
<1> QED BY <1>2, <1>6, <1>7, <1>8, Assembled

\* Cancelling a run changes nothing else of it.
LEMMA CancelKeeps ==
  ASSUME TypeOK, CancelRun(runCtx)
  PROVE  /\ \A r \in Runs : /\ runs'[r].seq = runs[r].seq /\ runs'[r].sent = runs[r].sent
                            /\ runs'[r].ok = runs[r].ok /\ runs'[r].entry = runs[r].entry
                            /\ runs'[r].file = runs[r].file
                            /\ r # runCtx => runs'[r] = runs[r]
         /\ runCtx # None => runs'[runCtx].cancelled
<1>1. runs \in [Runs -> Run] /\ runCtx \in Runs \union {None}
  BY DEF TypeOK
<1>2. \A r \in Runs : LET c == [runs[r] EXCEPT !.cancelled = TRUE]
                      IN  /\ c.seq = runs[r].seq /\ c.sent = runs[r].sent /\ c.ok = runs[r].ok
                          /\ c.entry = runs[r].entry /\ c.file = runs[r].file /\ c.cancelled
  BY <1>1 DEF Run
<1>3. CASE runCtx = None
  BY <1>1, <1>3 DEF CancelRun
<1>4. CASE runCtx # None
  <2>1. runCtx \in Runs /\ runs' = [runs EXCEPT ![runCtx] = [runs[runCtx] EXCEPT !.cancelled = TRUE]]
    BY <1>1, <1>4 DEF CancelRun
  <2> QED BY <1>1, <1>2, <2>1
<1> QED BY <1>3, <1>4

\* A step that cancels the current run while nothing is at work, or the skip's.
LEMMA CancelWork ==
  ASSUME TypeOK, OInv, NEW t \in Threads, Moved(t), CancelRun(runCtx),
         UNCHANGED <<qvars, nextSeq, runCtx, runner, count>>
  PROVE  /\ Numbers' /\ Playlist' /\ (OnlyAppended' <=> OnlyAppended)
         /\ Matched' <=> Matched
         /\ Spent' <=> Spent
         /\ NoHead => NoHead'
<1>1. Launched' = Launched /\ Launched \subseteq Runs /\ (AtRest' <=> AtRest)
  BY DEF Moved, Launched
<1>2. /\ \A r \in Runs : /\ runs'[r].seq = runs[r].seq /\ runs'[r].sent = runs[r].sent
                         /\ runs'[r].ok = runs[r].ok /\ runs'[r].entry = runs[r].entry
                         /\ runs'[r].file = runs[r].file
  BY CancelKeeps
<1>3. Numbers'
  BY <1>1, <1>2 DEF OInv, Numbers, TypeOK, qvars
<1>4. OnlyAppended' <=> OnlyAppended
  BY DEF OnlyAppended, qvars
<1>5. Playlist'
  <2>1. Appended => Appended'
    BY <1>1, <1>2 DEF Appended, qvars
  <2> QED BY <1>4, <2>1 DEF OInv, Playlist, qvars
<1>6. Matched' <=> Matched
  <2>1. runCtx # None => runCtx \in Runs
    BY DEF TypeOK
  <2> QED BY <1>2, <2>1 DEF Matched, qvars
<1>7. (Spent' <=> Spent) /\ (NoHead => NoHead')
  BY <1>1, <1>2 DEF Spent, NoHead, qvars
<1> QED BY <1>3, <1>4, <1>5, <1>6, <1>7

\* StopCurrentEncoder, when there is none at work.
LEMMA StopOrderly ==
  ASSUME TypeOK, OInv, NEW t \in Threads, Stop(t)
  PROVE  OInv'
<1> USE DEF Steering, Skipping
<1>1. /\ Goto(t, "stop", "react") /\ CancelRun(runCtx)
      /\ UNCHANGED <<qvars, nextSeq, runCtx, runner, lock, local, player, inbox, count>>
  BY DEF Stop
<1>2. Moved(t) /\ Steers(t) /\ pc[t] = "stop" /\ pc'[t] = "react"
  BY <1>1, SteerMove DEF OInv
<1>3. NoHead /\ AtRest
  BY <1>2 DEF OInv, Stages, NoHead, Spent
<1>4. Numbers' /\ Playlist' /\ NoHead'
  BY <1>1, <1>2, <1>3, CancelWork
<1>5. Work'
  BY <1>1, <1>2, <1>3 DEF OInv, Work, AtRest, Moved
<1>6. Stages(t)'
  BY <1>2, <1>4 DEF Stages
<1> QED BY <1>2, <1>4, <1>5, <1>6, Assembled

\* The internal NEXT: the entry it comes to was not launched before.
LEMMA NextOrderly ==
  ASSUME TypeOK, OInv, NEW t \in Threads, InternalNext(t)
  PROVE  OInv'
<1> USE DEF Steering, Skipping
<1> DEFINE to == IF CanAdvance(queue) THEN "react" ELSE "stop"
<1>1. /\ Goto(t, "next", to) /\ queue' = Advance(queue)
      /\ UNCHANGED <<mediaSeq, encDone, playDone, nextSeq, rvars, lock, local, player, inbox, count>>
  BY DEF InternalNext
<1>2. Moved(t) /\ Steers(t) /\ pc[t] = "next" /\ pc'[t] = to
  BY <1>1, SteerMove DEF OInv, rvars
<1>3. HasCurrent(queue) /\ Spent /\ AtRest
  BY <1>2 DEF OInv, Stages, HeadEncoded, Matched, Spent
<1>4. Launched' = Launched /\ AtRest' /\ Spent'
  BY <1>1, <1>2, <1>3 DEF Moved, Spent, rvars
<1>5. /\ queue'.items = queue.items /\ Len(queue.items) \in Nat /\ queue.cursor \in 1 .. Len(queue.items)
      /\ CanAdvance(queue) => queue'.cursor = queue.cursor + 1 /\ queue.cursor + 1 <= Len(queue.items)
      /\ ~CanAdvance(queue) => queue'.cursor = 0
  BY <1>1, <1>3 DEF Advance, CanAdvance, HasCurrent, Positions, TypeOK
<1>6. Numbers'
  BY <1>1, <1>4 DEF OInv, Numbers, rvars
<1>7. ASSUME OnlyAppended
      PROVE  /\ Appended'
             /\ CanAdvance(queue) => \A r \in Launched : runs[r].entry < queue'.cursor
  <2>1. Appended /\ \A r \in Launched : runs[r].entry <= queue.cursor /\ runs[r].entry \in Nat
    BY <1>3, <1>7, BoundsAssumption DEF OInv, Playlist, Appended, TypeOK, Run, Launched
  <2> QED BY <1>1, <1>4, <1>5, <2>1 DEF Appended, HasCurrent, Positions, rvars
<1>8. (OnlyAppended' <=> OnlyAppended) /\ Playlist'
  <2>1. OnlyAppended' <=> OnlyAppended
    BY <1>1, <1>5 DEF OnlyAppended
  <2> QED BY <1>1, <1>5, <1>7, <2>1 DEF OInv, Playlist
<1>9. Work'
  BY <1>1, <1>3, <1>4 DEF OInv, Work, AtRest, rvars
<1>10. CASE CanAdvance(queue)
  <2>1. HeadDue'
    BY <1>1, <1>4, <1>5, <1>7, <1>8, <1>10 DEF HeadDue, HasCurrent, Positions, rvars
  <2>2. pc'[t] = "react"
    BY <1>2, <1>10
  <2>3. Stages(t)'
    BY <2>1, <2>2 DEF Stages
  <2> QED BY <1>2, <1>6, <1>8, <1>9, <2>2, <2>3, Assembled DEF Steers
<1>11. CASE ~CanAdvance(queue)
  <2>1. NoHead'
    BY <1>4, <1>5, <1>11 DEF NoHead, HasCurrent, Positions
  <2>2. pc'[t] = "stop"
    BY <1>2, <1>11
  <2>3. Stages(t)'
    BY <2>1, <2>2 DEF Stages
  <2> QED BY <1>2, <1>6, <1>8, <1>9, <2>1, <2>3, Assembled
<1> QED BY <1>10, <1>11

\* A skip stops the encoder, waits for it to be gone, keeps its numbers, and
\* only then moves the cursor.
LEMMA SkipOrderly ==
  ASSUME TypeOK, OInv, SkipSteps, ~Stopping
  PROVE  OInv'
<1> USE ThreadKinds DEF Steering, Skipping
<1>0. count.commands \in Nat /\ mediaSeq \in Nat /\ nextSeq \in Nat
      /\ \A t \in Threads : local[t].base \in Nat
  BY StreamsAre, BoundsAssumption, LocalType DEF TypeOK
<1>1. CASE SkipStop
  <2> DEFINE to == IF local[Client].entry # NoEntry THEN "skipSeq" ELSE "skipMove"
  <2>1. /\ Goto(Client, "skipStop", to) /\ CancelRun(runCtx)
        /\ UNCHANGED <<qvars, nextSeq, runCtx, runner, lock, local, player, inbox, count>>
    BY <1>1 DEF SkipStop
  <2>2. Moved(Client) /\ Steers(Client) /\ pc[Client] = "skipStop" /\ pc'[Client] = to
    BY <2>1, SteerMove DEF OInv
  <2>3. /\ Calm /\ ~OnlyAppended /\ (local[Client].entry # NoEntry <=> HasCurrent(queue))
        /\ HasCurrent(queue) => nextSeq > Current(queue).first
    BY <2>2 DEF OInv, Stages
  <2>4. \A r \in Runs : Works(r) => ~runs[r].cancelled /\ pc[r] = "ffmpeg" /\ r = runCtx /\ HeadEncoding
    BY <2>2, NoneCancelled DEF Moved
  <2>5. Numbers' /\ Playlist' /\ ~OnlyAppended' /\ (Matched' <=> Matched) /\ (Spent' <=> Spent)
        /\ (NoHead => NoHead')
    BY <2>1, <2>2, <2>3, CancelWork
  <2>6. CASE HasCurrent(queue)
    <3>1. pc'[Client] = "skipSeq" /\ Matched
      BY <2>2, <2>3, <2>6 DEF Calm, HeadEncoding, HeadEncoded, NoHead
    <3>2. runs'[runCtx].cancelled
      BY <2>1, <3>1, CancelKeeps DEF Matched
    <3>3. Work'
      <4>1. ASSUME NEW r \in Runs, Works(r)'
            PROVE  r = runCtx /\ Matched' /\ Stops(r)' /\ runs'[r].cancelled
        <5>1. Works(r) /\ pc'[r] = "ffmpeg" /\ r = runCtx
          BY <2>2, <2>4, <4>1 DEF Moved
        <5> QED BY <2>5, <3>1, <3>2, <5>1 DEF Stops
      <4>2. AtRest' => ~runner'.running
        BY <2>1, <2>2 DEF OInv, Work, Moved
      <4> QED BY <4>1, <4>2 DEF Work
    <3>4. Stages(Client)'
      BY <2>1, <2>3, <2>5, <2>6, <3>1, <3>2 DEF Stages, qvars
    <3> QED BY <2>2, <2>5, <3>1, <3>3, <3>4, Assembled DEF Steers
  <2>7. CASE ~HasCurrent(queue)
    <3>1. pc'[Client] = "skipMove" /\ NoHead /\ AtRest
      BY <2>2, <2>3, <2>7 DEF Calm, HeadEncoding, HeadEncoded, NoHead, Matched, Spent
    <3>2. Work'
      BY <2>1, <2>2, <3>1 DEF OInv, Work, AtRest, Moved
    <3>3. Stages(Client)'
      BY <2>5, <3>1 DEF Stages, NoHead
    <3> QED BY <2>2, <2>5, <3>1, <3>2, <3>3, Assembled
  <2> QED BY <2>6, <2>7
<1>2. CASE SkipSeq
  <2>1. /\ Goto(Client, "skipSeq", "skipUpdate") /\ local' = [local EXCEPT ![Client].base = nextSeq]
        /\ UNCHANGED <<qvars, nextSeq, rvars, lock, player, inbox, count>>
    BY <1>2 DEF SkipSeq
  <2>2. Moved(Client) /\ Steers(Client) /\ pc[Client] = "skipSeq" /\ pc'[Client] = "skipUpdate"
    BY <2>1, SteerMove DEF OInv, rvars
  <2>3. Matched /\ runs[runCtx].cancelled /\ nextSeq > Current(queue).first /\ ~OnlyAppended
    BY <2>2 DEF OInv, Stages
  <2>4. AtRest
    <3>1. \A r \in Runs : Works(r) => r = runCtx /\ r \in Launched /\ pc[r] # "done"
      BY DEF OInv, Solo, Works, Working, Launched
    <3> QED BY <2>3, <3>1 DEF Stopping, AtRest
  <2>5. /\ \A u \in Threads \ {Client} : local'[u] = local[u]
        /\ local'[Client].base = nextSeq
    BY <2>1, BaseType DEF TypeOK
  <2>6. /\ Numbers' /\ Playlist' /\ Work' /\ (OnlyAppended' => OnlyAppended)
        /\ Current(queue)' = Current(queue) /\ (Matched' <=> Matched)
    <3>1. count'.commands \in Nat /\ count'.commands >= count.commands
      BY <1>0, <2>1
    <3> QED BY <2>1, <2>2, <2>4, <2>5, <3>1, SameWork DEF qvars, rvars, AtRest
  <2>7. Stages(Client)'
    BY <2>2, <2>3, <2>4, <2>5, <2>6 DEF Stages, Moved
  <2> QED BY <2>2, <2>6, <2>7, Assembled DEF Steers
<1>3. CASE UpdateGlobalMediaSequence(Client, "skipUpdate", "skipMove")
  <2>1. /\ Goto(Client, "skipUpdate", "skipMove") /\ mediaSeq' = Later(mediaSeq, local[Client].base)
        /\ UNCHANGED <<queue, encDone, playDone, nextSeq, rvars, lock, local, player, inbox, count>>
    BY <1>3 DEF UpdateGlobalMediaSequence
  <2>2. Moved(Client) /\ Steers(Client) /\ pc[Client] = "skipUpdate" /\ pc'[Client] = "skipMove"
    BY <2>1, SteerMove DEF OInv, rvars
  <2>3. Matched /\ AtRest /\ local[Client].base > Current(queue).first /\ ~OnlyAppended
    BY <2>2 DEF OInv, Stages
  <2>4. mediaSeq' >= mediaSeq /\ mediaSeq' >= local[Client].base /\ mediaSeq' \in Nat
    BY <1>0, <2>1 DEF Later
  <2>5. \A r \in Launched : runs[r].seq \in Nat /\ runs[r].seq <= mediaSeq /\ runs[r].seq < mediaSeq'
    <3>1. \A r \in Launched : runs[r].seq \in Nat
      BY StreamsAre DEF TypeOK, Run, Launched
    <3>2. runCtx \in Launched /\ \A r \in Launched : runs[r].seq <= runs[runCtx].seq
      BY <2>3, <3>1 DEF OInv, Numbers, Matched
    <3>3. runs[runCtx].seq < mediaSeq'
      BY <1>0, <2>3, <2>4, <3>1, <3>2 DEF Matched
    <3> QED BY <2>4, <3>1, <3>2, <3>3 DEF OInv, Numbers
  <2>6. \A s \in encDone : s \in Nat
    BY StreamsAre DEF TypeOK
  <2>7. Launched' = Launched /\ AtRest'
    BY <2>2, <2>3 DEF Moved
  <2>8. Numbers'
    <3>1. \A r \in Launched : runs[r].seq <= mediaSeq'
      BY <2>4, <2>5
    <3>2. \A s \in encDone : s < mediaSeq'
      BY <1>0, <2>4, <2>6 DEF OInv, Numbers
    <3> QED BY <2>1, <2>7, <3>1, <3>2 DEF OInv, Numbers, rvars
  <2>9. OnlyAppended' <=> OnlyAppended
    BY <2>1 DEF OnlyAppended
  <2>10. Playlist'
    BY <2>1, <2>3, <2>9 DEF OInv, Playlist
  <2>11. Work'
    BY <2>1, <2>3, <2>7 DEF OInv, Work, AtRest, rvars
  <2>12. Spent'
    BY <2>1, <2>5, <2>7 DEF Spent, rvars
  <2>13. Stages(Client)'
    BY <2>2, <2>3, <2>9, <2>12 DEF Stages
  <2> QED BY <2>2, <2>8, <2>10, <2>11, <2>13, Assembled DEF Steers
<1>4. CASE SkipMove
  <2>1. /\ Goto(Client, "skipMove", "react") /\ queue' \in {Advance(queue), Rewind(queue)}
        /\ local' = [local EXCEPT ![Client] = NoLocals]
        /\ UNCHANGED <<mediaSeq, encDone, playDone, nextSeq, rvars, lock, player, inbox, count>>
    BY <1>4 DEF SkipMove
  <2>2. Moved(Client) /\ Steers(Client) /\ pc[Client] = "skipMove" /\ pc'[Client] = "react"
    BY <2>1, SteerMove DEF OInv, rvars
  <2>3. Spent /\ AtRest /\ ~OnlyAppended
    BY <2>2 DEF OInv, Stages, Spent
  <2>4. Launched' = Launched /\ AtRest' /\ Spent'
    BY <2>1, <2>2, <2>3 DEF Moved, Spent, rvars
  <2>5. queue'.items = queue.items /\ Len(queue.items) \in Nat /\ queue'.cursor <= Len(queue.items)
    <3>1. queue.cursor \in Nat /\ queue.cursor <= Len(queue.items) /\ Len(queue.items) \in Nat
      BY DEF OInv, Playlist, TypeOK
    <3> QED BY <2>1, <3>1 DEF Advance, CanAdvance, Rewind, CanRewind
  <2>6. Numbers'
    BY <2>1, <2>4 DEF OInv, Numbers, rvars
  <2>7. ~OnlyAppended'
    BY <2>1, <2>3, <2>5 DEF OnlyAppended
  <2>8. Playlist'
    BY <2>1, <2>5, <2>7 DEF OInv, Playlist
  <2>9. Work'
    BY <2>1, <2>3, <2>4 DEF OInv, Work, AtRest, rvars
  <2>10. NoHead' \/ HeadDue'
    BY <2>4, <2>7 DEF NoHead, HeadDue
  <2>11. Stages(Client)'
    BY <2>2, <2>7, <2>10 DEF Stages
  <2> QED BY <2>2, <2>6, <2>8, <2>9, <2>11, Assembled DEF Steers
<1> QED BY <1>1, <1>2, <1>3, <1>4 DEF SkipSteps

\* Nothing is going on, so that the head's state is known.
LEMMA QuietThen ==
  ASSUME TypeOK, OInv, Quiet
  PROVE  /\ Unsteered /\ OnlyFfmpeg /\ inbox = << >> /\ pc[Client] \in {"idle", "done"}
         /\ Calm
         /\ \A r \in Runs : Works(r) => r = runCtx /\ ~runs[r].cancelled /\ HeadEncoding /\ pc[r] = "ffmpeg"
         /\ Undisturbed => HeadEncoding \/ NoHead
<1> USE ThreadKinds
<1>1. \A t \in Threads : pc[t] \in {"idle", "done", "ffmpeg"}
  BY DEF Quiet, Streaming
<1>2. Unsteered /\ OnlyFfmpeg
  BY <1>1 DEF Unsteered, Steers, Steering, Skipping, OnlyFfmpeg, Works, Working
<1>3. inbox = << >> /\ pc[Client] \in {"idle", "done"}
  <2>1. Client # runCtx
    BY BoundsAssumption DEF TypeOK, Runs, Client, None
  <2> QED BY <2>1 DEF Quiet
<1>4. /\ Calm
      /\ \A r \in Runs : Works(r) => r = runCtx /\ ~runs[r].cancelled /\ HeadEncoding
  BY <1>2, CalmThen
<1>5. Undisturbed => HeadEncoding \/ NoHead
  <2>1. HeadEncoded => HasCurrent(queue) /\ AtRest
    BY DEF HeadEncoded, Matched, Spent
  <2>2. runCtx # None /\ Streaming(runCtx) => ~AtRest
    BY DEF TypeOK, Streaming, AtRest, Works, Working
  <2> QED BY <1>4, <2>1, <2>2 DEF Undisturbed, Calm
<1> QED BY <1>2, <1>3, <1>4, <1>5 DEF OnlyFfmpeg

\* A change of the queue that leaves its head alone, if it has one.
LEMMA SameHead ==
  ASSUME TypeOK, OInv, NEW t \in Threads, Moved(t),
         UNCHANGED <<mediaSeq, encDone, nextSeq, runCtx, runner, runs, local>>,
         \A r \in Runs : Works(r) => ~runs[r].cancelled /\ HeadEncoding /\ pc[r] = "ffmpeg",
         HasCurrent(queue) => HasCurrent(queue)' /\ Current(queue)' = Current(queue)
  PROVE  Numbers' /\ Work' /\ (Spent' <=> Spent) /\ (HeadEncoding => HeadEncoding')
<1>1. Launched' = Launched /\ (AtRest' <=> AtRest)
  BY DEF Moved
<1>2. Numbers'
  BY <1>1 DEF OInv, Numbers
<1>3. Matched => Matched'
  BY DEF Matched
<1>4. Work'
  <2>1. ASSUME NEW r \in Runs, Works(r)' PROVE Matched' /\ ~runs'[r].cancelled /\ GoesOn(r)' /\ LeftAlone(r)'
    <3>1. Works(r) /\ pc'[r] = pc[r] /\ pc[r] = "ffmpeg" /\ Matched
      BY <2>1 DEF Moved, HeadEncoding
    <3>2. ~runs[r].cancelled /\ GoesOn(r)
      BY <3>1 DEF OInv, Work
    <3>3. GoesOn(r)'
      BY <3>1, <3>2 DEF GoesOn, AtTask
    <3>4. LeftAlone(r)'
      BY <3>1 DEF LeftAlone
    <3> QED BY <1>3, <3>1, <3>2, <3>3, <3>4
  <2>2. AtRest' => ~runner'.running
    BY <1>1 DEF OInv, Work
  <2> QED BY <2>1, <2>2 DEF Work
<1>5. Spent' <=> Spent
  BY <1>1 DEF Spent
<1>6. HeadEncoding => HeadEncoding'
  <2>1. HeadEncoding => runCtx \in Runs /\ Works(runCtx)
    BY DEF HeadEncoding, Works, Working, Matched, TypeOK
  <2> QED BY <1>3, <2>1 DEF HeadEncoding, Moved
<1> QED BY <1>2, <1>4, <1>5, <1>6

\* APPEND: the head stays what it is, or the new entry becomes it.
LEMMA AppendOrderly ==
  ASSUME TypeOK, OInv, Quiet, Undisturbed, NEW f \in Files, AppendCmd(f)
  PROVE  OInv'
<1> USE ThreadKinds DEF Steering, Skipping
<1> DEFINE e == [id |-> count.commands + 1, file |-> f, first |-> 0]
<1>1. /\ Goto(Client, "idle", "react") /\ queue' = AppendEntry(queue, e)
      /\ count'.commands = count.commands + 1 /\ e.id = count.commands + 1
      /\ UNCHANGED <<mediaSeq, encDone, playDone, nextSeq, rvars, lock, local, player, inbox>>
  BY DEF AppendCmd, UserCommand, TypeOK
<1> HIDE DEF e
<1>2. /\ Unsteered /\ OnlyFfmpeg /\ inbox' = << >> /\ (HeadEncoding \/ NoHead)
      /\ \A r \in Runs : Works(r) => ~runs[r].cancelled /\ HeadEncoding /\ pc[r] = "ffmpeg"
  BY <1>1, QuietThen
<1>3. Moved(Client) /\ pc'[Client] = "react"
  BY <1>1, <1>2, BeginMove DEF rvars
<1>4. /\ queue.items \in Seq(Entry) /\ Len(queue.items) \in Nat /\ queue.cursor \in Nat
      /\ queue.cursor <= Len(queue.items) /\ Len(queue.items) <= count.commands /\ count.commands \in Nat
  BY BoundsAssumption DEF OInv, Playlist, TypeOK
<1>5. /\ Len(queue'.items) = Len(queue.items) + 1 /\ queue'.items[Len(queue.items) + 1] = e
      /\ \A i \in 1 .. Len(queue.items) : queue'.items[i] = queue.items[i]
      /\ queue'.cursor = IF queue.cursor = 0 THEN Len(queue.items) + 1 ELSE queue.cursor
  BY <1>1, <1>4 DEF AppendEntry
<1>6. /\ HasCurrent(queue) => HasCurrent(queue') /\ Current(queue') = Current(queue)
      /\ ~HasCurrent(queue) => HasCurrent(queue') /\ queue'.cursor = Len(queue.items) + 1
  BY <1>4, <1>5 DEF HasCurrent, Positions, Current
<1>7. Numbers' /\ Work' /\ (Spent' <=> Spent) /\ (HeadEncoding => HeadEncoding')
  BY <1>1, <1>2, <1>3, <1>6, SameHead DEF rvars
<1>8. OnlyAppended' => OnlyAppended /\ count.commands = Len(queue.items)
  BY <1>1, <1>4, <1>5 DEF OnlyAppended
<1>9. Playlist'
  <2>1. ASSUME OnlyAppended' PROVE Appended'
    <3>1. Appended /\ Launched' = Launched
      BY <1>3, <1>8, <2>1 DEF OInv, Playlist, Moved
    <3>2. \A i \in Positions(queue') : queue'.items[i].id = i
      <4>1. \A i \in 1 .. Len(queue.items) : queue.items[i].id = i
        BY <3>1 DEF Appended, Positions
      <4>2. Positions(queue') = 1 .. Len(queue.items) + 1
        BY <1>5 DEF Positions
      <4>3. count.commands = Len(queue.items) /\ queue'.items[Len(queue.items) + 1].id = Len(queue.items) + 1
        BY <1>1, <1>5, <1>8, <2>1
      <4>4. ASSUME NEW i \in 1 .. Len(queue.items) PROVE queue'.items[i].id = i
        BY <1>5, <4>1, <4>4
      <4> QED BY <1>4, <4>2, <4>3, <4>4
    <3>3. \A r \in Launched : runs[r].entry \in Nat
      BY BoundsAssumption DEF TypeOK, Run, Launched
    <3>4. \A r \in Launched : runs[r].entry <= Len(queue'.items) /\ runs[r].entry <= queue'.cursor
      BY <1>4, <1>5, <1>6, <3>1, <3>3 DEF Appended, HasCurrent, Positions
    <3> QED BY <1>1, <3>1, <3>2, <3>4 DEF Appended, rvars
  <2>2. queue'.cursor <= Len(queue'.items) /\ Len(queue'.items) <= count'.commands
    BY <1>1, <1>4, <1>5
  <2> QED BY <2>1, <2>2 DEF Playlist
<1>10. NoHead => HeadDue'
  <2>1. ASSUME NoHead, OnlyAppended' PROVE \A r \in Launched' : runs'[r].entry < queue'.cursor
    <3>1. Appended /\ Launched' = Launched /\ runs' = runs
      BY <1>1, <1>3, <1>8, <2>1 DEF OInv, Playlist, Moved, rvars
    <3>2. \A r \in Launched : runs[r].entry \in Nat
      BY BoundsAssumption DEF TypeOK, Run, Launched
    <3> QED BY <1>4, <1>6, <2>1, <3>1, <3>2 DEF Appended, NoHead
  <2> QED BY <1>6, <1>7, <2>1 DEF HeadDue, NoHead
<1>11. Stages(Client)'
  BY <1>2, <1>3, <1>7, <1>10 DEF Stages
<1> QED BY <1>3, <1>7, <1>9, <1>11, Assembled DEF Steers

\* REMOVE, of another entry than the current one: the cursor follows its entry.
LEMMA RemoveOrderly ==
  ASSUME TypeOK, OInv, Quiet, Undisturbed, NEW i \in Positions(queue) \ {queue.cursor}, RemoveCmd(i)
  PROVE  OInv'
<1> USE ThreadKinds DEF Steering, Skipping
<1> DEFINE rest == RemoveAt(queue.items, i)
<1>1. /\ Goto(Client, "idle", "react") /\ queue' = RemoveEntry(queue, i)
      /\ count'.commands = count.commands + 1
      /\ UNCHANGED <<mediaSeq, encDone, playDone, nextSeq, rvars, lock, local, player, inbox>>
  BY DEF RemoveCmd, UserCommand, TypeOK
<1>2. /\ Unsteered /\ OnlyFfmpeg /\ inbox' = << >> /\ (HeadEncoding \/ NoHead)
      /\ \A r \in Runs : Works(r) => ~runs[r].cancelled /\ HeadEncoding /\ pc[r] = "ffmpeg"
  BY <1>1, QuietThen
<1>3. Moved(Client) /\ pc'[Client] = "react"
  BY <1>1, <1>2, BeginMove DEF rvars
<1>4. /\ queue.items \in Seq(Entry) /\ Len(queue.items) \in Nat /\ queue.cursor \in Nat
      /\ queue.cursor <= Len(queue.items) /\ Len(queue.items) <= count.commands /\ count.commands \in Nat
      /\ i \in 1 .. Len(queue.items) /\ i # queue.cursor
  BY BoundsAssumption DEF OInv, Playlist, TypeOK, Positions
<1>5. /\ rest \in Seq(Entry) /\ Len(rest) = Len(queue.items) - 1
      /\ \A j \in 1 .. Len(queue.items) - 1 : rest[j] = queue.items[IF j < i THEN j ELSE j + 1]
  BY <1>4, RemoveAtResult
<1>6. /\ queue'.items = rest
      /\ queue'.cursor = IF queue.cursor > i \/ queue.cursor > Len(rest) THEN queue.cursor - 1 ELSE queue.cursor
  BY <1>1 DEF RemoveEntry
<1> HIDE DEF rest
<1>7. /\ HasCurrent(queue) => HasCurrent(queue') /\ Current(queue') = Current(queue)
      /\ ~HasCurrent(queue) => ~HasCurrent(queue')
      /\ queue'.cursor <= Len(queue'.items)
  <2>1. CASE queue.cursor = 0
    BY <1>4, <1>5, <1>6, <2>1 DEF HasCurrent, Positions
  <2>2. CASE queue.cursor > i
    BY <1>4, <1>5, <1>6, <2>2 DEF HasCurrent, Positions, Current
  <2>3. CASE queue.cursor < i /\ queue.cursor > 0
    BY <1>4, <1>5, <1>6, <2>3 DEF HasCurrent, Positions, Current
  <2> QED BY <1>4, <2>1, <2>2, <2>3
<1>8. Numbers' /\ Work' /\ (Spent' <=> Spent) /\ (HeadEncoding => HeadEncoding')
  BY <1>1, <1>2, <1>3, <1>7, SameHead DEF rvars
<1>9. ~OnlyAppended'
  BY <1>1, <1>4, <1>5, <1>6 DEF OnlyAppended
<1>10. Playlist'
  BY <1>1, <1>4, <1>5, <1>6, <1>7, <1>9 DEF Playlist
<1>11. NoHead => NoHead'
  BY <1>7, <1>8 DEF NoHead
<1>12. Stages(Client)'
  BY <1>2, <1>3, <1>8, <1>11 DEF Stages
<1> QED BY <1>3, <1>8, <1>10, <1>12, Assembled DEF Steers

\* CLEAR, when there is no current entry.
LEMMA ClearOrderly ==
  ASSUME TypeOK, OInv, Quiet, ~HasCurrent(queue), ClearCmd
  PROVE  OInv'
<1> USE ThreadKinds DEF Steering, Skipping
<1>1. /\ Goto(Client, "idle", "stop") /\ queue' = EmptyQueue /\ count'.commands = count.commands + 1
      /\ UNCHANGED <<mediaSeq, encDone, playDone, nextSeq, rvars, lock, local, player, inbox>>
  BY DEF ClearCmd, UserCommand, TypeOK
<1>2. /\ Unsteered /\ OnlyFfmpeg /\ inbox' = << >> /\ NoHead
      /\ \A r \in Runs : Works(r) => ~runs[r].cancelled /\ HeadEncoding /\ pc[r] = "ffmpeg"
  BY <1>1, QuietThen DEF Calm, HeadEncoding, HeadEncoded, Matched
<1>3. Moved(Client) /\ pc'[Client] = "stop"
  BY <1>1, <1>2, BeginMove DEF rvars
<1>4. count.commands \in Nat
  BY BoundsAssumption DEF TypeOK
<1>5. queue'.items = << >> /\ Len(queue'.items) = 0 /\ queue'.cursor = 0 /\ ~HasCurrent(queue')
  BY <1>1 DEF EmptyQueue, HasCurrent, Positions
<1>6. Numbers' /\ Work' /\ (Spent' <=> Spent)
  BY <1>1, <1>2, <1>3, SameHead DEF rvars
<1>7. Playlist' /\ ~OnlyAppended'
  BY <1>1, <1>4, <1>5 DEF Playlist, OnlyAppended
<1>8. NoHead'
  BY <1>2, <1>5, <1>6 DEF NoHead
<1>9. Stages(Client)'
  BY <1>3, <1>8 DEF Stages
<1> QED BY <1>3, <1>6, <1>7, <1>9, Assembled DEF Steers

\* SKIP_PREV and SKIP_NEXT, once the current stream has a segment.
LEMMA SkipCmdOrderly ==
  ASSUME TypeOK, OInv, Quiet, NEW c \in Commands, SkipCmd(c),
         HasCurrent(queue) => nextSeq > Current(queue).first
  PROVE  OInv'
<1> USE ThreadKinds DEF Steering, Skipping
<1> DEFINE e == IF HasCurrent(queue) THEN Current(queue) ELSE NoEntry
<1>1. /\ Goto(Client, "idle", "skipStop") /\ count'.commands = count.commands + 1
      /\ local' = [local EXCEPT ![Client] = [local[Client] EXCEPT !.cmd = c, !.entry = e]]
      /\ UNCHANGED <<qvars, nextSeq, rvars, lock, player, inbox>>
  BY DEF SkipCmd, UserCommand, TypeOK
<1>2. /\ Unsteered /\ OnlyFfmpeg /\ inbox' = << >> /\ Calm
      /\ \A r \in Runs : Works(r) => ~runs[r].cancelled /\ HeadEncoding /\ pc[r] = "ffmpeg"
  BY <1>1, QuietThen
<1>3. Moved(Client) /\ pc'[Client] = "skipStop"
  BY <1>1, <1>2, BeginMove DEF rvars
<1>4. e # NoEntry <=> HasCurrent(queue)
  <2>1. HasCurrent(queue) => Current(queue).id \in 1 .. MaxCommands
    BY QueueTypes DEF TypeOK, Entry
  <2>2. NoEntry.id = 0
    BY DEF NoEntry
  <2> QED BY <2>1, <2>2, BoundsAssumption
<1> HIDE DEF e
<1>5. local'[Client].entry = e /\ \A u \in Threads \ {Client} : local'[u] = local[u]
  <2>1. local \in [Threads -> Locals]
    BY DEF TypeOK
  <2>2. [local[Client] EXCEPT !.cmd = c, !.entry = e].entry = e
    BY <2>1 DEF Locals
  <2> QED BY <1>1, <2>1, <2>2
<1>6. count.commands \in Nat /\ Len(queue.items) <= count.commands /\ Len(queue.items) \in Nat
  BY BoundsAssumption DEF TypeOK, OInv, Playlist
<1>7. ~OnlyAppended'
  BY <1>1, <1>6 DEF OnlyAppended, qvars
<1>8. /\ Numbers' /\ Playlist' /\ Work'
      /\ (HasCurrent(queue)' <=> HasCurrent(queue)) /\ Current(queue)' = Current(queue)
      /\ HeadEncoding => HeadEncoding'
      /\ NoHead => NoHead'
      /\ HeadEncoded /\ Current(queue).first \in encDone' => HeadEncoded'
  BY <1>1, <1>2, <1>3, <1>5, <1>6, SameWork DEF qvars, rvars
<1>9. Calm'
  <2>1. HeadEncoded => HeadEncoded'
    BY <1>1, <1>8 DEF HeadEncoded, qvars
  <2> QED BY <1>2, <1>8, <2>1 DEF Calm
<1>10. Stages(Client)'
  BY <1>1, <1>3, <1>4, <1>5, <1>7, <1>8, <1>9 DEF Stages
<1> QED BY <1>3, <1>8, <1>10, Assembled DEF Steers

\* A role update makes this peer look at its queue again, and find it as it is.
LEMMA GossipOrderly ==
  ASSUME TypeOK, OInv, Quiet, Undisturbed, GossipReact
  PROVE  OInv'
<1> USE ThreadKinds DEF Steering, Skipping
<1>1. /\ Goto(Gossip, "idle", "react") /\ count'.commands = count.commands
      /\ UNCHANGED <<qvars, nextSeq, rvars, lock, local, player, inbox>>
  BY DEF GossipReact, TypeOK
<1>2. /\ Unsteered /\ OnlyFfmpeg /\ inbox' = << >> /\ (HeadEncoding \/ NoHead)
      /\ \A r \in Runs : Works(r) => ~runs[r].cancelled /\ HeadEncoding /\ pc[r] = "ffmpeg"
  BY <1>1, QuietThen
<1>3. Moved(Gossip) /\ pc'[Gossip] = "react"
  BY <1>1, <1>2, BeginMove DEF rvars
<1>4. count.commands \in Nat
  BY BoundsAssumption DEF TypeOK
<1>5. Numbers' /\ Playlist' /\ Work' /\ (HeadEncoding => HeadEncoding') /\ (NoHead => NoHead')
  BY <1>1, <1>2, <1>3, <1>4, SameWork DEF qvars, rvars
<1>6. Stages(Gossip)'
  BY <1>2, <1>3, <1>5 DEF Stages
<1> QED BY <1>3, <1>5, <1>6, Assembled DEF Steers

\* The player's report, which waits in the Client's stream, and is taken.
LEMMA PlayerOrderly ==
  ASSUME TypeOK, OInv, PlayerCompleted \/ (Quiet /\ PlayerEnds)
  PROVE  OInv'
<1> USE ThreadKinds DEF Steering, Skipping
<1>1. CASE PlayerCompleted
  <2>1. /\ inbox # << >> /\ Goto(Client, "idle", "check") /\ inbox' = Tail(inbox)
        /\ local' = [local EXCEPT ![Client].stream = Head(inbox)]
        /\ UNCHANGED <<queue, mediaSeq, encDone, nextSeq, rvars, lock, player, count>>
    BY <1>1 DEF PlayerCompleted
  <2>2. Unsteered /\ OnlyFfmpeg /\ Len(inbox) = 1
    BY <2>1 DEF OInv, Waiting
  <2>3. inbox' = << >>
    BY <2>1, <2>2 DEF TypeOK
  <2>4. Calm /\ \A r \in Runs : Works(r) => ~runs[r].cancelled /\ HeadEncoding /\ pc[r] = "ffmpeg"
    BY <2>2, CalmThen DEF OnlyFfmpeg
  <2>5. Moved(Client) /\ pc'[Client] = "check"
    BY <2>1, <2>2, <2>3, BeginMove DEF rvars
  <2>6. \A u \in Threads \ {Client} : local'[u] = local[u]
    BY <2>1 DEF TypeOK
  <2>7. count'.commands \in Nat /\ count'.commands >= count.commands
    BY <2>1, BoundsAssumption DEF TypeOK
  <2>8. /\ Numbers' /\ Playlist' /\ Work'
        /\ HeadEncoding => HeadEncoding'
        /\ NoHead => NoHead'
        /\ HeadEncoded /\ Current(queue).first \in encDone' => HeadEncoded'
    BY <2>1, <2>4, <2>5, <2>6, <2>7, SameWork DEF rvars
  <2>9. Calm'
    <3>1. HeadEncoded => HeadEncoded'
      BY <2>1, <2>8 DEF HeadEncoded
    <3> QED BY <2>4, <2>8, <3>1 DEF Calm
  <2>10. Stages(Client)'
    BY <2>5, <2>9 DEF Stages
  <2> QED BY <2>5, <2>8, <2>10, Assembled DEF Steers
<1>2. CASE Quiet /\ PlayerEnds
  <2>1. /\ inbox' = Append(inbox, player.stream)
        /\ UNCHANGED <<qvars, nextSeq, rvars, lock, pc, local, count>>
    BY <1>2 DEF PlayerEnds
  <2>2. Unsteered /\ OnlyFfmpeg /\ inbox = << >>
    BY <1>2, QuietThen
  <2>3. Len(inbox') = 1
    BY <2>1, <2>2
  <2>4. Waiting'
    BY <2>1, <2>2, <2>3 DEF Waiting, Unsteered, OnlyFfmpeg, Steers, Works
  <2>5. Solo'
    BY <2>1 DEF OInv, Solo, Works, Steers, rvars
  <2>6. Launched' = Launched /\ (OnlyAppended' <=> OnlyAppended) /\ (Matched' <=> Matched)
        /\ (AtRest' <=> AtRest) /\ (Unsteered' <=> Unsteered)
    BY <2>1 DEF Launched, OnlyAppended, Matched, AtRest, Unsteered, Works, Steers, qvars, rvars
  <2>7. Numbers'
    BY <2>1, <2>6 DEF OInv, Numbers, qvars, rvars
  <2>8. Playlist'
    BY <2>1, <2>6 DEF OInv, Playlist, Appended, qvars, rvars
  <2>9. Work'
    <3>1. \A r \in Runs : (Works(r)' <=> Works(r)) /\ (Stops(r)' <=> Stops(r))
                          /\ (GoesOn(r)' <=> GoesOn(r)) /\ (LeftAlone(r)' <=> LeftAlone(r))
      BY <2>1 DEF Works, Stops, GoesOn, AtTask, LeftAlone, Steers, qvars, rvars
    <3> QED BY <2>1, <2>6, <3>1 DEF OInv, Work, rvars
  <2>10. (HeadEncoded' <=> HeadEncoded) /\ (NoHead' <=> NoHead)
    BY <2>1, <2>6 DEF HeadEncoded, NoHead, Spent, qvars, rvars
  <2>11. \A t \in Threads : Stages(t)'
    BY <2>1, <2>2 DEF Stages, Unsteered, Steers
  <2>12. Settled'
    BY <2>6, <2>10 DEF OInv, Settled
  <2> QED BY <2>4, <2>5, <2>7, <2>8, <2>9, <2>11, <2>12 DEF OInv
<1> QED BY <1>1, <1>2

\* A run at work, and who else may be about. It goes on, unless a skip waits
\* for its end.
LEMMA AtWork ==
  ASSUME TypeOK, OInv, NEW r \in Runs, Works(r)
  PROVE  /\ r = runCtx /\ r \in Launched /\ Matched
         /\ runs[r].cancelled => Stops(r)
         /\ ~runs[r].cancelled => GoesOn(r) /\ LeftAlone(r)
         /\ pc[r] # "ffmpeg" \/ runs[r].cancelled => inbox = << >>
<1>1. r = runCtx /\ r \in Launched
  BY DEF OInv, Solo, Works, Working, Launched
<1>2. Matched
  BY DEF OInv, Work
<1>3. inbox # << >> => pc[r] = "ffmpeg" /\ Unsteered
  BY DEF OInv, Waiting, OnlyFfmpeg
<1>4. Stops(r) => ~Unsteered
  BY ThreadKinds DEF Stops, Unsteered, Steers, Steering, Skipping
<1> QED BY <1>1, <1>2, <1>3, <1>4 DEF OInv, Work

\* A step of the run at work that changes neither what it streams nor the
\* counters: what is to be shown of it is its own part of Work.
LEMMA RunKeeps ==
  ASSUME TypeOK, OInv, NEW r \in Runs, NEW from \in Working, NEW to \in Working,
         Goto(r, from, to), from # "ffmpeg" \/ runs[r].cancelled \/ Quiet,
         UNCHANGED <<queue, mediaSeq, nextSeq, encDone, runCtx, inbox>>,
         count'.commands = count.commands,
         \A s \in Runs : runs'[s].seq = runs[s].seq /\ runs'[s].entry = runs[s].entry
                         /\ runs'[s].file = runs[s].file /\ runs'[s].cancelled = runs[s].cancelled,
         \A s \in Runs \ {r} : runs'[s].sent = runs[s].sent /\ runs'[s].ok = runs[s].ok,
         runs'[r].sent \in {0, runs[r].sent}, runs'[r].ok => runs'[r].sent = SegsPerFile,
         runs[r].cancelled => Stops(r)', ~runs[r].cancelled => GoesOn(r)',
         ~runs[r].cancelled /\ to \notin {"loop", "exec", "ffmpeg"} => Unsteered
  PROVE  OInv'
<1> USE ThreadKinds
<1>1. Works(r) /\ pc[r] = from
  BY MovesOn DEF Works, TypeOK
<1>2. /\ r = runCtx /\ r \in Launched /\ Matched
      /\ runs[r].cancelled => Stops(r)
      /\ ~runs[r].cancelled => GoesOn(r) /\ LeftAlone(r)
      /\ inbox = << >>
  BY <1>1, AtWork, QuietThen
<1>3. /\ Solo' /\ Waiting' /\ Launched' = Launched
      /\ pc'[r] = to
      /\ \A t \in Threads \ {r} : pc'[t] = pc[t]
      /\ \A t \in Threads : Steers(t)' <=> Steers(t)
      /\ \A t \in Threads : Steers(t) => t # r
      /\ \A s \in Runs : Works(s)' => s = r
      /\ ~AtRest'
  BY <1>2, RunMove DEF OInv
<1>4. (Matched' <=> Matched) /\ (OnlyAppended' <=> OnlyAppended)
  BY <1>2 DEF Matched, OnlyAppended
<1>5. Numbers'
  <2>1. nextSeq >= runs'[r].seq + runs'[r].sent
    <3>1. nextSeq \in Nat /\ runs[r].seq \in Nat /\ runs[r].sent \in Nat
      <4>1. nextSeq \in Streams /\ runs \in [Runs -> Run]
        BY DEF TypeOK
      <4>2. runs[r] \in Run
        BY <4>1
      <4>3. runs[r].seq \in Streams /\ runs[r].sent \in 0 .. SegsPerFile
        BY <4>2 DEF Run
      <4>4. \A s \in Streams : s \in Nat
        BY StreamsAre
      <4>5. SegsPerFile \in Nat
        BY BoundsAssumption
      <4> QED BY <4>1, <4>3, <4>4, <4>5
    <3> QED BY <1>2, <3>1 DEF OInv, Numbers
  <2>2. \A s \in Launched : runs'[s].ok => runs'[s].sent = SegsPerFile
    BY DEF OInv, Numbers, Launched
  <2> QED BY <1>2, <1>3, <2>1, <2>2 DEF OInv, Numbers, Launched
<1>6. Playlist'
  <2>1. Appended => Appended'
    BY <1>3 DEF Appended, Launched
  <2> QED BY <1>4, <2>1 DEF OInv, Playlist
<1>7. Work'
  <2>1. ~runs[r].cancelled => LeftAlone(r)'
    <3>1. SUFFICES ASSUME ~runs[r].cancelled, NEW t \in Threads, Steers(t)' 
                   PROVE  pc'[r] = "ffmpeg" \/ (pc'[t] = "forget" /\ pc'[r] \in {"spawned", "loop", "exec"})
      BY DEF LeftAlone
    <3>2. Steers(t) /\ t # r /\ pc'[t] = pc[t]
      BY <1>3, <3>1
    <3>3. to \in {"loop", "exec", "ffmpeg"}
      BY <3>1, <3>2 DEF Unsteered
    <3>4. from # "ffmpeg"
      BY <3>1, <3>2, QuietThen DEF Unsteered
    <3>5. pc[t] = "forget"
      BY <1>1, <1>2, <3>1, <3>2, <3>4 DEF LeftAlone
    <3> QED BY <1>3, <3>2, <3>3, <3>5
  <2> QED BY <1>2, <1>3, <1>4, <2>1 DEF Work
<1>8. \A t \in Threads : Stages(t)'
  <2>1. SUFFICES ASSUME NEW t \in Threads, Steers(t) PROVE Stages(t)'
    BY <1>3 DEF Stages, Steers, Steering, Skipping
  <2>2. pc'[t] = pc[t]
    BY <1>3, <2>1
  <2>3. CASE runs[r].cancelled
    <3>1. t = Client /\ pc[t] = "skipSeq"
      BY <1>2, <2>1, <2>3 DEF Stops, OInv, Solo, Steers, Steering, Skipping
    <3> QED BY <1>2, <1>4, <2>2, <2>3, <3>1 DEF OInv, Stages, Skipping
  <2>4. CASE ~runs[r].cancelled
    <3>1. from # "ffmpeg"
      BY <2>1, <2>4, QuietThen DEF Unsteered
    <3>2. pc[t] = "forget"
      BY <1>1, <1>2, <2>1, <2>4, <3>1 DEF LeftAlone
    <3> QED BY <1>3, <2>2, <3>2 DEF Stages, Skipping
  <2> QED BY <2>3, <2>4
<1> QED BY <1>3, <1>5, <1>6, <1>7, <1>8 DEF OInv, Settled

\* EncoderRunner.Start, from the launch of its run to its return.
LEMMA StartOrderly ==
  ASSUME TypeOK, OInv, NEW r \in Runs,
         \/ StartAgain(r) \/ Start(r) \/ LoopCancelled(r) \/ Loop(r) \/ Exec(r) \/ ExecSuperseded(r)
         \/ Killed(r) \/ (Eof(r) /\ (Quiet \/ runs[r].cancelled)) \/ (Fail(r) /\ Quiet)
         \/ Exited(r) \/ Retry(r) \/ Cleanup(r) \/ Returned(r)
  PROVE  OInv'
<1> USE ThreadKinds
<1>0. /\ runs \in [Runs -> Run] /\ runner \in [running : BOOLEAN, file : Files \union {NoFile},
                                               seq : Streams, cmd : Runs \union {None}]
      /\ runs[r].cancelled \in BOOLEAN /\ runs[r].ok \in BOOLEAN
      /\ \A s \in Runs : /\ runs[s] = runs[s]
                         /\ runs[s].ok => runs[s].sent = SegsPerFile \/ s \notin Launched
  BY DEF TypeOK, OInv, Numbers, Run
<1>1. /\ pc[r] \in Working /\ Works(r) /\ r = runCtx /\ r \in Launched /\ Matched
      /\ runs[r].cancelled => Stops(r)
      /\ ~runs[r].cancelled => GoesOn(r) /\ LeftAlone(r)
      /\ runs[r].ok => runs[r].sent = SegsPerFile
  <2>1. pc[r] \in Working
    BY DEF StartAgain, Start, LoopCancelled, Loop, Exec, ExecSuperseded, Killed, Eof, Fail, Exited,
           Retry, Cleanup, Returned, Goto, Working
  <2>2. Works(r)
    BY <2>1 DEF Works
  <2> QED BY <1>0, <2>1, <2>2, AtWork
<1>2. ASSUME ~runs[r].cancelled, pc[r] \notin {"spawned", "loop", "exec", "ffmpeg"} PROVE Unsteered
  BY <1>1, <1>2 DEF LeftAlone, Unsteered
<1>3. ASSUME NEW b \in BOOLEAN, Ended(r, b), b => runs[r].sent = SegsPerFile
      PROVE  /\ \A s \in Runs : runs'[s].seq = runs[s].seq /\ runs'[s].entry = runs[s].entry
                                /\ runs'[s].file = runs[s].file /\ runs'[s].cancelled = runs[s].cancelled
             /\ \A s \in Runs \ {r} : runs'[s].sent = runs[s].sent /\ runs'[s].ok = runs[s].ok
             /\ runs'[r].sent \in {0, runs[r].sent}
             /\ runs'[r].ok <=> b
             /\ runs'[r].ok => runs'[r].sent = SegsPerFile
  <2>1. /\ [runs[r] EXCEPT !.ok = b].seq = runs[r].seq /\ [runs[r] EXCEPT !.ok = b].entry = runs[r].entry
        /\ [runs[r] EXCEPT !.ok = b].file = runs[r].file /\ [runs[r] EXCEPT !.ok = b].sent = runs[r].sent
        /\ [runs[r] EXCEPT !.ok = b].cancelled = runs[r].cancelled /\ [runs[r] EXCEPT !.ok = b].ok = b
    BY <1>0 DEF Run
  <2>2. runs' = [runs EXCEPT ![r] = [runs[r] EXCEPT !.ok = b]]
    BY <1>3 DEF Ended
  <2> QED BY <1>0, <1>3, <2>1, <2>2
<1>4. CASE StartAgain(r)
  BY <1>1, <1>4 DEF StartAgain, Goto, Stops, GoesOn
<1>5. CASE Start(r)
  <2>1. /\ Goto(r, "spawned", "loop") /\ runs' = runs /\ count' = count
        /\ UNCHANGED <<queue, mediaSeq, nextSeq, encDone, runCtx, inbox, local>>
    BY <1>5 DEF Start, qvars
  <2>2. pc[r] = "spawned" /\ pc'[r] = "loop" /\ ~runs[r].cancelled
    BY <1>1, <2>1, MovesOn DEF Stops, TypeOK
  <2>3. runner'.running /\ runner'.file = runs[r].file /\ runner'.seq = runs[r].seq
    BY <1>0, <1>5 DEF Start
  <2>4. GoesOn(r)'
    BY <1>1, <2>1, <2>2, <2>3 DEF GoesOn, AtTask
  <2> QED BY <1>1, <2>1, <2>2, <2>4, RunKeeps DEF Working
<1>6. CASE LoopCancelled(r)
  BY <1>1, <1>6 DEF LoopCancelled, Stops
<1>7. CASE Loop(r)
  <2>1. /\ Goto(r, "loop", "exec") /\ runs' = runs /\ count' = count /\ runner' = runner
        /\ UNCHANGED <<queue, mediaSeq, nextSeq, encDone, runCtx, inbox, local>>
    BY <1>7 DEF Loop, qvars, rvars
  <2>2. pc[r] = "loop" /\ pc'[r] = "exec" /\ ~runs[r].cancelled
    BY <1>1, <2>1, MovesOn DEF Stops, TypeOK
  <2>3. GoesOn(r)'
    BY <1>1, <2>1, <2>2 DEF GoesOn, AtTask
  <2> QED BY <1>1, <2>1, <2>2, <2>3, RunKeeps DEF Working
<1>8. CASE Exec(r)
  <2>1. /\ Goto(r, "exec", "ffmpeg") /\ count' = count
        /\ UNCHANGED <<queue, mediaSeq, nextSeq, encDone, runCtx, inbox, local>>
    BY <1>8 DEF Exec, qvars
  <2>2. pc[r] = "exec" /\ pc'[r] = "ffmpeg" /\ ~runs[r].cancelled
    BY <1>1, <2>1, MovesOn DEF Stops, TypeOK
  <2>3. runner'.running = runner.running /\ runner'.file = runner.file /\ runner'.seq = runner.seq
        /\ runner'.cmd = r
    BY <1>0, <1>8 DEF Exec
  <2>4. /\ \A s \in Runs : runs'[s].seq = runs[s].seq /\ runs'[s].entry = runs[s].entry
                           /\ runs'[s].file = runs[s].file /\ runs'[s].cancelled = runs[s].cancelled
                           /\ runs'[s].ok = runs[s].ok
        /\ \A s \in Runs \ {r} : runs'[s].sent = runs[s].sent
        /\ runs'[r].sent = 0
    <3>1. /\ [runs[r] EXCEPT !.sent = 0].seq = runs[r].seq /\ [runs[r] EXCEPT !.sent = 0].entry = runs[r].entry
          /\ [runs[r] EXCEPT !.sent = 0].file = runs[r].file /\ [runs[r] EXCEPT !.sent = 0].ok = runs[r].ok
          /\ [runs[r] EXCEPT !.sent = 0].cancelled = runs[r].cancelled /\ [runs[r] EXCEPT !.sent = 0].sent = 0
      BY <1>0 DEF Run
    <3>2. runs' = [runs EXCEPT ![r] = [runs[r] EXCEPT !.sent = 0]]
      BY <1>8 DEF Exec
    <3> QED BY <1>0, <3>1, <3>2
  <2>5. GoesOn(r)' /\ ~runs'[r].ok
    BY <1>1, <2>1, <2>2, <2>3, <2>4 DEF GoesOn, AtTask
  <2> QED BY <1>1, <2>1, <2>2, <2>4, <2>5, RunKeeps DEF Working
<1>9. CASE ExecSuperseded(r)
  BY <1>1, <1>9 DEF ExecSuperseded, Goto, Stops, GoesOn, AtTask
<1>10. CASE Killed(r)
  <2>1. /\ Goto(r, "ffmpeg", "exited") /\ runs' = runs /\ count' = count /\ runner' = runner
        /\ UNCHANGED <<queue, mediaSeq, nextSeq, encDone, runCtx, inbox, local>> /\ runs[r].cancelled
    BY <1>10 DEF Killed, qvars, rvars
  <2>2. pc[r] = "ffmpeg" /\ pc'[r] = "exited" /\ pc'[Client] = pc[Client]
    BY <2>1, MovesOn DEF TypeOK
  <2>3. Stops(r)'
    BY <1>1, <2>1, <2>2 DEF Stops
  <2> QED BY <1>1, <2>1, <2>2, <2>3, RunKeeps DEF Working
<1>11. CASE Eof(r) /\ (Quiet \/ runs[r].cancelled)
  <2>1. /\ Goto(r, "ffmpeg", "exited") /\ count' = count /\ runner' = runner
        /\ UNCHANGED <<queue, mediaSeq, nextSeq, encDone, runCtx, inbox, local>>
        /\ runs[r].sent = SegsPerFile /\ Ended(r, TRUE)
    BY <1>11 DEF Eof, qvars
  <2>2. pc[r] = "ffmpeg" /\ pc'[r] = "exited" /\ pc'[Client] = pc[Client]
    BY <2>1, MovesOn DEF TypeOK
  <2>3. /\ \A s \in Runs : runs'[s].seq = runs[s].seq /\ runs'[s].entry = runs[s].entry
                           /\ runs'[s].file = runs[s].file /\ runs'[s].cancelled = runs[s].cancelled
        /\ \A s \in Runs \ {r} : runs'[s].sent = runs[s].sent /\ runs'[s].ok = runs[s].ok
        /\ runs'[r].sent \in {0, runs[r].sent}
        /\ runs'[r].ok => runs'[r].sent = SegsPerFile
    BY <1>3, <2>1
  <2>4. runs[r].cancelled => Stops(r)'
    BY <1>1, <2>1, <2>2 DEF Stops
  <2>5. ~runs[r].cancelled => GoesOn(r)' /\ Unsteered
    BY <1>1, <1>11, <2>1, <2>2, <2>3, QuietThen DEF GoesOn, AtTask
  <2> QED BY <1>1, <1>11, <2>1, <2>2, <2>3, <2>4, <2>5, RunKeeps DEF Working
<1>12. CASE Fail(r) /\ Quiet
  <2>1. /\ Goto(r, "ffmpeg", "exited") /\ runs' = runs /\ count'.commands = count.commands /\ runner' = runner
        /\ UNCHANGED <<queue, mediaSeq, nextSeq, encDone, runCtx, inbox, local>>
    BY <1>12 DEF Fail, qvars, rvars, TypeOK
  <2>2. pc[r] = "ffmpeg" /\ pc'[r] = "exited" /\ pc'[Client] = pc[Client]
    BY <2>1, MovesOn DEF TypeOK
  <2>3. Unsteered /\ ~runs[r].cancelled
    BY <1>1, <1>12, QuietThen
  <2>4. GoesOn(r)'
    BY <1>1, <2>1, <2>2, <2>3 DEF GoesOn, AtTask
  <2> QED BY <1>1, <1>12, <2>1, <2>2, <2>3, <2>4, RunKeeps DEF Working
<1>13. CASE Exited(r)
  <2> DEFINE own == runner.cmd = r /\ ~runs[r].cancelled
             to == IF own /\ ~runs[r].ok THEN "retry" ELSE "cleanup"
             b == own /\ runs[r].ok
  <2>1. /\ Goto(r, "exited", to) /\ count' = count /\ runner' = runner /\ Ended(r, b)
        /\ UNCHANGED <<queue, mediaSeq, nextSeq, encDone, runCtx, inbox, local>>
    BY <1>13 DEF Exited, qvars
  <2>2. b \in BOOLEAN /\ (b => runs[r].sent = SegsPerFile)
    BY <1>0, <1>1
  <2>3. pc[r] = "exited" /\ pc'[r] = to /\ pc'[Client] = pc[Client]
    BY <2>1, MovesOn DEF TypeOK
  <2>4. /\ runs[r].cancelled => to = "cleanup"
        /\ ~runs[r].cancelled => (b <=> runs[r].ok) /\ (to = "cleanup" <=> b)
    BY <1>0, <1>1, <2>3 DEF GoesOn
  <2>5. to \in {"retry", "cleanup"}
    OBVIOUS
  <2> HIDE DEF own, to, b
  <2>6. /\ \A s \in Runs : runs'[s].seq = runs[s].seq /\ runs'[s].entry = runs[s].entry
                           /\ runs'[s].file = runs[s].file /\ runs'[s].cancelled = runs[s].cancelled
        /\ \A s \in Runs \ {r} : runs'[s].sent = runs[s].sent /\ runs'[s].ok = runs[s].ok
        /\ runs'[r].sent \in {0, runs[r].sent} /\ (runs'[r].ok <=> b)
        /\ runs'[r].ok => runs'[r].sent = SegsPerFile
    BY <1>3, <2>1, <2>2
  <2>7. runs[r].cancelled => Stops(r)'
    BY <1>1, <2>1, <2>3, <2>4 DEF Stops
  <2>8. ~runs[r].cancelled => GoesOn(r)'
    <3> SUFFICES ASSUME ~runs[r].cancelled PROVE GoesOn(r)'
      OBVIOUS
    <3>1. AtTask(r) /\ mediaSeq = runs[r].seq
      BY <1>1, <2>3 DEF GoesOn
    <3>2. AtTask(r)' /\ mediaSeq' = runs'[r].seq
      BY <2>1, <2>6, <3>1 DEF AtTask
    <3>3. /\ pc'[r] = "retry" => ~runs'[r].ok
          /\ pc'[r] = "cleanup" => runs'[r].ok
      BY <2>3, <2>4, <2>6
    <3> QED BY <2>3, <2>5, <3>2, <3>3 DEF GoesOn
  <2>9. ~runs[r].cancelled => Unsteered
    BY <1>2, <2>3
  <2> QED BY <1>1, <2>1, <2>3, <2>5, <2>6, <2>7, <2>8, <2>9, RunKeeps DEF Working
<1>14. CASE Retry(r)
  <2>1. pc[r] = "retry"
    BY <1>14 DEF Retry, Goto
  <2>2. ~runs[r].cancelled
    BY <1>1, <2>1 DEF Stops
  <2>3. /\ Goto(r, "retry", "loop") /\ runs' = runs /\ count' = count /\ runner' = runner
        /\ UNCHANGED <<queue, mediaSeq, nextSeq, encDone, runCtx, inbox, local>>
    BY <1>14, <2>2 DEF Retry, qvars, rvars
  <2>4. pc'[r] = "loop"
    BY <2>3, MovesOn DEF TypeOK
  <2>5. GoesOn(r)'
    BY <1>1, <2>1, <2>2, <2>3, <2>4 DEF GoesOn, AtTask
  <2> QED BY <1>1, <2>2, <2>3, <2>5, RunKeeps DEF Working
<1>15. CASE Cleanup(r)
  <2>1. /\ Goto(r, "cleanup", "returned") /\ runs' = runs /\ count' = count
        /\ UNCHANGED <<queue, mediaSeq, nextSeq, encDone, runCtx, inbox, local>>
    BY <1>15 DEF Cleanup, qvars
  <2>2. pc[r] = "cleanup" /\ pc'[r] = "returned" /\ pc'[Client] = pc[Client]
    BY <2>1, MovesOn DEF TypeOK
  <2>3. ~runner'.running
    BY <1>0, <1>15 DEF Cleanup
  <2>4. runs[r].cancelled => Stops(r)'
    BY <1>1, <2>1, <2>2, <2>3 DEF Stops
  <2>5. ~runs[r].cancelled => GoesOn(r)' /\ Unsteered
    BY <1>1, <1>2, <2>1, <2>2, <2>3 DEF GoesOn, AtTask
  <2> QED BY <1>1, <2>1, <2>2, <2>4, <2>5, RunKeeps DEF Working
<1>16. CASE Returned(r)
  <2>1. /\ Goto(r, "returned", "report") /\ runs' = runs /\ count' = count /\ runner' = runner
        /\ UNCHANGED <<queue, mediaSeq, nextSeq, encDone, runCtx, inbox, local>>
    BY <1>1, <1>16 DEF Returned, qvars, rvars
  <2>2. pc[r] = "returned" /\ pc'[r] = "report" /\ pc'[Client] = pc[Client]
    BY <2>1, MovesOn DEF TypeOK
  <2>3. runs[r].cancelled => Stops(r)'
    BY <1>1, <2>1, <2>2 DEF Stops
  <2>4. ~runs[r].cancelled => GoesOn(r)' /\ Unsteered
    BY <1>1, <1>2, <2>1, <2>2 DEF GoesOn, AtTask
  <2> QED BY <1>1, <2>1, <2>2, <2>3, <2>4, RunKeeps DEF Working
<1> QED BY <1>4, <1>5, <1>6, <1>7, <1>8, <1>9, <1>10, <1>11, <1>12, <1>13, <1>14, <1>15, <1>16

\* A segment: the run at work has one more, and the ring buffer counts it.
LEMMA SegmentOrderly ==
  ASSUME TypeOK, OInv, NEW r \in Runs, Segment(r)
  PROVE  OInv'
<1> USE ThreadKinds
<1>1. /\ pc[r] = "ffmpeg" /\ runs[r].sent < SegsPerFile
      /\ runs' = [runs EXCEPT ![r] = [runs[r] EXCEPT !.sent = runs[r].sent + 1]]
      /\ nextSeq' = Later(nextSeq, runs[r].seq + runs[r].sent + 1)
      /\ UNCHANGED <<queue, mediaSeq, encDone, playDone, runCtx, runner, lock, pc, local, player, inbox, count>>
  BY DEF Segment, Streaming, qvars
<1>2. /\ Works(r) /\ r = runCtx /\ r \in Launched /\ Matched /\ ~AtRest
      /\ runs[r].cancelled => Stops(r)
      /\ ~runs[r].cancelled => GoesOn(r) /\ LeftAlone(r)
  BY <1>1, AtWork DEF Works, Working, AtRest
<1>3. runs \in [Runs -> Run] /\ runs[r] \in Run
  BY DEF TypeOK
<1>4. /\ nextSeq \in Nat /\ runs[r].seq \in Nat /\ runs[r].sent \in Nat /\ SegsPerFile \in Nat
      /\ mediaSeq \in Nat
  <2>1. nextSeq \in Streams /\ mediaSeq \in Streams
    BY DEF TypeOK
  <2>2. runs[r].seq \in Streams /\ runs[r].sent \in 0 .. SegsPerFile
    BY <1>3 DEF Run
  <2>3. \A s \in Streams : s \in Nat
    BY StreamsAre
  <2>4. SegsPerFile \in Nat
    BY BoundsAssumption
  <2> QED BY <2>1, <2>2, <2>3, <2>4
<1>5. ~runs[r].ok
  BY <1>1, <1>2, <1>4 DEF OInv, Numbers
<1>6. /\ \A s \in Runs : /\ runs'[s].seq = runs[s].seq /\ runs'[s].entry = runs[s].entry
                         /\ runs'[s].file = runs[s].file /\ runs'[s].cancelled = runs[s].cancelled
                         /\ runs'[s].ok = runs[s].ok
      /\ \A s \in Runs \ {r} : runs'[s].sent = runs[s].sent
      /\ runs'[r].sent = runs[r].sent + 1
  <2> DEFINE new == [runs[r] EXCEPT !.sent = runs[r].sent + 1]
  <2>1. /\ new.seq = runs[r].seq /\ new.entry = runs[r].entry /\ new.file = runs[r].file
        /\ new.ok = runs[r].ok /\ new.cancelled = runs[r].cancelled /\ new.sent = runs[r].sent + 1
    BY <1>3 DEF Run
  <2>2. runs' = [runs EXCEPT ![r] = new]
    BY <1>1
  <2> HIDE DEF new
  <2> QED BY <1>3, <2>1, <2>2
<1>7. nextSeq' >= runs[r].seq + runs'[r].sent /\ nextSeq' >= nextSeq /\ nextSeq' \in Nat
  BY <1>1, <1>4, <1>6 DEF Later
<1>8. Launched' = Launched /\ (AtRest' <=> AtRest) /\ \A t \in Threads : Steers(t)' <=> Steers(t)
  BY <1>1 DEF Launched, AtRest, Works, Steers
<1>9. Solo' /\ Waiting'
  <2>1. (Unsteered' <=> Unsteered) /\ (OnlyFfmpeg' <=> OnlyFfmpeg)
    BY <1>1, <1>8 DEF Unsteered, OnlyFfmpeg, Works
  <2>2. Solo'
    BY <1>1 DEF OInv, Solo, Steers, Works
  <2> QED BY <1>1, <2>1, <2>2 DEF OInv, Waiting
<1>10. Numbers'
  <2>1. \A s \in Launched : runs'[s].ok => runs'[s].sent = SegsPerFile
    BY <1>5, <1>6 DEF OInv, Numbers, Launched
  <2>2. \A s \in Launched : /\ runs'[s].seq <= mediaSeq
                            /\ s # runCtx => runs'[s].seq < runs'[runCtx].seq
                            /\ \A u \in Launched : s # u => runs'[s].seq # runs'[u].seq
    BY <1>2, <1>6 DEF OInv, Numbers, Launched
  <2>3. \A s \in encDone : s < mediaSeq
    BY DEF OInv, Numbers
  <2>4. runCtx # None
    BY <1>2 DEF Matched
  <2>5. runCtx' = runCtx /\ mediaSeq' = mediaSeq /\ encDone' = encDone /\ Launched' = Launched
    BY <1>1, <1>8
  <2>6. nextSeq' >= runs'[runCtx].seq + runs'[runCtx].sent /\ runCtx \in Launched
    BY <1>2, <1>6, <1>7
  <2> QED BY <2>1, <2>2, <2>3, <2>4, <2>5, <2>6 DEF Numbers
<1>11. (Matched' <=> Matched) /\ (OnlyAppended' <=> OnlyAppended)
  BY <1>1, <1>2, <1>6 DEF Matched, OnlyAppended
<1>12. Playlist'
  <2>1. Appended => Appended'
    BY <1>1, <1>6, <1>8 DEF Appended, Launched
  <2> QED BY <1>1, <1>11, <2>1 DEF OInv, Playlist
<1>13. Work'
  <2>1. \A s \in Runs : Works(s)' => s = r
    BY <1>1, <1>2 DEF OInv, Solo, Works
  <2>2. runs[r].cancelled => Stops(r)'
    BY <1>1, <1>2 DEF Stops
  <2>3. ~runs[r].cancelled => GoesOn(r)'
    BY <1>1, <1>2, <1>6 DEF GoesOn, AtTask
  <2>4. LeftAlone(r)'
    BY <1>1 DEF LeftAlone
  <2> QED BY <1>2, <1>6, <1>8, <1>11, <2>1, <2>2, <2>3, <2>4 DEF Work
<1>14. ASSUME NEW t \in Threads PROVE Stages(t)'
  <2>1. HeadEncoding => HeadEncoding'
    BY <1>1, <1>2, <1>6, <1>11 DEF HeadEncoding
  <2>2. ~HeadEncoded /\ ~NoHead /\ ~HeadDue
    BY <1>2 DEF HeadEncoded, NoHead, HeadDue, Spent
  <2>3. /\ pc' = pc /\ local' = local /\ Current(queue)' = Current(queue) /\ queue' = queue
        /\ (HasCurrent(queue)' <=> HasCurrent(queue))
        /\ ~AtRest /\ ~AtRest' /\ (Matched' <=> Matched) /\ (OnlyAppended' <=> OnlyAppended)
        /\ runs'[runCtx'].cancelled <=> runs[runCtx].cancelled
        /\ HasCurrent(queue)
    BY <1>1, <1>2, <1>6, <1>8, <1>11 DEF Matched
  <2>4. Current(queue).first \in Nat
    BY <1>2, <1>4 DEF Matched
  <2>5. nextSeq > Current(queue).first => nextSeq' > Current(queue).first
    BY <1>4, <1>7, <2>4
  <2>6. Plan(t)' <=> Plan(t)
    BY <1>1 DEF Plan
  <2>7. Stages(t)
    BY DEF OInv
  <2>8. ~Spent
    BY <1>2 DEF Spent
  <2>9. CASE pc[t] \in {"skipStop", "check"}
    BY <2>1, <2>2, <2>3, <2>5, <2>7, <2>9 DEF Stages, Calm, Skipping
  <2>10. CASE pc[t] \in {"skipSeq", "skipUpdate", "skipMove"}
    BY <2>3, <2>5, <2>7, <2>8, <2>10 DEF Stages, Skipping
  <2>11. CASE pc[t] \in {"next", "stop", "react", "base", "ensure", "tag", "write", "launch", "forget"}
    BY <2>1, <2>2, <2>3, <2>6, <2>7, <2>11 DEF Stages, Skipping
  <2>12. CASE pc[t] \notin Steering
    BY <2>3, <2>12 DEF Stages, Steering, Skipping
  <2> QED BY <2>9, <2>10, <2>11, <2>12 DEF Steering, Skipping
<1>15. Settled'
  BY <1>2, <1>8 DEF Settled
<1> QED BY <1>9, <1>10, <1>12, <1>13, <1>14, <1>15 DEF OInv

\* The end of a run, reported: a cancelled run is gone, and the skip that waits
\* for it may go on; a whole file's run takes the number its segments end at.
LEMMA ReportOrderly ==
  ASSUME TypeOK, OInv, NEW r \in Runs, Report(r)
  PROVE  OInv'
<1> USE ThreadKinds
<1> DEFINE eof == runs[r].ok /\ ~runs[r].cancelled
           to == IF eof THEN "update" ELSE "done"
<1>1. /\ Goto(r, "report", to)
      /\ local' = IF eof THEN [local EXCEPT ![r] = [local[r] EXCEPT !.base = nextSeq]] ELSE local
      /\ UNCHANGED <<queue, mediaSeq, encDone, playDone, nextSeq, runCtx, runner, runs, inbox, count>>
  BY DEF Report, qvars, rvars
<1>2. pc[r] = "report" /\ pc'[r] = to /\ \A t \in Threads \ {r} : pc'[t] = pc[t]
  BY <1>1, MovesOn DEF TypeOK
<1>3. /\ r = runCtx /\ r \in Launched /\ Matched /\ inbox = << >>
      /\ runs[r].cancelled => Stops(r)
      /\ ~runs[r].cancelled => GoesOn(r) /\ LeftAlone(r)
  BY <1>2, AtWork DEF Works, Working
<1>4. to \in Working \union {"done"} /\ "report" \in Working
  BY DEF Working
<1>5. ~runs[r].cancelled => eof
  BY <1>2, <1>3 DEF GoesOn
<1> HIDE DEF eof, to
<1>6. /\ Solo' /\ Waiting' /\ Launched' = Launched
      /\ \A t \in Threads : Steers(t)' <=> Steers(t)
      /\ \A s \in Runs : Works(s)' => s = r
      /\ to \in Working => ~AtRest'
      /\ to = "done" => AtRest'
  BY <1>1, <1>3, <1>4, RunMove DEF OInv
<1>7. (Matched' <=> Matched) /\ (OnlyAppended' <=> OnlyAppended)
  BY <1>1 DEF Matched, OnlyAppended
<1>8. Numbers'
  BY <1>1, <1>6 DEF OInv, Numbers
<1>9. Playlist'
  <2>1. Appended => Appended'
    BY <1>1, <1>6 DEF Appended
  <2> QED BY <1>1, <1>7, <2>1 DEF OInv, Playlist
<1>10. CASE runs[r].cancelled
  <2>1. to = "done" /\ local' = local
    BY <1>1, <1>10 DEF eof, to
  <2>2. AtRest' /\ ~runner'.running /\ \A s \in Runs : ~Works(s)'
    BY <1>1, <1>2, <1>3, <1>6, <1>10, <2>1 DEF Stops, AtRest
  <2>3. Work'
    BY <2>2 DEF Work
  <2>4. pc[Client] = "skipSeq" /\ pc'[Client] = "skipSeq" /\ Steers(Client)
    BY <1>2, <1>3, <1>10 DEF Stops, Steers, Steering, Skipping
  <2>5. ASSUME NEW t \in Threads PROVE Stages(t)'
    <3>1. CASE Steers(t)
      <4>1. t = Client
        BY <2>4, <3>1 DEF OInv, Solo
      <4> QED BY <1>1, <1>7, <2>4, <4>1 DEF OInv, Stages, Skipping
    <3>2. CASE ~Steers(t)
      BY <1>6, <3>2 DEF Stages, Steers, Steering, Skipping
    <3> QED BY <3>1, <3>2
  <2>6. Settled'
    BY <1>6, <2>4 DEF Settled, Unsteered
  <2> QED BY <1>6, <1>8, <1>9, <2>3, <2>5, <2>6 DEF OInv
<1>11. CASE ~runs[r].cancelled
  <2>1. Unsteered
    BY <1>2, <1>3, <1>11 DEF LeftAlone, Unsteered
  <2>2. eof /\ to = "update" /\ to \in Working
    BY <1>5, <1>11 DEF to, Working
  <2>3. local'[r].base = nextSeq
    <3>1. local \in [Threads -> Locals]
      BY DEF TypeOK
    <3>2. local[r] \in Locals
      BY <3>1
    <3>3. [local[r] EXCEPT !.base = nextSeq].base = nextSeq
      BY <3>2 DEF Locals
    <3> QED BY <1>1, <2>2, <3>1, <3>3
  <2>4. nextSeq > runs[r].seq
    <3>1. nextSeq \in Streams /\ runs \in [Runs -> Run]
      BY DEF TypeOK
    <3>2. runs[r] \in Run
      BY <3>1
    <3>3. runs[r].seq \in Streams
      BY <3>2 DEF Run
    <3>4. \A s \in Streams : s \in Nat
      BY StreamsAre
    <3>5. SegsPerFile \in Nat \ {0}
      BY BoundsAssumption
    <3>6. nextSeq >= runs[r].seq + SegsPerFile
      BY <1>3, <2>2 DEF OInv, Numbers, Matched, eof
    <3> QED BY <3>1, <3>3, <3>4, <3>5, <3>6
  <2>5. GoesOn(r)'
    BY <1>1, <1>2, <1>3, <1>11, <2>2, <2>3, <2>4 DEF GoesOn
  <2>6. Unsteered'
    BY <1>6, <2>1 DEF Unsteered
  <2>7. Work'
    <3>1. LeftAlone(r)'
      BY <2>6 DEF LeftAlone, Unsteered
    <3>2. ~runs'[r].cancelled
      BY <1>1, <1>11
    <3> QED BY <1>3, <1>6, <1>7, <2>2, <2>5, <3>1, <3>2 DEF Work
  <2>8. \A t \in Threads : Stages(t)'
    BY <2>6 DEF Stages, Unsteered, Steers, Steering, Skipping
  <2>9. Settled'
    BY <1>6, <2>2 DEF Settled
  <2> QED BY <1>6, <1>8, <1>9, <2>7, <2>8, <2>9 DEF OInv
<1> QED BY <1>10, <1>11

\* The end of a whole file is entered: the next one starts where it ended.
LEMMA UpdateOrderly ==
  ASSUME TypeOK, OInv, NEW r \in Runs, UpdateGlobalMediaSequence(r, "update", "notify")
  PROVE  OInv'
<1> USE ThreadKinds
<1>1. /\ Goto(r, "update", "notify") /\ mediaSeq' = Later(mediaSeq, local[r].base)
      /\ UNCHANGED <<queue, encDone, playDone, nextSeq, runCtx, runner, runs, local, inbox, count>>
  BY DEF UpdateGlobalMediaSequence, rvars
<1>2. pc[r] = "update" /\ pc'[r] = "notify" /\ \A t \in Threads \ {r} : pc'[t] = pc[t]
  BY <1>1, MovesOn DEF TypeOK
<1>3. /\ r = runCtx /\ r \in Launched /\ Matched /\ inbox = << >> /\ ~runs[r].cancelled
      /\ GoesOn(r) /\ LeftAlone(r)
  BY <1>2, AtWork DEF Works, Working, Stops
<1>4. /\ Solo' /\ Waiting' /\ Launched' = Launched /\ ~AtRest'
      /\ \A t \in Threads : Steers(t)' <=> Steers(t)
      /\ \A s \in Runs : Works(s)' => s = r
  BY <1>1, <1>3, RunMove DEF OInv, Working
<1>5. /\ mediaSeq \in Nat /\ \A s \in Launched : runs[s].seq \in Nat
      /\ local[r].base \in Nat /\ \A s \in encDone : s \in Nat
  <2>1. /\ mediaSeq \in Streams /\ encDone \subseteq Streams
        /\ runs \in [Runs -> Run] /\ local \in [Threads -> Locals]
    BY DEF TypeOK
  <2>2. local[r] \in Locals /\ \A s \in Runs : runs[s] \in Run
    BY <2>1
  <2>3. local[r].base \in Streams /\ \A s \in Runs : runs[s].seq \in Streams
    BY <2>2 DEF Locals, Run
  <2>4. \A s \in Streams : s \in Nat
    BY StreamsAre
  <2> QED BY <2>1, <2>3, <2>4 DEF Launched
<1>6. mediaSeq' \in Nat /\ mediaSeq' >= mediaSeq /\ mediaSeq' > runs[r].seq
  <2>1. local[r].base > runs[r].seq
    BY <1>2, <1>3 DEF GoesOn
  <2> QED BY <1>1, <1>3, <1>5, <2>1 DEF Later
<1>7. Numbers'
  <2>1. \A s \in Launched : runs[s].seq <= mediaSeq'
    BY <1>5, <1>6 DEF OInv, Numbers
  <2>2. \A s \in encDone : s < mediaSeq'
    BY <1>5, <1>6 DEF OInv, Numbers
  <2> QED BY <1>1, <1>4, <2>1, <2>2 DEF OInv, Numbers
<1>8. (Matched' <=> Matched) /\ (OnlyAppended' <=> OnlyAppended)
  BY <1>1 DEF Matched, OnlyAppended
<1>9. Playlist'
  <2>1. Appended => Appended'
    BY <1>1, <1>4 DEF Appended
  <2> QED BY <1>1, <1>8, <2>1 DEF OInv, Playlist
<1>10. Unsteered /\ Unsteered'
  BY <1>2, <1>3, <1>4 DEF LeftAlone, Unsteered
<1>11. Work'
  <2>1. GoesOn(r)'
    BY <1>1, <1>2, <1>3, <1>6 DEF GoesOn
  <2>2. LeftAlone(r)' /\ ~runs'[r].cancelled
    BY <1>1, <1>3, <1>10 DEF LeftAlone, Unsteered
  <2> QED BY <1>3, <1>4, <1>8, <2>1, <2>2 DEF Work
<1>12. \A t \in Threads : Stages(t)'
  BY <1>10 DEF Stages, Unsteered, Steers, Steering, Skipping
<1>13. Settled'
  BY <1>4 DEF Settled
<1> QED BY <1>4, <1>7, <1>9, <1>11, <1>12, <1>13 DEF OInv

\* NotifyEncoderFinished: the head is encoded, and its run sees to the queue.
LEMMA NotifyOrderly ==
  ASSUME TypeOK, OInv, NEW r \in Runs, Notify(r)
  PROVE  OInv'
<1> USE ThreadKinds
<1>1. /\ Goto(r, "notify", "check") /\ encDone' = encDone \union {runs[r].seq}
      /\ UNCHANGED <<queue, mediaSeq, playDone, nextSeq, runCtx, runner, runs, inbox, count>>
  BY DEF Notify, rvars
<1>2. pc[r] = "notify" /\ pc'[r] = "check" /\ \A t \in Threads \ {r} : pc'[t] = pc[t]
  BY <1>1, MovesOn DEF TypeOK
<1>3. /\ r = runCtx /\ r \in Launched /\ Matched /\ inbox = << >> /\ ~runs[r].cancelled
      /\ GoesOn(r) /\ LeftAlone(r)
  BY <1>2, AtWork DEF Works, Working, Stops
<1>4. Unsteered
  BY <1>2, <1>3 DEF LeftAlone, Unsteered
<1>5. Steers(r)' /\ \A t \in Threads \ {r} : ~Steers(t)'
  BY <1>2, <1>4 DEF Unsteered, Steers, Steering, Skipping
<1>6. \A s \in Runs : ~Works(s)'
  BY <1>2, <1>3 DEF OInv, Solo, Works, Working
<1>7. Launched' = Launched /\ AtRest'
  BY <1>2, <1>6 DEF Launched, AtRest
<1>8. Solo'
  <2>1. \A t \in Threads : pc'[t] \in Skipping => t = Client
    BY <1>2 DEF OInv, Solo, Skipping
  <2>2. \A t \in Threads \ Runs : pc'[t] = "idle" \/ Steers(t)'
    BY <1>2, <1>4 DEF OInv, Solo, Unsteered
  <2>3. \A s \in Runs : Works(s)' \/ (Steers(s)' /\ pc'[s] # "forget") => s = runCtx'
    BY <1>1, <1>3, <1>5, <1>6
  <2>4. \A t, u \in Threads : Steers(t)' /\ Steers(u)' => t = u
    BY <1>5
  <2> QED BY <2>1, <2>2, <2>3, <2>4 DEF Solo
<1>9. runs[r].ok /\ mediaSeq > runs[r].seq /\ ~runner.running /\ runs[r].sent = SegsPerFile
  BY <1>2, <1>3 DEF GoesOn, OInv, Numbers
<1>10. Numbers'
  BY <1>1, <1>7, <1>9 DEF OInv, Numbers
<1>11. (Matched' <=> Matched) /\ (OnlyAppended' <=> OnlyAppended)
  BY <1>1 DEF Matched, OnlyAppended
<1>12. Playlist'
  <2>1. Appended => Appended'
    BY <1>1, <1>7 DEF Appended
  <2> QED BY <1>1, <1>11, <2>1 DEF OInv, Playlist
<1>13. Work'
  BY <1>1, <1>6, <1>9 DEF Work
<1>14. HeadEncoded'
  <2>1. \A s \in Launched : runs[s].seq < mediaSeq
    <3>1. mediaSeq \in Nat /\ \A s \in Runs : runs[s].seq \in Nat
      <4>1. mediaSeq \in Streams /\ runs \in [Runs -> Run]
        BY DEF TypeOK
      <4>2. \A s \in Runs : runs[s] \in Run
        BY <4>1
      <4>3. \A s \in Runs : runs[s].seq \in Streams
        BY <4>2 DEF Run
      <4>4. \A s \in Streams : s \in Nat
        BY StreamsAre
      <4> QED BY <4>1, <4>3, <4>4
    <3>2. \A s \in Launched : s # r => runs[s].seq < runs[r].seq
      BY <1>3 DEF OInv, Numbers, Matched
    <3> QED BY <1>9, <3>1, <3>2 DEF Launched
  <2>2. Spent'
    BY <1>1, <1>7, <2>1 DEF Spent
  <2>3. Current(queue)'.first = runs[r].seq
    BY <1>1, <1>3 DEF Matched
  <2> QED BY <1>1, <1>3, <1>9, <1>11, <2>2, <2>3 DEF HeadEncoded
<1>15. \A t \in Threads : Stages(t)'
  <2>1. \A t \in Threads \ {r} : Stages(t)'
    BY <1>5 DEF Stages, Steers, Steering, Skipping
  <2>2. Stages(r)'
    BY <1>2, <1>14 DEF Stages, Calm, Skipping
  <2> QED BY <2>1, <2>2
<1>16. Settled'
  BY <1>14 DEF Settled
<1>17. Waiting'
  BY <1>1, <1>3 DEF Waiting
<1> QED BY <1>8, <1>10, <1>12, <1>13, <1>15, <1>16, <1>17 DEF OInv

\* At first nothing has been launched, and nobody moves.
LEMMA InitOInv == Init => OInv
<1> SUFFICES ASSUME Init PROVE OInv
  OBVIOUS
<1> USE ThreadKinds
<1>1. \A t \in Threads : pc[t] = "idle"
  BY DEF Init
<1>2. Unsteered /\ AtRest /\ Launched = {} /\ \A t \in Threads : ~Steers(t) /\ (t \in Runs => ~Works(t))
  BY <1>1 DEF Unsteered, AtRest, Launched, Steers, Steering, Skipping, Works, Working
<1>3. queue.items = << >> /\ queue.cursor = 0 /\ ~HasCurrent(queue)
  BY DEF Init, EmptyQueue, HasCurrent, Positions
<1>4. runCtx = None /\ ~runner.running /\ encDone = {} /\ inbox = << >> /\ count.commands = 0
  BY DEF Init
<1>5. Solo
  BY <1>1, <1>2 DEF Solo, Skipping
<1>6. Waiting /\ Numbers
  BY <1>2, <1>4 DEF Waiting, Numbers
<1>7. Playlist
  BY <1>2, <1>3, <1>4 DEF Playlist, Appended, Positions
<1>8. Work
  BY <1>2, <1>4 DEF Work
<1>9. \A t \in Threads : Stages(t)
  BY <1>1 DEF Stages, Skipping
<1>10. Settled
  BY <1>2, <1>3 DEF Settled, NoHead, Spent
<1> QED BY <1>5, <1>6, <1>7, <1>8, <1>9, <1>10 DEF OInv

\* One event at a time is one way to go on.
LEMMA OrderlyIsNext == OrderlyNext => Next
<1>1. OrderlyCommand => UserSteps
  BY DEF OrderlyCommand, UserSteps
<1>2. ASSUME NEW r \in Runs, Eof(r) PROVE ThreadStep(r) /\ r \in Threads
  BY <1>2, ThreadKinds DEF ThreadStep, RunSteps
<1> QED BY <1>1, <1>2 DEF OrderlyNext, Next

\* A step that changes nothing keeps it.
LEMMA StutterOrderly == OInv /\ UNCHANGED vars => OInv'
<1> SUFFICES ASSUME OInv, UNCHANGED vars PROVE OInv'
  OBVIOUS
<1> USE DEF vars
<1>1. /\ \A t \in Threads : Steers(t)' <=> Steers(t)
      /\ \A r \in Runs : Works(r)' <=> Works(r)
      /\ Launched' = Launched /\ (AtRest' <=> AtRest) /\ (Unsteered' <=> Unsteered)
      /\ (OnlyFfmpeg' <=> OnlyFfmpeg) /\ (OnlyAppended' <=> OnlyAppended) /\ (Matched' <=> Matched)
  <2>1. /\ \A t \in Threads : Steers(t)' <=> Steers(t)
        /\ \A r \in Runs : Works(r)' <=> Works(r)
    BY DEF Steers, Works
  <2>2. Launched' = Launched
    BY DEF Launched
  <2>3. (AtRest' <=> AtRest) /\ (Unsteered' <=> Unsteered)
    BY <2>1 DEF AtRest, Unsteered
  <2>4. OnlyFfmpeg' <=> OnlyFfmpeg
    BY <2>1 DEF OnlyFfmpeg
  <2>5. (OnlyAppended' <=> OnlyAppended) /\ (Matched' <=> Matched)
    BY DEF OnlyAppended, Matched
  <2> QED BY <2>1, <2>2, <2>3, <2>4, <2>5
<1>2. Solo' /\ Waiting' /\ Numbers' /\ Playlist'
  <2>1. Solo'
    BY DEF OInv, Solo, Steers, Works
  <2>2. Waiting'
    BY <1>1 DEF OInv, Waiting
  <2>3. Numbers'
    BY <1>1 DEF OInv, Numbers
  <2>4. Appended => Appended'
    BY <1>1 DEF Appended
  <2> QED BY <1>1, <2>1, <2>2, <2>3, <2>4 DEF OInv, Playlist
<1>3. Work'
  BY <1>1 DEF OInv, Work, Stops, GoesOn, AtTask, LeftAlone
<1>4. (Spent' <=> Spent) /\ (HeadEncoding' <=> HeadEncoding)
  BY <1>1 DEF Spent, HeadEncoding
<1>5. (HeadEncoded' <=> HeadEncoded) /\ (NoHead' <=> NoHead) /\ (HeadDue' <=> HeadDue)
  BY <1>1, <1>4 DEF HeadEncoded, NoHead, HeadDue
<1>6. \A t \in Threads : Stages(t)'
  BY <1>1, <1>4, <1>5 DEF OInv, Stages, Calm, Plan
<1>7. Settled'
  BY <1>1, <1>5 DEF OInv, Settled
<1> QED BY <1>2, <1>3, <1>6, <1>7 DEF OInv

\* Whatever a thread does of itself, it does in order.
LEMMA ThreadOrderly ==
  ASSUME Known, NEW t \in Threads, ThreadStep(t),
         pc[t] = "ffmpeg" => runs[t].cancelled \/ runs[t].sent < SegsPerFile,
         Stopping => t \in Runs /\ runs[t].cancelled
  PROVE  OInv'
<1>0. TypeOK /\ OInv /\ TInv /\ LockHeldInside
  BY DEF Known, TInv
<1>1. CASE t = Client /\ SkipSteps
  BY <1>0, <1>1, SkipOrderly, ThreadKinds
<1>2. CASE t = Client /\ PlayerCompleted
  BY <1>0, <1>2, PlayerOrderly
<1>3. CASE QueueSteps(t)
  BY <1>0, <1>3, StopOrderly, CheckOrderly, NextOrderly, ForgetOrderly, ReactOrderly, EnsureOrderly,
     TagOrderly, WriteOrderly, LaunchOrderly DEF QueueSteps
<1>4. CASE t \in Runs /\ RunSteps(t)
  <2>1. CASE Eof(t)
    <3>1. runs[t].sent = SegsPerFile /\ pc[t] = "ffmpeg"
      BY <2>1 DEF Eof, Goto
    <3>2. ~(SegsPerFile < SegsPerFile)
      BY BoundsAssumption
    <3>3. runs[t].cancelled
      BY <3>1, <3>2
    <3> QED BY <1>0, <1>4, <2>1, <3>3, StartOrderly
  <2>2. CASE ~Eof(t)
    BY <1>0, <1>4, <2>2, StartOrderly, SegmentOrderly, ReportOrderly, UpdateOrderly, NotifyOrderly
    DEF RunSteps
  <2> QED BY <2>1, <2>2
<1> QED BY <1>1, <1>2, <1>3, <1>4 DEF ThreadStep

\* So does everybody else.
LEMMA NextOInv == Known /\ [OrderlyNext]_vars => OInv'
<1> SUFFICES ASSUME Known, [OrderlyNext]_vars PROVE OInv'
  OBVIOUS
<1>0. TypeOK /\ OInv
  BY DEF Known, TInv
<1>1. CASE Quiet /\ OrderlyCommand
  <2>1. ASSUME Undisturbed, NEW f \in Files, AppendCmd(f) PROVE OInv'
    BY <1>0, <1>1, <2>1, AppendOrderly
  <2>2. ASSUME Undisturbed, NEW i \in Positions(queue) \ {queue.cursor}, RemoveCmd(i) PROVE OInv'
    BY <1>0, <1>1, <2>2, RemoveOrderly
  <2>3. CASE ~HasCurrent(queue) /\ ClearCmd
    BY <1>0, <1>1, <2>3, ClearOrderly
  <2>4. ASSUME HasCurrent(queue) => nextSeq > Current(queue).first, NEW c \in Commands, SkipCmd(c)
        PROVE  OInv'
    BY <1>0, <1>1, <2>4, SkipCmdOrderly
  <2> QED BY <1>1, <2>1, <2>2, <2>3, <2>4 DEF OrderlyCommand
<1>2. CASE Quiet /\ Undisturbed /\ GossipReact
  BY <1>0, <1>2, GossipOrderly
<1>3. CASE Quiet /\ PlayerEnds
  BY <1>0, <1>3, PlayerOrderly
<1>4. ASSUME Quiet, NEW r \in Runs, Eof(r) \/ Fail(r) PROVE OInv'
  BY <1>0, <1>4, StartOrderly
<1>5. ASSUME NEW t \in Threads, ThreadStep(t),
             pc[t] = "ffmpeg" => runs[t].cancelled \/ runs[t].sent < SegsPerFile,
             Stopping => t \in Runs /\ runs[t].cancelled
      PROVE  OInv'
  BY <1>5, ThreadOrderly
<1>6. CASE UNCHANGED vars
  BY <1>0, <1>6, StutterOrderly
<1> QED BY <1>1, <1>2, <1>3, <1>4, <1>5, <1>6 DEF OrderlyNext

\* All that is known holds of every state of an orderly execution.
LEMMA KnownAtFirst == Init => Known
<1>1. Init => LockHeldInside
  <2>1. \A t \in Threads : t # None
    BY BoundsAssumption DEF Threads, None
  <2> QED BY <2>1 DEF Init, LockHeldInside, Inside
<1> QED BY <1>1, InitIInv, InitTInv, InitOInv DEF Known

LEMMA KnownStays == Known /\ [OrderlyNext]_vars => Known'
<1>1. [OrderlyNext]_vars => [Next]_vars
  BY OrderlyIsNext
<1> QED BY <1>1, NextIInv, NextHolds, NextTInv, NextOInv DEF Known, LInv, IInv

LEMMA AlwaysKnown == OrderlySpec => []Known
  BY KnownAtFirst, KnownStays, PTL DEF OrderlySpec

-----------------------------------------------------------------------------
\* node.go, encode_runner.go: when everything happens in order, a run that
\* returns nil has made every segment of its file.
THEOREM NilAlwaysMeansEof == OrderlySpec => []NilMeansEof
<1>1. Known => NilMeansEof
  BY DEF Known, OInv, Numbers, NilMeansEof
<1> QED BY <1>1, AlwaysKnown, PTL

\* app.cpp: when everything happens in order, no two entries are streamed from
\* the same sequence number, which the player and the completion states are
\* keyed by, whatever the commands are and however the files end.
THEOREM FirstSeqAlwaysUnique == OrderlySpec => []UniqueFirstSeq
<1>1. Known => UniqueFirstSeq
  <2>1. SUFFICES ASSUME Known, NEW r \in Launched, NEW s \in Launched, runs[r].entry # runs[s].entry
                 PROVE  runs[r].seq # runs[s].seq
    BY DEF UniqueFirstSeq
  <2>2. r # s
    BY <2>1
  <2> QED BY <2>1, <2>2 DEF Known, OInv, Numbers
<1> QED BY <1>1, AlwaysKnown, PTL

\* node.go: when everything happens in order, then whenever all is quiet the
\* current run is of the head of the queue, and encoding it or done with it.
THEOREM HeadAlwaysStreamed == OrderlySpec => []HeadStreamed
<1>1. Known => HeadStreamed
  <2>1. SUFFICES ASSUME Known, Quiet, HasCurrent(queue)
                 PROVE  /\ runCtx # None /\ runs[runCtx].entry = Current(queue).id
                        /\ Streaming(runCtx) \/ Current(queue).first \in encDone
    BY DEF HeadStreamed
  <2>2. Calm
    BY <2>1, QuietThen DEF Known, TInv
  <2>3. HeadEncoding \/ HeadEncoded
    BY <2>1, <2>2 DEF Calm, NoHead
  <2> QED BY <2>3 DEF HeadEncoding, HeadEncoded, Matched, Streaming
<1> QED BY <1>1, AlwaysKnown, PTL

\* queue.go: when everything happens in order and the user only appends, no
\* entry is encoded a second time.
THEOREM AlwaysEncodedOnce == OrderlySpec => []EncodedOnce
<1>1. Known => EncodedOnce
  BY DEF Known, OInv, Playlist, Appended, EncodedOnce
<1> QED BY <1>1, AlwaysKnown, PTL

\* signaling_test.go: when everything happens in order, the queue advances by
\* itself only from an entry that was encoded to its end and played to its end.
THEOREM AlwaysBothBeforeNext == OrderlySpec => BothBeforeNext
<1> DEFINE Both == \A t \in Threads :
                     pc[t] = "next" /\ pc'[t] # "next" /\ HasCurrent(queue)
                       => \E r \in Launched :
                            /\ runs[r].entry = Current(queue).id
                            /\ runs[r].sent = SegsPerFile
                            /\ runs[r].seq \in encDone \intersect playDone
<1>1. Known => Both
  <2>1. SUFFICES ASSUME Known, NEW t \in Threads, pc[t] = "next"
                 PROVE  \E r \in Launched : /\ runs[r].entry = Current(queue).id
                                            /\ runs[r].sent = SegsPerFile
                                            /\ runs[r].seq \in encDone \intersect playDone
    OBVIOUS
  <2>2. HeadEncoded /\ local[t].stream = Current(queue).first /\ local[t].stream \in playDone
    BY <2>1 DEF Known, OInv, Stages
  <2>3. runCtx \in Launched
    BY <2>1, <2>2 DEF Known, OInv, Numbers, HeadEncoded, Matched
  <2> WITNESS runCtx \in Launched
  <2> QED BY <2>2, <2>3 DEF HeadEncoded, Matched
<1>2. Known => [Both]_vars
  BY <1>1
<1>3. BothBeforeNext <=> [][Both]_vars
  BY DEF BothBeforeNext
<1> HIDE DEF Both
<1> QED BY <1>2, <1>3, AlwaysKnown, PTL

\* What is not a command changes no entry's place: the cursor moves, and the
\* current entry is stored again with its first sequence number.
LEMMA IdsStay ==
  ASSUME Known, OrderlyNext, count'.commands = count.commands
  PROVE  Ids(queue') = Ids(queue)
<1>0. /\ TypeOK /\ OInv /\ count.commands \in Nat /\ count.commands # count.commands + 1
      /\ queue \in [items : Seq(Entry), cursor : Nat]
      /\ count = [count EXCEPT !.commands = count.commands]
      /\ [count EXCEPT !.commands = count.commands + 1].commands = count.commands + 1
  BY BoundsAssumption DEF Known, TInv, TypeOK
<1>1. ASSUME queue'.items = queue.items PROVE Ids(queue') = Ids(queue)
  BY <1>1 DEF Ids, Positions
<1>2. ASSUME queue' = queue PROVE Ids(queue') = Ids(queue)
  BY <1>2
<1>3. ~OrderlyCommand
  <2>1. ASSUME NEW c, NEW to, UserCommand(c, to) PROVE FALSE
    BY <1>0, <2>1 DEF UserCommand
  <2> QED BY <2>1 DEF OrderlyCommand, AppendCmd, RemoveCmd, ClearCmd, SkipCmd
<1>4. ASSUME GossipReact \/ PlayerEnds PROVE queue' = queue
  BY <1>4 DEF GossipReact, PlayerEnds, qvars
<1>5. ASSUME NEW r \in Runs, RunSteps(r) \/ Fail(r) PROVE queue' = queue
  BY <1>5 DEF RunSteps, StartAgain, Start, LoopCancelled, Loop, Exec, ExecSuperseded, Segment, Eof, Fail,
     Killed, Exited, Retry, Cleanup, Returned, Report, UpdateGlobalMediaSequence, Notify, qvars
<1>6. ASSUME SkipSteps \/ PlayerCompleted PROVE queue'.items = queue.items
  <2>1. CASE SkipMove
    BY <2>1 DEF SkipMove, Advance, Rewind
  <2>2. CASE ~SkipMove
    <3>1. queue' = queue
      BY <1>6, <2>2 DEF SkipSteps, SkipStop, SkipSeq, UpdateGlobalMediaSequence, PlayerCompleted, qvars
    <3> QED BY <3>1
  <2> QED BY <2>1, <2>2
<1>7. ASSUME NEW t \in Threads, QueueSteps(t) PROVE Ids(queue') = Ids(queue)
  <2>1. CASE InternalNext(t)
    BY <1>1, <2>1 DEF InternalNext, Advance
  <2>2. CASE EnsureWrite(t)
    <3>1. /\ HasCurrent(queue) /\ local[t].entry = [Current(queue) EXCEPT !.first = mediaSeq]
          /\ queue' = SetCurrent(queue, local[t].entry)
      BY <1>0, <2>2 DEF EnsureWrite, Goto, OInv, Stages, HeadDue
    <3>2. Current(queue) \in Entry /\ mediaSeq \in Streams
      BY <1>0, <3>1 DEF TypeOK, HasCurrent, Positions, Current
    <3>3. local[t].entry \in Entry /\ local[t].entry.id = Current(queue).id
      BY <3>1, <3>2 DEF Entry
    <3>4. /\ Positions(queue') = Positions(queue)
          /\ \A i \in Positions(queue) : queue'.items[i].id = queue.items[i].id
      <4> DEFINE e == local[t].entry
                 new == SetCurrent(queue, e)
      <4>1. e \in Entry /\ e.id = Current(queue).id
        BY <3>3
      <4> HIDE DEF e
      <4>2. Positions(new) = Positions(queue) /\ \A i \in Positions(queue) : new.items[i].id = queue.items[i].id
        BY <1>0, <3>1, <4>1, SetCurrentKeeps
      <4>3. queue' = new
        BY <3>1 DEF e
      <4> QED BY <4>2, <4>3
    <3> QED BY <3>4 DEF Ids
  <2>3. CASE ~InternalNext(t) /\ ~EnsureWrite(t)
    <3>1. queue' = queue
      BY <1>7, <2>3 DEF QueueSteps, Stop, Check, Forget, React, GetNextStartSequence, EnsureActive,
         EnsureStopped, EnsureCheck, EnsureTag, EnsureLaunch, qvars
    <3> QED BY <1>2, <3>1
  <2> QED BY <2>1, <2>2, <2>3
<1>8. ASSUME NEW t \in Threads, ThreadStep(t) PROVE Ids(queue') = Ids(queue)
  BY <1>1, <1>2, <1>5, <1>6, <1>7, <1>8 DEF ThreadStep
<1>9. ASSUME NEW r \in Runs, Eof(r) \/ Fail(r) PROVE Ids(queue') = Ids(queue)
  BY <1>2, <1>5, <1>9 DEF RunSteps
<1> QED BY <1>2, <1>3, <1>4, <1>8, <1>9 DEF OrderlyNext

\* queue.go: when everything happens in order, the playlist has the entries the
\* user gave it, in that order: no re-evaluation, no advance and no skip loses
\* one or writes one over another.
THEOREM NoEntryEverLost == OrderlySpec => NoEntryLost
<1> DEFINE Same == count'.commands = count.commands => Ids(queue') = Ids(queue)
<1>1. Known /\ [OrderlyNext]_vars => [Same]_vars
  BY IdsStay
<1>2. NoEntryLost <=> [][Same]_vars
  BY DEF NoEntryLost
<1> HIDE DEF Same
<1> QED BY <1>1, <1>2, AlwaysKnown, PTL DEF OrderlySpec

-----------------------------------------------------------------------------
(* OrderlySpec implements StreamedPlaylist. Besides what is Known of an     *)
(* orderly state, the mapped steps rely on what became of each run.         *)

\* A run that works no more was cancelled or came to the end of its file.
Over == \A r \in Launched : ~Works(r) => runs[r].ok \/ runs[r].cancelled

\* A cancelled run that is still at work has not come to an end that counts.
Unfinished(r) == runs[r].seq = mediaSeq /\ (pc[r] = "exited" \/ ~runs[r].ok)
Cut == \A r \in Runs : Works(r) /\ runs[r].cancelled => Unfinished(r)

\* What is known to be encoded was made to its end.
MadeOnce == \A r \in Launched : runs[r].seq \in encDone => runs[r].ok /\ ~Works(r)

\* Once a skip has stopped the encoder, nothing starts it before the skip moves.
Hushed ==
  pc[Client] \in {"skipSeq", "skipUpdate", "skipMove"} => runCtx = None \/ runs[runCtx].cancelled

\* The counter of the playlist is brought up to the ring buffer's before the
\* next stream begins.
Counted ==
  /\ Spent => nextSeq <= mediaSeq
  /\ \A r \in Runs : /\ pc[r] = "update" => local[r].base = nextSeq
                     /\ pc[r] = "notify" => nextSeq <= mediaSeq
  /\ pc[Client] = "skipUpdate" => local[Client].base = nextSeq

\* The player knows of no other streams than those that were begun.
Reported ==
  /\ player.stream # None => player.stream \in Begun
  /\ \A i \in 1 .. Len(inbox) : inbox[i] \in Begun

SInv == Over /\ Cut /\ MadeOnce /\ Hushed /\ Counted /\ Reported

\* At first there is no run, no report and no number given.
LEMMA InitSInv == Init => SInv
<1> SUFFICES ASSUME Init PROVE SInv
  OBVIOUS
<1>1. \A t \in Threads : pc[t] = "idle"
  BY DEF Init
<1>2. Launched = {} /\ pc[Client] = "idle" /\ \A r \in Runs : ~Works(r) /\ pc[r] = "idle"
  BY <1>1, ThreadKinds, BoundsAssumption DEF Launched, Works, Working, Client, Threads
<1>3. nextSeq <= mediaSeq /\ player.stream = None /\ Len(inbox) = 0 /\ encDone = {}
  BY DEF Init
<1> QED BY <1>2, <1>3 DEF SInv, Over, Cut, MadeOnce, Hushed, Counted, Reported

\* The streams begun are the same when the runs and their numbers are.
LEMMA BegunStays ==
  ASSUME Launched' = Launched, \A r \in Runs : runs'[r].seq = runs[r].seq
  PROVE  Begun' = Begun
  BY DEF Begun, Launched

\* A thread sees to the queue: the runs at work go on as they were, and if one
\* is cancelled, it is before its end.
LEMMA MovedKeepsS ==
  ASSUME TypeOK, SInv, NEW t \in Threads, Moved(t),
         UNCHANGED <<mediaSeq, nextSeq, runCtx, player>>, encDone' \subseteq encDone,
         \A u \in Threads \ {t} : local'[u] = local[u],
         \A r \in Runs : /\ runs'[r].seq = runs[r].seq /\ runs'[r].ok = runs[r].ok
                         /\ runs[r].cancelled => runs'[r].cancelled,
         \A r \in Runs : Works(r) /\ runs'[r].cancelled => Unfinished(r),
         pc'[t] \in {"skipSeq", "skipUpdate", "skipMove"}
           => runCtx = None \/ runs'[runCtx].cancelled,
         pc'[t] = "skipUpdate" => local'[t].base = nextSeq,
         inbox' \in {inbox, << >>}
  PROVE  SInv'
<1> USE ThreadKinds
<1>1. /\ Launched' = Launched /\ (AtRest' <=> AtRest)
      /\ \A u \in Threads \ {t} : pc'[u] = pc[u] /\ ~Steers(u)'
      /\ \A r \in Runs : /\ Works(r)' <=> Works(r)
                         /\ Works(r) => r # t /\ pc'[r] = pc[r]
  BY DEF Moved
<1>2. Over' /\ MadeOnce'
  BY <1>1 DEF SInv, Over, MadeOnce, Launched
<1>3. Cut'
  BY <1>1 DEF Cut, Unfinished
<1>4. Client \in Threads
  BY BoundsAssumption DEF Client, Threads
<1>5. Hushed'
  BY <1>1, <1>4 DEF Hushed, Steers, Steering, Skipping
<1>6. Counted'
  <2>1. Spent' <=> Spent
    BY <1>1 DEF Spent, Launched
  <2>2. \A r \in Runs : /\ pc'[r] = "update" => local'[r].base = nextSeq
                        /\ pc'[r] = "notify" => nextSeq <= mediaSeq
    BY <1>1 DEF SInv, Counted, Works, Working
  <2>3. pc'[Client] = "skipUpdate" => local'[Client].base = nextSeq
    BY <1>1, <1>4 DEF Steers, Steering, Skipping
  <2> QED BY <2>1, <2>2, <2>3 DEF SInv, Counted
<1>7. Reported'
  BY <1>1, BegunStays DEF SInv, Reported
<1> QED BY <1>2, <1>3, <1>5, <1>6, <1>7 DEF SInv

\* The steps of a thread that sees to the queue, but for the launch: what they
\* have in common.
LEMMA QueueStepIs ==
  ASSUME TypeOK, OInv, NEW t \in Threads, QueueSteps(t), ~EnsureLaunch(t)
  PROVE  /\ Moved(t) /\ Steers(t) /\ pc[t] \notin Skipping /\ pc'[t] \notin Skipping
         /\ UNCHANGED <<mediaSeq, nextSeq, runCtx, player, inbox>> /\ encDone' \subseteq encDone
         /\ \A u \in Threads \ {t} : local'[u] = local[u]
         /\ runs' = runs \/ (AtRest /\ Stop(t))
<1> DEFINE Inner == Steering \ Skipping
           Moves(from, to) == /\ from \in Inner /\ to \in Inner \union {Rest(t)} /\ Goto(t, from, to)
                              /\ from = "forget" => to = Rest(t)
           Keeps == /\ UNCHANGED <<mediaSeq, nextSeq, runCtx, player, inbox>> /\ encDone' \subseteq encDone
                    /\ \A u \in Threads \ {t} : local'[u] = local[u]
<1>1. ASSUME NEW from, NEW to, Moves(from, to), Keeps
      PROVE  Moved(t) /\ Steers(t) /\ pc[t] \notin Skipping /\ pc'[t] \notin Skipping
  <2>1. Goto(t, from, to) /\ from \in Steering /\ to \in Steering \union {Rest(t)} /\ to \notin Skipping
    BY <1>1, RestIsOut DEF Steering
  <2>2. from = "forget" => to = Rest(t)
    BY <1>1
  <2>3. UNCHANGED <<runCtx, inbox>>
    BY <1>1
  <2>4. Moved(t) /\ Steers(t) /\ pc[t] = from /\ pc'[t] = to
    BY <2>1, <2>2, <2>3, SteerMove DEF OInv
  <2> QED BY <1>1, <2>1, <2>4
<1>2. local \in [Threads -> Locals]
  BY DEF TypeOK
<1>3. CASE Stop(t)
  <2>1. Moves("stop", "react") /\ Keeps /\ pc[t] = "stop"
    BY <1>3 DEF Stop, Goto, qvars, Steering, Skipping
  <2>2. AtRest
    BY <2>1 DEF OInv, Stages, NoHead, Spent
  <2> QED BY <1>1, <1>3, <2>1, <2>2
<1>4. CASE Check(t)
  <2>1. Keeps /\ runs' = runs
    BY <1>2, <1>4 DEF Check, rvars
  <2>2. \E to \in {"next", Rest(t)} : Moves("check", to)
    BY <1>4 DEF Check, Steering, Skipping
  <2> QED BY <1>1, <2>1, <2>2
<1>5. CASE InternalNext(t)
  <2>1. Keeps /\ runs' = runs
    BY <1>5 DEF InternalNext, rvars
  <2>2. \E to \in {"react", "stop"} : Moves("next", to)
    BY <1>5 DEF InternalNext, Steering, Skipping
  <2> QED BY <1>1, <2>1, <2>2
<1>6. CASE Forget(t)
  <2>1. Keeps /\ runs' = runs /\ Moves("forget", Rest(t))
    BY <1>2, <1>6 DEF Forget, rvars, Steering, Skipping
  <2> QED BY <1>1, <2>1
<1>7. CASE React(t)
  <2>1. Keeps /\ runs' = runs
    BY <1>2, <1>7 DEF React, qvars, rvars
  <2>2. \E to \in {"base", "ensure"} : Moves("react", to)
    BY <1>7 DEF React, Steering, Skipping
  <2> QED BY <1>1, <2>1, <2>2
<1>8. CASE GetNextStartSequence(t)
  <2>1. Keeps /\ runs' = runs /\ Moves("base", "ensure")
    BY <1>2, <1>8 DEF GetNextStartSequence, qvars, rvars, Steering, Skipping
  <2> QED BY <1>1, <2>1
<1>9. ASSUME Finish(t, "ensure")
      PROVE  /\ \E to \in {"forget", Rest(t)} : Moves("ensure", to)
             /\ \A u \in Threads \ {t} : local'[u] = local[u]
  BY <1>2, <1>9 DEF Finish, Steering, Skipping
<1>10. CASE EnsureActive(t)
  <2>1. Keeps /\ runs' = runs
    BY <1>9, <1>10 DEF EnsureActive, qvars, rvars
  <2>2. \E to \in {"forget", Rest(t)} : Moves("ensure", to)
    BY <1>9, <1>10 DEF EnsureActive
  <2> QED BY <1>1, <2>1, <2>2
<1>11. CASE EnsureStopped(t)
  <2>1. Keeps
    BY <1>9, <1>11 DEF EnsureStopped, qvars
  <2>2. \E to \in {"forget", Rest(t)} : Moves("ensure", to)
    BY <1>9, <1>11 DEF EnsureStopped
  <2>3. runs' = runs
    <3>1. pc[t] = "ensure" /\ ~ShouldRun(t)
      BY <2>2, <1>11 DEF EnsureStopped, Goto
    <3>2. NoHead
      <4>1. SUFFICES ASSUME HasCurrent(queue), Plan(t) PROVE FALSE
        BY <3>1 DEF OInv, Stages, HeadEncoding, Matched, HeadDue
      <4>2. queue \in [items : Seq(Entry), cursor : Nat]
        BY DEF TypeOK
      <4>3. Current(queue) \in Entry
        BY <4>1, <4>2, QueueTypes
      <4>4. Current(queue).file \in Files
        BY <4>3 DEF Entry
      <4> QED BY <3>1, <4>1, <4>4, NoFileAssumption DEF ShouldRun, Plan
    <3>3. ~runner.running
      BY <3>2 DEF NoHead, Spent, OInv, Work
    <3> QED BY <1>11, <3>3 DEF EnsureStopped
  <2> QED BY <1>1, <2>1, <2>2, <2>3
<1>12. CASE EnsureCheck(t)
  <2>1. Keeps /\ runs' = runs /\ Moves("ensure", "tag")
    BY <1>12 DEF EnsureCheck, qvars, rvars, Steering, Skipping
  <2> QED BY <1>1, <2>1
<1>13. CASE EnsureTag(t)
  <2>1. Keeps /\ runs' = runs
    BY <1>2, <1>13 DEF EnsureTag, qvars, rvars
  <2>2. \E to \in {"write", "launch"} : Moves("tag", to)
    BY <1>13 DEF EnsureTag, Steering, Skipping
  <2> QED BY <1>1, <2>1, <2>2
<1>14. CASE EnsureWrite(t)
  <2>1. Keeps /\ runs' = runs /\ Moves("write", "launch")
    BY <1>14 DEF EnsureWrite, rvars, Steering, Skipping
  <2> QED BY <1>1, <2>1
<1> QED BY <1>3, <1>4, <1>5, <1>6, <1>7, <1>8, <1>10, <1>11, <1>12, <1>13, <1>14 DEF QueueSteps

\* A cancellation changes nothing else, and is not taken back.
LEMMA CancelGrows ==
  ASSUME TypeOK, CancelRun(runCtx)
  PROVE  /\ \A r \in Runs : /\ runs'[r].seq = runs[r].seq /\ runs'[r].ok = runs[r].ok
                            /\ runs[r].cancelled => runs'[r].cancelled
         /\ runCtx = None \/ runs'[runCtx].cancelled
<1>1. ASSUME NEW r \in Runs PROVE runs[r].cancelled => runs'[r].cancelled
  <2>1. CASE r = runCtx
    <3>1. r # None
      BY BoundsAssumption DEF Runs, None
    <3> QED BY <2>1, <3>1, CancelKeeps
  <2>2. CASE r # runCtx
    BY <2>2, CancelKeeps
  <2> QED BY <2>1, <2>2
<1> QED BY <1>1, CancelKeeps

\* Seeing to the queue, up to the launch.
LEMMA QueueKeepsS ==
  ASSUME TypeOK, OInv, SInv, NEW t \in Threads, QueueSteps(t), ~EnsureLaunch(t)
  PROVE  SInv'
<1>1. /\ Moved(t) /\ pc'[t] \notin Skipping
      /\ UNCHANGED <<mediaSeq, nextSeq, runCtx, player, inbox>> /\ encDone' \subseteq encDone
      /\ \A u \in Threads \ {t} : local'[u] = local[u]
      /\ runs' = runs \/ (AtRest /\ Stop(t))
  BY QueueStepIs
<1>2. pc'[t] \notin {"skipSeq", "skipUpdate", "skipMove"}
  BY <1>1 DEF Skipping
<1>3. CASE runs' = runs
  BY <1>1, <1>2, <1>3, MovedKeepsS DEF SInv, Cut
<1>4. CASE AtRest /\ Stop(t)
  <2>1. CancelRun(runCtx) /\ \A r \in Runs : ~Works(r)
    BY <1>4 DEF Stop, AtRest
  <2>2. \A r \in Runs : /\ runs'[r].seq = runs[r].seq /\ runs'[r].ok = runs[r].ok
                        /\ runs[r].cancelled => runs'[r].cancelled
    BY <2>1, CancelGrows
  <2> QED BY <1>1, <1>2, <2>1, <2>2, MovedKeepsS
<1> QED BY <1>1, <1>3, <1>4

\* A skip: the run it cancels was streaming, and nothing is begun meanwhile.
LEMMA SkipMoves ==
  ASSUME TypeOK, OInv, SkipSteps
  PROVE  Moved(Client) /\ Steers(Client) /\ pc[Client] \in Skipping /\ UNCHANGED <<runCtx, inbox>>
<1> USE ThreadKinds DEF Steering, Skipping
<1>1. ASSUME NEW from \in Skipping, NEW to \in Steering, Goto(Client, from, to), UNCHANGED <<runCtx, inbox>>
      PROVE  Moved(Client) /\ Steers(Client) /\ pc[Client] \in Skipping
  <2>1. from \in Steering /\ to \in Steering \union {Rest(Client)} /\ Client \in Threads
        /\ (from = "forget" => to = Rest(Client)) /\ (to \in Skipping => from \in Skipping)
    BY BoundsAssumption DEF Client, Threads
  <2>2. Moved(Client) /\ Steers(Client) /\ pc[Client] = from
    BY <1>1, <2>1, SteerMove DEF OInv
  <2> QED BY <2>2
<1>2. CASE SkipStop
  <2>1. UNCHANGED <<runCtx, inbox>> /\ \E to \in {"skipSeq", "skipMove"} : Goto(Client, "skipStop", to)
    BY <1>2 DEF SkipStop
  <2> QED BY <1>1, <2>1
<1>3. CASE SkipSeq
  <2>1. UNCHANGED <<runCtx, inbox>> /\ Goto(Client, "skipSeq", "skipUpdate")
    BY <1>3 DEF SkipSeq, rvars
  <2> QED BY <1>1, <2>1
<1>4. CASE UpdateGlobalMediaSequence(Client, "skipUpdate", "skipMove")
  <2>1. UNCHANGED <<runCtx, inbox>> /\ Goto(Client, "skipUpdate", "skipMove")
    BY <1>4 DEF UpdateGlobalMediaSequence, rvars
  <2> QED BY <1>1, <2>1
<1>5. CASE SkipMove
  <2>1. UNCHANGED <<runCtx, inbox>> /\ Goto(Client, "skipMove", "react")
    BY <1>5 DEF SkipMove, rvars
  <2> QED BY <1>1, <2>1
<1> QED BY <1>2, <1>3, <1>4, <1>5 DEF SkipSteps

\* A skip: the encoder is hushed from its first step to its last.
LEMMA SkipKeepsS ==
  ASSUME TypeOK, OInv, SInv, SkipSteps
  PROVE  SInv'
<1> USE ThreadKinds
<1>1. Moved(Client) /\ Steers(Client) /\ Client \in Threads
  BY SkipMoves, BoundsAssumption DEF Client, Threads
<1>2. local \in [Threads -> Locals]
  BY DEF TypeOK
<1>3. CASE SkipStop
  <2>1. /\ UNCHANGED <<mediaSeq, nextSeq, runCtx, player, encDone, local, inbox>> /\ CancelRun(runCtx)
        /\ pc[Client] = "skipStop"
    BY <1>3 DEF SkipStop, qvars, Goto
  <2>2. pc'[Client] # "skipUpdate"
    BY <1>3, <1>1 DEF SkipStop, Goto, TypeOK
  <2>3. \A r \in Runs : Works(r) => Unfinished(r)
    <3>1. SUFFICES ASSUME NEW r \in Runs, Works(r) PROVE Unfinished(r)
      OBVIOUS
    <3>2. Steers(Client) /\ pc[Client] # "skipSeq" /\ pc[Client] # "forget"
      BY <1>1, <2>1
    <3>3. ~runs[r].cancelled /\ pc[r] = "ffmpeg"
      BY <1>1, <3>1, <3>2, NoneCancelled
    <3>4. GoesOn(r)
      BY <3>1, <3>3 DEF OInv, Work
    <3> QED BY <3>3, <3>4 DEF GoesOn, Unfinished
  <2>4. /\ \A r \in Runs : /\ runs'[r].seq = runs[r].seq /\ runs'[r].ok = runs[r].ok
                           /\ runs[r].cancelled => runs'[r].cancelled
        /\ runCtx = None \/ runs'[runCtx].cancelled
    BY <2>1, CancelGrows
  <2> QED BY <1>1, <2>1, <2>2, <2>3, <2>4, MovedKeepsS
<1>4. ASSUME SkipSeq \/ SkipMove
      PROVE  /\ UNCHANGED <<mediaSeq, nextSeq, runCtx, player, encDone, runs, inbox>>
             /\ \A u \in Threads \ {Client} : local'[u] = local[u]
             /\ pc[Client] \in {"skipSeq", "skipMove"}
  BY <1>2, <1>4 DEF SkipSeq, SkipMove, qvars, rvars, Goto
<1>5. \A r \in Runs : Works(r) /\ runs[r].cancelled => Unfinished(r)
  BY DEF SInv, Cut
<1>6. CASE SkipSeq
  <2>1. local'[Client].base = nextSeq
    <3>1. local[Client] \in Locals /\ local' = [local EXCEPT ![Client] = [local[Client] EXCEPT !.base = nextSeq]]
      BY <1>1, <1>2, <1>6 DEF SkipSeq
    <3>2. [local[Client] EXCEPT !.base = nextSeq].base = nextSeq
      BY <3>1 DEF Locals
    <3> QED BY <1>1, <1>2, <3>1, <3>2
  <2>2. runCtx = None \/ runs'[runCtx].cancelled
    BY <1>4, <1>6 DEF SkipSeq, Goto, SInv, Hushed
  <2> QED BY <1>1, <1>4, <1>5, <1>6, <2>1, <2>2, MovedKeepsS
<1>7. CASE SkipMove
  <2>1. pc'[Client] = "react"
    BY <1>1, <1>7 DEF SkipMove, Goto, TypeOK
  <2> QED BY <1>1, <1>4, <1>5, <1>7, <2>1, MovedKeepsS
<1>8. CASE UpdateGlobalMediaSequence(Client, "skipUpdate", "skipMove")
  <2>1. /\ UNCHANGED <<nextSeq, runCtx, player, encDone, local, runs, inbox>>
        /\ mediaSeq' = Later(mediaSeq, local[Client].base)
        /\ pc[Client] = "skipUpdate" /\ pc'[Client] = "skipMove"
    BY <1>1, <1>8 DEF UpdateGlobalMediaSequence, rvars, Goto, TypeOK
  <2>2. AtRest /\ \A r \in Runs : ~Works(r) /\ ~Works(r)'
    BY <1>1, <2>1 DEF OInv, Stages, AtRest, Moved
  <2>3. Launched' = Launched
    BY <1>1 DEF Moved
  <2>4. Over' /\ MadeOnce' /\ Cut'
    BY <2>1, <2>2, <2>3 DEF SInv, Over, MadeOnce, Cut, Launched
  <2>5. Hushed'
    BY <2>1 DEF SInv, Hushed
  <2>6. nextSeq <= mediaSeq'
    <3>1. local[Client].base = nextSeq
      BY <2>1 DEF SInv, Counted
    <3>2. nextSeq \in Nat /\ mediaSeq \in Nat
      BY StreamsAre DEF TypeOK
    <3> QED BY <2>1, <3>1, <3>2 DEF Later
  <2>7. Counted'
    BY <2>1, <2>2, <2>6 DEF Counted, Works, Working
  <2>8. Reported'
    BY <2>1, <2>3, BegunStays DEF SInv, Reported
  <2> QED BY <2>4, <2>5, <2>7, <2>8 DEF SInv
<1> QED BY <1>3, <1>6, <1>7, <1>8 DEF SkipSteps

\* A command, a report of the player or a role update, come when all is quiet:
\* where the thread is then that sees to it.
LEMMA BeginMoves ==
  ASSUME TypeOK, OInv,
         \/ Quiet /\ (UserSteps \/ GossipReact)
         \/ PlayerCompleted
  PROVE  \E t \in {Client, Gossip} :
           /\ Moved(t) /\ pc[t] = "idle" /\ t \in Threads
           /\ pc'[t] \notin {"skipSeq", "skipUpdate", "skipMove"}
           /\ \A u \in Threads \ {t} : local'[u] = local[u]
           /\ UNCHANGED <<mediaSeq, nextSeq, runCtx, player, encDone, runs>> /\ inbox' \in {inbox, << >>}
<1> USE ThreadKinds
<1>1. Client \in Threads \ Runs /\ Gossip \in Threads \ Runs
  BY BoundsAssumption DEF Client, Gossip, Threads
<1>2. local \in [Threads -> Locals] /\ inbox \in Seq(Streams)
  BY DEF TypeOK
<1>3. ASSUME NEW t \in {Client, Gossip}, NEW to \in {"react", "stop", "skipStop", "check"},
             Goto(t, "idle", to), to = "skipStop" => t = Client, Unsteered, OnlyFfmpeg,
             runCtx' = runCtx, inbox' = << >>
      PROVE  Moved(t) /\ pc[t] = "idle" /\ pc'[t] = to /\ t \in Threads
  <2>1. t \in Threads \ Runs /\ to \in Steering /\ (to \in Skipping => t = Client)
    BY <1>1, <1>3 DEF Steering, Skipping
  <2> QED BY <1>3, <2>1, BeginMove
<1>4. Quiet => Unsteered /\ OnlyFfmpeg /\ inbox = << >>
  BY QuietThen
<1>5. CASE Quiet /\ UserSteps
  <2>1. \E to \in {"react", "stop", "skipStop"} : Goto(Client, "idle", to)
    BY <1>5 DEF UserSteps, AppendCmd, RemoveCmd, ClearCmd, SkipCmd, UserCommand
  <2>2. /\ UNCHANGED <<mediaSeq, nextSeq, runCtx, player, encDone, runs, inbox>>
        /\ \A u \in Threads \ {Client} : local'[u] = local[u]
    BY <1>2, <1>5 DEF UserSteps, AppendCmd, RemoveCmd, ClearCmd, SkipCmd, qvars, rvars
  <2>3. PICK to \in {"react", "stop", "skipStop"} : Goto(Client, "idle", to)
    BY <2>1
  <2>4. Moved(Client) /\ pc[Client] = "idle" /\ pc'[Client] = to /\ Client \in Threads
    BY <1>3, <1>4, <1>5, <2>2, <2>3
  <2> QED BY <2>2, <2>3, <2>4
<1>6. CASE Quiet /\ GossipReact
  <2>1. Goto(Gossip, "idle", "react") /\ UNCHANGED <<mediaSeq, nextSeq, runCtx, player, encDone, runs, inbox, local>>
    BY <1>6 DEF GossipReact, qvars, rvars
  <2>2. Moved(Gossip) /\ pc[Gossip] = "idle" /\ pc'[Gossip] = "react" /\ Gossip \in Threads
    BY <1>3, <1>4, <1>6, <2>1
  <2> QED BY <2>1, <2>2
<1>7. CASE PlayerCompleted
  <2>1. /\ Goto(Client, "idle", "check") /\ inbox # << >> /\ inbox' = Tail(inbox)
        /\ UNCHANGED <<mediaSeq, nextSeq, runCtx, player, encDone, runs>>
        /\ \A u \in Threads \ {Client} : local'[u] = local[u]
    BY <1>2, <1>7 DEF PlayerCompleted, rvars
  <2>2. Len(inbox) = 1 /\ Unsteered /\ OnlyFfmpeg
    BY <2>1 DEF OInv, Waiting
  <2>3. inbox' = << >>
    BY <1>2, <2>1, <2>2
  <2>4. Moved(Client) /\ pc[Client] = "idle" /\ pc'[Client] = "check" /\ Client \in Threads
    BY <1>3, <2>1, <2>2, <2>3
  <2> QED BY <2>1, <2>3, <2>4
<1> QED BY <1>5, <1>6, <1>7

\* A command, a role update or a report sets a thread off, no more.
LEMMA BeginKeepsS ==
  ASSUME TypeOK, OInv, SInv,
         \/ Quiet /\ (UserSteps \/ GossipReact)
         \/ PlayerCompleted
  PROVE  SInv'
<1>1. PICK t \in {Client, Gossip} :
           /\ Moved(t) /\ pc[t] = "idle" /\ t \in Threads
           /\ pc'[t] \notin {"skipSeq", "skipUpdate", "skipMove"}
           /\ \A u \in Threads \ {t} : local'[u] = local[u]
           /\ UNCHANGED <<mediaSeq, nextSeq, runCtx, player, encDone, runs>> /\ inbox' \in {inbox, << >>}
  BY BeginMoves
<1>2. \A r \in Runs : Works(r) /\ runs[r].cancelled => Unfinished(r)
  BY DEF SInv, Cut
<1> QED BY <1>1, <1>2, MovedKeepsS

\* The player reports a stream it was told of.
LEMMA PlayerKeepsS ==
  ASSUME TypeOK, SInv, PlayerEnds
  PROVE  SInv'
<1>1. /\ player.stream # None /\ player' = [player EXCEPT !.reported = TRUE]
      /\ inbox' = Append(inbox, player.stream)
      /\ UNCHANGED <<mediaSeq, encDone, nextSeq, runCtx, runs, pc, local>>
  BY DEF PlayerEnds, qvars, rvars
<1>2. Launched' = Launched /\ Begun' = Begun
  BY <1>1 DEF Launched, Begun
<1>3. player'.stream = player.stream /\ inbox \in Seq(Streams) /\ player.stream \in Streams
  BY <1>1 DEF TypeOK
<1>4. \A i \in 1 .. Len(inbox') : inbox'[i] \in Begun
  <2>1. Len(inbox') = Len(inbox) + 1 /\ Len(inbox) \in Nat
    BY <1>1, <1>3
  <2>2. \A i \in 1 .. Len(inbox) + 1 : inbox'[i] = IF i = Len(inbox) + 1 THEN player.stream ELSE inbox[i]
    BY <1>1, <1>3
  <2>3. player.stream \in Begun /\ \A i \in 1 .. Len(inbox) : inbox[i] \in Begun
    BY <1>1 DEF SInv, Reported
  <2> QED BY <2>1, <2>2, <2>3
<1>5. Reported'
  BY <1>2, <1>3, <1>4 DEF SInv, Reported
<1>6. (Spent' <=> Spent) /\ \A r \in Runs : Works(r)' <=> Works(r)
  BY <1>1, <1>2 DEF Spent, AtRest, Works
<1>7. Over' /\ Cut' /\ MadeOnce' /\ Hushed'
  BY <1>1, <1>2, <1>6 DEF SInv, Over, Cut, Unfinished, MadeOnce, Hushed, Launched
<1>8. Counted'
  BY <1>1, <1>6 DEF SInv, Counted
<1> QED BY <1>5, <1>7, <1>8 DEF SInv

\* The launch: no other run is at work, and the number is beyond all that is
\* known to be encoded.
LEMMA LaunchKeepsS ==
  ASSUME TInv, LockHeldInside, OInv, SInv, NEW t \in Threads, EnsureLaunch(t), Known'
  PROVE  SInv'
<1> USE ThreadKinds
<1>0. TypeOK /\ pc \in [Threads -> Stage] /\ runs \in [Runs -> Run]
  BY DEF TInv, TypeOK
<1>1. PICK r \in Runs, to \in {"forget", Rest(t)} :
           /\ r \notin Launched /\ r # t
           /\ pc[t] = "launch" /\ pc'[r] = "spawned" /\ pc'[t] = to
           /\ \A u \in Threads \ {r, t} : pc'[u] = pc[u]
           /\ runCtx' = r /\ nextSeq' = local[t].base
           /\ UNCHANGED <<queue, mediaSeq, encDone, playDone, runner, inbox, count>>
           /\ runs'[r].file = local[t].file /\ runs'[r].seq = local[t].base
           /\ runs'[r].entry = local[t].entry.id
           /\ runs'[r].sent = 0 /\ ~runs'[r].cancelled /\ ~runs'[r].ok
           /\ \A s \in Launched : /\ runs'[s].seq = runs[s].seq /\ runs'[s].sent = runs[s].sent
                                  /\ runs'[s].ok = runs[s].ok /\ runs'[s].entry = runs[s].entry
  BY <1>0, LaunchStep
<1>2. AtRest /\ local[t].base = mediaSeq /\ HeadDue
  BY <1>1 DEF OInv, Stages, Plan, HeadDue, Spent
<1>3. /\ Launched' = Launched \union {r} /\ Launched \subseteq Runs
      /\ \A s \in Runs \ {r} : ~Works(s)' /\ ~Works(s)
      /\ Works(r)' /\ t \notin {s \in Runs : Works(s)'}
  <2>1. pc'[r] # "idle" /\ (t \in Runs => pc'[t] # "idle" /\ pc[t] # "idle")
    BY <1>1, RestIsOut
  <2>2. Launched' = Launched \union {r} /\ Launched \subseteq Runs
    BY <1>1, <2>1 DEF Launched
  <2>3. pc'[t] \notin Working
    BY <1>1, RestIsOut DEF Working
  <2> QED BY <1>1, <1>2, <2>2, <2>3 DEF AtRest, Works, Working
<1>4. Over'
  <2>1. \A s \in Launched' : s # r => runs'[s].cancelled
    BY <1>1 DEF Known, IInv, SupersededCancelled
  <2> QED BY <1>3, <2>1 DEF Over
<1>5. Cut'
  BY <1>1, <1>3 DEF Cut
<1>6. MadeOnce'
  <2>1. mediaSeq \notin encDone
    <3>1. mediaSeq \in Nat
      BY <1>0, StreamsAre DEF TypeOK
    <3> QED BY <3>1 DEF OInv, Numbers
  <2> QED BY <1>1, <1>2, <1>3, <2>1 DEF SInv, MadeOnce
<1>7. Hushed'
  <2>1. pc'[Client] \notin Skipping
    <3>1. CASE t = Client
      BY <1>1, <3>1, RestIsOut DEF Skipping, Steering
    <3>2. CASE t # Client
      <4>1. pc[Client] \notin Steering /\ pc'[Client] = pc[Client]
        BY <1>1, <3>2, BoundsAssumption DEF OInv, Solo, Steers, Steering, Client, Threads
      <4> QED BY <4>1 DEF Steering
    <3> QED BY <3>1, <3>2
  <2> QED BY <2>1 DEF Hushed, Skipping
<1>8. pc'[Client] # "skipUpdate"
  <2>1. CASE t = Client
    BY <1>1, <2>1, RestIsOut DEF Skipping, Steering
  <2>2. CASE t # Client
    BY <1>1, <2>2, BoundsAssumption DEF OInv, Solo, Steers, Steering, Skipping, Client, Threads
  <2> QED BY <2>1, <2>2
<1>9. Counted'
  <2>1. ~Spent'
    BY <1>3 DEF Spent, AtRest
  <2>2. \A s \in Runs : pc'[s] \notin {"update", "notify"}
    BY <1>1, <1>3 DEF Works, Working
  <2> QED BY <1>8, <2>1, <2>2 DEF Counted
<1>10. Reported'
  <2>1. Begun' = Begun \union {local[t].base}
    BY <1>1, <1>3 DEF Begun
  <2>2. player'.stream = local[t].base
    BY DEF EnsureLaunch
  <2> QED BY <1>1, <2>1, <2>2 DEF SInv, Reported
<1> QED BY <1>4, <1>5, <1>6, <1>7, <1>9, <1>10 DEF SInv

\* A segment is made by a run that is not at its end.
LEMMA SegmentIs ==
  ASSUME TypeOK, OInv, NEW r \in Runs, Segment(r)
  PROVE  /\ pc[r] = "ffmpeg" /\ Works(r) /\ r = runCtx /\ ~runs[r].ok
         /\ runs[r].sent < SegsPerFile
         /\ runs' = [runs EXCEPT ![r] = [runs[r] EXCEPT !.sent = runs[r].sent + 1]]
         /\ \A s \in Runs : /\ runs'[s].seq = runs[s].seq /\ runs'[s].entry = runs[s].entry
                            /\ runs'[s].cancelled = runs[s].cancelled /\ runs'[s].ok = runs[s].ok
         /\ runs'[r].sent = runs[r].sent + 1
         /\ nextSeq' = Later(nextSeq, runs[r].seq + runs[r].sent + 1)
         /\ UNCHANGED <<queue, mediaSeq, encDone, playDone, runCtx, pc, local, player, inbox>>
<1>1. /\ pc[r] = "ffmpeg" /\ runs[r].sent < SegsPerFile
      /\ runs' = [runs EXCEPT ![r] = [runs[r] EXCEPT !.sent = runs[r].sent + 1]]
      /\ nextSeq' = Later(nextSeq, runs[r].seq + runs[r].sent + 1)
      /\ UNCHANGED <<queue, mediaSeq, encDone, playDone, runCtx, pc, local, player, inbox>>
  BY DEF Segment, Streaming, qvars
<1>2. Works(r) /\ r = runCtx /\ r \in Launched
  BY <1>1, AtWork DEF Works, Working
<1>3. runs \in [Runs -> Run] /\ runs[r] \in Run
  BY DEF TypeOK
<1>4. runs[r].sent \in Nat /\ SegsPerFile \in Nat
  BY <1>3, BoundsAssumption DEF Run
<1>5. ~runs[r].ok
  BY <1>1, <1>2, <1>4 DEF OInv, Numbers
<1>6. /\ \A s \in Runs : /\ runs'[s].seq = runs[s].seq /\ runs'[s].entry = runs[s].entry
                         /\ runs'[s].cancelled = runs[s].cancelled /\ runs'[s].ok = runs[s].ok
      /\ runs'[r].sent = runs[r].sent + 1
  <2> DEFINE new == [runs[r] EXCEPT !.sent = runs[r].sent + 1]
  <2>1. /\ new.seq = runs[r].seq /\ new.entry = runs[r].entry
        /\ new.ok = runs[r].ok /\ new.cancelled = runs[r].cancelled /\ new.sent = runs[r].sent + 1
    BY <1>3 DEF Run
  <2>2. runs' = [runs EXCEPT ![r] = new]
    BY <1>1
  <2> HIDE DEF new
  <2> QED BY <1>3, <2>1, <2>2
<1> QED BY <1>1, <1>2, <1>5, <1>6

\* A segment raises the counter of the current stream only.
LEMMA SegmentKeepsS ==
  ASSUME TypeOK, OInv, SInv, NEW r \in Runs, Segment(r)
  PROVE  SInv'
<1>1. /\ pc[r] = "ffmpeg" /\ Works(r) /\ r = runCtx
      /\ \A s \in Runs : /\ runs'[s].seq = runs[s].seq /\ runs'[s].entry = runs[s].entry
                         /\ runs'[s].cancelled = runs[s].cancelled /\ runs'[s].ok = runs[s].ok
      /\ UNCHANGED <<queue, mediaSeq, encDone, playDone, runCtx, pc, local, player, inbox>>
  BY SegmentIs
<1>2. Launched' = Launched /\ \A s \in Runs : Works(s)' <=> Works(s)
  BY <1>1 DEF Launched, Works
<1>3. Over' /\ Cut' /\ MadeOnce'
  BY <1>1, <1>2 DEF SInv, Over, Cut, Unfinished, MadeOnce, Launched
<1>4. Hushed'
  BY <1>1 DEF SInv, Hushed
<1>5. Counted'
  <2>1. ~AtRest'
    BY <1>1, <1>2 DEF AtRest
  <2>2. \A s \in Runs : pc'[s] \notin {"update", "notify"}
    <3>1. \A s \in Runs : Works(s) => s = r
      BY <1>1 DEF OInv, Solo
    <3> QED BY <1>1, <3>1 DEF Works, Working
  <2>3. pc'[Client] # "skipUpdate"
    <3>1. pc[Client] # "skipUpdate"
      BY <1>1, BoundsAssumption DEF OInv, Stages, AtRest, Client, Threads
    <3> QED BY <1>1, <3>1
  <2> QED BY <2>1, <2>2, <2>3 DEF Counted, Spent
<1>6. Reported'
  BY <1>1, <1>2, BegunStays DEF SInv, Reported
<1> QED BY <1>3, <1>4, <1>5, <1>6 DEF SInv

\* The steps of a run from its start to its report: what they have in common.
LEMMA RunStepIs ==
  ASSUME TypeOK, OInv, NEW r \in Runs,
         \/ StartAgain(r) \/ Start(r) \/ LoopCancelled(r) \/ Loop(r) \/ Exec(r) \/ ExecSuperseded(r)
         \/ Killed(r) \/ (Eof(r) /\ (Quiet \/ runs[r].cancelled)) \/ (Fail(r) /\ Quiet)
         \/ Exited(r) \/ Retry(r) \/ Cleanup(r) \/ Returned(r) \/ Report(r)
         \/ UpdateGlobalMediaSequence(r, "update", "notify")
  PROVE  /\ Works(r) /\ r = runCtx /\ r \in Launched /\ Matched
         /\ runs[r].cancelled => Stops(r)
         /\ ~runs[r].cancelled => GoesOn(r) /\ LeftAlone(r)
         /\ pc'[r] \in Working \union {"done"} /\ (pc'[r] = "done" => pc[r] = "report" /\ Report(r))
         /\ Solo' /\ Waiting' /\ Launched' = Launched
         /\ \A t \in Threads \ {r} : pc'[t] = pc[t]
         /\ \A s \in Runs : (Works(s) => s = r) /\ (Works(s)' => s = r)
         /\ UNCHANGED <<queue, nextSeq, runCtx, encDone, playDone, player, inbox>>
         /\ \A s \in Runs \ {r} : runs'[s] = runs[s]
         /\ \A t \in Threads \ {r} : local'[t] = local[t]
<1> USE ThreadKinds
<1>1. /\ pc[r] \in Working
      /\ pc[r] # "ffmpeg" \/ runs[r].cancelled \/ Quiet
  BY DEF StartAgain, Start, LoopCancelled, Loop, Exec, ExecSuperseded, Killed, Eof, Fail, Exited,
         Retry, Cleanup, Returned, Report, UpdateGlobalMediaSequence, Goto, Working
<1>2. /\ Works(r) /\ r = runCtx /\ r \in Launched /\ Matched
      /\ runs[r].cancelled => Stops(r)
      /\ ~runs[r].cancelled => GoesOn(r) /\ LeftAlone(r)
      /\ inbox = << >>
  BY <1>1, AtWork, QuietThen DEF Works
<1>3. ~LoopCancelled(r)
  BY <1>2 DEF LoopCancelled, Stops
<1>4. runs \in [Runs -> Run] /\ local \in [Threads -> Locals]
  BY DEF TypeOK
<1>5. /\ UNCHANGED <<queue, nextSeq, runCtx, encDone, playDone, player, inbox>>
      /\ \A s \in Runs \ {r} : runs'[s] = runs[s]
      /\ \A t \in Threads \ {r} : local'[t] = local[t]
  <2>1. CASE StartAgain(r) \/ Start(r) \/ Loop(r) \/ ExecSuperseded(r)
    BY <1>4, <2>1 DEF StartAgain, Start, Loop, ExecSuperseded, Ended, qvars, rvars
  <2>2. CASE Exec(r) \/ Killed(r) \/ Eof(r) \/ Fail(r)
    BY <1>4, <2>2 DEF Exec, Killed, Eof, Fail, Ended, qvars, rvars
  <2>3. CASE Exited(r) \/ Retry(r) \/ Cleanup(r) \/ Returned(r)
    BY <1>4, <2>3 DEF Exited, Retry, Cleanup, Returned, Ended, qvars, rvars
  <2>4. CASE Report(r) \/ UpdateGlobalMediaSequence(r, "update", "notify")
    BY <1>4, <2>4 DEF Report, UpdateGlobalMediaSequence, qvars, rvars
  <2> QED BY <1>3, <2>1, <2>2, <2>3, <2>4
<1>6. \E from \in Working, to \in Working \union {"done"} :
        Goto(r, from, to) /\ (to = "done" => from = "report" /\ Report(r))
  <2>1. ASSUME NEW from \in Working, NEW to \in Working, Goto(r, from, to)
        PROVE  \E f \in Working, g \in Working \union {"done"} :
                 Goto(r, f, g) /\ (g = "done" => f = "report" /\ Report(r))
    <3>1. to # "done"
      BY DEF Working
    <3> QED BY <2>1, <3>1
  <2>2. CASE StartAgain(r) \/ Start(r) \/ Loop(r) \/ ExecSuperseded(r)
    <3>1. \E from \in {"spawned", "loop", "exec"}, to \in {"returned", "loop", "exec", "cleanup"} : Goto(r, from, to)
      BY <2>2 DEF StartAgain, Start, Loop, ExecSuperseded
    <3> QED BY <2>1, <3>1 DEF Working
  <2>3. CASE Exec(r) \/ Killed(r) \/ Eof(r) \/ Fail(r)
    <3>1. \E from \in {"exec", "ffmpeg"}, to \in {"ffmpeg", "exited"} : Goto(r, from, to)
      BY <2>3 DEF Exec, Killed, Eof, Fail
    <3> QED BY <2>1, <3>1 DEF Working
  <2>4. CASE Exited(r) \/ Retry(r) \/ Cleanup(r) \/ Returned(r)
    <3>1. \E from \in {"exited", "retry", "cleanup", "returned"}, to \in {"retry", "loop", "cleanup", "returned", "report"} :
            Goto(r, from, to)
      BY <1>2, <2>4 DEF Exited, Retry, Cleanup, Returned
    <3> QED BY <2>1, <3>1 DEF Working
  <2>5. CASE UpdateGlobalMediaSequence(r, "update", "notify")
    <3>1. Goto(r, "update", "notify")
      BY <2>5 DEF UpdateGlobalMediaSequence
    <3> QED BY <2>1, <3>1 DEF Working
  <2>6. CASE Report(r)
    <3>1. \E to \in {"update", "done"} : Goto(r, "report", to)
      BY <2>6 DEF Report
    <3> QED BY <2>6, <3>1 DEF Working
  <2> QED BY <1>3, <2>2, <2>3, <2>4, <2>5, <2>6
<1>7. PICK from \in Working, to \in Working \union {"done"} :
        Goto(r, from, to) /\ (to = "done" => from = "report" /\ Report(r))
  BY <1>6
<1>8. UNCHANGED runCtx /\ inbox' = << >>
  BY <1>2, <1>5
<1>9. /\ Solo' /\ Waiting' /\ Launched' = Launched
      /\ pc[r] = from /\ pc'[r] = to
      /\ \A t \in Threads \ {r} : pc'[t] = pc[t]
      /\ \A s \in Runs : Works(s)' => s = r
  BY <1>7, <1>8, RunMove DEF OInv
<1>10. \A s \in Runs : Works(s) => s = r
  BY <1>2 DEF OInv, Solo
<1> QED BY <1>2, <1>5, <1>7, <1>9, <1>10

\* Neither the number of a run nor its context is the run's own to change.
LEMMA RunStepKeepsRun ==
  ASSUME TypeOK, NEW r \in Runs,
         \/ StartAgain(r) \/ Start(r) \/ LoopCancelled(r) \/ Loop(r) \/ Exec(r) \/ ExecSuperseded(r)
         \/ Killed(r) \/ Eof(r) \/ Fail(r) \/ Exited(r) \/ Retry(r) \/ Cleanup(r) \/ Returned(r)
         \/ Report(r) \/ UpdateGlobalMediaSequence(r, "update", "notify")
  PROVE  /\ runs'[r].seq = runs[r].seq /\ runs'[r].cancelled = runs[r].cancelled
         /\ runs'[r].entry = runs[r].entry
         /\ runs'[r].sent = IF Exec(r) THEN 0 ELSE runs[r].sent
         /\ ~(StartAgain(r) \/ Eof(r) \/ Exited(r)) => runs'[r].ok = runs[r].ok
         /\ Eof(r) => runs'[r].ok
         /\ Exited(r) => (runs'[r].ok <=> runner.cmd = r /\ ~runs[r].cancelled /\ runs[r].ok)
<1>1. runs \in [Runs -> Run] /\ runs[r] \in Run /\ runs[r].ok \in BOOLEAN
  BY DEF TypeOK, Run
<1>2. ASSUME NEW b \in BOOLEAN, Ended(r, b)
      PROVE  /\ runs'[r].seq = runs[r].seq /\ runs'[r].cancelled = runs[r].cancelled
             /\ runs'[r].entry = runs[r].entry /\ runs'[r].sent = runs[r].sent /\ runs'[r].ok = b
  <2> DEFINE new == [runs[r] EXCEPT !.ok = b]
  <2>1. /\ new.seq = runs[r].seq /\ new.cancelled = runs[r].cancelled
        /\ new.entry = runs[r].entry /\ new.sent = runs[r].sent /\ new.ok = b
    BY <1>1 DEF Run
  <2>2. runs' = [runs EXCEPT ![r] = new]
    BY <1>2 DEF Ended
  <2> HIDE DEF new
  <2> QED BY <1>1, <2>1, <2>2
<1>3. ASSUME Exec(r)
      PROVE  /\ runs'[r].seq = runs[r].seq /\ runs'[r].cancelled = runs[r].cancelled
             /\ runs'[r].entry = runs[r].entry /\ runs'[r].sent = 0 /\ runs'[r].ok = runs[r].ok
  <2> DEFINE new == [runs[r] EXCEPT !.sent = 0]
  <2>1. /\ new.seq = runs[r].seq /\ new.cancelled = runs[r].cancelled
        /\ new.entry = runs[r].entry /\ new.sent = 0 /\ new.ok = runs[r].ok
    BY <1>1 DEF Run
  <2>2. runs' = [runs EXCEPT ![r] = new]
    BY <1>3 DEF Exec
  <2> HIDE DEF new
  <2> QED BY <1>1, <2>1, <2>2
<1>4. /\ StartAgain(r) \/ Eof(r) => Ended(r, TRUE)
      /\ Exited(r) => Ended(r, runner.cmd = r /\ ~runs[r].cancelled /\ runs[r].ok)
  BY DEF StartAgain, Eof, Exited
<1>5. Exec(r) => ~StartAgain(r) /\ ~Eof(r) /\ ~Exited(r)
  BY DEF Exec, StartAgain, Eof, Exited, Goto
<1>6. StartAgain(r) \/ Eof(r) => ~Exited(r)
  BY DEF StartAgain, Eof, Exited, Goto
<1>7. CASE Exec(r)
  BY <1>3, <1>5, <1>7
<1>8. CASE StartAgain(r) \/ Eof(r)
  BY <1>2, <1>4, <1>5, <1>6, <1>8
<1>9. CASE Exited(r)
  <2> DEFINE b == runner.cmd = r /\ ~runs[r].cancelled /\ runs[r].ok
  <2>1. b \in BOOLEAN /\ Ended(r, b)
    BY <1>1, <1>4, <1>9
  <2> HIDE DEF b
  <2>2. /\ runs'[r].seq = runs[r].seq /\ runs'[r].cancelled = runs[r].cancelled
        /\ runs'[r].entry = runs[r].entry /\ runs'[r].sent = runs[r].sent /\ runs'[r].ok = b
    BY <1>2, <2>1
  <2> QED BY <1>5, <1>6, <1>9, <2>1, <2>2 DEF b
<1>10. CASE ~Exec(r) /\ ~StartAgain(r) /\ ~Eof(r) /\ ~Exited(r)
  <2>1. runs' = runs
    BY <1>10 DEF Start, LoopCancelled, Loop, ExecSuperseded, Killed, Fail, Retry, Cleanup, Returned, Report,
       UpdateGlobalMediaSequence, rvars
  <2> QED BY <1>10, <2>1
<1> QED BY <1>7, <1>8, <1>9, <1>10

\* A run at work goes on to its end or, once cancelled, to none that counts.
LEMMA RunKeepsS ==
  ASSUME TypeOK, OInv, SInv, NEW r \in Runs,
         \/ StartAgain(r) \/ Start(r) \/ LoopCancelled(r) \/ Loop(r) \/ Exec(r) \/ ExecSuperseded(r)
         \/ Killed(r) \/ (Eof(r) /\ (Quiet \/ runs[r].cancelled)) \/ (Fail(r) /\ Quiet)
         \/ Exited(r) \/ Retry(r) \/ Cleanup(r) \/ Returned(r) \/ Report(r)
         \/ UpdateGlobalMediaSequence(r, "update", "notify")
  PROVE  SInv'
<1> USE ThreadKinds
<1>1. /\ Works(r) /\ r = runCtx /\ r \in Launched
      /\ runs[r].cancelled => Stops(r)
      /\ ~runs[r].cancelled => GoesOn(r)
      /\ pc'[r] \in Working \union {"done"} /\ (pc'[r] = "done" => pc[r] = "report" /\ Report(r))
      /\ Launched' = Launched
      /\ \A t \in Threads \ {r} : pc'[t] = pc[t]
      /\ \A s \in Runs : (Works(s) => s = r) /\ (Works(s)' => s = r)
      /\ UNCHANGED <<queue, nextSeq, runCtx, encDone, playDone, player, inbox>>
      /\ \A s \in Runs \ {r} : runs'[s] = runs[s]
      /\ \A t \in Threads \ {r} : local'[t] = local[t]
  BY RunStepIs
<1>2. /\ runs'[r].seq = runs[r].seq /\ runs'[r].cancelled = runs[r].cancelled
      /\ ~(StartAgain(r) \/ Eof(r) \/ Exited(r)) => runs'[r].ok = runs[r].ok
      /\ Exited(r) => (runs'[r].ok => ~runs[r].cancelled)
  BY RunStepKeepsRun
<1>3. ~StartAgain(r)
  BY <1>1 DEF StartAgain, Goto, Stops, GoesOn
<1>4. pc' = [pc EXCEPT ![r] = pc'[r]] /\ pc \in [Threads -> Stage] /\ r \in Threads /\ Client \in Threads \ {r}
      /\ local \in [Threads -> Locals] /\ nextSeq \in Nat /\ mediaSeq \in Nat
  <2>1. pc \in [Threads -> Stage] /\ local \in [Threads -> Locals] /\ nextSeq \in Nat /\ mediaSeq \in Nat
    BY StreamsAre DEF TypeOK
  <2>2. r \in Threads /\ Client \in Threads \ {r}
    BY BoundsAssumption DEF Client, Threads
  <2>3. \E f : pc' = [pc EXCEPT ![r] = f]
    BY <1>1 DEF StartAgain, Start, LoopCancelled, Loop, Exec, ExecSuperseded, Killed, Eof, Fail, Exited,
       Retry, Cleanup, Returned, Report, UpdateGlobalMediaSequence, Goto, Stops
  <2> QED BY <2>1, <2>2, <2>3
<1>5. ~UpdateGlobalMediaSequence(r, "update", "notify") => mediaSeq' = mediaSeq
  BY DEF StartAgain, Start, LoopCancelled, Loop, Exec, ExecSuperseded, Killed, Eof, Fail, Exited,
       Retry, Cleanup, Returned, Report, qvars
<1>6. ASSUME runs[r].cancelled
      PROVE  /\ mediaSeq' = mediaSeq /\ runs[r].seq = mediaSeq
             /\ pc'[r] # "exited" => ~runs'[r].ok
  <2>1. Unfinished(r)
    BY <1>1, <1>6 DEF SInv, Cut
  <2>2. ~UpdateGlobalMediaSequence(r, "update", "notify")
    BY <1>1, <1>6 DEF UpdateGlobalMediaSequence, Goto, Stops
  <2>3. Eof(r) => pc'[r] = "exited"
    BY <1>4 DEF Eof, Goto
  <2>4. pc[r] = "exited" => Exited(r)
    BY DEF StartAgain, Start, LoopCancelled, Loop, Exec, ExecSuperseded, Killed, Eof, Fail, Exited,
       Retry, Cleanup, Returned, Report, UpdateGlobalMediaSequence, Goto
  <2> QED BY <1>2, <1>3, <1>5, <1>6, <2>1, <2>2, <2>3, <2>4 DEF Unfinished
<1>7. pc'[r] = "done" => runs[r].cancelled
  <2>1. Report(r) /\ pc'[r] = "done" => ~(runs[r].ok /\ ~runs[r].cancelled)
    BY <1>4 DEF Report, Goto
  <2> QED BY <1>1, <2>1 DEF GoesOn
<1>8. \A s \in Runs : runs'[s].seq = runs[s].seq /\ runs'[s].cancelled = runs[s].cancelled
  BY <1>1, <1>2
<1>9. Over'
  BY <1>1, <1>7, <1>8 DEF SInv, Over, Works, Launched
<1>10. Cut'
  BY <1>1, <1>6, <1>8 DEF Cut, Unfinished
<1>11. MadeOnce'
  BY <1>1, <1>8 DEF SInv, MadeOnce, Works, Launched
<1>12. Hushed'
  BY <1>1, <1>2, <1>4 DEF SInv, Hushed
<1>13. Counted'
  <2>1. Spent' => nextSeq <= mediaSeq'
    <3>1. pc'[r] # "done" => ~Spent'
      BY <1>1 DEF Spent, AtRest, Works
    <3>2. pc'[r] = "done" => ~Spent'
      BY <1>1, <1>2, <1>4, <1>6, <1>7 DEF Spent
    <3> QED BY <3>1, <3>2
  <2>2. pc'[r] = "update" => local'[r].base = nextSeq
    <3>1. SUFFICES ASSUME pc'[r] = "update" PROVE local'[r].base = nextSeq
      OBVIOUS
    <3>2. Report(r) /\ runs[r].ok /\ ~runs[r].cancelled
      BY <1>4, <3>1 DEF StartAgain, Start, LoopCancelled, Loop, Exec, ExecSuperseded, Killed, Eof, Fail, Exited,
       Retry, Cleanup, Returned, Report, UpdateGlobalMediaSequence, Goto
    <3>3. local' = [local EXCEPT ![r] = [local[r] EXCEPT !.base = nextSeq]]
      BY <3>2 DEF Report
    <3>4. [local[r] EXCEPT !.base = nextSeq].base = nextSeq
      <4>1. local[r] \in Locals
        BY <1>4
      <4> QED BY <4>1 DEF Locals
    <3>5. r \in Threads
      BY <1>4
    <3> QED BY <1>4, <3>3, <3>4, <3>5
  <2>3. pc'[r] = "notify" => nextSeq <= mediaSeq'
    <3>1. SUFFICES ASSUME pc'[r] = "notify" PROVE nextSeq <= mediaSeq'
      OBVIOUS
    <3>2. UpdateGlobalMediaSequence(r, "update", "notify")
      BY <1>4, <3>1 DEF StartAgain, Start, LoopCancelled, Loop, Exec, ExecSuperseded, Killed, Eof, Fail, Exited,
       Retry, Cleanup, Returned, Report, Goto
    <3>3. mediaSeq' = Later(mediaSeq, local[r].base) /\ pc[r] = "update"
      BY <3>2 DEF UpdateGlobalMediaSequence, Goto
    <3>4. local[r].base = nextSeq
      BY <3>3 DEF SInv, Counted
    <3> QED BY <1>4, <3>3, <3>4 DEF Later
  <2>4. \A s \in Runs \ {r} : pc'[s] \notin {"update", "notify"}
    BY <1>1 DEF Works, Working
  <2>5. pc'[Client] = "skipUpdate" => local'[Client].base = nextSeq
    BY <1>1, <1>4 DEF SInv, Counted
  <2> QED BY <1>1, <2>1, <2>2, <2>3, <2>4, <2>5 DEF Counted
<1>14. Reported'
  BY <1>1, <1>8, BegunStays DEF SInv, Reported
<1> QED BY <1>9, <1>10, <1>11, <1>12, <1>13, <1>14 DEF SInv

\* The end of a file is entered: its run is over.
LEMMA NotifyIs ==
  ASSUME TypeOK, OInv, NEW r \in Runs, Notify(r)
  PROVE  /\ pc[r] = "notify" /\ pc'[r] = "check" /\ \A t \in Threads \ {r} : pc'[t] = pc[t]
         /\ r = runCtx /\ r \in Launched /\ runs[r].ok /\ Launched' = Launched
         /\ \A s \in Runs : (Works(s) <=> s = r) /\ ~Works(s)'
         /\ encDone' = encDone \union {runs[r].seq}
         /\ UNCHANGED <<queue, mediaSeq, playDone, nextSeq, runCtx, runs, player, inbox>>
         /\ \A t \in Threads \ {r} : local'[t] = local[t]
<1> USE ThreadKinds
<1>1. /\ Goto(r, "notify", "check") /\ encDone' = encDone \union {runs[r].seq}
      /\ UNCHANGED <<queue, mediaSeq, playDone, nextSeq, runCtx, runs, player, inbox>>
      /\ local' = [local EXCEPT ![r].stream = runs[r].seq]
  BY DEF Notify, rvars
<1>2. pc[r] = "notify" /\ pc'[r] = "check" /\ \A t \in Threads \ {r} : pc'[t] = pc[t]
  BY <1>1, MovesOn DEF TypeOK
<1>3. r = runCtx /\ r \in Launched /\ runs[r].ok /\ Works(r)
  BY <1>2, AtWork DEF Works, Working, Stops, GoesOn
<1>4. Launched' = Launched
  BY <1>2 DEF Launched
<1>5. \A s \in Runs : (Works(s) <=> s = r) /\ ~Works(s)'
  BY <1>2, <1>3 DEF OInv, Solo, Works, Working
<1>6. \A t \in Threads \ {r} : local'[t] = local[t]
  BY <1>1 DEF TypeOK
<1> QED BY <1>1, <1>2, <1>3, <1>4, <1>5, <1>6

\* A stream is known to be encoded once its run has come to its end.
LEMMA NotifyKeepsS ==
  ASSUME TypeOK, OInv, SInv, NEW r \in Runs, Notify(r)
  PROVE  SInv'
<1> USE ThreadKinds
<1>1. /\ pc[r] = "notify" /\ pc'[r] = "check" /\ \A t \in Threads \ {r} : pc'[t] = pc[t]
      /\ r = runCtx /\ r \in Launched /\ runs[r].ok /\ Launched' = Launched
      /\ \A s \in Runs : (Works(s) <=> s = r) /\ ~Works(s)'
      /\ encDone' = encDone \union {runs[r].seq}
      /\ UNCHANGED <<queue, mediaSeq, playDone, nextSeq, runCtx, runs, player, inbox>>
      /\ \A t \in Threads \ {r} : local'[t] = local[t]
  BY NotifyIs
<1>2. Over' /\ Cut'
  BY <1>1 DEF SInv, Over, Cut, Launched
<1>3. MadeOnce'
  <2>1. \A s \in Launched : s # r => runs[s].seq # runs[r].seq
    BY <1>1 DEF OInv, Numbers
  <2> QED BY <1>1, <2>1 DEF SInv, MadeOnce, Launched
<1>4. Client \in Threads \ {r}
  BY BoundsAssumption DEF Client, Threads
<1>5. Hushed'
  BY <1>1, <1>4 DEF SInv, Hushed
<1>6. Counted'
  <2>1. nextSeq <= mediaSeq
    BY <1>1 DEF SInv, Counted
  <2>2. \A s \in Runs : pc'[s] \notin {"update", "notify"}
    BY <1>1 DEF Works, Working
  <2> QED BY <1>1, <1>4, <2>1, <2>2 DEF SInv, Counted
<1>7. Reported'
  BY <1>1, BegunStays DEF SInv, Reported
<1> QED BY <1>2, <1>3, <1>5, <1>6, <1>7 DEF SInv

\* Nothing happens.
LEMMA StutterKeepsS == SInv /\ UNCHANGED vars => SInv'
<1> SUFFICES ASSUME SInv, UNCHANGED vars PROVE SInv'
  OBVIOUS
<1> USE DEF vars
<1>1. Launched' = Launched /\ \A r \in Runs : Works(r)' <=> Works(r)
  BY DEF Launched, Works
<1>2. (Spent' <=> Spent) /\ Begun' = Begun
  BY <1>1 DEF Spent, AtRest, Begun
<1>3. Over' /\ Cut' /\ MadeOnce'
  BY <1>1 DEF SInv, Over, Cut, Unfinished, MadeOnce, Launched
<1> QED BY <1>2, <1>3 DEF SInv, Hushed, Counted, Reported

\* Every orderly step keeps it.
LEMMA NextSInv == Known /\ SInv /\ [OrderlyNext]_vars => SInv'
<1> SUFFICES ASSUME Known, SInv, [OrderlyNext]_vars PROVE SInv'
  OBVIOUS
<1>0. TypeOK /\ OInv /\ TInv /\ LockHeldInside /\ Known'
  BY KnownStays DEF Known, TInv
<1>1. CASE Quiet /\ OrderlyCommand
  <2>1. UserSteps
    BY <1>1 DEF OrderlyCommand, UserSteps
  <2> QED BY <1>0, <1>1, <2>1, BeginKeepsS
<1>2. CASE Quiet /\ Undisturbed /\ GossipReact
  BY <1>0, <1>2, BeginKeepsS
<1>3. CASE Quiet /\ PlayerEnds
  BY <1>0, <1>3, PlayerKeepsS
<1>4. ASSUME Quiet, NEW r \in Runs, Eof(r) \/ Fail(r) PROVE SInv'
  BY <1>0, <1>4, RunKeepsS
<1>5. ASSUME NEW t \in Threads, ThreadStep(t),
             pc[t] = "ffmpeg" => runs[t].cancelled \/ runs[t].sent < SegsPerFile
      PROVE  SInv'
  <2>1. CASE t = Client /\ SkipSteps
    BY <1>0, <2>1, SkipKeepsS
  <2>2. CASE t = Client /\ PlayerCompleted
    BY <1>0, <2>2, BeginKeepsS
  <2>3. CASE QueueSteps(t)
    BY <1>0, <2>3, QueueKeepsS, LaunchKeepsS
  <2>4. CASE t \in Runs /\ RunSteps(t)
    <3>1. Eof(t) => runs[t].cancelled
      BY <1>5, BoundsAssumption DEF Eof, Goto
    <3> QED BY <1>0, <2>4, <3>1, SegmentKeepsS, RunKeepsS, NotifyKeepsS DEF RunSteps
  <2> QED BY <1>5, <2>1, <2>2, <2>3, <2>4 DEF ThreadStep
<1>6. CASE UNCHANGED vars
  BY <1>6, StutterKeepsS
<1> QED BY <1>1, <1>2, <1>3, <1>4, <1>5, <1>6 DEF OrderlyNext

\* In every orderly state both hold.
LEMMA AlwaysSInv == OrderlySpec => [](Known /\ SInv)
<1>1. Known /\ SInv /\ [OrderlyNext]_vars => (Known /\ SInv)'
  BY KnownStays, NextSInv
<1> QED BY <1>1, KnownAtFirst, InitSInv, PTL DEF OrderlySpec

-----------------------------------------------------------------------------
\* The playlist as the user sees it: its entries' numbers, in order.
LEMMA IdsAre ==
  ASSUME NEW q \in [items : Seq(Entry), cursor : Nat]
  PROVE  /\ Ids(q) \in Seq(1 .. MaxCommands) /\ Len(Ids(q)) = Len(q.items)
         /\ DOMAIN Ids(q) = 1 .. Len(q.items)
         /\ \A i \in 1 .. Len(q.items) : Ids(q)[i] = q.items[i].id
<1>1. q.items \in Seq(Entry) /\ Len(q.items) \in Nat
  OBVIOUS
<1>2. \A i \in 1 .. Len(q.items) : q.items[i].id \in 1 .. MaxCommands
  <2>1. \A i \in 1 .. Len(q.items) : q.items[i] \in Entry
    BY <1>1
  <2> QED BY <2>1 DEF Entry
<1>3. Ids(q) = [i \in 1 .. Len(q.items) |-> q.items[i].id]
  BY DEF Ids, Positions
<1> QED BY <1>1, <1>2, <1>3

\* An entry is appended to the entries the user sees ...
LEMMA IdsAppend ==
  ASSUME NEW q \in [items : Seq(Entry), cursor : Nat], NEW e \in Entry
  PROVE  Ids(AppendEntry(q, e)) = Append(Ids(q), e.id)
<1> DEFINE n == Len(q.items)
           new == AppendEntry(q, e)
<1>1. n \in Nat /\ q.items \in Seq(Entry) /\ new.items = Append(q.items, e)
  BY DEF AppendEntry
<1>2. Len(new.items) = n + 1 /\ \A i \in 1 .. n + 1 : new.items[i] = IF i = n + 1 THEN e ELSE q.items[i]
  BY <1>1
<1> HIDE DEF new
<1>3. Ids(new) = [i \in 1 .. n + 1 |-> new.items[i].id]
  BY <1>2 DEF Ids, Positions
<1>4. Ids(q) \in Seq(1 .. MaxCommands) /\ Len(Ids(q)) = n /\ \A i \in 1 .. n : Ids(q)[i] = q.items[i].id
  BY IdsAre
<1>5. e.id \in 1 .. MaxCommands
  BY DEF Entry
<1>6. Append(Ids(q), e.id) = [i \in 1 .. n + 1 |-> IF i = n + 1 THEN e.id ELSE Ids(q)[i]]
  BY <1>4, <1>5
<1>7. \A i \in 1 .. n + 1 : new.items[i].id = IF i = n + 1 THEN e.id ELSE Ids(q)[i]
  BY <1>1, <1>2, <1>4
<1> QED BY <1>3, <1>6, <1>7 DEF new

\* ... or taken out of them.
LEMMA IdsRemove ==
  ASSUME NEW q \in [items : Seq(Entry), cursor : Nat], NEW i \in Positions(q)
  PROVE  Ids(RemoveEntry(q, i)) = RemoveAt(Ids(q), i)
<1> DEFINE n == Len(q.items)
           items == RemoveAt(q.items, i)
           ids == RemoveAt(Ids(q), i)
<1>1. n \in Nat /\ q.items \in Seq(Entry) /\ i \in 1 .. n
  BY DEF Positions
<1>2. Len(items) = n - 1 /\ \A k \in 1 .. n - 1 : items[k] = IF k < i THEN q.items[k] ELSE q.items[k + 1]
  BY <1>1, RemoveAtResult
<1>3. Ids(q) \in Seq(1 .. MaxCommands) /\ Len(Ids(q)) = n /\ \A k \in 1 .. n : Ids(q)[k] = q.items[k].id
  BY IdsAre
<1>4. /\ ids \in Seq(1 .. MaxCommands) /\ Len(ids) = n - 1
      /\ \A k \in 1 .. n - 1 : ids[k] = IF k < i THEN Ids(q)[k] ELSE Ids(q)[k + 1]
  <2> DEFINE s == Ids(q)
  <2>1. s \in Seq(1 .. MaxCommands) /\ i \in 1 .. Len(s) /\ Len(s) = n
    BY <1>1, <1>3
  <2> HIDE DEF s
  <2>2. /\ RemoveAt(s, i) \in Seq(1 .. MaxCommands) /\ Len(RemoveAt(s, i)) = n - 1
        /\ \A k \in 1 .. n - 1 : RemoveAt(s, i)[k] = IF k < i THEN s[k] ELSE s[k + 1]
    BY <2>1, RemoveAtResult
  <2> QED BY <2>2 DEF s
<1>5. RemoveEntry(q, i).items = items
  BY DEF RemoveEntry
<1> HIDE DEF items, ids
<1>6. Ids(RemoveEntry(q, i)) = [k \in 1 .. n - 1 |-> items[k].id]
  BY <1>2, <1>5 DEF Ids, Positions
<1>7. ids = [k \in 1 .. n - 1 |-> ids[k]]
  BY <1>1, <1>4
<1>8. \A k \in 1 .. n - 1 : items[k].id = ids[k]
  <2>1. \A k \in 1 .. n - 1 : k \in 1 .. n /\ k + 1 \in 1 .. n
    BY <1>1
  <2> QED BY <1>2, <1>3, <1>4, <2>1
<1> QED BY <1>6, <1>7, <1>8 DEF ids

\* A thread that sees to the queue leaves the stream alone, or stops it.
LEMMA MovedAir ==
  ASSUME TypeOK, NEW t \in Threads, Moved(t), runCtx' = runCtx,
         runs' = runs \/ CancelRun(runCtx)
  PROVE  /\ OnAir' = OnAir /\ Begun' = Begun /\ (MadeWhole' <=> MadeWhole)
         /\ runs' = runs => (LetRun' <=> LetRun)
         /\ CancelRun(runCtx) => ~LetRun'
<1>1. runCtx \in Runs \union {None} /\ runs \in [Runs -> Run]
  BY DEF TypeOK
<1>2. \A r \in Runs : pc'[r] = "exited" <=> pc[r] = "exited"
  <2>1. \A r \in Runs : (Works(r)' <=> Works(r)) /\ (Works(r) => pc'[r] = pc[r])
    BY DEF Moved
  <2> QED BY <2>1 DEF Works, Working
<1>3. \A r \in Runs : /\ runs'[r].seq = runs[r].seq /\ runs'[r].sent = runs[r].sent
                      /\ runs'[r].ok = runs[r].ok /\ runs'[r].entry = runs[r].entry
  BY CancelKeeps
<1>4. OnAir' = OnAir
  BY <1>1, <1>3 DEF OnAir
<1>5. Begun' = Begun
  BY <1>3 DEF Begun, Moved, Launched
<1>6. MadeWhole' <=> MadeWhole
  BY <1>1, <1>2, <1>3 DEF MadeWhole
<1>7. runs' = runs => (LetRun' <=> LetRun)
  BY DEF LetRun
<1>8. CancelRun(runCtx) => ~LetRun'
  BY CancelKeeps DEF LetRun
<1> QED BY <1>4, <1>5, <1>6, <1>7, <1>8

\* Whether the Client is in a skip.
LEMMA ClientStays ==
  ASSUME NEW t \in Threads, Moved(t), t # Client \/ (pc[t] \in Skipping <=> pc'[t] \in Skipping)
  PROVE  InSkip' <=> InSkip
<1>1. Client \in Threads
  BY BoundsAssumption DEF Client, Threads
<1> QED BY <1>1 DEF Moved, InSkip, Skipping

\* While another thread sees to the queue, the client is not in a skip.
LEMMA ClientElsewhere ==
  ASSUME NEW t \in Threads, Moved(t), pc[t] \notin Skipping
  PROVE  ~InSkip
<1>1. Client \in Threads
  BY BoundsAssumption DEF Client, Threads
<1> QED BY <1>1 DEF Moved, Steers, Steering, InSkip, Skipping

\* Nothing happens to the playlist, to the stream or to what was heard.
SamePlaylist == Ids(queue') = Ids(queue) /\ queue'.cursor = queue.cursor
SameStream ==
  /\ OnAir' = OnAir /\ (LetRun' <=> LetRun) /\ (MadeWhole' <=> MadeWhole) /\ Begun' = Begun
  /\ nextSeq' = nextSeq

\* Then nothing happens at all, as StreamedPlaylist sees it.
LEMMA NothingStreamed ==
  ASSUME SamePlaylist, SameStream, playDone' = playDone, InSkip' <=> InSkip
  PROVE  UNCHANGED Streamed!svars
<1>1. LetRun \in BOOLEAN /\ LetRun' \in BOOLEAN /\ MadeWhole \in BOOLEAN /\ MadeWhole' \in BOOLEAN
      /\ InSkip \in BOOLEAN /\ InSkip' \in BOOLEAN
  BY DEF LetRun, MadeWhole, InSkip
<1>2. LetRun' = LetRun /\ MadeWhole' = MadeWhole /\ InSkip' = InSkip
  BY <1>1 DEF SameStream
<1> QED BY <1>2 DEF Streamed!svars, SamePlaylist, SameStream

\* The user's commands, which come when no thread moves.
LEMMA CommandStreams ==
  ASSUME Known, Quiet, OrderlyCommand
  PROVE  Streamed!Next
<1> DEFINE n == Len(queue.items)
<1>0. /\ TypeOK /\ OInv /\ queue \in [items : Seq(Entry), cursor : Nat]
      /\ queue.items \in Seq(Entry) /\ queue.cursor \in Nat /\ n \in Nat
      /\ queue.cursor <= n
  BY DEF Known, TInv, TypeOK, OInv, Playlist
<1>1. PICK t \in {Client, Gossip} :
           /\ Moved(t) /\ pc[t] = "idle" /\ t \in Threads
           /\ pc'[t] \notin {"skipSeq", "skipUpdate", "skipMove"}
           /\ \A u \in Threads \ {t} : local'[u] = local[u]
           /\ UNCHANGED <<mediaSeq, nextSeq, runCtx, player, encDone, runs>> /\ inbox' \in {inbox, << >>}
  <2>1. UserSteps
    BY DEF OrderlyCommand, UserSteps
  <2> QED BY <1>0, <2>1, BeginMoves
<1>2. SameStream
  BY <1>0, <1>1, MovedAir DEF SameStream
<1>3. Len(Ids(queue)) = n /\ DOMAIN Ids(queue) = 1 .. n
  BY <1>0, IdsAre
<1>4. ~InSkip
  BY <1>1, ClientElsewhere DEF Skipping
<1>5. Client \in Threads /\ pc \in [Threads -> Stage]
  BY <1>0, BoundsAssumption DEF Client, Threads, TypeOK
<1>6. /\ LetRun \in BOOLEAN /\ LetRun' \in BOOLEAN /\ MadeWhole \in BOOLEAN /\ MadeWhole' \in BOOLEAN
      /\ InSkip \in BOOLEAN /\ InSkip' \in BOOLEAN
  BY DEF LetRun, MadeWhole, InSkip
<1>7. UNCHANGED Streamed!stream
  BY <1>2, <1>6 DEF Streamed!stream, SameStream
<1>8. ASSUME NEW c, NEW to \in {"react", "stop"}, UserCommand(c, to)
      PROVE  InSkip' = InSkip
  BY <1>4, <1>5, <1>6, <1>8 DEF UserCommand, Goto, InSkip
<1>9. ASSUME NEW f \in Files, AppendCmd(f) PROVE Streamed!Next
  <2> DEFINE e == [id |-> count.commands + 1, file |-> f, first |-> 0]
  <2>1. e \in Entry /\ e.id = count.commands + 1 /\ e.id \in 1 .. MaxCommands
    <3>1. count.commands + 1 \in 1 .. MaxCommands
      BY <1>0, <1>9, BoundsAssumption DEF AppendCmd, UserCommand, TypeOK
    <3>2. 0 \in Streams
      BY StreamsAre
    <3> QED BY <3>1, <3>2 DEF Entry
  <2>2. queue' = AppendEntry(queue, e) /\ playDone' = playDone /\ InSkip' = InSkip
    BY <1>8, <1>9 DEF AppendCmd
  <2> HIDE DEF e
  <2>3. Ids(queue)' = Append(Ids(queue), e.id)
    BY <1>0, <2>1, <2>2, IdsAppend
  <2>4. queue'.cursor = IF queue.cursor = 0 THEN n + 1 ELSE queue.cursor
    BY <2>2 DEF AppendEntry
  <2>5. Streamed!Add(e.id)
    BY <1>3, <1>7, <2>2, <2>3, <2>4 DEF Streamed!Add
  <2> QED BY <2>1, <2>5 DEF Streamed!Next
<1>10. ASSUME NEW i \in Positions(queue) \ {queue.cursor}, RemoveCmd(i) PROVE Streamed!Next
  <2>1. queue' = RemoveEntry(queue, i) /\ playDone' = playDone /\ InSkip' = InSkip
    BY <1>8, <1>10 DEF RemoveCmd
  <2>2. Ids(queue)' = Streamed!RemoveAt(Ids(queue), i)
    BY <1>0, <2>1, IdsRemove DEF RemoveAt, Streamed!RemoveAt
  <2>3. i \in 1 .. n /\ i # queue.cursor
    BY DEF Positions
  <2>4. queue'.cursor = IF queue.cursor > i THEN queue.cursor - 1 ELSE queue.cursor
    <3>1. Len(RemoveAt(queue.items, i)) = n - 1
      BY <1>0, <2>3, RemoveAtResult
    <3>2. queue'.cursor = IF queue.cursor > i \/ queue.cursor > n - 1 THEN queue.cursor - 1 ELSE queue.cursor
      BY <2>1, <3>1 DEF RemoveEntry
    <3> QED BY <1>0, <2>3, <3>2
  <2>5. Streamed!TakeOut(i)
    BY <1>3, <1>7, <2>1, <2>2, <2>3, <2>4 DEF Streamed!TakeOut
  <2> QED BY <1>3, <2>3, <2>5 DEF Streamed!Next
<1>11. CASE ~HasCurrent(queue) /\ ClearCmd
  <2>1. queue' = EmptyQueue /\ playDone' = playDone /\ InSkip' = InSkip
    BY <1>8, <1>11 DEF ClearCmd
  <2>2. queue.cursor = 0
    BY <1>0, <1>11 DEF HasCurrent, Positions
  <2>3. Ids(queue)' = << >> /\ queue'.cursor = 0
    BY <2>1 DEF EmptyQueue, Ids, Positions
  <2>4. Streamed!Clear
    BY <1>7, <2>1, <2>2, <2>3 DEF Streamed!Clear
  <2> QED BY <2>4 DEF Streamed!Next
<1>12. ASSUME NEW c \in Commands, SkipCmd(c) PROVE Streamed!Next
  <2>1. queue' = queue /\ playDone' = playDone /\ pc'[Client] = "skipStop"
    BY <1>5, <1>12 DEF SkipCmd, UserCommand, Goto, qvars
  <2>2. InSkip' = TRUE
    BY <1>6, <2>1 DEF InSkip
  <2>3. Streamed!BeginSkip
    BY <1>4, <1>7, <2>1, <2>2 DEF Streamed!BeginSkip, Streamed!playlist
  <2> QED BY <2>3 DEF Streamed!Next
<1> QED BY <1>9, <1>10, <1>11, <1>12 DEF OrderlyCommand

\* A skip: the stream is stopped, and then the playlist moved.
LEMMA SkipStreams ==
  ASSUME Known, SInv, SkipSteps
  PROVE  Streamed!Next \/ UNCHANGED Streamed!svars
<1>0. TypeOK /\ OInv /\ queue \in [items : Seq(Entry), cursor : Nat] /\ pc \in [Threads -> Stage]
  BY DEF Known, TInv, TypeOK
<1>1. Moved(Client) /\ UNCHANGED <<runCtx, inbox>> /\ Client \in Threads /\ InSkip
  BY <1>0, SkipMoves, BoundsAssumption DEF Client, Threads, Skipping, InSkip
<1>2. /\ LetRun \in BOOLEAN /\ LetRun' \in BOOLEAN /\ MadeWhole \in BOOLEAN /\ MadeWhole' \in BOOLEAN
      /\ InSkip \in BOOLEAN /\ InSkip' \in BOOLEAN
  BY DEF LetRun, MadeWhole, InSkip
<1>3. nextSeq' = nextSeq /\ playDone' = playDone
  BY DEF SkipSteps, SkipStop, SkipSeq, UpdateGlobalMediaSequence, SkipMove, qvars
<1>4. CASE SkipStop
  <2>1. CancelRun(runCtx) /\ queue' = queue
    BY <1>4 DEF SkipStop, qvars
  <2>2. pc'[Client] \in {"skipSeq", "skipMove"}
    BY <1>0, <1>1, <1>4 DEF SkipStop, Goto
  <2>3. OnAir' = OnAir /\ Begun' = Begun /\ (MadeWhole' <=> MadeWhole) /\ ~LetRun'
    BY <1>0, <1>1, <2>1, MovedAir
  <2>4. InSkip' = InSkip /\ InSkip /\ MadeWhole' = MadeWhole /\ LetRun' = FALSE
    BY <1>1, <1>2, <2>2, <2>3 DEF InSkip
  <2>5. Streamed!Stop
    BY <1>3, <2>1, <2>3, <2>4 DEF Streamed!Stop, Streamed!playlist
  <2> QED BY <2>5 DEF Streamed!Next
<1>5. CASE ~SkipStop
  <2>1. runs' = runs
    BY <1>5 DEF SkipSteps, SkipSeq, UpdateGlobalMediaSequence, SkipMove, rvars
  <2>2. SameStream
    BY <1>0, <1>1, <1>3, <2>1, MovedAir DEF SameStream
  <2>3. CASE SkipMove
    <3>1. ~LetRun
      BY <1>0, <2>3 DEF SkipMove, Goto, SInv, Hushed, LetRun
    <3>2. pc'[Client] = "react"
      BY <1>0, <1>1, <2>3 DEF SkipMove, Goto
    <3>3. InSkip' = FALSE
      BY <1>2, <3>2 DEF InSkip
    <3>4. /\ queue'.items = queue.items
          /\ queue'.cursor \in {Streamed!Following, Streamed!Preceding}
      <4>1. queue' \in {Advance(queue), Rewind(queue)}
        BY <2>3 DEF SkipMove
      <4>2. Len(Ids(queue)) = Len(queue.items)
        BY <1>0, IdsAre
      <4>3. Advance(queue).items = queue.items /\ Advance(queue).cursor = Streamed!Following
        BY <4>2 DEF Advance, CanAdvance, Streamed!Following
      <4>4. Rewind(queue).items = queue.items /\ Rewind(queue).cursor = Streamed!Preceding
        BY DEF Rewind, CanRewind, Streamed!Preceding
      <4> QED BY <4>1, <4>3, <4>4
    <3>5. Ids(queue)' = Ids(queue)
      BY <3>4 DEF Ids, Positions
    <3>6. UNCHANGED Streamed!stream
      BY <1>2, <2>2 DEF Streamed!stream, SameStream
    <3>7. Streamed!EndSkip
      BY <1>1, <1>3, <3>1, <3>3, <3>4, <3>5, <3>6 DEF Streamed!EndSkip
    <3> QED BY <3>7 DEF Streamed!Next
  <2>4. CASE ~SkipMove
    <3>1. queue' = queue
      BY <1>5, <2>4 DEF SkipSteps, SkipSeq, UpdateGlobalMediaSequence, qvars
    <3>2. pc'[Client] \in {"skipUpdate", "skipMove"}
      BY <1>0, <1>1, <1>5, <2>4 DEF SkipSteps, SkipSeq, UpdateGlobalMediaSequence, Goto
    <3>3. InSkip' <=> InSkip
      BY <1>1, <3>2 DEF InSkip
    <3>4. SamePlaylist
      BY <3>1 DEF SamePlaylist
    <3> QED BY <1>3, <2>2, <3>3, <3>4, NothingStreamed
  <2> QED BY <2>3, <2>4
<1> QED BY <1>4, <1>5

\* The internal NEXT: the head was made and heard to its end.
LEMMA MoveOnStreams ==
  ASSUME Known, SInv, NEW t \in Threads, InternalNext(t)
  PROVE  Streamed!MoveOn
<1>0. /\ TypeOK /\ OInv /\ queue \in [items : Seq(Entry), cursor : Nat] /\ pc \in [Threads -> Stage]
      /\ QueueSteps(t) /\ ~EnsureLaunch(t)
  BY DEF Known, TInv, TypeOK, QueueSteps, InternalNext, EnsureLaunch, Goto
<1>1. /\ Moved(t) /\ pc[t] \notin Skipping /\ pc'[t] \notin Skipping
      /\ UNCHANGED <<nextSeq, runCtx>>
  BY <1>0, QueueStepIs
<1>2. /\ pc[t] = "next" /\ queue' = Advance(queue)
      /\ UNCHANGED <<playDone, runs>>
  BY DEF InternalNext, Goto, rvars
<1>3. ~InSkip /\ ~InSkip'
  BY <1>1, ClientElsewhere, ClientStays
<1>4. UNCHANGED Streamed!stream
  <2>1. /\ LetRun \in BOOLEAN /\ LetRun' \in BOOLEAN /\ MadeWhole \in BOOLEAN /\ MadeWhole' \in BOOLEAN
    BY DEF LetRun, MadeWhole
  <2>2. /\ OnAir' = OnAir /\ Begun' = Begun /\ (MadeWhole' <=> MadeWhole) /\ (LetRun' <=> LetRun)
    BY <1>0, <1>1, <1>2, MovedAir
  <2> QED BY <1>1, <2>1, <2>2 DEF Streamed!stream
<1>5. /\ Matched /\ Current(queue).first \in encDone /\ Current(queue).first \in playDone
  BY <1>0, <1>2 DEF OInv, Stages, HeadEncoded
<1>6. runCtx \in Launched /\ runCtx \in Runs /\ runCtx # None
  BY <1>0, <1>5 DEF OInv, Numbers, Matched, TypeOK
<1>7. MadeWhole /\ OnAir.seq \in playDone
  <2>1. runs[runCtx].ok /\ ~Works(runCtx)
    BY <1>5, <1>6 DEF SInv, MadeOnce, Matched
  <2> QED BY <1>5, <1>6, <2>1 DEF MadeWhole, OnAir, Works, Working, Matched
<1>8. Len(Ids(queue)) = Len(queue.items) /\ \A i \in 1 .. Len(queue.items) : Ids(queue)[i] = queue.items[i].id
  BY <1>0, IdsAre
<1>9. queue.cursor > 0 /\ OnAir.entry = Ids(queue)[queue.cursor]
  <2>1. queue.cursor \in 1 .. Len(queue.items)
    BY <1>5 DEF Matched, HasCurrent, Positions
  <2> QED BY <1>0, <1>5, <1>6, <1>8, <2>1 DEF OnAir, Matched, Current
<1>10. queue'.cursor = Streamed!Following /\ Ids(queue)' = Ids(queue)
  BY <1>2, <1>8 DEF Advance, CanAdvance, Streamed!Following, Ids, Positions
<1>11. InSkip' = InSkip
  <2>1. InSkip \in BOOLEAN /\ InSkip' \in BOOLEAN
    BY DEF InSkip
  <2> QED BY <1>3, <2>1
<1> QED BY <1>2, <1>3, <1>4, <1>7, <1>9, <1>10, <1>11 DEF Streamed!MoveOn

\* The launch: the last stream is over, and the new one begins beyond it.
LEMMA LaunchStreams ==
  ASSUME Known, SInv, NEW t \in Threads, EnsureLaunch(t)
  PROVE  \E n \in Streams : Streamed!Begin(n)
<1> USE ThreadKinds
<1>0. /\ TypeOK /\ OInv /\ TInv /\ LockHeldInside /\ queue \in [items : Seq(Entry), cursor : Nat]
      /\ pc \in [Threads -> Stage] /\ mediaSeq \in Nat /\ nextSeq \in Nat /\ mediaSeq \in Streams
  BY StreamsAre DEF Known, TInv, TypeOK
<1>1. PICK r \in Runs, to \in {"forget", Rest(t)} :
           /\ r \notin Launched /\ r # t
           /\ pc[t] = "launch" /\ pc'[r] = "spawned" /\ pc'[t] = to
           /\ \A u \in Threads \ {r, t} : pc'[u] = pc[u]
           /\ runCtx' = r /\ nextSeq' = local[t].base
           /\ UNCHANGED <<queue, mediaSeq, encDone, playDone, runner, inbox, count>>
           /\ runs'[r].file = local[t].file /\ runs'[r].seq = local[t].base
           /\ runs'[r].entry = local[t].entry.id
           /\ runs'[r].sent = 0 /\ ~runs'[r].cancelled /\ ~runs'[r].ok
           /\ \A s \in Launched : /\ runs'[s].seq = runs[s].seq /\ runs'[s].sent = runs[s].sent
                                  /\ runs'[s].ok = runs[s].ok /\ runs'[s].entry = runs[s].entry
  BY <1>0, LaunchStep
<1>2. /\ HasCurrent(queue) /\ Spent /\ AtRest
      /\ local[t].base = mediaSeq /\ local[t].entry = Current(queue)
  BY <1>0, <1>1 DEF OInv, Stages, Plan, HeadDue, Spent
<1>3. r # None
  BY BoundsAssumption DEF Runs, None
<1>4. Launched' = Launched \union {r}
  <2>1. pc'[r] # "idle" /\ (t \in Runs => pc'[t] # "idle" /\ pc[t] # "idle")
    BY <1>1, RestIsOut
  <2> QED BY <1>1, <2>1 DEF Launched
<1>5. ~InSkip /\ ~InSkip'
  <2>1. Client \in Threads /\ Client # r
    BY BoundsAssumption DEF Client, Threads
  <2>2. Steers(t)
    BY <1>1 DEF Steers, Steering
  <2>3. pc[Client] \notin Skipping
    BY <1>0, <1>1, <2>1, <2>2 DEF OInv, Solo, Steers, Steering, Skipping
  <2>4. pc'[Client] \notin Skipping
    BY <1>1, <2>1, <2>3, RestIsOut DEF Steering, Skipping
  <2> QED BY <2>3, <2>4 DEF InSkip, Skipping
<1>6. ~LetRun \/ MadeWhole
  <2>1. runCtx # None => runCtx \in Launched /\ runCtx \in Runs /\ ~Works(runCtx)
    BY <1>0, <1>2 DEF OInv, Numbers, TypeOK, AtRest
  <2>2. runCtx # None => (runs[runCtx].ok \/ runs[runCtx].cancelled) /\ pc[runCtx] # "exited"
    BY <2>1 DEF SInv, Over, Works, Working
  <2> QED BY <2>2 DEF LetRun, MadeWhole
<1>7. mediaSeq \notin Begun /\ mediaSeq >= nextSeq
  <2>1. \A s \in Launched : runs[s].seq < mediaSeq
    BY <1>2 DEF Spent
  <2>2. nextSeq <= mediaSeq
    BY <1>2 DEF SInv, Counted
  <2> QED BY <1>0, <2>1, <2>2 DEF Begun
<1>8. Begun' = Begun \union {mediaSeq}
  BY <1>1, <1>2, <1>4 DEF Begun
<1>9. /\ queue.cursor > 0 /\ Current(queue).id = Ids(queue)[queue.cursor]
  <2>1. queue.cursor \in 1 .. Len(queue.items)
    BY <1>2 DEF HasCurrent, Positions
  <2> QED BY <1>0, <2>1, IdsAre DEF Current
<1>10. OnAir' = [entry |-> Ids(queue)[queue.cursor], seq |-> mediaSeq, sent |-> 0]
  BY <1>1, <1>2, <1>3, <1>9 DEF OnAir
<1>11. LetRun' = TRUE /\ MadeWhole' = FALSE /\ InSkip' = InSkip
  <2>1. LetRun' /\ ~MadeWhole'
    BY <1>1, <1>3 DEF LetRun, MadeWhole
  <2>2. /\ LetRun' \in BOOLEAN /\ MadeWhole' \in BOOLEAN
        /\ InSkip \in BOOLEAN /\ InSkip' \in BOOLEAN
    BY DEF LetRun, MadeWhole, InSkip
  <2> QED BY <1>5, <2>1, <2>2
<1>12. Streamed!Begin(mediaSeq)
  BY <1>1, <1>2, <1>5, <1>6, <1>7, <1>8, <1>9, <1>10, <1>11 DEF Streamed!Begin, Streamed!playlist
<1> QED BY <1>0, <1>12

\* Whatever else a thread does to see to the queue.
LEMMA QueueStreams ==
  ASSUME Known, SInv, NEW t \in Threads, QueueSteps(t), Ids(queue') = Ids(queue)
  PROVE  Streamed!Next \/ UNCHANGED Streamed!svars
<1>0. /\ TypeOK /\ OInv /\ queue \in [items : Seq(Entry), cursor : Nat] /\ pc \in [Threads -> Stage]
      /\ local \in [Threads -> Locals] /\ playDone \subseteq Streams
  BY DEF Known, TInv, TypeOK
<1>1. CASE EnsureLaunch(t)
  BY <1>1, LaunchStreams DEF Streamed!Next
<1>2. CASE InternalNext(t)
  BY <1>2, MoveOnStreams DEF Streamed!Next
<1>3. CASE ~EnsureLaunch(t) /\ ~InternalNext(t)
  <2>1. /\ Moved(t) /\ pc[t] \notin Skipping /\ pc'[t] \notin Skipping
        /\ UNCHANGED <<nextSeq, runCtx>>
        /\ runs' = runs \/ (AtRest /\ Stop(t))
    BY <1>0, <1>3, QueueStepIs
  <2>2. InSkip' = InSkip
    <3>1. ~InSkip /\ ~InSkip'
      BY <2>1, ClientElsewhere, ClientStays
    <3>2. InSkip \in BOOLEAN /\ InSkip' \in BOOLEAN
      BY DEF InSkip
    <3> QED BY <3>1, <3>2
  <2>3. /\ LetRun \in BOOLEAN /\ LetRun' \in BOOLEAN /\ MadeWhole \in BOOLEAN /\ MadeWhole' \in BOOLEAN
    BY DEF LetRun, MadeWhole
  <2>4. queue'.cursor = queue.cursor
    <3>1. CASE EnsureWrite(t)
      <4>1. queue' = SetCurrent(queue, local[t].entry)
        BY <3>1 DEF EnsureWrite
      <4> QED BY <1>0, <4>1 DEF SetCurrent
    <3>2. CASE ~EnsureWrite(t)
      <4>1. queue' = queue
        BY <1>3, <3>2 DEF QueueSteps, Stop, Check, Forget, React, GetNextStartSequence, EnsureActive, EnsureStopped,
           EnsureCheck, EnsureTag, qvars
      <4> QED BY <4>1
    <3> QED BY <3>1, <3>2
  <2>5. SamePlaylist
    BY <2>4 DEF SamePlaylist
  <2>6. CASE Stop(t)
    <3>1. CancelRun(runCtx) /\ playDone' = playDone /\ pc[t] = "stop"
      BY <2>6 DEF Stop, Goto, qvars
    <3>2. queue.cursor = 0
      <4>1. ~HasCurrent(queue) /\ queue.cursor <= Len(queue.items)
        BY <1>0, <3>1 DEF OInv, Stages, NoHead, Playlist
      <4>2. queue.cursor \in Nat /\ Len(queue.items) \in Nat
        BY <1>0
      <4> QED BY <4>1, <4>2 DEF HasCurrent, Positions
    <3>3. OnAir' = OnAir /\ Begun' = Begun /\ (MadeWhole' <=> MadeWhole) /\ ~LetRun'
      BY <1>0, <2>1, <3>1, MovedAir
    <3>4. MadeWhole' = MadeWhole /\ LetRun' = FALSE
      BY <2>3, <3>3
    <3>5. Streamed!Stop
      BY <2>1, <2>2, <2>5, <3>1, <3>2, <3>3, <3>4 DEF Streamed!Stop, Streamed!playlist, SamePlaylist
    <3> QED BY <3>5 DEF Streamed!Next
  <2>7. CASE ~Stop(t)
    <3>1. SameStream
      BY <1>0, <2>1, <2>7, MovedAir DEF SameStream
    <3>2. CASE playDone' = playDone
      BY <2>2, <2>5, <3>1, <3>2, NothingStreamed
    <3>3. CASE playDone' # playDone
      <4>1. playDone' = playDone \ {local[t].stream}
        BY <1>3, <2>7, <3>3 DEF QueueSteps, Check, Forget, React, GetNextStartSequence, EnsureActive, EnsureStopped,
           EnsureCheck, EnsureTag, EnsureWrite, qvars
      <4>2. local[t].stream \in Streams
        <5>1. local[t].stream \in playDone
          BY <3>3, <4>1
        <5> QED BY <1>0, <5>1
      <4>3. LetRun' = LetRun /\ MadeWhole' = MadeWhole
        BY <2>3, <3>1 DEF SameStream
      <4>4. Streamed!Forget(local[t].stream)
        BY <2>2, <2>5, <3>1, <4>1, <4>3 DEF Streamed!Forget, Streamed!playlist, Streamed!stream, SamePlaylist, SameStream
      <4> QED BY <4>2, <4>4 DEF Streamed!Next
    <3> QED BY <3>2, <3>3
  <2> QED BY <2>6, <2>7
<1> QED BY <1>1, <1>2, <1>3

\* A step that is not the user's does not take her into a skip or out of it.
LEMMA SkipStays ==
  ASSUME pc'[Client] = pc[Client]
  PROVE  InSkip' = InSkip
  BY DEF InSkip

\* A step of the current run: its stream keeps its entry and its numbers.
LEMMA RunAir ==
  ASSUME TypeOK, NEW r \in Runs, runCtx = r, runCtx' = r, Launched' = Launched,
         \A s \in Runs \ {r} : runs'[s] = runs[s],
         runs'[r].seq = runs[r].seq, runs'[r].entry = runs[r].entry,
         runs'[r].cancelled = runs[r].cancelled
  PROVE  /\ r # None /\ Begun' = Begun /\ (LetRun' <=> LetRun)
         /\ OnAir = [entry |-> runs[r].entry, seq |-> runs[r].seq, sent |-> runs[r].sent]
         /\ OnAir' = [entry |-> runs[r].entry, seq |-> runs[r].seq, sent |-> runs'[r].sent]
         /\ MadeWhole <=> runs[r].ok /\ pc[r] # "exited"
         /\ MadeWhole' <=> runs'[r].ok /\ pc'[r] # "exited"
<1>1. r # None
  BY BoundsAssumption DEF Runs, None
<1>2. Begun' = Begun
  BY BegunStays
<1>3. /\ OnAir = [entry |-> runs[r].entry, seq |-> runs[r].seq, sent |-> runs[r].sent]
      /\ OnAir' = [entry |-> runs[r].entry, seq |-> runs[r].seq, sent |-> runs'[r].sent]
  BY <1>1 DEF OnAir
<1>4. /\ LetRun' <=> LetRun
      /\ MadeWhole <=> runs[r].ok /\ pc[r] # "exited"
      /\ MadeWhole' <=> runs'[r].ok /\ pc'[r] # "exited"
  BY <1>1 DEF LetRun, MadeWhole
<1> QED BY <1>1, <1>2, <1>3, <1>4

\* A new segment: one more is made of the stream on the air.
LEMMA SegmentStreams ==
  ASSUME Known, NEW r \in Runs, Segment(r)
  PROVE  Streamed!Make
<1> USE ThreadKinds
<1>0. TypeOK /\ OInv
  BY DEF Known, TInv
<1>1. /\ pc[r] = "ffmpeg" /\ r = runCtx /\ ~runs[r].ok
      /\ runs[r].sent < SegsPerFile
      /\ runs' = [runs EXCEPT ![r] = [runs[r] EXCEPT !.sent = runs[r].sent + 1]]
      /\ runs'[r].seq = runs[r].seq /\ runs'[r].entry = runs[r].entry
      /\ runs'[r].cancelled = runs[r].cancelled /\ ~runs'[r].ok
      /\ runs'[r].sent = runs[r].sent + 1
      /\ nextSeq' = Later(nextSeq, runs[r].seq + runs[r].sent + 1)
      /\ UNCHANGED <<queue, playDone, runCtx, pc>>
  BY <1>0, SegmentIs
<1>2. (\A s \in Runs \ {r} : runs'[s] = runs[s]) /\ Launched' = Launched
  BY <1>0, <1>1 DEF Launched, TypeOK
<1>3. /\ r # None /\ Begun' = Begun /\ (LetRun' <=> LetRun)
      /\ OnAir = [entry |-> runs[r].entry, seq |-> runs[r].seq, sent |-> runs[r].sent]
      /\ OnAir' = [entry |-> runs[r].entry, seq |-> runs[r].seq, sent |-> runs'[r].sent]
      /\ MadeWhole <=> runs[r].ok /\ pc[r] # "exited"
      /\ MadeWhole' <=> runs'[r].ok /\ pc'[r] # "exited"
  BY <1>0, <1>1, <1>2, RunAir
<1>4. /\ LetRun \in BOOLEAN /\ LetRun' \in BOOLEAN /\ MadeWhole \in BOOLEAN /\ MadeWhole' \in BOOLEAN
  BY DEF LetRun, MadeWhole
<1>5. LetRun' = LetRun /\ MadeWhole' = MadeWhole /\ ~MadeWhole
  BY <1>1, <1>3, <1>4
<1>6. InSkip' = InSkip
  BY <1>1, SkipStays
<1>7. OnAir' = [OnAir EXCEPT !.sent = OnAir.sent + 1] /\ OnAir.sent < SegsPerFile
  BY <1>1, <1>3
<1>8. nextSeq' = Streamed!Later(nextSeq, OnAir.seq + OnAir.sent + 1)
  BY <1>1, <1>3 DEF Later, Streamed!Later
<1>9. Ids(queue)' = Ids(queue) /\ queue'.cursor = queue.cursor
  BY <1>1
<1> QED BY <1>1, <1>3, <1>5, <1>6, <1>7, <1>8, <1>9 DEF Streamed!Make, Streamed!playlist

\* The other steps of a run: its stream begins again after an error, comes to
\* its end, or is as it was.
LEMMA RunStreams ==
  ASSUME Known, SInv, NEW r \in Runs,
         \/ StartAgain(r) \/ Start(r) \/ LoopCancelled(r) \/ Loop(r) \/ Exec(r) \/ ExecSuperseded(r)
         \/ Killed(r) \/ (Eof(r) /\ (Quiet \/ runs[r].cancelled)) \/ (Fail(r) /\ Quiet)
         \/ Exited(r) \/ Retry(r) \/ Cleanup(r) \/ Returned(r) \/ Report(r)
         \/ UpdateGlobalMediaSequence(r, "update", "notify")
  PROVE  Streamed!Next \/ UNCHANGED Streamed!svars
<1> USE ThreadKinds
<1>0. TypeOK /\ OInv /\ pc \in [Threads -> Stage]
  BY DEF Known, TInv, TypeOK
<1>1. /\ Works(r) /\ r = runCtx /\ r \in Launched
      /\ runs[r].cancelled => Stops(r)
      /\ ~runs[r].cancelled => GoesOn(r)
      /\ Launched' = Launched
      /\ \A t \in Threads \ {r} : pc'[t] = pc[t]
      /\ UNCHANGED <<queue, nextSeq, runCtx, playDone>>
      /\ \A s \in Runs \ {r} : runs'[s] = runs[s]
  BY <1>0, RunStepIs
<1>2. /\ runs'[r].seq = runs[r].seq /\ runs'[r].cancelled = runs[r].cancelled
      /\ runs'[r].entry = runs[r].entry
      /\ runs'[r].sent = IF Exec(r) THEN 0 ELSE runs[r].sent
      /\ ~(StartAgain(r) \/ Eof(r) \/ Exited(r)) => runs'[r].ok = runs[r].ok
      /\ Exited(r) => (runs'[r].ok <=> runner.cmd = r /\ ~runs[r].cancelled /\ runs[r].ok)
  BY <1>0, RunStepKeepsRun
<1>3. /\ r # None /\ Begun' = Begun /\ (LetRun' <=> LetRun)
      /\ OnAir = [entry |-> runs[r].entry, seq |-> runs[r].seq, sent |-> runs[r].sent]
      /\ OnAir' = [entry |-> runs[r].entry, seq |-> runs[r].seq, sent |-> runs'[r].sent]
      /\ MadeWhole <=> runs[r].ok /\ pc[r] # "exited"
      /\ MadeWhole' <=> runs'[r].ok /\ pc'[r] # "exited"
  BY <1>0, <1>1, <1>2, RunAir
<1>4. ~StartAgain(r)
  BY <1>1 DEF StartAgain, Goto, Stops, GoesOn
<1>5. LetRun \in BOOLEAN /\ LetRun' \in BOOLEAN /\ MadeWhole \in BOOLEAN /\ MadeWhole' \in BOOLEAN
  BY DEF LetRun, MadeWhole
<1>6. Client \in Threads \ {r}
  BY BoundsAssumption DEF Client, Threads
<1>7. InSkip' = InSkip
  BY <1>1, <1>6, SkipStays
<1>8. Ids(queue)' = Ids(queue) /\ queue'.cursor = queue.cursor
  BY <1>1
<1>9. LetRun <=> ~runs[r].cancelled
  BY <1>1, <1>3 DEF LetRun
<1>10. CASE Exec(r)
  <2>1. pc[r] = "exec" /\ pc'[r] = "ffmpeg"
    BY <1>0, <1>10 DEF Exec, Goto
  <2>2. ~runs[r].cancelled /\ ~runs[r].ok
    BY <1>1, <2>1 DEF Stops, GoesOn
  <2>3. ~Eof(r) /\ ~Exited(r)
    BY <2>1 DEF Eof, Exited, Goto
  <2>4. LetRun /\ LetRun' = LetRun /\ ~MadeWhole /\ MadeWhole' = MadeWhole
    BY <1>2, <1>3, <1>4, <1>5, <1>9, <2>1, <2>2, <2>3
  <2>5. OnAir' = [OnAir EXCEPT !.sent = 0]
    BY <1>2, <1>3, <1>10
  <2>6. Streamed!Again
    BY <1>1, <1>3, <1>7, <1>8, <2>4, <2>5 DEF Streamed!Again, Streamed!playlist
  <2> QED BY <2>6 DEF Streamed!Next
<1>11. CASE ~Exec(r) /\ Exited(r) /\ runs'[r].ok
  <2>1. pc[r] = "exited" /\ runner.cmd = r /\ ~runs[r].cancelled /\ runs[r].ok
    BY <1>2, <1>11 DEF Exited, Goto
  <2>2. pc'[r] = "cleanup"
    BY <1>0, <1>11, <2>1 DEF Exited, Goto
  <2>3. runs[r].sent = SegsPerFile
    BY <1>0, <1>1, <2>1 DEF OInv, Numbers
  <2>4. LetRun /\ LetRun' = LetRun /\ MadeWhole' = TRUE
    BY <1>3, <1>5, <1>9, <1>11, <2>1, <2>2
  <2>5. OnAir' = OnAir /\ OnAir.sent = SegsPerFile
    BY <1>2, <1>3, <1>11, <2>3
  <2>6. Streamed!End
    BY <1>1, <1>3, <1>7, <1>8, <2>4, <2>5 DEF Streamed!End, Streamed!playlist
  <2> QED BY <2>6 DEF Streamed!Next
<1>12. CASE ~Exec(r) /\ ~(Exited(r) /\ runs'[r].ok)
  <2>1. OnAir' = OnAir
    BY <1>2, <1>3, <1>12
  <2>2. MadeWhole' <=> MadeWhole
    <3>1. CASE Exited(r)
      <4>1. pc[r] = "exited"
        BY <3>1 DEF Exited, Goto
      <4> QED BY <1>3, <1>12, <3>1, <4>1
    <3>2. CASE Eof(r) \/ Killed(r) \/ Fail(r)
      <4>1. pc[r] = "ffmpeg" /\ pc'[r] = "exited"
        BY <1>0, <3>2 DEF Eof, Killed, Fail, Goto
      <4>2. ~runs[r].ok
        BY <1>1, <4>1 DEF SInv, Cut, Unfinished, GoesOn
      <4> QED BY <1>3, <4>1, <4>2
    <3>3. CASE ~(Exited(r) \/ Eof(r) \/ Killed(r) \/ Fail(r))
      <4>1. pc[r] # "exited" /\ pc'[r] # "exited"
        BY <1>0, <1>4, <1>12, <3>3 DEF Start, LoopCancelled, Loop, ExecSuperseded, Retry, Cleanup, Returned,
           Report, UpdateGlobalMediaSequence, Goto
      <4>2. runs'[r].ok = runs[r].ok
        BY <1>2, <1>4, <3>3
      <4> QED BY <1>3, <4>1, <4>2
    <3> QED BY <3>1, <3>2, <3>3
  <2>3. SameStream
    BY <1>1, <1>3, <2>1, <2>2 DEF SameStream
  <2>4. SamePlaylist
    BY <1>1 DEF SamePlaylist
  <2> QED BY <1>1, <1>7, <2>3, <2>4, NothingStreamed
<1> QED BY <1>10, <1>11, <1>12

\* The report of a finished encoding is nothing new.
LEMMA NotifyStreams ==
  ASSUME Known, NEW r \in Runs, Notify(r)
  PROVE  UNCHANGED Streamed!svars
<1> USE ThreadKinds
<1>0. TypeOK /\ OInv
  BY DEF Known, TInv
<1>1. /\ pc[r] = "notify" /\ pc'[r] = "check" /\ \A t \in Threads \ {r} : pc'[t] = pc[t]
      /\ r = runCtx /\ Launched' = Launched
      /\ UNCHANGED <<queue, playDone, nextSeq, runCtx, runs>>
  BY <1>0, NotifyIs
<1>2. /\ Begun' = Begun /\ (LetRun' <=> LetRun)
      /\ OnAir = [entry |-> runs[r].entry, seq |-> runs[r].seq, sent |-> runs[r].sent]
      /\ OnAir' = [entry |-> runs[r].entry, seq |-> runs[r].seq, sent |-> runs'[r].sent]
      /\ MadeWhole <=> runs[r].ok /\ pc[r] # "exited"
      /\ MadeWhole' <=> runs'[r].ok /\ pc'[r] # "exited"
  BY <1>0, <1>1, RunAir
<1>3. SameStream /\ SamePlaylist
  BY <1>1, <1>2 DEF SameStream, SamePlaylist
<1>4. Client \in Threads \ {r}
  BY BoundsAssumption DEF Client, Threads
<1>5. InSkip' = InSkip
  BY <1>1, <1>4, SkipStays
<1> QED BY <1>1, <1>3, <1>5, NothingStreamed

\* The report of the player: a stream was heard to its end.
LEMMA PlayerStreams ==
  ASSUME Known, SInv, PlayerCompleted
  PROVE  Streamed!Next
<1>0. TypeOK /\ OInv /\ pc \in [Threads -> Stage] /\ inbox \in Seq(Streams)
  BY DEF Known, TInv, TypeOK
<1>1. /\ inbox # << >> /\ pc[Client] = "idle" /\ pc' = [pc EXCEPT ![Client] = "check"]
      /\ playDone' = playDone \union {Head(inbox)}
      /\ UNCHANGED <<queue, nextSeq, runCtx, runs>>
  BY DEF PlayerCompleted, Goto, rvars
<1>2. Head(inbox) \in Begun /\ Head(inbox) \in Streams
  <2>1. Head(inbox) = inbox[1] /\ 1 \in 1 .. Len(inbox) /\ Head(inbox) \in Streams
    BY <1>0, <1>1
  <2> QED BY <2>1 DEF SInv, Reported
<1>3. SameStream
  <2>1. PICK t \in {Client, Gossip} : Moved(t) /\ t \in Threads
    BY <1>0, BeginMoves
  <2> QED BY <1>0, <1>1, <2>1, MovedAir DEF SameStream
<1>4. LetRun \in BOOLEAN /\ LetRun' \in BOOLEAN /\ MadeWhole \in BOOLEAN /\ MadeWhole' \in BOOLEAN
  BY DEF LetRun, MadeWhole
<1>5. UNCHANGED Streamed!stream
  <2>1. LetRun' = LetRun /\ MadeWhole' = MadeWhole
    BY <1>3, <1>4 DEF SameStream
  <2> QED BY <1>3, <2>1 DEF Streamed!stream, SameStream
<1>6. InSkip' = InSkip
  <2>1. Client \in Threads
    BY BoundsAssumption DEF Client, Threads
  <2>2. pc'[Client] = "check"
    BY <1>0, <1>1, <2>1
  <2>3. InSkip \in BOOLEAN /\ InSkip' \in BOOLEAN /\ ~InSkip /\ ~InSkip'
    BY <1>1, <2>2 DEF InSkip
  <2> QED BY <2>3
<1>7. Streamed!Hear(Head(inbox))
  BY <1>1, <1>2, <1>5, <1>6 DEF Streamed!Hear, Streamed!playlist
<1> QED BY <1>2, <1>7 DEF Streamed!Next

-----------------------------------------------------------------------------
\* No stream before the first.
LEMMA InitStreams == Init => Streamed!Init
<1> SUFFICES ASSUME Init PROVE Streamed!Init
  OBVIOUS
<1>1. queue.items = << >> /\ queue.cursor = 0 /\ nextSeq = 0 /\ playDone = {} /\ runCtx = None
  BY DEF Init, EmptyQueue
<1>2. Launched = {} /\ pc[Client] = "idle"
  <2>1. \A t \in Threads : pc[t] = "idle"
    BY DEF Init
  <2> QED BY <2>1, ThreadKinds, BoundsAssumption DEF Launched, Client, Threads
<1>3. Ids(queue) = << >>
  BY <1>1 DEF Ids, Positions
<1>4. OnAir = Streamed!Silence /\ Begun = {}
  BY <1>1, <1>2 DEF OnAir, Streamed!Silence, Begun
<1>5. LetRun = FALSE /\ MadeWhole = FALSE /\ InSkip = FALSE
  BY <1>1, <1>2 DEF LetRun, MadeWhole, InSkip
<1> QED BY <1>1, <1>3, <1>4, <1>5 DEF Streamed!Init

\* A step of the threads is a step of the stream, or none.
LEMMA NextStreams ==
  ASSUME Known, SInv, [OrderlyNext]_vars
  PROVE  [Streamed!Next]_(Streamed!svars)
<1> DEFINE Goal == Streamed!Next \/ UNCHANGED Streamed!svars
<1>0. TypeOK /\ OInv /\ Client \in Threads /\ pc \in [Threads -> Stage]
  BY BoundsAssumption DEF Known, TInv, Client, Threads, TypeOK
<1>1. ASSUME SameStream, UNCHANGED <<queue, playDone>>, pc'[Client] = pc[Client] PROVE Goal
  <2>1. SamePlaylist
    BY <1>1 DEF SamePlaylist
  <2>2. InSkip' <=> InSkip
    BY <1>1 DEF InSkip
  <2> QED BY <1>1, <2>1, <2>2, NothingStreamed
<1>2. CASE Quiet /\ OrderlyCommand
  BY <1>2, CommandStreams
<1>3. CASE Quiet /\ Undisturbed /\ GossipReact
  <2>1. Goto(Gossip, "idle", "react") /\ UNCHANGED <<queue, playDone, nextSeq, runCtx, runs>>
    BY <1>3 DEF GossipReact, qvars, rvars
  <2>2. pc'[Client] = pc[Client]
    BY <1>0, <2>1, BoundsAssumption DEF Goto, Client, Gossip
  <2>3. SameStream
    <3>1. PICK t \in {Client, Gossip} : Moved(t) /\ t \in Threads
      BY <1>0, <1>3, BeginMoves
    <3> QED BY <1>0, <2>1, <3>1, MovedAir DEF SameStream
  <2> QED BY <1>1, <2>1, <2>2, <2>3
<1>4. CASE UNCHANGED <<queue, playDone, nextSeq, runCtx, runs, pc>>
  <2>1. Launched' = Launched
    BY <1>4 DEF Launched
  <2>2. OnAir' = OnAir /\ Begun' = Begun /\ (LetRun' <=> LetRun) /\ (MadeWhole' <=> MadeWhole)
    BY <1>4, <2>1 DEF OnAir, Begun, LetRun, MadeWhole
  <2>3. SameStream
    BY <1>4, <2>2 DEF SameStream
  <2> QED BY <1>1, <1>4, <2>3
<1>5. CASE Quiet /\ PlayerEnds
  BY <1>4, <1>5 DEF PlayerEnds, qvars, rvars
<1>6. ASSUME Quiet, NEW r \in Runs, Eof(r) \/ Fail(r) PROVE Goal
  BY <1>6, RunStreams
<1>7. ASSUME NEW t \in Threads, ThreadStep(t), OrderlyNext,
             pc[t] = "ffmpeg" => runs[t].cancelled \/ runs[t].sent < SegsPerFile
      PROVE  Goal
  <2>1. CASE t = Client /\ SkipSteps
    BY <2>1, SkipStreams
  <2>2. CASE t = Client /\ PlayerCompleted
    BY <2>2, PlayerStreams
  <2>3. CASE QueueSteps(t)
    <3>1. count' = count
      BY <2>3 DEF QueueSteps, Stop, Check, InternalNext, Forget, React, GetNextStartSequence, EnsureActive,
         EnsureStopped, EnsureCheck, EnsureTag, EnsureWrite, EnsureLaunch
    <3>2. Ids(queue') = Ids(queue)
      BY <1>7, <3>1, IdsStay
    <3> QED BY <2>3, <3>2, QueueStreams
  <2>4. CASE t \in Runs /\ RunSteps(t)
    <3>1. Eof(t) => runs[t].cancelled
      BY <1>7, BoundsAssumption DEF Eof, Goto
    <3>2. CASE Segment(t)
      BY <2>4, <3>2, SegmentStreams DEF Streamed!Next
    <3>3. CASE Notify(t)
      BY <2>4, <3>3, NotifyStreams
    <3>4. CASE ~Segment(t) /\ ~Notify(t)
      BY <2>4, <3>1, <3>4, RunStreams DEF RunSteps
    <3> QED BY <3>2, <3>3, <3>4
  <2> QED BY <1>7, <2>1, <2>2, <2>3, <2>4 DEF ThreadStep
<1>8. CASE UNCHANGED vars
  BY <1>4, <1>8 DEF vars
<1>9. Goal
  BY <1>2, <1>3, <1>5, <1>6, <1>7, <1>8 DEF OrderlyNext
<1> QED BY <1>9

\* For every number of commands, runs and segments, and every set of files: what
\* the orderly threads do to the queue, the runner and the completion states is
\* what StreamedPlaylist allows. The playlist goes on by itself only from an entry
\* that was made and heard to its end, and no stream begins before the last is
\* over (queue_controller.go, encode_runner.go, node.go).
THEOREM OrderlyStreams == OrderlySpec => ImplementsStreamed
<1>1. Known /\ SInv /\ [OrderlyNext]_vars => [Streamed!Next]_(Streamed!svars)
  BY NextStreams
<1> QED BY <1>1, InitStreams, AlwaysSInv, PTL DEF OrderlySpec, ImplementsStreamed, Streamed!Spec
=============================================================================
