------------------------ MODULE CompositeTransformer ------------------------
(***************************************************************************)
(* The composite pipeline driver (CreateCompositeGraphTransformer with the *)
(* AsyncTransform loop that drives it) over the stage transformers of      *)
(* GraphTransformer.  Only their declarations are in the source (lines    *)
(* 220-234 of yql_graph_transformer.h); the driver follows spec.md 4.4,    *)
(* 4.5 and 5: stages run in order on the current root; Error stops the     *)
(* run; Repeat (or a status with HasRestart) restarts from the first       *)
(* stage; Async suspends the run until the stage's future is set, then     *)
(* ApplyAsyncChanges is called with the same input node; cancelling a run  *)
(* calls Rewind on every stage.  Stages in AsyncStages are                 *)
(* TAsyncCallbackTransformers, those in NullStages TNullTransformers, the  *)
(* others TFunctorTransformers.                                           *)
(***************************************************************************)
EXTENDS GraphTransformer

CONSTANTS
  NumStages,    \* number of stages; Stages = 1 .. NumStages
  AsyncStages,  \* the stages that are TAsyncCallbackTransformers
  NullStages,   \* the stages that are TNullTransformers
  MaxRepeats,   \* bound on Repeat results over the whole behaviour
  MaxRuns       \* bound on runs of the pipeline (Transform of a new root)

ASSUME Stages = 1 .. NumStages /\ AsyncStages \subseteq Stages /\ NullStages \subseteq Stages \ AsyncStages

VARIABLES
  idx,          \* index of the current stage
  phase,        \* "transform", "wait" (on a future), "done", "error", "cancelled"
  root,         \* the current root, input of the current stage
  waitInput,    \* the input node an Async stage was called with
  restartsDone, \* Repeat results so far
  runs          \* runs started so far

dvars == <<idx, phase, root, waitInput, restartsDone, runs>>
vars == <<tvars, dvars>>

Stopped == {"done", "error", "cancelled"}

(* The statuses a synchronous functor, or the synchronous part of a        *)
(* CallbackTransform (SyncOk, SyncRepeat, SyncError), returns.             *)
SyncResults ==
  {TStatus(Ok, FALSE), TStatus(Repeat, FALSE), TStatus(Repeat, TRUE),
   TStatus(Error, FALSE), TStatus(Error, TRUE)}

(* A stage returns Repeat only while the bound allows it. *)
Allowed(st) == st.level = Repeat => restartsDone < MaxRepeats

(* Mutant: off by one in the test for the last stage. *)
ContinuePastLast(st, out) ==
  CASE st.level = Error ->
         /\ phase' = "error"
         /\ UNCHANGED <<idx, root, restartsDone>>
    [] st.level = Repeat \/ st.restart ->
         /\ idx' = 1
         /\ root' = out
         /\ restartsDone' = restartsDone + 1
         /\ phase' = "transform"
    [] OTHER ->
         /\ root' = out
         /\ IF idx = NumStages + 1 THEN phase' = "done" /\ UNCHANGED idx
                                   ELSE idx' = idx + 1 /\ phase' = "transform"
         /\ UNCHANGED restartsDone

(***************************************************************************)
(* The driver's reaction to the status st and output out of the current   *)
(* stage: stop on Error, restart from stage 1 on Repeat or HasRestart,     *)
(* else move to the next stage (done after the last one).                 *)
(***************************************************************************)
Continue(st, out) ==
  CASE st.level = Error ->
         /\ phase' = "error"
         /\ UNCHANGED <<idx, root, restartsDone>>
    [] st.level = Repeat \/ st.restart ->
         /\ idx' = 1
         /\ root' = out
         /\ restartsDone' = restartsDone + 1
         /\ phase' = "transform"
    [] OTHER ->
         /\ root' = out
         /\ IF idx = NumStages THEN phase' = "done" /\ UNCHANGED idx
                               ELSE idx' = idx + 1 /\ phase' = "transform"
         /\ UNCHANGED restartsDone

Init ==
  /\ TInit
  /\ idx = 1
  /\ phase = "transform"
  /\ root \in Nodes
  /\ waitInput = root
  /\ restartsDone = 0
  /\ runs = 1

(* The statuses a synchronous stage may return: a null stage only Ok. *)
StageResults(s) == IF s \in NullStages THEN {TStatus(Ok, FALSE)} ELSE SyncResults

(* Transform of a synchronous stage: a functor, or a null stage, whose    *)
(* output is its input.                                                   *)
RunSyncStage ==
  /\ phase = "transform"
  /\ idx \notin AsyncStages
  /\ \E st \in StageResults(idx), out \in Nodes :
       /\ Allowed(st)
       /\ idx \in NullStages => out = root
       /\ IF idx \in NullStages THEN NullTransform(idx) ELSE FunctorTransform(idx, st)
       /\ Continue(st, out)
  /\ UNCHANGED <<waitInput, runs>>

(* Transform of an asynchronous stage: Async suspends, else as above. *)
StartAsyncStage ==
  /\ phase = "transform"
  /\ idx \in AsyncStages
  /\ \E st \in SyncResults \cup {TStatus(Async, FALSE)}, out \in Nodes :
       /\ Allowed(st)
       /\ CallbackTransform(idx, root, st)
       /\ IF st.level = Async
            THEN /\ phase' = "wait"
                 /\ waitInput' = root
                 /\ UNCHANGED <<idx, root, restartsDone>>
            ELSE /\ Continue(st, out)
                 /\ UNCHANGED waitInput
  /\ UNCHANGED runs

(* The future of a pending callback is set by the gateway. *)
CompleteFuture(s, n) ==
  /\ \E o \in Outcomes :
       /\ o = "modified" => restartsDone < MaxRepeats
       /\ FutureComplete(s, n, o)
  /\ UNCHANGED dvars

(***************************************************************************)
(* GetAsyncFuture(waitInput), wait until it is set, then                  *)
(* ApplyAsyncChanges(waitInput).  A modified output is a new node.        *)
(***************************************************************************)
ResumeAsyncStage ==
  LET e == callbacks[idx][waitInput] IN
  /\ phase = "wait"
  /\ e = NoCallback \/ e.ready
  /\ \E st \in Statuses, out \in Nodes :
       /\ ApplyAsyncChanges(idx, waitInput, st)
       /\ (out = waitInput) <=> (st.level # Repeat)
       /\ Continue(st, out)
  /\ UNCHANGED <<waitInput, runs>>

(* Cancellation: Rewind on every stage, the run is abandoned. *)
Cancel ==
  /\ phase \in {"transform", "wait"}
  /\ RewindAll
  /\ phase' = "cancelled"
  /\ UNCHANGED <<repeats, restarts, ensureFailed>>
  /\ UNCHANGED <<idx, root, waitInput, restartsDone, runs>>

(* The same transformer is run again on a (possibly the same) root. *)
Rerun ==
  /\ phase \in Stopped
  /\ runs < MaxRuns
  /\ runs' = runs + 1
  /\ idx' = 1
  /\ phase' = "transform"
  /\ root' \in Nodes
  /\ waitInput' = root'
  /\ UNCHANGED <<tvars, restartsDone>>

Next ==
  \/ RunSyncStage
  \/ StartAsyncStage
  \/ \E s \in Stages, n \in Nodes : CompleteFuture(s, n)
  \/ ResumeAsyncStage
  \/ Cancel
  \/ Rerun

(* The driver and the gateway always make progress; cancelling and       *)
(* re-running are the caller's choice and are not fair.                   *)
Fairness ==
  /\ WF_vars(RunSyncStage)
  /\ WF_vars(StartAsyncStage)
  /\ WF_vars(ResumeAsyncStage)
  /\ \A s \in Stages, n \in Nodes : WF_vars(CompleteFuture(s, n))

Spec == Init /\ [][Next]_vars /\ Fairness

TypeOK ==
  /\ TTypeOK
  /\ idx \in Stages
  /\ phase \in {"transform", "wait"} \cup Stopped
  /\ root \in Nodes
  /\ waitInput \in Nodes
  /\ restartsDone \in 0 .. MaxRepeats
  /\ runs \in 1 .. MaxRuns

(***************************************************************************)
(* No YQL_ENSURE of a stage ever fails: a functor never returns Async, an  *)
(* async stage never has two callbacks for one input node (the entry is    *)
(* erased by ApplyAsyncChanges and cleared by Rewind before the node can   *)
(* be transformed again), and ApplyAsyncChanges is only called for an      *)
(* entry whose future has a value.                                        *)
(***************************************************************************)
NoEnsureFailure == ~ensureFailed

=============================================================================
