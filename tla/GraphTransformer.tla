-------------------------- MODULE GraphTransformer --------------------------
(***************************************************************************)
(* The transformer contract of ydb/library/yql/core/yql_graph_transformer.h *)
(* for a set of transformer instances ("stages"):                          *)
(*   - IGraphTransformer::TStatus (level and HasRestart bit);              *)
(*   - TGraphTransformerBase, which counts Repeats and Restarts of every   *)
(*     status returned by Transform and ApplyAsyncChanges;                 *)
(*   - TAsyncCallbackTransformer, which keeps one pending callback future  *)
(*     per input node (Callbacks, keyed by node identity), and the futures *)
(*     built by WrapFuture / WrapModifyFuture;                             *)
(*   - TFunctorTransformer, a synchronous transformer that must never     *)
(*     return Async, and TNullTransformer, which returns its input, Ok.    *)
(* A failed YQL_ENSURE is not a guard: the call still happens and the     *)
(* variable ensureFailed records that the process would have aborted.     *)
(***************************************************************************)
EXTENDS Naturals

CONSTANTS
  Stages,       \* transformer instances
  Nodes,        \* identities of expression roots (TExprNode*)
  NoCallback    \* model value: node has no entry in Callbacks

VARIABLES
  callbacks,    \* callbacks[s][n]: entry of stage s's Callbacks map for node n
  repeats,      \* Statistics.Repeats of stage s
  restarts,     \* Statistics.Restarts of stage s
  ensureFailed  \* some YQL_ENSURE of a transformer has failed

tvars == <<callbacks, repeats, restarts, ensureFailed>>

(* TStatus::ELevel, in the order Combine takes the maximum of. *)
Ok == 0
Repeat == 1
Async == 2
Error == 3
Levels == Ok .. Error

TStatus(level, hasRestart) == [level |-> level, restart |-> hasRestart]
Statuses == [level : Levels, restart : BOOLEAN]

(* TStatus::Combine: the higher level, and restart if either has it. *)
Combine(s, t) ==
  TStatus(IF s.level >= t.level THEN s.level ELSE t.level, s.restart \/ t.restart)

(***************************************************************************)
(* A callback future of WrapFutureCallback.  Its value, once the future    *)
(* is set, is what the wrapped gateway call produced: "failed" (the result *)
(* is not Success), "kept" (WrapFuture, or WrapModifyFuture leaving output *)
(* = input) or "modified" (WrapModifyFuture replacing the output node).    *)
(***************************************************************************)
Outcomes == {"failed", "kept", "modified"}
Pending == [ready |-> FALSE, outcome |-> "none"]
Ready(o) == [ready |-> TRUE, outcome |-> o]
Entries == {NoCallback, Pending} \cup {Ready(o) : o \in Outcomes}

(* The status the stored callback returns from ApplyAsyncChanges. *)
CallbackStatus(outcome) ==
  CASE outcome = "failed"   -> TStatus(Error, FALSE)
    [] outcome = "kept"     -> TStatus(Ok, FALSE)
    [] outcome = "modified" -> TStatus(Repeat, TRUE)

(* TTransformScope::HandleStatus on the statistics of stage s. *)
HandleStatus(s, st) ==
  /\ repeats' = [repeats EXCEPT ![s] = @ + (IF st.level = Repeat THEN 1 ELSE 0)]
  /\ restarts' = [restarts EXCEPT ![s] = @ + (IF st.restart THEN 1 ELSE 0)]

TInit ==
  /\ callbacks = [s \in Stages |-> [n \in Nodes |-> NoCallback]]
  /\ repeats = [s \in Stages |-> 0]
  /\ restarts = [s \in Stages |-> 0]
  /\ ensureFailed = FALSE

(***************************************************************************)
(* TFunctorTransformer::Transform: the functor's status st is returned;    *)
(* YQL_ENSURE that it is not Async.                                        *)
(***************************************************************************)
FunctorTransform(s, st) ==
  /\ ensureFailed' = (ensureFailed \/ st.level = Async)
  /\ HandleStatus(s, st)
  /\ UNCHANGED callbacks

(***************************************************************************)
(* TNullTransformer (a TSyncTransformerBase) through Transform: the output *)
(* is the input and the status Ok, counted by HandleStatus.               *)
(***************************************************************************)
NullTransform(s) ==
  /\ HandleStatus(s, TStatus(Ok, FALSE))
  /\ UNCHANGED <<callbacks, ensureFailed>>

(***************************************************************************)
(* TAsyncCallbackTransformer::Transform: CallbackTransform returned st;    *)
(* on Async its future is emplaced under the input node, and YQL_ENSURE    *)
(* that no entry for that node was there.                                  *)
(***************************************************************************)
CallbackTransform(s, input, st) ==
  /\ IF st.level = Async
       THEN /\ ensureFailed' = (ensureFailed \/ callbacks[s][input] # NoCallback)
            /\ callbacks' = [callbacks EXCEPT ![s][input] =
                               IF @ = NoCallback THEN Pending ELSE @]
       ELSE UNCHANGED <<callbacks, ensureFailed>>
  /\ HandleStatus(s, st)

(* The gateway call behind a pending future completes with outcome o. *)
FutureComplete(s, n, o) ==
  /\ callbacks[s][n] = Pending
  /\ callbacks' = [callbacks EXCEPT ![s][n] = Ready(o)]
  /\ UNCHANGED <<repeats, restarts, ensureFailed>>

(* Mutant: the entry is not erased after the callback has run. *)
ApplyAsyncChangesKeepsEntry(s, input, st) ==
  LET e == callbacks[s][input] IN
  /\ ensureFailed' = (ensureFailed \/ e = NoCallback \/ ~e.ready)
  /\ st = IF e # NoCallback /\ e.ready THEN CallbackStatus(e.outcome)
                                       ELSE TStatus(Error, FALSE)
  /\ UNCHANGED callbacks
  /\ HandleStatus(s, st)

(***************************************************************************)
(* GetAsyncFuture(input) followed by ApplyAsyncChanges(input): YQL_ENSURE  *)
(* that the entry exists and that its future HasValue, run the stored      *)
(* callback (status st) and erase the entry.                               *)
(***************************************************************************)
ApplyAsyncChanges(s, input, st) ==
  LET e == callbacks[s][input] IN
  /\ ensureFailed' = (ensureFailed \/ e = NoCallback \/ ~e.ready)
  /\ st = IF e # NoCallback /\ e.ready THEN CallbackStatus(e.outcome)
                                       ELSE TStatus(Error, FALSE)
  /\ callbacks' = [callbacks EXCEPT ![s][input] = NoCallback]
  /\ HandleStatus(s, st)

(* TAsyncCallbackTransformer::Rewind of every stage: Callbacks.clear(). *)
RewindAll ==
  callbacks' = [s \in Stages |-> [n \in Nodes |-> NoCallback]]

TTypeOK ==
  /\ callbacks \in [Stages -> [Nodes -> Entries]]
  /\ repeats \in [Stages -> Nat]
  /\ restarts \in [Stages -> Nat]
  /\ ensureFailed \in BOOLEAN

=============================================================================
