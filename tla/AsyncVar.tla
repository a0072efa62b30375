------------------------------ MODULE AsyncVar ------------------------------
(***************************************************************************)
(* AsyncVar of Framework/Cache.hs: a variable with asynchronous updates.   *)
(* Writers put values on an unbounded channel; one loop thread takes all   *)
(* that is queued, keeps the last, forces it, publishes the outcome and    *)
(* then runs the update hook.  The delay at the top of the loop only makes *)
(* more values queue up, which the interleaving of the steps covers.       *)
(*                                                                         *)
(* The module has no specification of its own: AsyncCache and CoreFeature  *)
(* compose it with the threads that write.                                 *)
(***************************************************************************)
EXTENDS Naturals, Sequences, SequencesExt

CONSTANTS Value,         \* what is cached
          Unevaluable,   \* the values whose evaluation throws
          MaxQueue       \* bound: values on the channel

ASSUME AsyncVarAssumption == Unevaluable \subseteq Value /\ MaxQueue \in Nat

VARIABLES inChan,   \* the channel of queued values
          outVar,   \* the published Either: ok is FALSE for a Left
          loop,     \* where the loop thread is
          taken     \* the value it took last

avar == <<inChan, outVar, loop, taken>>

Right(v) == [ok |-> TRUE, value |-> v]
Left(v)  == [ok |-> FALSE, value |-> v]

(* evaluate (force value)                                                  *)
Evaluate(v) == IF v \in Unevaluable THEN Left(v) ELSE Right(v)

(* newAsyncVar: the initial value is published unevaluated.  With          *)
(* syncForce it is forced here, so that a failure ends the start-up;       *)
(* otherwise it is queued like any update.                                 *)
NewAsyncVar(initial, syncForce) ==
    /\ syncForce => initial \notin Unevaluable
    /\ inChan = IF syncForce THEN << >> ELSE <<initial>>
    /\ outVar = Right(initial)
    /\ loop = "waiting"
    /\ taken = initial

(* The same with asynchronous initialisation, in a server that restarts.   *)
RenewAsyncVar(initial) ==
    /\ inChan' = <<initial>>
    /\ outVar' = Right(initial)
    /\ loop' = "waiting"
    /\ taken' = initial

writeAsyncVar(v) ==
    /\ Len(inChan) < MaxQueue
    /\ inChan' = Append(inChan, v)
    /\ UNCHANGED <<outVar, loop, taken>>

(* Mutant: the last value is taken and the others stay on the channel.     *)
readAllAvailable_Leaves ==
    /\ loop = "waiting"
    /\ inChan # << >>
    /\ taken' = Last(inChan)
    /\ inChan' = Front(inChan)
    /\ loop' = "forcing"
    /\ UNCHANGED outVar

(* All that is queued is taken at once; only the last of it counts.        *)
readAllAvailable ==
    /\ loop = "waiting"
    /\ inChan # << >>
    /\ taken' = Last(inChan)
    /\ inChan' = << >>
    /\ loop' = "forcing"
    /\ UNCHANGED outVar

(* Mutant: an exception leaves the loop thread dead.                       *)
publish_NoTry ==
    /\ loop = "forcing"
    /\ outVar' = IF taken \in Unevaluable THEN outVar ELSE Right(taken)
    /\ loop' = IF taken \in Unevaluable THEN "dead" ELSE "hook"
    /\ UNCHANGED <<inChan, taken>>

(* The outcome is published, an exception too; the hook is not run on it.  *)
publish ==
    /\ loop = "forcing"
    /\ outVar' = Evaluate(taken)
    /\ loop' = IF taken \in Unevaluable THEN "waiting" ELSE "hook"
    /\ UNCHANGED <<inChan, taken>>

(* The hook has run; what it does is conjoined where the module is used.   *)
hookDone ==
    /\ loop = "hook"
    /\ loop' = "waiting"
    /\ UNCHANGED <<inChan, outVar, taken>>

AsyncVarTypeOK ==
    /\ inChan \in Seq(Value)
    /\ outVar \in [ok : BOOLEAN, value : Value]
    /\ loop \in {"waiting", "forcing", "hook"}
    /\ taken \in Value
=============================================================================
