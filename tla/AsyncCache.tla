----------------------------- MODULE AsyncCache -----------------------------
(***************************************************************************)
(* AsyncCache of Framework/Cache.hs in its environment: a source in acid-  *)
(* state, and the threads that change it and prod the cache.  prodAsync-   *)
(* Cache reads the source and then queues what it read: two steps, between *)
(* which other threads run.                                                *)
(*                                                                         *)
(* A value is the number of changes the source has seen, so the order of   *)
(* the values is the order of the changes.                                 *)
(***************************************************************************)
EXTENDS AsyncVar

CONSTANTS Handler,    \* threads that change the source and then prod (a hook does)
          Cron,       \* threads that only prod (the sitemap's cron job)
          Silent,     \* threads that change the source and do not prod
          SyncInit,   \* asyncCacheSyncInit
          MaxChanges  \* bound: changes of the source

ASSUME AsyncCacheAssumption ==
    /\ MaxChanges \in Nat
    /\ Value = 0 .. MaxChanges
    /\ SyncInit \in BOOLEAN

VARIABLES source,      \* the current value of the source
          pc,          \* per thread: where it is in its prod
          got,         \* per thread: the value the cache's action returned to it
          written,     \* history: the value queued last
          raced,       \* history: an older value was queued after a newer one
          silent       \* history: the source has changed silently and nobody has read it since

vars == <<avar, source, pc, got, written, raced, silent>>

Thread == Handler \cup Cron

Init ==
    /\ NewAsyncVar(0, SyncInit)
    /\ source = 0
    /\ pc = [t \in Thread |-> "idle"]
    /\ got = [t \in Thread |-> 0]
    /\ written = 0
    /\ raced = FALSE
    /\ silent = FALSE

(* A handler's transaction; the hook that prods comes later.               *)
Change(t) ==
    /\ pc[t] = "idle"
    /\ source < MaxChanges
    /\ source' = source + 1
    /\ pc' = [pc EXCEPT ![t] = "prod"]
    /\ UNCHANGED <<avar, got, written, raced, silent>>

(* A transaction nobody prods for: user names in the index, everything in  *)
(* the sitemap.                                                            *)
ChangeSilently(t) ==
    /\ source < MaxChanges
    /\ source' = source + 1
    /\ silent' = TRUE
    /\ UNCHANGED <<avar, pc, got, written, raced>>

Tick(t) ==
    /\ pc[t] = "idle"
    /\ pc' = [pc EXCEPT ![t] = "prod"]
    /\ UNCHANGED <<avar, source, got, written, raced, silent>>

(* prodAsyncCache, first half: the action of the cache is run by the       *)
(* prodding thread itself.                                                 *)
Update(t) ==
    /\ pc[t] = "prod"
    /\ got' = [got EXCEPT ![t] = source]
    /\ pc' = [pc EXCEPT ![t] = "enqueue"]
    /\ silent' = FALSE
    /\ UNCHANGED <<avar, source, written, raced>>

(* ... second half: its result is queued, after whatever other threads     *)
(* have read and queued meanwhile.                                         *)
Enqueue(t) ==
    /\ pc[t] = "enqueue"
    /\ writeAsyncVar(got[t])
    /\ written' = got[t]
    /\ raced' = (raced \/ got[t] < written)
    /\ pc' = [pc EXCEPT ![t] = "idle"]
    /\ UNCHANGED <<source, got, silent>>

(* A race is over when the source has been published and nothing older is  *)
(* queued behind it.                                                       *)
Loop ==
    /\ \/ readAllAvailable /\ UNCHANGED raced
       \/ publish /\ raced' = (raced /\ ~(inChan = << >> /\ taken = source))
       \/ hookDone /\ UNCHANGED raced
    /\ UNCHANGED <<source, pc, got, written, silent>>

Next ==
    \/ \E t \in Handler : Change(t)
    \/ \E t \in Silent : ChangeSilently(t)
    \/ \E t \in Cron : Tick(t)
    \/ \E t \in Thread : Update(t) \/ Enqueue(t)
    \/ Loop

Spec == Init /\ [][Next]_vars

(* A prod that was begun is finished and the loop thread runs: both are    *)
(* ordinary Haskell threads.                                               *)
Fairness ==
    /\ \A t \in Thread : WF_vars(Update(t)) /\ WF_vars(Enqueue(t))
    /\ WF_vars(Loop)

FairSpec == Spec /\ Fairness

(* The cron job comes round again.  Only some caches have one, so this is  *)
(* no part of Fairness: the properties say what depends on it.             *)
CronRuns == \A t \in Cron : WF_vars(Tick(t))

-----------------------------------------------------------------------------
(* Properties.                                                             *)

(* Types of the variables.                                                 *)
TypeOK ==
    /\ AsyncVarTypeOK
    /\ source \in Value
    /\ pc \in [Thread -> {"idle", "prod", "enqueue"}]
    /\ got \in [Thread -> Value]
    /\ written \in Value
    /\ raced \in BOOLEAN
    /\ silent \in BOOLEAN

(* "We want the last one, skipping all intermediate updates": whenever the *)
(* loop thread has caught up, what readers get is the outcome of the value *)
(* queued last, be it a value or the exception of its evaluation.          *)
LastWriteWins ==
    inChan = << >> /\ loop # "forcing" => outVar = Evaluate(written)

(* "slightly out of date": if the source stops changing, readers are       *)
(* eventually given its final value (or the exception it evaluates to)     *)
(* and go on to be given it.  Hooks alone see to that, unless two prods    *)
(* have raced, or the last change was silent: what readers get then stays  *)
(* old until the next prod, and a cron job, where a cache has one, always  *)
(* puts it right.                                                          *)
EventuallyFresh ==
    /\ <>[](outVar = Evaluate(source) \/ raced \/ silent)
    /\ CronRuns => <>[](outVar = Evaluate(source))

(* The abstract promise: a copy that trails the source and goes back only  *)
(* when two threads have queued what they read in the other order.  That   *)
(* it catches up whatever happens takes the cron job.                      *)
Copy == INSTANCE TrailingCopy WITH copy <- outVar.value
TrailsSource == Copy!Spec /\ (CronRuns => Copy!Fairness)
=============================================================================
