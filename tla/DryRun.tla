-------------------------------- MODULE DryRun --------------------------------
(***************************************************************************)
(* The dry-run mode of spreadpilot_core: one flag for the whole process,   *)
(* which a service sets at its start, and which dry_run_context sets for a *)
(* while.  Every decorated function looks at it when it runs; a decorated  *)
(* coroutine function when its coroutine is awaited, not when it is made.  *)
(* Tasks interleave where they await, inside a context as well as outside. *)
(***************************************************************************)
EXTENDS Integers, Sequences

CONSTANTS
    Tasks,       \* the asyncio tasks
    MaxDepth,    \* bounds the contexts a task is in
    MaxCalls     \* bounds the decorated calls

ASSUME DryRunAssumption == MaxDepth \in Nat /\ MaxCalls \in Nat

VARIABLES
    shared,      \* may tasks be in contexts at the same time?
    enabled,     \* DryRunConfig._enabled
    log,         \* DryRunConfig._operations_log: who called
    contexts,    \* was_enabled of the contexts each task is in, innermost last
    coroutines,  \* those each task has made and not awaited
    calls,       \* the decorated calls so far
    \* what happened, for the properties
    configured,  \* what enable() or disable() were last called for
    executed     \* the operations of each task that did run

configVars == <<enabled, log, configured>>
dryVars == <<shared, configVars, contexts, coroutines, calls, executed>>

InContext(t) == contexts[t] # <<>>

DryInit ==
    /\ shared \in BOOLEAN
    /\ enabled = FALSE /\ configured = FALSE /\ log = <<>>
    /\ contexts = [t \in Tasks |-> <<>>]
    /\ coroutines = [t \in Tasks |-> 0] /\ executed = [t \in Tasks |-> 0]
    /\ calls = 0

-----------------------------------------------------------------------------
(* DryRunConfig *)

\* enable() and disable(), which nobody calls inside a context.
Configure(on) ==
    /\ \A t \in Tasks : ~InContext(t)
    /\ enabled' = on /\ configured' = on
    /\ UNCHANGED <<shared, log, contexts, coroutines, calls, executed>>

ClearOperationsLog ==
    /\ log' = <<>>
    /\ UNCHANGED <<shared, enabled, configured, contexts, coroutines, calls, executed>>

-----------------------------------------------------------------------------
(* dry_run_context *)

Enter(t) ==
    /\ Len(contexts[t]) < MaxDepth
    /\ shared \/ \A u \in Tasks \ {t} : ~InContext(u)
    /\ contexts' = [contexts EXCEPT ![t] = Append(@, enabled)]
    /\ enabled' = TRUE
    /\ UNCHANGED <<shared, log, configured, coroutines, calls, executed>>

\* Mutant: the end of a context ends the dry run.
DisabledAfter(was) == FALSE

\* __exit__(): a context ends what it began, also when an exception leaves it.
EnabledAfter(was) == IF was THEN enabled ELSE FALSE

Exit(t) ==
    /\ InContext(t)
    /\ enabled' = EnabledAfter(contexts[t][Len(contexts[t])])
    /\ contexts' = [contexts EXCEPT ![t] = SubSeq(@, 1, Len(@) - 1)]
    /\ UNCHANGED <<shared, log, configured, coroutines, calls, executed>>

-----------------------------------------------------------------------------
(* Decorated functions *)

\* Mutant: only a service's own dry run counts.
SimulateIfConfigured(t) ==
    /\ log' = IF configured THEN Append(log, t) ELSE log
    /\ executed' = IF configured THEN executed ELSE [executed EXCEPT ![t] = @ + 1]

\* The function runs, or its call is logged and return_value returned.
RunOrSimulate(t) ==
    /\ log' = IF enabled THEN Append(log, t) ELSE log
    /\ executed' = IF enabled THEN executed ELSE [executed EXCEPT ![t] = @ + 1]

\* dry_run(): a call of a function.
Call(t) ==
    /\ calls < MaxCalls
    /\ calls' = calls + 1
    /\ RunOrSimulate(t)
    /\ UNCHANGED <<shared, enabled, configured, contexts, coroutines>>

\* dry_run_async(): the call only makes the coroutine,
CallAsync(t) ==
    /\ calls < MaxCalls
    /\ calls' = calls + 1
    /\ coroutines' = [coroutines EXCEPT ![t] = @ + 1]
    /\ UNCHANGED <<shared, configVars, contexts, executed>>

\* which looks at the flag when it is awaited.
Await(t) ==
    /\ coroutines[t] > 0
    /\ coroutines' = [coroutines EXCEPT ![t] = @ - 1]
    /\ RunOrSimulate(t)
    /\ UNCHANGED <<shared, enabled, configured, contexts, calls>>

-----------------------------------------------------------------------------
DryStep(t) == Enter(t) \/ Exit(t) \/ Call(t) \/ CallAsync(t) \/ Await(t)

DryNext ==
    \/ \E on \in BOOLEAN : Configure(on)
    \/ ClearOperationsLog
    \/ \E t \in Tasks : DryStep(t)

DrySpec == DryInit /\ [][DryNext]_dryVars

-----------------------------------------------------------------------------
(* Properties *)

\* The variables have their types.
DryTypeOK ==
    /\ shared \in BOOLEAN /\ enabled \in BOOLEAN /\ configured \in BOOLEAN
    /\ log \in Seq(Tasks)
    /\ contexts \in [Tasks -> Seq(BOOLEAN)]
    /\ coroutines \in [Tasks -> Nat] /\ executed \in [Tasks -> Nat]
    /\ calls \in Nat

\* Contexts never change what a service has chosen (dry_run_context.__exit__):
\* when all have been left, in whatever order the tasks left them, the flag is
\* what it was set to, and a service's own dry run is never suspended.
FlagRestored ==
    /\ configured => enabled
    /\ (\A t \in Tasks : ~InContext(t)) => (enabled <=> configured)

\* While no two tasks are in contexts, whatever a task calls or awaits inside a
\* context, nested or not, is simulated.
ContextSimulates ==
    [][\A t \in Tasks : ~shared /\ InContext(t) => executed'[t] = executed[t]]_dryVars
===============================================================================
