---------------------------- MODULE AgentSession ----------------------------
(***************************************************************************)
(* One capture session of the agent: the restart loop runCapture, the      *)
(* tshark flag RunCapture reads once per run, and the EnableTshark and     *)
(* DisableTshark calls of the control server, which flip the flag and      *)
(* cancel the run in progress.                                             *)
(*                                                                         *)
(* Context cancel functions are compared with the current run only: a      *)
(* cancel function of an earlier run is Old, and calling it does nothing.  *)
(* So the model needs no run counter and no bound on the number of runs.   *)
(***************************************************************************)
CONSTANTS Calls        \* control-server goroutines serving toggle requests

VARIABLES
  flag,         \* session.tsharkEnabled
  stored,       \* session.tsharkCancel: Nil, or of the Current or an Old run
  runPc,        \* where the runCapture goroutine is
  mode,         \* the flag as the current run read it
  cancelled,    \* the current run's context is done
  sessDone,     \* the session's context is done
  indexed,      \* the session is in Manager.sessionIndex
  callPc,       \* [Calls -> where the call is]
  callArg,      \* [Calls -> the mode it asks for]
  callCancel    \* [Calls -> the cancel function it read]

vars == <<flag, stored, runPc, mode, cancelled, sessDone, indexed,
          callPc, callArg, callCancel>>
runVars  == <<runPc, mode>>
callVars == <<callPc, callArg, callCancel>>

Nil     == "nil"
Current == "current"
Old     == "old"

\* A new run makes every cancel function held so far one of an earlier run.
Aged(c) == IF c = Current THEN Old ELSE c

TypeOK ==
  /\ flag \in BOOLEAN
  /\ stored \in {Nil, Current, Old}
  /\ runPc \in {"top", "store", "load", "running", "ended", "debounce", "stopped"}
  /\ mode \in BOOLEAN
  /\ cancelled \in BOOLEAN
  /\ sessDone \in BOOLEAN
  /\ indexed \in BOOLEAN
  /\ callPc \in [Calls -> {"idle", "swap", "read", "cancel"}]
  /\ callArg \in [Calls -> BOOLEAN]
  /\ callCancel \in [Calls -> {Nil, Current, Old}]

Init ==
  /\ flag = FALSE
  /\ stored = Nil
  /\ runPc = "top"
  /\ mode = FALSE
  /\ cancelled = FALSE
  /\ sessDone = FALSE
  /\ indexed = TRUE
  /\ callPc = [h \in Calls |-> "idle"]
  /\ callArg = [h \in Calls |-> FALSE]
  /\ callCancel = [h \in Calls |-> Nil]
-----------------------------------------------------------------------------
(* The runCapture goroutine. *)

\* Faulty variant: the run context is not derived from the session's.
NewRunDetached ==
  /\ runPc = "top"
  /\ runPc' = "store"
  /\ cancelled' = FALSE
  /\ stored' = Aged(stored)
  /\ callCancel' = [h \in Calls |-> Aged(callCancel[h])]
  /\ UNCHANGED <<flag, mode, sessDone, indexed, callPc, callArg>>

\* context.WithCancel(sessCtx): the child of a done context is done at once.
NewRun ==
  /\ runPc = "top"
  /\ runPc' = "store"
  /\ cancelled' = sessDone
  /\ stored' = Aged(stored)
  /\ callCancel' = [h \in Calls |-> Aged(callCancel[h])]
  /\ UNCHANGED <<flag, mode, sessDone, indexed, callPc, callArg>>

\* Faulty variant: the new run's cancel function is not published.
StoreCancelForgotten ==
  /\ runPc = "store"
  /\ runPc' = "load"
  /\ UNCHANGED <<flag, stored, mode, cancelled, sessDone, indexed, callVars>>

StoreCancel ==
  /\ runPc = "store"
  /\ stored' = Current
  /\ runPc' = "load"
  /\ UNCHANGED <<flag, mode, cancelled, sessDone, indexed, callVars>>

\* RunCapture reads the flag; from there on the run captures in that mode.
StartRun ==
  /\ runPc = "load"
  /\ mode' = flag
  /\ runPc' = "running"
  /\ UNCHANGED <<flag, stored, cancelled, sessDone, indexed, callVars>>

\* The pod's PID or network namespace is not found: doCapture returns.
StartFails ==
  /\ runPc = "load"
  /\ runPc' = "ended"
  /\ cancelled' = TRUE
  /\ UNCHANGED <<flag, stored, mode, sessDone, indexed, callVars>>

\* doCapture returns, because its context is done or because the capture
\* process ended by itself; runCapture then calls runCancel.
RunEnds ==
  /\ runPc = "running"
  /\ runPc' = "ended"
  /\ cancelled' = TRUE
  /\ UNCHANGED <<flag, stored, mode, sessDone, indexed, callVars>>

RunCancelled == cancelled /\ RunEnds

\* Faulty variant: the loop looks at the run context instead of the session's.
CheckRunContext ==
  /\ runPc = "ended"
  /\ runPc' = IF cancelled THEN "stopped" ELSE "debounce"
  /\ UNCHANGED <<flag, stored, mode, cancelled, sessDone, indexed, callVars>>


\* The first select on sessCtx.Done().
CheckSession ==
  /\ runPc = "ended"
  /\ runPc' = IF sessDone THEN "stopped" ELSE "debounce"
  /\ UNCHANGED <<flag, stored, mode, cancelled, sessDone, indexed, callVars>>

\* The second select: the session ends, or 100 ms pass (either, when both can).
StopInDebounce ==
  /\ runPc = "debounce"
  /\ sessDone
  /\ runPc' = "stopped"
  /\ UNCHANGED <<flag, stored, mode, cancelled, sessDone, indexed, callVars>>

DebounceOver ==
  /\ runPc = "debounce"
  /\ runPc' = "top"
  /\ UNCHANGED <<flag, stored, mode, cancelled, sessDone, indexed, callVars>>
-----------------------------------------------------------------------------
(* EnableTshark (b = TRUE) and DisableTshark (b = FALSE). *)

\* Lookup in sessionIndex under Manager.mu; a missing entry is an error reply.
Lookup(h, b) ==
  /\ callPc[h] = "idle"
  /\ indexed
  /\ callPc' = [callPc EXCEPT ![h] = "swap"]
  /\ callArg' = [callArg EXCEPT ![h] = b]
  /\ UNCHANGED <<flag, stored, runVars, cancelled, sessDone, indexed, callCancel>>

\* Faulty variant: disabling only clears the flag, for the next run to see.
SwapLazyDisable(h) ==
  /\ callPc[h] = "swap"
  /\ flag' = callArg[h]
  /\ callPc' = [callPc EXCEPT ![h] = IF callArg[h] /\ ~flag THEN "read" ELSE "idle"]
  /\ UNCHANGED <<stored, runVars, cancelled, sessDone, indexed, callArg, callCancel>>

\* tsharkEnabled.Swap(b): only the call that changes the flag goes on.
Swap(h) ==
  /\ callPc[h] = "swap"
  /\ flag' = callArg[h]
  /\ callPc' = [callPc EXCEPT ![h] = IF flag # callArg[h] THEN "read" ELSE "idle"]
  /\ UNCHANGED <<stored, runVars, cancelled, sessDone, indexed, callArg, callCancel>>

\* Read tsharkCancel under session.mu.
ReadCancel(h) ==
  /\ callPc[h] = "read"
  /\ callCancel' = [callCancel EXCEPT ![h] = stored]
  /\ callPc' = [callPc EXCEPT ![h] = "cancel"]
  /\ UNCHANGED <<flag, stored, runVars, cancelled, sessDone, indexed, callArg>>

\* Call what was read, outside the lock, when it is not nil.
CallCancel(h) ==
  /\ callPc[h] = "cancel"
  /\ cancelled' = (cancelled \/ callCancel[h] = Current)
  /\ callPc' = [callPc EXCEPT ![h] = "idle"]
  /\ callCancel' = [callCancel EXCEPT ![h] = Nil]
  /\ UNCHANGED <<flag, stored, runVars, sessDone, indexed, callArg>>
-----------------------------------------------------------------------------
(* The end of the session. *)

\* Reconcile finds the session stale: cancel it and drop it from the index.
StopSession ==
  /\ ~sessDone
  /\ sessDone' = TRUE
  /\ cancelled' = TRUE
  /\ indexed' = FALSE
  /\ UNCHANGED <<flag, stored, runVars, callVars>>

\* Agent shutdown: StopAll cancels the session but leaves the index alone.
StopAll ==
  /\ ~sessDone
  /\ sessDone' = TRUE
  /\ cancelled' = TRUE
  /\ UNCHANGED <<flag, stored, runVars, indexed, callVars>>
-----------------------------------------------------------------------------
Runner ==
  \/ NewRun \/ StoreCancel \/ StartRun \/ StartFails \/ RunEnds
  \/ CheckSession \/ StopInDebounce \/ DebounceOver

Call(h) ==
  \/ \E b \in BOOLEAN: Lookup(h, b)
  \/ Swap(h) \/ ReadCancel(h) \/ CallCancel(h)

Next == Runner \/ (\E h \in Calls: Call(h)) \/ StopSession \/ StopAll

\* The goroutines are scheduled; a run is only sure to end once cancelled.
Fairness ==
  /\ WF_vars(NewRun) /\ WF_vars(StoreCancel) /\ WF_vars(StartRun \/ StartFails)
  /\ WF_vars(RunCancelled) /\ WF_vars(CheckSession)
  /\ WF_vars(StopInDebounce \/ DebounceOver)
  /\ \A h \in Calls: WF_vars(Swap(h) \/ ReadCancel(h) \/ CallCancel(h))

Spec == Init /\ [][Next]_vars /\ Fairness

\* A session that tries to start again and again succeeds in the end.
LiveSpec == Spec /\ SF_vars(StartRun)
-----------------------------------------------------------------------------
(* Properties. *)

\* Call h has changed the flag and will still cancel the run in progress.
WillCancel(h) ==
  \/ callPc[h] = "read"
  \/ callPc[h] = "cancel" /\ callCancel[h] = Current

\* Wherever the toggles race with the restart loop, a run that captures in a
\* mode other than the flag's is already cancelled or some call is about to
\* cancel it: no toggle is lost between reading the flag and storing the
\* cancel function (runCapture, RunCapture, EnableTshark, DisableTshark).
NoLostToggle ==
  runPc = "running" /\ mode # flag =>
    cancelled \/ \E h \in Calls: WillCancel(h)

\* As long as nobody changes the flag any more, the session keeps capturing in
\* its mode: the restart the last toggle asked for does happen, and the debounce
\* and failed starts delay it but do not lose it (runCapture's loop). Assumes
\* that the pod's network namespace is found every so often: see LiveSpec.
CapturesInFlagMode ==
  \A b \in BOOLEAN:
    <>[](flag = b /\ ~sessDone) => []<>(runPc = "running" /\ mode = b)

\* The runCapture goroutine of a cancelled session ends, wherever it was: no
\* goroutine is left behind by Reconcile or by shutdown. The debounce select
\* may take its timer, so one more run may be started, already cancelled.
StoppedSessionEnds == sessDone ~> runPc = "stopped"

\* The session implements the abstract mode switch.
Switch == INSTANCE ModeSwitch WITH
  want <- IF flag THEN "on" ELSE "off",
  have <- IF runPc # "running" THEN "none" ELSE IF mode THEN "on" ELSE "off"

ImplementsModeSwitch == Switch!Spec
=============================================================================
