------------------------- MODULE AgentSessionProofs -------------------------
(***************************************************************************)
(* Type correctness of AgentSession and the safety of its toggles, for any *)
(* set of concurrent calls.                                                *)
(***************************************************************************)
EXTENDS AgentSession, TLAPS

\* A step of the specification keeps every value in its type.
LEMMA TypeStep == TypeOK /\ [Next]_vars => TypeOK'
<1> SUFFICES ASSUME TypeOK, [Next]_vars PROVE TypeOK'
  OBVIOUS
<1> USE DEF TypeOK, Nil, Current, Old
<1>1. CASE Runner
  BY <1>1 DEF Runner, NewRun, StoreCancel, StartRun, StartFails, RunEnds,
              CheckSession, StopInDebounce, DebounceOver, Aged, callVars
<1>2. ASSUME NEW h \in Calls, Call(h) PROVE TypeOK'
  BY <1>2 DEF Call, Lookup, Swap, ReadCancel, CallCancel, runVars
<1>3. CASE StopSession \/ StopAll
  BY <1>3 DEF StopSession, StopAll, runVars, callVars
<1>4. CASE UNCHANGED vars
  BY <1>4 DEF vars, callVars
<1> QED
  BY <1>1, <1>2, <1>3, <1>4 DEF Next

\* Every value stays in its type, for any set of concurrent calls.
THEOREM TypeCorrect == Spec => []TypeOK
<1>1. Init => TypeOK
  BY DEF Init, TypeOK, Nil, Current, Old
<1> QED
  BY <1>1, TypeStep, PTL DEF Spec

\* NoLostToggle is not inductive by itself: a call that reads the stored
\* cancel function must get the current run's. StoreCancel comes before
\* StartRun, so that holds from the moment the mode is read.
IInv ==
  /\ TypeOK
  /\ runPc \in {"load", "running"} => stored = Current
  /\ NoLostToggle

\* A toggle that races with the restart loop is never lost: a run in the wrong
\* mode is cancelled or about to be, for any set of concurrent calls.
THEOREM ToggleSafe == Spec => []NoLostToggle
<1>1. Init => IInv
  BY DEF Init, IInv, TypeOK, NoLostToggle, Nil, Current, Old
<1>2. IInv /\ [Next]_vars => IInv'
  <2> SUFFICES ASSUME IInv, [Next]_vars PROVE IInv'
    OBVIOUS
  <2> USE DEF IInv, NoLostToggle, WillCancel
  <2>0. TypeOK'
    BY TypeStep
  <2>1. CASE Runner
    <3>1. CASE NewRun \/ StoreCancel
      BY <2>0, <3>1 DEF NewRun, StoreCancel
    <3>2. CASE StartRun
      BY <2>0, <3>2 DEF StartRun
    <3>3. CASE StartFails \/ RunEnds \/ CheckSession \/ StopInDebounce \/ DebounceOver
      BY <2>0, <3>3 DEF StartFails, RunEnds, CheckSession, StopInDebounce, DebounceOver
    <3> QED
      BY <2>1, <3>1, <3>2, <3>3 DEF Runner
  <2>2. ASSUME NEW h \in Calls, Call(h) PROVE IInv'
    <3>1. ASSUME NEW b \in BOOLEAN, Lookup(h, b) PROVE IInv'
      BY <2>0, <3>1 DEF Lookup, TypeOK, runVars
    <3>2. CASE Swap(h)
      BY <2>0, <3>2 DEF Swap, TypeOK, runVars
    <3>3. CASE ReadCancel(h)
      BY <2>0, <3>3 DEF ReadCancel, TypeOK, runVars
    <3>4. CASE CallCancel(h)
      BY <2>0, <3>4 DEF CallCancel, TypeOK, runVars
    <3> QED
      BY <2>2, <3>1, <3>2, <3>3, <3>4 DEF Call
  <2>3. CASE StopSession \/ StopAll
    BY <2>0, <2>3 DEF StopSession, StopAll, runVars, callVars
  <2>4. CASE UNCHANGED vars
    BY <2>0, <2>4 DEF vars, callVars
  <2> QED
    BY <2>1, <2>2, <2>3, <2>4 DEF Next
<1>3. IInv => NoLostToggle
  BY DEF IInv
<1> QED
  BY <1>1, <1>2, <1>3, PTL DEF Spec

\* Every step of the session is a step of the abstract mode switch or none: a
\* capture starts in the mode wanted at that moment and keeps it while it runs.
THEOREM RefinesModeSwitch == Spec => Switch!SafeSpec
<1>1. Init => Switch!Init
  BY DEF Init, Switch!Init, Switch!Off, Switch!None
<1>2. TypeOK /\ [Next]_vars => [Switch!Next]_(Switch!vars)
  <2> SUFFICES ASSUME TypeOK, [Next]_vars PROVE [Switch!Next]_(Switch!vars)
    OBVIOUS
  <2> USE DEF Switch!vars
  <2>1. CASE Runner
    <3>1. CASE StartRun
      BY <3>1 DEF StartRun, Switch!Next, Switch!StartCapture, Switch!None
    <3>2. CASE RunEnds
      BY <3>2 DEF RunEnds, Switch!Next, Switch!StopCapture, Switch!None
    <3>3. CASE NewRun \/ StoreCancel \/ StartFails \/ CheckSession
                 \/ StopInDebounce \/ DebounceOver
      BY <3>3 DEF NewRun, StoreCancel, StartFails, CheckSession,
                  StopInDebounce, DebounceOver
    <3> QED
      BY <2>1, <3>1, <3>2, <3>3 DEF Runner
  <2>2. ASSUME NEW h \in Calls, Call(h) PROVE [Switch!Next]_(Switch!vars)
    <3>1. CASE Swap(h)
      <4>1. UNCHANGED <<runPc, mode>> /\ flag' \in BOOLEAN
        BY <3>1 DEF Swap, runVars, TypeOK
      <4> QED
        BY <4>1 DEF Switch!Next, Switch!Ask, Switch!On, Switch!Off
    <3>2. ASSUME (\E b \in BOOLEAN: Lookup(h, b)) \/ ReadCancel(h) \/ CallCancel(h)
          PROVE UNCHANGED <<flag, runPc, mode>>
      BY <3>2 DEF Lookup, ReadCancel, CallCancel, runVars
    <3> QED
      BY <2>2, <3>1, <3>2 DEF Call
  <2>3. CASE StopSession \/ StopAll
    BY <2>3 DEF StopSession, StopAll, runVars
  <2>4. CASE UNCHANGED vars
    BY <2>4 DEF vars
  <2> QED
    BY <2>1, <2>2, <2>3, <2>4 DEF Next
<1> QED
  BY <1>1, <1>2, TypeCorrect, PTL DEF Spec, Switch!SafeSpec
=============================================================================
