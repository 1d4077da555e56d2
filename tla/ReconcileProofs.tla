--------------------------- MODULE ReconcileProofs ---------------------------
(***************************************************************************)
(* Type correctness of Reconcile and the exactness of the session index,   *)
(* for any pods, namespaces and interfaces.                                *)
(***************************************************************************)
EXTENDS Reconcile, TLAPS

LEMMA WantedType ==
  ASSUME NEW P \in SUBSET Pods, NEW ann
  PROVE  /\ Wanted(P, ann) \in SUBSET Keys
         /\ \A k \in Wanted(P, ann): k[1] \in P
<1>1. \A u \in Pods: InterfacesOf(u, ann) \subseteq Ifaces
  BY PodsAssumption DEF InterfacesOf
<1> QED
  BY <1>1 DEF Wanted, Keys

\* A session key is its pod and its interface, and its ID is what the pod's
\* name and the interface say.
LEMMA KeyID ==
  ASSUME NEW k \in Keys, NEW l \in Keys
  PROVE  /\ k = l <=> k[1] = l[1] /\ k[2] = l[2]
         /\ SessionID(k) = SessionID(l) <=> NameOf[k[1]] = NameOf[l[1]] /\ k[2] = l[2]
  BY DEF Keys, SessionID

\* At any time a name is used by one running pod only.
RunningUnique == \A u, w \in running: NameOf[u] = NameOf[w] => u = w

\* The pods listed so far are of namespaces listed already, and no two of them
\* have the same name: a namespace is listed at one moment.
ListedUnique ==
  /\ \A k \in listed: NsOf[k[1]] \notin todo
  /\ \A k, l \in listed: NameOf[k[1]] = NameOf[l[1]] => k[1] = l[1]

\* What makes IndexExact inductive: the IDs of the sessions are distinct, which
\* they are because those of the list are.
IInv ==
  /\ TypeOK
  /\ RunningUnique
  /\ ListedUnique
  /\ OneSessionPerID
  /\ IndexExact

\* A step of the specification keeps every value in its type.
LEMMA TypeStep == IInv /\ [Next]_vars => TypeOK'
<1> SUFFICES ASSUME IInv, [Next]_vars PROVE TypeOK'
  OBVIOUS
<1> USE DEF IInv, TypeOK
<1>1. CASE Cluster
  BY <1>1 DEF Cluster, PodStarts, PodEnds, PodAnnotated, roundVars, managerVars
<1>2. ASSUME NEW ns \in Namespaces, List(ns) PROVE TypeOK'
  <2>1. Wanted({u \in running: NsOf[u] = ns}, annotated) \in SUBSET Keys
    BY WantedType
  <2> QED
    BY <1>2, <2>1 DEF List, clusterVars, managerVars
<1>3. ASSUME NEW ns \in Namespaces, ListFails(ns) PROVE TypeOK'
  BY <1>3 DEF ListFails, clusterVars, managerVars
<1>4. CASE DoReconcile
  <2>1. Wanted(running, annotated) \in SUBSET Keys
    BY WantedType
  <2>2. index' \in SUBSET (SessionIDs(Keys) \X Keys)
    BY <1>4 DEF DoReconcile, Fresh, SessionIDs
  <2>3. sessions' \in SUBSET Keys /\ enabled' \in SUBSET sessions'
    BY <1>4 DEF DoReconcile, Fresh, Stale
  <2> QED
    BY <1>4, <2>1, <2>2, <2>3 DEF DoReconcile, NextRound, clusterVars
<1>5. ASSUME NEW e \in index, Enable(e) \/ Disable(e) PROVE TypeOK'
  <2>1. e[2] \in sessions
    BY <1>5 DEF IndexExact
  <2> QED
    BY <1>5, <2>1 DEF Enable, Disable, clusterVars, roundVars
<1>6. CASE UNCHANGED vars
  BY <1>6 DEF vars, clusterVars, roundVars, managerVars
<1> QED
  BY <1>1, <1>2, <1>3, <1>4, <1>5, <1>6 DEF Next, Round

\* Reconciling makes the sessions those of the list and the index theirs.
LEMMA ReconcileExact ==
  ASSUME IInv, DoReconcile
  PROVE  sessions' = listed /\ OneSessionPerID' /\ IndexExact'
<1> USE DEF IInv
<1>1. sessions' = listed
  BY DEF DoReconcile, Stale, Fresh
<1>2. \A k, l \in listed: SessionID(k) = SessionID(l) => k = l
  BY KeyID DEF ListedUnique, TypeOK
<1>3. OneSessionPerID'
  BY <1>1, <1>2 DEF OneSessionPerID
<1>4. ASSUME NEW k \in listed PROVE <<SessionID(k), k>> \in index'
  <2>1. CASE k \in Fresh
    BY <2>1 DEF DoReconcile
  <2>2. CASE k \in sessions
    <3>1. SessionID(k) \notin SessionIDs(Stale)
      BY <1>4, <2>2 DEF OneSessionPerID, SessionIDs, Stale
    <3>2. SessionID(k) \notin SessionIDs(Fresh)
      BY <1>2, <1>4, <2>2 DEF SessionIDs, Fresh
    <3> QED
      BY <2>2, <3>1, <3>2 DEF DoReconcile, IndexExact
  <2> QED
    BY <1>4, <2>1, <2>2 DEF Fresh
<1>5. ASSUME NEW e \in index' PROVE \E k \in listed: e = <<SessionID(k), k>>
  <2>1. CASE \E k \in Fresh: e = <<SessionID(k), k>>
    BY <2>1 DEF Fresh
  <2>2. CASE e \in index /\ e[1] \notin SessionIDs(Stale)
    <3>1. PICK k \in sessions: e = <<SessionID(k), k>>
      BY <2>2 DEF IndexExact
    <3>2. k \notin Stale
      BY <2>2, <3>1 DEF SessionIDs
    <3> QED
      BY <3>1, <3>2 DEF Stale
  <2> QED
    BY <1>5, <2>1, <2>2 DEF DoReconcile
<1>6. IndexExact'
  BY <1>1, <1>4, <1>5 DEF IndexExact, SessionID
<1> QED
  BY <1>1, <1>3, <1>6

LEMMA InvStep == IInv /\ [Next]_vars => IInv'
<1> SUFFICES ASSUME IInv, [Next]_vars PROVE IInv'
  OBVIOUS
<1> USE DEF IInv
<1>0. TypeOK'
  BY TypeStep
<1>1. CASE Cluster
  <2>1. UNCHANGED <<roundVars, managerVars>>
    BY <1>1 DEF Cluster, PodStarts, PodEnds, PodAnnotated
  <2>2. RunningUnique'
    BY <1>1 DEF Cluster, PodStarts, PodEnds, PodAnnotated, RunningUnique
  <2> QED
    BY <1>0, <2>1, <2>2 DEF roundVars, managerVars, ListedUnique, OneSessionPerID, IndexExact
<1>2. ASSUME NEW ns \in Namespaces, List(ns) PROVE IInv'
  <2> DEFINE new == Wanted({u \in running: NsOf[u] = ns}, annotated)
  <2>1. new \in SUBSET Keys /\ \A k \in new: k[1] \in running /\ NsOf[k[1]] = ns
    BY WantedType DEF TypeOK
  <2>2. \A k \in listed': NsOf[k[1]] \notin todo'
    BY <1>2, <2>1 DEF List, ListedUnique
  <2>3. \A k, l \in listed': NameOf[k[1]] = NameOf[l[1]] => k[1] = l[1]
    <3> SUFFICES ASSUME NEW k \in listed', NEW l \in listed', NameOf[k[1]] = NameOf[l[1]]
                 PROVE  k[1] = l[1]
      OBVIOUS
    <3>1. k \in Keys /\ l \in Keys
      BY <1>0 DEF TypeOK
    <3>2. k[1] \in Pods /\ l[1] \in Pods
      BY <3>1 DEF Keys
    <3>3. NsOf[k[1]] = NsOf[l[1]]
      BY <3>2, PodsAssumption
    <3>4. CASE k \in new /\ l \in new
      BY <2>1, <3>4 DEF RunningUnique
    <3>5. CASE k \in listed /\ l \in listed
      BY <3>5 DEF ListedUnique
    <3>6. ~(k \in new /\ l \in listed) /\ ~(k \in listed /\ l \in new)
      BY <1>2, <2>1, <3>3 DEF List, ListedUnique
    <3> QED
      BY <1>2, <3>4, <3>5, <3>6 DEF List
  <2> HIDE DEF new
  <2>4. UNCHANGED <<clusterVars, managerVars>>
    BY <1>2 DEF List
  <2> QED
    BY <1>0, <2>2, <2>3, <2>4
       DEF clusterVars, managerVars, RunningUnique, ListedUnique, OneSessionPerID, IndexExact
<1>3. ASSUME NEW ns \in Namespaces, ListFails(ns) PROVE IInv'
  BY <1>0, <1>3 DEF ListFails, clusterVars, managerVars, RunningUnique, ListedUnique,
                    OneSessionPerID, IndexExact
<1>4. CASE DoReconcile
  <2>1. ListedUnique' /\ RunningUnique'
    BY <1>4 DEF DoReconcile, NextRound, clusterVars, ListedUnique, RunningUnique
  <2> QED
    BY <1>0, <1>4, <2>1, ReconcileExact
<1>5. ASSUME NEW e \in index, Enable(e) \/ Disable(e) PROVE IInv'
  BY <1>0, <1>5 DEF Enable, Disable, clusterVars, roundVars, RunningUnique, ListedUnique,
                    OneSessionPerID, IndexExact
<1>6. CASE UNCHANGED vars
  BY <1>0, <1>6 DEF vars, clusterVars, roundVars, managerVars, RunningUnique, ListedUnique,
                    OneSessionPerID, IndexExact
<1> QED
  BY <1>1, <1>2, <1>3, <1>4, <1>5, <1>6 DEF Next, Round

LEMMA InvAlways == Spec => []IInv
<1>1. Init => IInv
  BY DEF Init, IInv, TypeOK, RunningUnique, ListedUnique, OneSessionPerID, IndexExact
<1> QED
  BY <1>1, InvStep, PTL DEF Spec

\* Every value stays in its type; only live sessions have their flag set.
THEOREM TypeCorrect == Spec => []TypeOK
<1>1. IInv => TypeOK
  BY DEF IInv
<1> QED
  BY <1>1, InvAlways, PTL

\* The index leads from each session's ID to that session and from no other
\* ID anywhere, whatever pods are replaced and whatever listings fail.
THEOREM IndexCorrect == Spec => []IndexExact
<1>1. IInv => IndexExact
  BY DEF IInv
<1> QED
  BY <1>1, InvAlways, PTL

\* No two sessions ever share an ID, so the index can be a map.
THEOREM SessionIDsUnique == Spec => []OneSessionPerID
<1>1. IInv => OneSessionPerID
  BY DEF IInv
<1> QED
  BY <1>1, InvAlways, PTL
-----------------------------------------------------------------------------
(* What a complete round keeps. *)

\* A lasting session is still wanted, and when no listing has failed it is on
\* the list or in a namespace yet to be listed.
LastingInv ==
  /\ TypeOK
  /\ lasting \subseteq Wanted(running, annotated)
  /\ ~partial => \A k \in lasting: k \in listed \/ NsOf[k[1]] \in todo

LEMMA WantedIs ==
  ASSUME NEW P \in SUBSET Pods, NEW ann, NEW k
  PROVE  k \in Wanted(P, ann) <=> \E u \in P: \E i \in InterfacesOf(u, ann): k = <<u, i>>
BY DEF Wanted

LEMMA LastingStep == LastingInv /\ TypeOK' /\ [Next]_vars => LastingInv'
<1> SUFFICES ASSUME LastingInv, TypeOK', [Next]_vars PROVE LastingInv'
  OBVIOUS
<1> USE DEF LastingInv
<1>1. CASE Cluster
  <2>1. UNCHANGED roundVars /\ lasting' \subseteq lasting
    BY <1>1 DEF Cluster, PodStarts, PodEnds, PodAnnotated
  <2>2. ASSUME NEW k \in lasting' PROVE k \in Wanted(running', annotated')
    <3>1. PICK w \in running: \E i \in InterfacesOf(w, annotated): k = <<w, i>>
      BY <2>1, WantedIs DEF TypeOK
    <3>2. PICK i \in InterfacesOf(w, annotated): k = <<w, i>>
      BY <3>1
    <3>3. i \in Ifaces /\ w \in Pods
      BY <3>2, PodsAssumption DEF InterfacesOf, TypeOK
    <3>4. w \in running'
      BY <1>1, <2>2, <3>2, <3>3 DEF Cluster, PodStarts, PodEnds, PodAnnotated
    <3>5. i \in InterfacesOf(w, annotated')
      BY <1>1, <2>2, <3>2, <3>3 DEF Cluster, PodStarts, PodEnds, PodAnnotated, InterfacesOf
    <3> QED
      BY <3>2, <3>4, <3>5, WantedIs DEF TypeOK
  <2> QED
    BY <2>1, <2>2 DEF roundVars
<1>2. ASSUME NEW ns \in Namespaces, List(ns) PROVE LastingInv'
  <2> DEFINE here == {u \in running: NsOf[u] = ns}
  <2>1. ASSUME NEW k \in lasting, NsOf[k[1]] = ns PROVE k \in Wanted(here, annotated)
    <3>1. PICK w \in running: \E i \in InterfacesOf(w, annotated): k = <<w, i>>
      BY WantedIs DEF TypeOK
    <3>2. w \in here
      BY <2>1, <3>1
    <3> QED
      BY <3>1, <3>2, WantedIs DEF TypeOK
  <2> QED
    BY <1>2, <2>1 DEF List, clusterVars
<1>3. ASSUME NEW ns \in Namespaces, ListFails(ns) PROVE LastingInv'
  BY <1>3 DEF ListFails, clusterVars
<1>4. CASE DoReconcile
  <2>1. ASSUME NEW k \in Wanted(running, annotated) PROVE NsOf[k[1]] \in Namespaces
    BY <2>1, WantedType, PodsAssumption DEF TypeOK
  <2> QED
    BY <1>4, <2>1 DEF DoReconcile, NextRound, clusterVars
<1>5. ASSUME NEW e \in index, Enable(e) \/ Disable(e) PROVE LastingInv'
  BY <1>5 DEF Enable, Disable, clusterVars, roundVars
<1>6. CASE UNCHANGED vars
  BY <1>6 DEF vars, clusterVars, roundVars
<1> QED
  BY <1>1, <1>2, <1>3, <1>4, <1>5, <1>6 DEF Next, Round

\* A round whose listings all succeeded stops no session that was wanted all
\* the while and clears no flag of one, although the namespaces were listed one
\* after the other (listPods, Reconcile).
THEOREM CompleteRoundSafe == Spec => CompleteRoundKeepsSessions
<1>1. Init => LastingInv
  BY DEF Init, LastingInv, TypeOK
<1>2. Spec => []TypeOK
  BY TypeCorrect
<1>3. Spec => []LastingInv
  BY <1>1, <1>2, LastingStep, PTL DEF Spec
<1>4. LastingInv /\ [Next]_vars =>
        [ DoReconcile /\ ~partial =>
            /\ sessions \cap lasting \subseteq sessions'
            /\ enabled \cap lasting \subseteq enabled' ]_vars
  BY DEF LastingInv, DoReconcile, Stale, Fresh
<1> QED
  BY <1>3, <1>4, PTL DEF Spec, CompleteRoundKeepsSessions
=============================================================================
