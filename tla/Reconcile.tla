------------------------------ MODULE Reconcile ------------------------------
(***************************************************************************)
(* The agent's capture sessions over time: Discovery lists the running     *)
(* pods of the target namespaces one by one, skipping a namespace whose    *)
(* listing fails, and Manager.Reconcile makes the session map and its      *)
(* index by session ID follow that list.  Pods come and go meanwhile; a    *)
(* pod that is replaced keeps its name and has a new UID.                  *)
(***************************************************************************)
EXTENDS FiniteSets

CONSTANTS
  Pods,          \* pod UIDs
  Namespaces,    \* target namespaces, listed in turn
  Ifaces,        \* interface names
  Eth0,          \* the one assumed without a network-status annotation
  NsOf,          \* [Pods -> Namespaces]
  NameOf,        \* [Pods -> namespace/name]
  IfacesOf       \* [Pods -> the interfaces in the annotation, once there]

ASSUME PodsAssumption ==
  /\ Eth0 \in Ifaces
  /\ NsOf \in [Pods -> Namespaces]
  /\ IfacesOf \in [Pods -> (SUBSET Ifaces) \ {{}}]
  /\ \A u, w \in Pods: NameOf[u] = NameOf[w] => NsOf[u] = NsOf[w]

VARIABLES
  running,     \* pods in phase Running on this node
  started,     \* pods that have been running at some time
  annotated,   \* pods whose network-status annotation is there
  todo,        \* namespaces this round has still to list
  listed,      \* desired sessions collected so far in this round
  lasting,     \* sessions wanted ever since this round began, a history
  partial,     \* a listing of this round has failed, a history
  sessions,    \* Manager.sessions, as the set of its keys
  index,       \* Manager.sessionIndex, as pairs of session ID and key
  enabled      \* the sessions whose tshark flag is set

clusterVars == <<running, started, annotated>>
roundVars   == <<todo, listed, partial>>
managerVars == <<sessions, index, enabled>>
vars == <<clusterVars, roundVars, lasting, managerVars>>

Keys == Pods \X Ifaces                       \* sessionKey
SessionID(k) == <<NameOf[k[1]], k[2]>>       \* "ns/pod/iface"
SessionIDs(K) == {SessionID(k): k \in K}

\* parseInterfaces: what the annotation says, or eth0.
InterfacesOf(u, ann) == IF u \in ann THEN IfacesOf[u] ELSE {Eth0}

Wanted(P, ann) == UNION {{<<u, i>>: i \in InterfacesOf(u, ann)}: u \in P}

TypeOK ==
  /\ running \in SUBSET Pods /\ started \in SUBSET Pods /\ annotated \in SUBSET Pods
  /\ todo \in SUBSET Namespaces
  /\ listed \in SUBSET Keys /\ lasting \in SUBSET Keys
  /\ partial \in BOOLEAN
  /\ sessions \in SUBSET Keys
  /\ index \in SUBSET ((SessionIDs(Keys)) \X Keys)
  /\ enabled \in SUBSET sessions

Init ==
  /\ running = {} /\ started = {} /\ annotated = {}
  /\ todo = Namespaces /\ listed = {} /\ lasting = {} /\ partial = FALSE
  /\ sessions = {} /\ index = {} /\ enabled = {}
-----------------------------------------------------------------------------
(* The cluster. A name is in use by one pod at a time. *)

PodStarts(u) ==
  /\ u \notin started
  /\ \A w \in running: NameOf[w] # NameOf[u]
  /\ running' = running \cup {u}
  /\ started' = started \cup {u}
  /\ UNCHANGED <<annotated, roundVars, lasting, managerVars>>

PodEnds(u) ==
  /\ u \in running
  /\ running' = running \ {u}
  /\ lasting' = lasting \ ({u} \X Ifaces)
  /\ UNCHANGED <<started, annotated, roundVars, managerVars>>

\* Multus writes the annotation some time after the pod is there.
PodAnnotated(u) ==
  /\ u \in running \ annotated
  /\ annotated' = annotated \cup {u}
  /\ lasting' = lasting \ ({u} \X (Ifaces \ IfacesOf[u]))
  /\ UNCHANGED <<running, started, roundVars, managerVars>>
-----------------------------------------------------------------------------
(* One round of Discovery.Run: listPods, then the callback. *)

\* Faulty variant: each namespace's pods replace those collected before.
ListOverwrites(ns) ==
  /\ ns \in todo
  /\ todo' = todo \ {ns}
  /\ listed' = Wanted({u \in running: NsOf[u] = ns}, annotated)
  /\ UNCHANGED <<clusterVars, partial, lasting, managerVars>>

List(ns) ==
  /\ ns \in todo
  /\ todo' = todo \ {ns}
  /\ listed' = listed \cup Wanted({u \in running: NsOf[u] = ns}, annotated)
  /\ UNCHANGED <<clusterVars, partial, lasting, managerVars>>

\* The API call fails: logged, and the next namespace is listed.
ListFails(ns) ==
  /\ ns \in todo
  /\ todo' = todo \ {ns}
  /\ partial' = TRUE
  /\ UNCHANGED <<clusterVars, listed, lasting, managerVars>>

NextRound ==
  /\ todo' = Namespaces
  /\ listed' = {}
  /\ partial' = FALSE
  /\ lasting' = Wanted(running, annotated)
  /\ UNCHANGED clusterVars

Stale == sessions \ listed
Fresh == listed \ sessions

\* Faulty variant: new sessions are entered before stale ones are removed.
ReconcileStartFirst ==
  /\ todo = {}
  /\ sessions' = (sessions \ Stale) \cup Fresh
  /\ index' = {e \in ({e \in index: e[1] \notin SessionIDs(Fresh)}
                        \cup {<<SessionID(k), k>>: k \in Fresh}):
                 e[1] \notin SessionIDs(Stale)}
  /\ enabled' = enabled \ Stale
  /\ NextRound

\* Faulty variant: a replaced pod's session is recognised by its ID.
ReconcileByName ==
  /\ todo = {}
  /\ LET new == {k \in Fresh: SessionID(k) \notin SessionIDs(sessions)}
     IN /\ sessions' = {k \in sessions: SessionID(k) \in SessionIDs(listed)} \cup new
        /\ index' = {e \in index: e[1] \in SessionIDs(listed)}
                      \cup {<<SessionID(k), k>>: k \in new}
  /\ enabled' = enabled \cap sessions'
  /\ NextRound

\* Manager.Reconcile, under Manager.mu throughout: stop the stale sessions,
\* dropping their index entries, then start and index the missing ones.
DoReconcile ==
  /\ todo = {}
  /\ sessions' = (sessions \ Stale) \cup Fresh
  /\ index' = {e \in index: e[1] \notin SessionIDs(Stale) \cup SessionIDs(Fresh)}
                \cup {<<SessionID(k), k>>: k \in Fresh}
  /\ enabled' = enabled \ Stale
  /\ NextRound
-----------------------------------------------------------------------------
(* EnableTshark and DisableTshark, as far as the index is concerned. *)

Enable(e) ==
  /\ e \in index
  /\ enabled' = enabled \cup {e[2]}
  /\ UNCHANGED <<clusterVars, roundVars, lasting, sessions, index>>

Disable(e) ==
  /\ e \in index
  /\ enabled' = enabled \ {e[2]}
  /\ UNCHANGED <<clusterVars, roundVars, lasting, sessions, index>>
-----------------------------------------------------------------------------
Cluster == \E u \in Pods: PodStarts(u) \/ PodEnds(u) \/ PodAnnotated(u)

Round == (\E ns \in Namespaces: List(ns)) \/ DoReconcile

Next ==
  \/ Cluster
  \/ Round
  \/ \E ns \in Namespaces: ListFails(ns)
  \/ \E e \in index: Enable(e) \/ Disable(e)

\* Discovery.Run's ticker keeps firing; a listing is answered or fails.
Fairness == WF_vars(Round \/ \E ns \in Namespaces: ListFails(ns))

Spec == Init /\ [][Next]_vars /\ Fairness
-----------------------------------------------------------------------------
(* Properties. *)

\* The index and the session map stay inverse to each other through every
\* replacement of pods under the same name: each session is found under its
\* ID, and no ID leads to a session that was stopped.
IndexExact == index = {<<SessionID(k), k>>: k \in sessions}

\* No two sessions share an ID, so that the index can be a map at all.
OneSessionPerID ==
  \A k, l \in sessions: SessionID(k) = SessionID(l) => k = l

\* After a round whose listings all succeeded, no session has been stopped
\* whose pod ran and wanted it ever since the round began, and it keeps its
\* tshark flag, whatever pods came and went while the namespaces were listed.
CompleteRoundKeepsSessions ==
  [][ DoReconcile /\ ~partial =>
        /\ sessions \cap lasting \subseteq sessions'
        /\ enabled \cap lasting \subseteq enabled' ]_vars

\* When the cluster comes to rest and the API server answers, the sessions end
\* up being those of the running pods, and stay so.
SessionsConverge ==
  <>[][~Cluster /\ \A ns \in Namespaces: ~ListFails(ns)]_vars
    => <>[](sessions = Wanted(running, annotated))

\* "Reconcile starts missing captures and stops stale ones": a session whose
\* pod has been running and listing it ever since the round began is not stale
\* and is not stopped.
OnlyStaleStopped ==
  [][DoReconcile => sessions \cap lasting \subseteq sessions']_vars
=============================================================================
