----------------------------- MODULE MCReconcile -----------------------------
\* Reconcile with two namespaces, three pods of which two are one after the
\* other under the same name, and two interfaces.
EXTENDS Reconcile

CONSTANTS smf1, smf2, upf, core, edge, eth0, n4

MCPods       == {smf1, smf2, upf}
MCNamespaces == {core, edge}
MCIfaces     == {eth0, n4}
MCEth0       == eth0
MCNsOf       == [u \in MCPods |-> IF u = upf THEN edge ELSE core]
MCNameOf     == [u \in MCPods |-> IF u = upf THEN "edge/upf" ELSE "core/smf"]
MCIfacesOf   == [u \in MCPods |-> IF u = upf THEN {n4} ELSE {eth0, n4}]
=============================================================================
