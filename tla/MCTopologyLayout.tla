-------------------------- MODULE MCTopologyLayout --------------------------
(* A core with an uplink classifier that loses a PSA-UPF, the classifier, both
   PSA-UPFs, a network function of the top row or its whole user plane, and a
   core with one UPF. *)
EXTENDS TopologyLayout

MCTypeOf == <<"AMF", "NRF", "SMF", "UDM", "iUPF", "PSA", "PSA", "UPF",
              "gNB", "UE", "DN", "DN">>
Udm == 4
Iupf == 5
Psa1 == 6
Psa2 == 7
Upf == 8
Dn1 == 11
Dn2 == 12
MCServedBy == [n \in Nodes |->
  CASE n = Dn1 -> {Psa1, Upf} [] n = Dn2 -> {Psa2} [] OTHER -> {}]

Control == {n \in Nodes: MCTypeOf[n] \in {"AMF", "NRF", "SMF", "UDM", "gNB", "UE"}}
Full == Nodes \ {Upf}
MCGraphs == {Full, Full \ {Psa2, Dn2}, Full \ {Udm}, Control,
             Control \cup {Upf, Dn1}, Control \cup {Psa1, Dn1},
             Control \cup {Iupf, Dn1}}
MCDraggable == {Psa1, Dn1, Udm}
MCPlaces == {At(900, 300)}
=============================================================================
