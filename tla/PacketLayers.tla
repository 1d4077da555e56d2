----------------------------- MODULE PacketLayers -----------------------------
(***************************************************************************)
(* What the decode panel shows of one frame without sharkd: the fields     *)
(* that parseInfoFields finds in tshark's info text, dealt out to layers   *)
(* by DecodeTree; and the bytes HexPanel reads out of the string it gets.  *)
(* A field is its key: which of them a text yields is tshark's business,   *)
(* so any subset of the keys the parser looks for is considered.           *)
(***************************************************************************)
EXTENDS Naturals

Transports == {"TCP", "UDP", "SCTP"}

\* The protocol names the two switches and the layers know, and one they do not.
KnownProtocols ==
  Transports \cup {"HTTP", "HTTP/2", "TLS", "HTTPS", "GTP-U", "PFCP", "DNS",
    "DHCP", "VXLAN", "NGAP", "S1AP", "X2AP", "M3AP", "ARP"}
Protocols == KnownProtocols \cup {"OTHER"}

\* Faulty variant: one of the protocols over SCTP is forgotten.
TransportForgetful(p) ==
  CASE p \in {"HTTP", "HTTP/2", "TLS", "HTTPS"}              -> "TCP"
    [] p \in {"GTP-U", "PFCP", "DNS", "DHCP", "VXLAN"}       -> "UDP"
    [] p \in {"NGAP", "S1AP", "M3AP"}                        -> "SCTP"
    [] OTHER                                                 -> "none"

\* The transport under an application protocol; a transport has none.
TransportFor(p) ==
  CASE p \in {"HTTP", "HTTP/2", "TLS", "HTTPS"}              -> "TCP"
    [] p \in {"GTP-U", "PFCP", "DNS", "DHCP", "VXLAN"}       -> "UDP"
    [] p \in {"NGAP", "S1AP", "X2AP", "M3AP"}                -> "SCTP"
    [] OTHER                                                 -> "none"

ActualTransport(p) == IF p \in Transports THEN p ELSE TransportFor(p)

TcpKeys ==
  {"Flags", "Sequence Number", "Acknowledgment Number", "Window", "Data Length"}
SctpKeys == {"Chunk Type", "Chunk Length"}
InnerKeys == {"Inner Source", "Inner Destination", "Inner Protocol"}

\* The keys parseInfoFields looks for in the info of a frame of protocol p.
ParsedKeys(p) ==
  CASE p \in {"TCP", "HTTP"}               -> TcpKeys
    [] p = "HTTP/2"                        -> TcpKeys \cup
         {"Frame Type", "Stream ID", ":status", ":method", ":path"}
    [] p \in {"SCTP", "NGAP", "S1AP", "X2AP"} -> SctpKeys
    [] p = "GTP-U"                         -> {"Message Type", "TEID"} \cup InnerKeys
    [] p = "PFCP"                          -> {"Message Type", "Sequence Number", "SEID"}
    [] p = "DNS"                           -> {"Message Type", "Transaction ID",
                                               "Query Type", "Query Name", "Answer"}
    [] p = "ARP"                           -> {"Opcode"}
    [] OTHER                               -> {}

\* Fields that belong neither to TCP nor to an SCTP chunk, by key alone.
AppKeys(F) == F \ (TcpKeys \cup SctpKeys)

\* The layer of the transport with the fields it shows; SCTP's chunk layer is
\* there only when it has a field.
TransportLayers(p, F) ==
  CASE ActualTransport(p) = "TCP"  -> {[layer |-> "TCP", keys |-> F \cap TcpKeys]}
    [] ActualTransport(p) = "UDP"  -> {[layer |-> "UDP", keys |-> {}]}
    [] ActualTransport(p) = "SCTP" ->
         {[layer |-> "SCTP", keys |-> {}]} \cup
         (IF F \cap SctpKeys = {} THEN {}
          ELSE {[layer |-> "SCTP chunk", keys |-> F \cap SctpKeys]})
    [] OTHER                       -> {}

\* The layer above the transport; an unknown protocol shows all it has.
AppLayers(p, F) ==
  CASE p \in Transports -> {}
    [] p = "GTP-U" ->
         {[layer |-> p, keys |-> F \cap {"Message Type", "TEID"}]} \cup
         (IF F \cap InnerKeys = {} THEN {}
          ELSE {[layer |-> "GTP-U inner",
                 keys |-> AppKeys(F) \ {"Message Type", "TEID"}]})
    [] p \in {"PFCP", "HTTP/2", "HTTP", "DNS", "ARP"} ->
         {[layer |-> p, keys |-> AppKeys(F)]}
    [] p \in {"NGAP", "S1AP", "X2AP"} -> {[layer |-> p, keys |-> {}]}
    [] OTHER -> {[layer |-> p, keys |-> F]}

DecodeTree(p, F) ==
  {[layer |-> "Frame", keys |-> {}], [layer |-> "IP", keys |-> {}]}
  \cup TransportLayers(p, F) \cup AppLayers(p, F)

LayersWith(p, F, k) == {l \in DecodeTree(p, F): k \in l.keys}

\* No layer comes twice, and every field found is in exactly one, except the
\* one that is partitioned by a key of another protocol.
ShownOnce(p) ==
  \A F \in SUBSET ParsedKeys(p):
    /\ \A k \in F:
         \/ p = "PFCP" /\ k = "Sequence Number"
         \/ \E l \in DecodeTree(p, F): LayersWith(p, F, k) = {l}
    /\ \A l, m \in DecodeTree(p, F): l.layer = m.layer => l = m
-----------------------------------------------------------------------------
(* HexPanel. *)

\* Bytes that atob returns for the encoding of a frame of n bytes: base64
\* gives them back, but the hex digits of the fallbacks are base64 digits too,
\* six bits each, and read as such.
DumpedBytes(encoding, n) ==
  IF encoding = "base64" THEN n ELSE (2 * n * 6) \div 8
=============================================================================
