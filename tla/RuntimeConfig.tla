---------------------------- MODULE RuntimeConfig ----------------------------
(***************************************************************************)
(* The Xray config a device gets, built from the link the panel publishes  *)
(* for its client, for every inbound InboundMapping reaches: the end of    *)
(* the way from a profile through the inbound and the link to the device.  *)
(* A link's query is a record of parameters, Null where it has none.       *)
(***************************************************************************)
EXTENDS InboundMapping

Schemes(w) ==
  IF w.protocol = "shadowsocks" THEN {"ss"}
  ELSE IF w.protocol = "wireguard" THEN {"wireguard"}
  ELSE IF w.security = "reality" THEN {"vless", "trojan"}
  ELSE {"vless", "trojan", "vmess"}  \* which the row tells apart by name only

(* External: what the panel puts in a link, read off the parameter names   *)
(* the parsers look for; vmess carries the gRPC service name as its path.  *)
LinkOf(w, scheme) ==
  [scheme |-> scheme, user |-> "client", host |-> "node",
   query |->
     [type |-> w.network,
      security |-> IF scheme = "vmess" THEN Null ELSE w.security,
      tls |-> IF scheme = "vmess" /\ w.security = "tls" THEN "tls" ELSE Null,
      sni |-> StringAt(IF w.security = "reality" THEN w.reality.serverNames
                       ELSE w.tls.serverName),
      alpn |-> w.tls.alpn,
      pbk |-> StringAt(w.reality.publicKey), sid |-> StringAt(w.reality.shortIds),
      fp |-> StringAt(Or(w.reality.fingerprint, w.tls.fingerprint)),
      spx |-> StringAt(w.reality.spiderX),
      path |-> StringAt(IF scheme = "vmess" /\ w.network = "grpc"
                        THEN w.grpc.serviceName ELSE w.ws.path),
      host |-> StringAt(w.ws.host),
      serviceName |-> IF scheme = "vmess" THEN Null ELSE StringAt(w.grpc.serviceName),
      authority |-> StringAt(w.grpc.authority)]]

(* Where the links come from: the subscription link may be a node link     *)
(* itself, or name a page with links in plain text or base64.              *)
Sources == {"node link", "plain text", "base64", "no links", "http error"}
-----------------------------------------------------------------------------
(* Faulty variant of a definition below, for mutation of the runs.         *)
SniFromHostFirst(q) ==
  Or(q.host, Or(q.sni, q.host))
-----------------------------------------------------------------------------
(* resolveProviderLinks, extractSupportedLinks: only links of a scheme the *)
(* code knows count.                                                       *)
ResolvedLinks(source, link) ==
  IF source \in {"no links", "http error"} \/ link.scheme \notin {"vless", "trojan", "vmess", "ss"}
  THEN <<>> ELSE <<link>>

(* firstValue(params, 'sni', ..., 'host').                                 *)
ServerName(q) == Or(q.sni, q.host)

(* buildStreamSettings, for the networks InboundMapping knows.             *)
StreamSettings(network, security, q) ==
  IF network = "tcp" /\ security = "none" THEN [network |-> "tcp", security |-> "none"]
  ELSE
    [network |-> network, security |-> security,
     serverName |-> IF security \in {"tls", "reality"} THEN ServerName(q) ELSE Null,
     alpn |-> IF security = "tls" THEN q.alpn ELSE Null,
     publicKey |-> IF security = "reality" THEN q.pbk ELSE Null,
     shortId |-> IF security = "reality" THEN q.sid ELSE Null,
     fingerprint |-> IF security = "reality" THEN q.fp ELSE Null,
     path |-> IF network \in {"ws", "h2"} THEN Or(q.path, "/") ELSE Null,
     host |-> CASE network = "ws" -> Or(q.host, Or(q.authority, q.sni))
                [] network = "h2" -> q.host
                [] OTHER -> Null,
     serviceName |-> IF network = "grpc" THEN Or(q.serviceName, q.path) ELSE Null,
     authority |-> IF network = "grpc" THEN Or(q.authority, Or(q.host, q.sni)) ELSE Null]

VlessSecurity(q) == Or(q.security, IF q.tls = "tls" THEN "tls" ELSE "none")
TrojanSecurity(q) == Or(q.security, "tls")
VmessSecurity(q) == Or(q.security, IF q.tls = "tls" THEN "tls" ELSE "none")

Outbound(protocol, security, q) ==
  [protocol |-> protocol, stream |-> StreamSettings(Or(q.type, "tcp"), security, q)]

(* parseShadowsocks drops the query.                                       *)
ShadowsocksOutbound ==
  [protocol |-> "shadowsocks", stream |-> [network |-> "tcp", security |-> "none"]]

(* parseLink: parseVless, parseTrojan, parseVmess or parseShadowsocks.     *)
ParsedLink(link) ==
  LET q == link.query IN
  CASE link.scheme = "vless" -> Outbound("vless", VlessSecurity(q), q)
    [] link.scheme = "trojan" -> Outbound("trojan", TrojanSecurity(q), q)
    [] link.scheme = "vmess" -> Outbound("vmess", VmessSecurity(q), q)
    [] OTHER -> ShadowsocksOutbound

NoConfig == [protocol |-> "none"]

(* buildRuntimeSnapshotFromLink: the first link, or an error.              *)
RuntimeOf(source, link) ==
  LET links == ResolvedLinks(source, link) IN
  IF links = <<>> THEN NoConfig ELSE ParsedLink(Head(links))
-----------------------------------------------------------------------------
(* A stream the inbound accepts: same network and security, and the names  *)
(* and keys its handshake checks, where the inbound has any.               *)
Given(v) == v \notin {Null, ""}
Accepts(w, stream) ==
  /\ stream.network = w.network /\ stream.security = w.security
  /\ w.security = "tls" =>
       /\ Given(w.tls.serverName) => stream.serverName = w.tls.serverName
       /\ Given(w.tls.alpn) => stream.alpn = w.tls.alpn
  /\ w.security = "reality" =>
       /\ Given(w.reality.serverNames) => stream.serverName = w.reality.serverNames
       /\ Given(w.reality.publicKey) => stream.publicKey = w.reality.publicKey
       /\ Given(w.reality.shortIds) => stream.shortId = w.reality.shortIds
  /\ w.network = "ws" =>
       /\ stream.path = w.ws.path
       /\ Given(w.ws.host) => stream.host = w.ws.host
  /\ w.network = "grpc" =>
       (Given(w.grpc.serviceName) => stream.serviceName = w.grpc.serviceName)

(* The config built for a client is one its inbound accepts, or none is    *)
(* built: whatever the row, the apply, the sync and the panel have made of *)
(* the inbound, by any scheme of link and any form of the subscription.    *)
(* The exception is shadowsocks over anything but plain tcp, whose stream  *)
(* parseShadowsocks drops (providerInboundInput, parseLink,                *)
(* buildStreamSettings).                                                   *)
ConfigReachesInbound ==
  wire # NoWire =>
    \A scheme \in Schemes(wire), source \in Sources :
      LET config == RuntimeOf(source, LinkOf(wire, scheme)) IN
      \/ config = NoConfig /\ (scheme = "wireguard" \/ source \in {"no links", "http error"})
      \/ /\ config # NoConfig
         /\ Accepts(wire, config.stream)
      \/ scheme = "ss" /\ (wire.network # "tcp" \/ wire.security # "none")
=============================================================================
