--------------------------- MODULE InboundMapping ---------------------------
(***************************************************************************)
(* A transport profile and its 3x-ui inbound as two descriptions of one    *)
(* thing: applyToProvider writes the inbound from the row and the inbound  *)
(* as listed, and then the row from the inbound the panel returns; a sync  *)
(* writes the row only.  The operator typed the row, or made the inbound   *)
(* by hand.  Strings are members of small sets; Null is null or missing.   *)
(* Ports, names and settings the code fills with constants are left out.   *)
(***************************************************************************)
EXTENDS Integers, Sequences, TLC

CONSTANTS MaxApplies  \* bound: applies of the profile

ASSUME MappingAssumption == MaxApplies \in Nat

VARIABLES
  row,      \* the profile's connection fields and metadataJson
  wire,     \* the inbound on the panel
  applies,  \* applies so far
  typed,    \* history: the row and the inbound at the start
  sent      \* history: number of applies the panel carried out

mappingVars == <<row, wire, applies, typed, sent>>

Null == "null"
Or(a, b) == IF a # Null THEN a ELSE b       \* a ?? b, and firstString
StringAt(a) == IF a = "" THEN Null ELSE a
Maybe(v) == {Null, v}
Blank(v) == {"", v}

NoTls == [serverName |-> Null, alpn |-> Null, fingerprint |-> Null]
NoReality == [target |-> Null, privateKey |-> Null, serverNames |-> Null,
              shortIds |-> Null, publicKey |-> Null, fingerprint |-> Null,
              serverName |-> Null, spiderX |-> Null]
NoWs == [path |-> Null, host |-> Null]
NoGrpc == [serviceName |-> Null, authority |-> Null]
NoWire == [protocol |-> Null, network |-> Null, security |-> Null,
           tls |-> NoTls, reality |-> NoReality, ws |-> NoWs, grpc |-> NoGrpc,
           password |-> Null, flow |-> Null]

Protocols == {"vless", "shadowsocks", "wireguard"}
Transports == {"tcp", "ws", "grpc", "h2"}
Networks == Transports \cup {"kcp"}  \* with one the code has no name for
Securities == {"none", "tls", "reality"}

(* Rows as the operator may type them; clean() has made "" of no field.    *)
TypedRows ==
  {[protocol |-> pr, transport |-> tr, security |-> se, sni |-> s,
    hostHeader |-> h, path |-> pa, serviceName |-> IF pa = Null THEN Null ELSE "svc",
    alpn |-> al, fingerprint |-> IF al = Null THEN Null ELSE "firefox", flow |-> fl,
    publicKey |-> k, shortId |-> k, spiderX |-> k, key |-> mk, password |-> Null,
    known |-> "no"] :
      pr \in Protocols, tr \in Transports, se \in Securities, s \in Maybe("host"),
      h \in Maybe("front"), pa \in Maybe("/p"), al \in Maybe("h3"),
      fl \in Maybe("vision"), k \in Maybe("id"), mk \in Maybe("secret")}

BlankRow == [protocol |-> Null, transport |-> "tcp", security |-> "none",
             sni |-> Null, hostHeader |-> Null, path |-> Null,
             serviceName |-> Null, alpn |-> Null, fingerprint |-> Null,
             flow |-> Null, publicKey |-> Null, shortId |-> Null,
             spiderX |-> Null, key |-> Null, password |-> Null, known |-> "no"]

(* Inbounds made by hand on the panel, in the shape the panel gives them.  *)
MadeByHand(pr, net, se, fl, s, h) ==
  [NoWire EXCEPT
     !.protocol = pr, !.network = net, !.security = se, !.flow = fl,
     !.password = IF pr = "shadowsocks" THEN "by hand" ELSE Null,
     !.tls = IF se = "tls" THEN [serverName |-> s, alpn |-> "h3",
                                 fingerprint |-> "firefox"] ELSE NoTls,
     !.reality = IF se = "reality"
                 THEN [NoReality EXCEPT !.target = "dest", !.privateKey = "secret",
                         !.serverNames = s, !.shortIds = "id", !.publicKey = "id",
                         !.fingerprint = "firefox"] ELSE NoReality,
     !.ws = IF net = "ws" THEN [path |-> "/p", host |-> h] ELSE NoWs,
     !.grpc = IF net = "grpc" THEN [serviceName |-> "svc", authority |-> h] ELSE NoGrpc]
HandMade ==
  {MadeByHand(pr, net, se, fl, s, h) :
     pr \in Protocols, net \in Networks, se \in Securities,
     fl \in Maybe("vision"), s \in Blank("host"), h \in Blank("front")}

MappingTypeOK ==
  /\ applies \in 0 .. MaxApplies /\ sent \in 0 .. applies
  /\ row.known \in {"no", "synced", "applied"} /\ row.transport \in Transports
  /\ wire = NoWire \/ wire.protocol \in Protocols

MappingInit ==
  /\ \/ row \in TypedRows /\ wire = NoWire
     \/ row = BlankRow /\ wire \in HandMade
  /\ applies = 0 /\ sent = 0
  /\ typed = [row |-> row, wire |-> wire]
-----------------------------------------------------------------------------
(* Faulty variants of definitions below, for mutation of the runs.         *)
TransportAsListed(network) == network

RealityFromRow(r, seen) ==
  [target |-> "dest", privateKey |-> r.key,
   serverNames |-> Or(r.sni, seen.reality.serverNames),
   shortIds |-> Or(r.shortId, seen.reality.shortIds),
   publicKey |-> Or(r.publicKey, Or(seen.reality.publicKey, "")),
   fingerprint |-> Or(r.fingerprint, Or(seen.reality.fingerprint, "chrome")),
   serverName |-> Or(r.sni, Or(StringAt(seen.reality.serverName), "")),
   spiderX |-> Or(r.spiderX, Or(seen.reality.spiderX, "/"))]
PatchWithoutTls(r, w) ==
  [r EXCEPT
    !.protocol = w.protocol,
    !.transport = IF w.network \in Transports THEN w.network ELSE "tcp",
    !.security = w.security,
    !.sni = Or(StringAt(w.reality.serverNames), StringAt(w.reality.serverName)),
    !.hostHeader = StringAt(w.ws.host), !.path = StringAt(w.ws.path),
    !.serviceName = StringAt(w.grpc.serviceName), !.alpn = w.tls.alpn,
    !.fingerprint = StringAt(w.reality.fingerprint), !.flow = w.flow,
    !.publicKey = StringAt(w.reality.publicKey),
    !.shortId = StringAt(w.reality.shortIds), !.spiderX = StringAt(w.reality.spiderX)]
-----------------------------------------------------------------------------
(* supportedTransport: what the code has no name for becomes tcp.          *)
SupportedTransport(network) == IF network \in Transports THEN network ELSE "tcp"

(* profilePatchFromInbound: an h2 inbound's httpSettings are left out, as  *)
(* no apply takes one.  tlsSettings.fingerprint is read as well, but what  *)
(* the panel and the code write is tlsSettings.settings.fingerprint.       *)
PatchedRow(r, w) ==
  [r EXCEPT
    !.protocol = w.protocol, !.transport = SupportedTransport(w.network),
    !.security = w.security,
    !.sni = Or(StringAt(w.reality.serverNames),
               Or(StringAt(w.reality.serverName), StringAt(w.tls.serverName))),
    !.hostHeader = StringAt(w.ws.host),
    !.path = StringAt(w.ws.path),
    !.serviceName = StringAt(w.grpc.serviceName),
    !.alpn = w.tls.alpn,
    !.fingerprint = StringAt(w.reality.fingerprint),
    !.flow = w.flow,
    !.publicKey = StringAt(w.reality.publicKey),
    !.shortId = StringAt(w.reality.shortIds),
    !.spiderX = StringAt(w.reality.spiderX)]

(* shadowsocksPassword: the inbound's, the row's, or a new one, which the  *)
(* row's metadata keeps even if the panel then refuses.                    *)
Password(r, seen) ==
  Or(seen.password, Or(r.password, "generated " \o ToString(applies)))

(* providerRealitySettings: the server's secrets come from the inbound.    *)
RealitySettings(r, seen) ==
  LET was == seen.reality IN
  [target |-> Or(was.target, "dest"), privateKey |-> Or(was.privateKey, r.key),
   serverNames |-> Or(r.sni, was.serverNames),
   shortIds |-> Or(r.shortId, was.shortIds),
   publicKey |-> Or(r.publicKey, Or(StringAt(was.publicKey), "")),
   fingerprint |-> Or(r.fingerprint, Or(StringAt(was.fingerprint), "chrome")),
   serverName |-> Or(r.sni, Or(StringAt(was.serverName), "")),
   spiderX |-> Or(r.spiderX, Or(StringAt(was.spiderX), "/"))]

(* providerInboundInput throws for what it cannot create.                  *)
Applicable(r, seen) ==
  /\ r.protocol \in Protocols \ {"wireguard"}
  /\ r.transport # "h2"
  /\ r.security = "reality" => Or(seen.reality.privateKey, r.key) # Null

(* providerInboundInput: the inbound written for a row, given the inbound  *)
(* as listed (NoWire for one to create).                                   *)
WireFor(r, seen) ==
  [protocol |-> r.protocol, network |-> r.transport, security |-> r.security,
   tls |-> IF r.security = "tls"
           THEN [serverName |-> Or(r.sni, ""), alpn |-> Or(r.alpn, "h2,http/1.1"),
                 fingerprint |-> Or(r.fingerprint, "chrome")] ELSE NoTls,
   reality |-> IF r.security = "reality" THEN RealitySettings(r, seen) ELSE NoReality,
   ws |-> IF r.transport = "ws" THEN [path |-> Or(r.path, "/"),
                                      host |-> Or(r.hostHeader, "")] ELSE NoWs,
   grpc |-> IF r.transport = "grpc" THEN [serviceName |-> Or(r.serviceName, ""),
                                          authority |-> Or(r.hostHeader, "")]
            ELSE NoGrpc,
   password |-> IF r.protocol = "shadowsocks" THEN Password(r, seen) ELSE Null,
   flow |-> seen.flow]

(* What providerInboundInput leaves in the row itself.                     *)
KeptRow(r, seen) ==
  IF r.protocol = "shadowsocks" /\ seen.password = Null
  THEN [r EXCEPT !.password = Password(r, seen)] ELSE r

(* applyToProvider: carried out and answered, carried out with the answer  *)
(* lost, or refused; a row that does not know its inbound creates one, and *)
(* the row follows the newest.                                             *)
Apply(answer) ==
  LET seen == IF row.known # "no" THEN wire ELSE NoWire
      new == WireFor(row, seen) IN
  /\ applies < MaxApplies /\ applies' = applies + 1
  /\ row.protocol # Null
  /\ Applicable(row, seen)
  /\ wire' = IF answer = "refused" THEN wire ELSE new
  /\ row' = IF answer = "answered"
            THEN [PatchedRow(KeptRow(row, seen), new) EXCEPT !.known = "applied"]
            ELSE KeptRow(row, seen)
  /\ sent' = IF answer = "refused" THEN sent ELSE sent + 1
  /\ UNCHANGED typed

(* syncFromProvider; only a known inbound, or one made by hand, is read.   *)
(* The row's metadata is replaced by the raw inbound.                      *)
SyncRow ==
  /\ wire # NoWire
  /\ row.known # "no" \/ row.protocol = Null
  /\ row' = [PatchedRow(row, wire) EXCEPT
               !.key = Null, !.password = Null,
               !.known = IF @ = "no" THEN "synced" ELSE @]
  /\ UNCHANGED <<wire, applies, typed, sent>>

MappingNext ==
  \/ \E answer \in {"answered", "lost", "refused"} : Apply(answer)
  \/ SyncRow

MappingSpec == MappingInit /\ [][MappingNext]_mappingVars
-----------------------------------------------------------------------------
SecretsStay ==
  /\ wire.password # Null => wire'.password = wire.password
  /\ wire.reality.privateKey # Null =>
       /\ wire'.reality.privateKey = wire.reality.privateKey
       /\ wire'.reality.target = wire.reality.target

RowStays ==
  row.known = "applied" => row' = [row EXCEPT !.key = row'.key, !.password = row'.password]

ClientsServedAsBefore ==
  row.known # "no" =>
    /\ wire'.protocol = wire.protocol /\ wire'.security = wire.security
    /\ wire'.network = SupportedTransport(wire.network) \/ wire' = wire
    /\ wire'.flow = wire.flow /\ wire'.ws = wire.ws
    /\ wire'.grpc.serviceName = wire.grpc.serviceName
    /\ wire'.tls.serverName = wire.tls.serverName
    /\ wire'.tls.alpn = wire.tls.alpn
    /\ \A f \in {"serverNames", "shortIds", "publicKey", "fingerprint"} :
         wire'.reality[f] = wire.reality[f]

(* Nothing drifts from apply to apply, though each takes the row from the  *)
(* panel's answer.  The server's secrets on the panel, a shadowsocks       *)
(* password or a reality key, stay over an apply, a lost answer, a         *)
(* refusal, a second creation and a sync: clients hold what depends on     *)
(* them.  A row an apply has written is the same after every further apply *)
(* and sync.  An apply of a row that came from its inbound serves the      *)
(* clients it has as before, what their links say stays; except that a     *)
(* transport the code has no name for becomes tcp, and the TLS fingerprint *)
(* and the gRPC authority, which no sync reads, fall back to defaults      *)
(* (applyToProvider, profilePatchFromInbound, shadowsocksPassword,         *)
(* providerRealitySettings).                                               *)
NothingDrifts == [][SecretsStay /\ RowStays /\ ClientsServedAsBefore]_mappingVars
=============================================================================
