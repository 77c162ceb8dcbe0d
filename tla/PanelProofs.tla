----------------------------- MODULE PanelProofs -----------------------------
(***************************************************************************)
(* Machine-checked facts about the 3x-ui panel: its session cache          *)
(* (PanelSession), for any number of concurrent calls, of logins and of    *)
(* times the panel drops its sessions; and a profile as the panel keeps it *)
(* (InboundMapping, RuntimeConfig), for any number of applies and syncs.   *)
(***************************************************************************)
EXTENDS PanelSession, RuntimeConfig, TLAPS
-----------------------------------------------------------------------------
(* The session cache.                                                      *)

(* A call on its retry has asked for its cookie itself, so the panel still *)
(* accepts it unless it dropped its sessions meanwhile.                    *)
RetryIsFresh ==
  \A c \in PanelCalls :
    ~pcall[c].retry /\ pcall[c].pc \in {"storing", "requesting"} =>
      c \in lostIn \/ pcall[c].cookie \in valid

SessionInv == SessionTypeOK /\ RetryIsFresh /\ RefusedOnlyIfDropped

(* getSessionCookie leaves a call well-typed, and on a retry it logs in.   *)
LEMMA WithCookieFacts ==
  ASSUME SessionTypeOK, NEW c \in PanelCalls, NEW cookie \in Cookies,
         NEW retry \in BOOLEAN, WithCookie(c, cookie, retry)
  PROVE  /\ pcall' \in [PanelCalls -> PanelCall]
         /\ \A o \in PanelCalls \ {c} : pcall'[o] = pcall[o]
         /\ pcall'[c].retry = retry
         /\ pcall'[c].pc = IF cookie # 0 THEN "requesting" ELSE "logging in"
BY SessionAssumption DEF SessionTypeOK, WithCookie, PanelCall, Cookies

LEMMA StartKeeps ==
  ASSUME SessionInv, NEW c \in PanelCalls, NEW force \in BOOLEAN,
         StartPanelCall(c, force)
  PROVE  SessionInv'
<1>1. cached' \in Cookies
  BY SessionAssumption DEF SessionInv, SessionTypeOK, StartPanelCall, Cookies
<1>2. /\ pcall' \in [PanelCalls -> PanelCall]
      /\ \A o \in PanelCalls \ {c} : pcall'[o] = pcall[o]
      /\ pcall'[c].retry /\ pcall'[c].pc \in {"requesting", "logging in"}
  BY <1>1, WithCookieFacts DEF SessionInv, StartPanelCall
<1>3. SessionTypeOK'
  BY <1>1, <1>2 DEF SessionInv, SessionTypeOK, StartPanelCall
<1>4. RetryIsFresh' /\ RefusedOnlyIfDropped'
  BY <1>2 DEF SessionInv, RetryIsFresh, RefusedOnlyIfDropped, StartPanelCall
<1>5. QED
  BY <1>3, <1>4 DEF SessionInv

LEMMA LoginKeeps ==
  ASSUME SessionInv, NEW c \in PanelCalls, Login(c)
  PROVE  SessionInv'
<1>1. CASE /\ issued < MaxLogins
           /\ issued' = issued + 1
           /\ valid' = valid \cup {issued + 1}
           /\ pcall' = [pcall EXCEPT ![c].pc = "storing", ![c].cookie = issued + 1]
  <2>1. SessionTypeOK'
    <3>1. issued + 1 \in Cookies /\ issued' \in Cookies /\ valid' \subseteq 1 .. issued'
      BY <1>1, SessionAssumption DEF SessionInv, SessionTypeOK, Cookies
    <3>2. pcall' \in [PanelCalls -> PanelCall]
      BY <1>1, <3>1 DEF SessionInv, SessionTypeOK, PanelCall
    <3>3. QED
      BY <3>1, <3>2 DEF SessionInv, SessionTypeOK, Login
  <2>2. RetryIsFresh' /\ RefusedOnlyIfDropped'
    BY <1>1 DEF SessionInv, SessionTypeOK, RetryIsFresh, RefusedOnlyIfDropped,
                Login, PanelCall
  <2>3. QED
    BY <2>1, <2>2 DEF SessionInv
<1>2. CASE pcall' = [pcall EXCEPT ![c].pc = "failed"] /\ UNCHANGED <<issued, valid>>
  BY <1>2 DEF SessionInv, SessionTypeOK, RetryIsFresh, RefusedOnlyIfDropped,
              Login, PanelCall, Cookies
<1>3. QED
  BY <1>1, <1>2 DEF Login

LEMMA StoreKeeps ==
  ASSUME SessionInv, NEW c \in PanelCalls, StoreCookie(c)
  PROVE  SessionInv'
BY DEF SessionInv, SessionTypeOK, RetryIsFresh, RefusedOnlyIfDropped,
       StoreCookie, PanelCall

(* A refused call with a retry left logs in; one without has lost the      *)
(* cookie it got for the retry.                                            *)
LEMMA RequestKeeps ==
  ASSUME SessionInv, NEW c \in PanelCalls, Request(c)
  PROVE  SessionInv'
<1>1. CASE pcall[c].cookie \in valid
  BY <1>1 DEF SessionInv, SessionTypeOK, RetryIsFresh, RefusedOnlyIfDropped,
              Request, PanelCall
<1>2. CASE pcall[c].cookie \notin valid /\ pcall[c].retry
  <2>1. 0 \in Cookies /\ FALSE \in BOOLEAN
    BY SessionAssumption DEF Cookies
  <2>2. WithCookie(c, 0, FALSE)
        /\ cached' = 0 /\ valid' = valid /\ issued' = issued /\ drops' = drops
        /\ lostIn' = lostIn
    BY <1>2 DEF Request, AfterRefusal
  <2>3. /\ pcall' \in [PanelCalls -> PanelCall]
        /\ \A o \in PanelCalls \ {c} : pcall'[o] = pcall[o]
        /\ pcall'[c].pc = "logging in"
    BY <2>1, <2>2, WithCookieFacts DEF SessionInv
  <2>4. SessionTypeOK'
    BY <2>1, <2>2, <2>3 DEF SessionInv, SessionTypeOK
  <2>5. RetryIsFresh' /\ RefusedOnlyIfDropped'
    BY <2>2, <2>3 DEF SessionInv, RetryIsFresh, RefusedOnlyIfDropped
  <2>6. QED
    BY <2>4, <2>5 DEF SessionInv
<1>3. CASE pcall[c].cookie \notin valid /\ ~pcall[c].retry
  <2>1. c \in lostIn
    BY <1>3 DEF SessionInv, RetryIsFresh, Request
  <2>2. QED
    BY <1>3, <2>1 DEF SessionInv, SessionTypeOK, RetryIsFresh,
                      RefusedOnlyIfDropped, Request, PanelCall
<1>4. QED
  BY <1>1, <1>2, <1>3

LEMMA DropKeeps ==
  ASSUME SessionInv, DropSessions
  PROVE  SessionInv'
<1>1. SessionTypeOK'
  BY SessionAssumption DEF SessionInv, SessionTypeOK, DropSessions, Cookies
<1>2. RetryIsFresh' /\ RefusedOnlyIfDropped'
  BY DEF SessionInv, RetryIsFresh, RefusedOnlyIfDropped, DropSessions, Resting
<1>3. QED
  BY <1>1, <1>2 DEF SessionInv

LEMMA SessionInvHolds == SessionSpec => []SessionInv
<1>1. SessionInit => SessionInv
  BY SessionAssumption DEF SessionInit, SessionInv, SessionTypeOK, RetryIsFresh,
                           RefusedOnlyIfDropped, PanelCall, Cookies
<1>2. SessionInv /\ [SessionNext]_sessionVars => SessionInv'
  <2>1. ASSUME SessionInv, UNCHANGED sessionVars PROVE SessionInv'
    BY <2>1 DEF SessionInv, SessionTypeOK, RetryIsFresh, RefusedOnlyIfDropped,
                sessionVars
  <2>2. QED
    BY <2>1, StartKeeps, LoginKeeps, StoreKeeps, RequestKeeps, DropKeeps
    DEF SessionNext
<1>3. QED
  BY <1>1, <1>2, PTL DEF SessionSpec

(* Every variable of a panel's session cache keeps its type; the cookies   *)
(* the panel accepts are among those it issued (getSessionCookie).         *)
THEOREM SessionTypeCorrect == SessionSpec => []SessionTypeOK
<1>1. SessionInv => SessionTypeOK
  BY DEF SessionInv
<1>2. QED
  BY <1>1, SessionInvHolds, PTL

(* One retry is enough, for any number of calls that share and forget each *)
(* other's cookie (getWithSession, postWithSessionResult): a call refused  *)
(* for good saw the panel drop its sessions during its retry.              *)
THEOREM OneRetrySuffices == SessionSpec => []RefusedOnlyIfDropped
<1>1. SessionInv => RefusedOnlyIfDropped
  BY DEF SessionInv
<1>2. QED
  BY <1>1, SessionInvHolds, PTL
-----------------------------------------------------------------------------
(* A profile and its inbound.                                              *)

IsRow(r) ==
  r = [protocol |-> r.protocol, transport |-> r.transport, security |-> r.security,
       sni |-> r.sni, hostHeader |-> r.hostHeader, path |-> r.path,
       serviceName |-> r.serviceName, alpn |-> r.alpn, fingerprint |-> r.fingerprint,
       flow |-> r.flow, publicKey |-> r.publicKey, shortId |-> r.shortId,
       spiderX |-> r.spiderX, key |-> r.key, password |-> r.password, known |-> r.known]

(* A column holds NULL or something, never an empty string.                *)
RowFits(r) ==
  /\ IsRow(r)
  /\ r.protocol \in Protocols \cup {Null} /\ r.transport \in Transports
  /\ r.security \in Securities /\ r.known \in {"no", "synced", "applied"}
  /\ r.sni # "" /\ r.hostHeader # "" /\ r.path # "" /\ r.serviceName # ""
  /\ r.fingerprint # "" /\ r.publicKey # "" /\ r.shortId # "" /\ r.spiderX # ""

(* An inbound has the settings of its security and network, complete, and  *)
(* no others.                                                              *)
WireFits(w) ==
  /\ w.protocol \in Protocols /\ w.network # Null /\ w.security \in Securities
  /\ IF w.security = "tls" THEN w.tls.serverName # Null /\ w.tls.alpn # Null
     ELSE w.tls = NoTls
  /\ IF w.security = "reality"
     THEN /\ w.reality.target # Null /\ w.reality.publicKey # Null
          /\ w.reality.fingerprint \notin {Null, ""}
          /\ w.reality.serverNames \in {Null, ""} => w.reality.serverName \in {Null, ""}
     ELSE w.reality = NoReality
  /\ IF w.network = "ws"
     THEN /\ w.ws = [path |-> w.ws.path, host |-> w.ws.host]
          /\ w.ws.path \notin {Null, ""} /\ w.ws.host # Null
     ELSE w.ws = NoWs
  /\ IF w.network = "grpc" THEN w.grpc.serviceName # Null ELSE w.grpc = NoGrpc
  /\ w.password # Null => w.protocol = "shadowsocks"

(* The row says of the inbound what a sync would write, but for spiderX,   *)
(* which the panel need not have and an apply adds.                        *)
RowOfWire(r, w) ==
  /\ r.protocol = w.protocol /\ r.transport = SupportedTransport(w.network)
  /\ r.security = w.security
  /\ r.sni = Or(StringAt(w.reality.serverNames),
                Or(StringAt(w.reality.serverName), StringAt(w.tls.serverName)))
  /\ r.hostHeader = StringAt(w.ws.host) /\ r.path = StringAt(w.ws.path)
  /\ r.serviceName = StringAt(w.grpc.serviceName)
  /\ r.alpn = w.tls.alpn /\ r.fingerprint = StringAt(w.reality.fingerprint)
  /\ r.flow = w.flow /\ r.publicKey = StringAt(w.reality.publicKey)
  /\ r.shortId = StringAt(w.reality.shortIds)

Complete(r, w) ==
  /\ r.spiderX = StringAt(w.reality.spiderX)
  /\ w.security = "reality" => w.reality.spiderX \notin {Null, ""}

(* A row that does not know its inbound: the one it made, if any, has the  *)
(* secrets that the row still has.                                         *)
SecretsInRow(r, w) ==
  /\ r.protocol = w.protocol
  /\ w.password # Null => r.password = w.password
  /\ w.reality.privateKey # Null =>
       r.security = "reality" /\ r.key = w.reality.privateKey /\ w.reality.target = "dest"

MappingInv ==
  /\ RowFits(row) /\ (wire # NoWire => WireFits(wire))
  /\ row.known # "no" => wire # NoWire /\ RowOfWire(row, wire)
  /\ row.known = "applied" => Complete(row, wire)
  /\ row.known = "no" /\ row.protocol # Null /\ wire # NoWire => SecretsInRow(row, wire)
  /\ applies \in 0 .. MaxApplies /\ sent \in 0 .. applies

(* ?? and firstString, by cases.                                           *)
LEMMA Orelse ==
  ASSUME NEW a, NEW b
  PROVE  /\ a # Null => Or(a, b) = a
         /\ a = Null => Or(a, b) = b
         /\ StringAt(a) # ""
         /\ a # "" => StringAt(a) = a
         /\ a = "" => StringAt(a) = Null
BY DEF Or, StringAt, Null

(* The inbound an apply writes, setting by setting.                        *)
WrittenFor(r, s, w) ==
  /\ w.protocol = r.protocol /\ w.network = r.transport /\ w.security = r.security
  /\ w.flow = s.flow
  /\ r.protocol = "shadowsocks" => w.password = Password(r, s)
  /\ r.protocol # "shadowsocks" => w.password = Null
  /\ r.security # "tls" => w.tls = NoTls
  /\ r.security = "tls" =>
       w.tls.serverName = Or(r.sni, "") /\ w.tls.alpn = Or(r.alpn, "h2,http/1.1")
  /\ r.security # "reality" => w.reality = NoReality
  /\ r.security = "reality" =>
       /\ w.reality.target = Or(s.reality.target, "dest")
       /\ w.reality.privateKey = Or(s.reality.privateKey, r.key)
       /\ w.reality.serverNames = Or(r.sni, s.reality.serverNames)
       /\ w.reality.shortIds = Or(r.shortId, s.reality.shortIds)
       /\ w.reality.publicKey = Or(r.publicKey, Or(StringAt(s.reality.publicKey), ""))
       /\ w.reality.fingerprint =
            Or(r.fingerprint, Or(StringAt(s.reality.fingerprint), "chrome"))
       /\ w.reality.serverName = Or(r.sni, Or(StringAt(s.reality.serverName), ""))
       /\ w.reality.spiderX = Or(r.spiderX, Or(StringAt(s.reality.spiderX), "/"))
  /\ r.transport # "ws" => w.ws = NoWs
  /\ r.transport = "ws" =>
       /\ w.ws = [path |-> w.ws.path, host |-> w.ws.host]
       /\ w.ws.path = Or(r.path, "/") /\ w.ws.host = Or(r.hostHeader, "")
  /\ r.transport # "grpc" => w.grpc = NoGrpc
  /\ r.transport = "grpc" => w.grpc.serviceName = Or(r.serviceName, "")

(* providerInboundInput, field by field.                                   *)
LEMMA WireForSays ==
  ASSUME NEW r, NEW s, NEW w, w = WireFor(r, s)
  PROVE  WrittenFor(r, s, w)
<1>1. /\ w.protocol = r.protocol /\ w.network = r.transport /\ w.security = r.security
      /\ w.flow = s.flow
      /\ w.password = (IF r.protocol = "shadowsocks" THEN Password(r, s) ELSE Null)
      /\ w.tls = (IF r.security = "tls"
                  THEN [serverName |-> Or(r.sni, ""), alpn |-> Or(r.alpn, "h2,http/1.1"),
                        fingerprint |-> Or(r.fingerprint, "chrome")] ELSE NoTls)
      /\ w.reality = (IF r.security = "reality" THEN RealitySettings(r, s) ELSE NoReality)
      /\ w.ws = (IF r.transport = "ws"
                 THEN [path |-> Or(r.path, "/"), host |-> Or(r.hostHeader, "")] ELSE NoWs)
      /\ w.grpc = (IF r.transport = "grpc"
                   THEN [serviceName |-> Or(r.serviceName, ""),
                         authority |-> Or(r.hostHeader, "")] ELSE NoGrpc)
  BY DEF WireFor
<1>2. ASSUME r.security = "reality"
      PROVE  /\ w.reality.target = Or(s.reality.target, "dest")
             /\ w.reality.privateKey = Or(s.reality.privateKey, r.key)
             /\ w.reality.serverNames = Or(r.sni, s.reality.serverNames)
             /\ w.reality.shortIds = Or(r.shortId, s.reality.shortIds)
             /\ w.reality.publicKey = Or(r.publicKey, Or(StringAt(s.reality.publicKey), ""))
             /\ w.reality.fingerprint =
                  Or(r.fingerprint, Or(StringAt(s.reality.fingerprint), "chrome"))
             /\ w.reality.serverName = Or(r.sni, Or(StringAt(s.reality.serverName), ""))
             /\ w.reality.spiderX = Or(r.spiderX, Or(StringAt(s.reality.spiderX), "/"))
  <2>1. PICK x : x = w.reality
    OBVIOUS
  <2>2. PICK was : was = s.reality
    OBVIOUS
  <2>3. x = [target |-> Or(was.target, "dest"), privateKey |-> Or(was.privateKey, r.key),
             serverNames |-> Or(r.sni, was.serverNames),
             shortIds |-> Or(r.shortId, was.shortIds),
             publicKey |-> Or(r.publicKey, Or(StringAt(was.publicKey), "")),
             fingerprint |-> Or(r.fingerprint, Or(StringAt(was.fingerprint), "chrome")),
             serverName |-> Or(r.sni, Or(StringAt(was.serverName), "")),
             spiderX |-> Or(r.spiderX, Or(StringAt(was.spiderX), "/"))]
    BY <1>1, <1>2, <2>1, <2>2 DEF RealitySettings
  <2>4. /\ x.target = Or(was.target, "dest") /\ x.privateKey = Or(was.privateKey, r.key)
        /\ x.serverNames = Or(r.sni, was.serverNames)
        /\ x.shortIds = Or(r.shortId, was.shortIds)
        /\ x.publicKey = Or(r.publicKey, Or(StringAt(was.publicKey), ""))
        /\ x.fingerprint = Or(r.fingerprint, Or(StringAt(was.fingerprint), "chrome"))
        /\ x.serverName = Or(r.sni, Or(StringAt(was.serverName), ""))
        /\ x.spiderX = Or(r.spiderX, Or(StringAt(was.spiderX), "/"))
    BY ONLY <2>3
  <2>5. QED
    BY ONLY <2>1, <2>2, <2>4
<1>3. ASSUME r.security = "tls"
      PROVE  w.tls.serverName = Or(r.sni, "") /\ w.tls.alpn = Or(r.alpn, "h2,http/1.1")
  <2>1. PICK x : x = w.tls
    OBVIOUS
  <2>2. x = [serverName |-> Or(r.sni, ""), alpn |-> Or(r.alpn, "h2,http/1.1"),
             fingerprint |-> Or(r.fingerprint, "chrome")]
    BY <1>1, <1>3, <2>1
  <2>3. x.serverName = Or(r.sni, "") /\ x.alpn = Or(r.alpn, "h2,http/1.1")
    BY ONLY <2>2
  <2>4. QED
    BY <2>1, <2>3
<1>4. ASSUME r.transport = "grpc" PROVE w.grpc.serviceName = Or(r.serviceName, "")
  <2>1. PICK x : x = w.grpc
    OBVIOUS
  <2>2. x = [serviceName |-> Or(r.serviceName, ""), authority |-> Or(r.hostHeader, "")]
    BY <1>1, <1>4, <2>1
  <2>3. x.serviceName = Or(r.serviceName, "")
    BY ONLY <2>2
  <2>4. QED
    BY <2>1, <2>3
<1>5. ASSUME r.transport = "ws"
       PROVE  /\ w.ws = [path |-> w.ws.path, host |-> w.ws.host]
              /\ w.ws.path = Or(r.path, "/") /\ w.ws.host = Or(r.hostHeader, "")
  <2>1. PICK x : x = w.ws
    OBVIOUS
  <2>2. x = [path |-> Or(r.path, "/"), host |-> Or(r.hostHeader, "")]
    BY <1>1, <1>5, <2>1
  <2>3. /\ x = [path |-> x.path, host |-> x.host]
        /\ x.path = Or(r.path, "/") /\ x.host = Or(r.hostHeader, "")
    BY ONLY <2>2
  <2>4. QED
    BY <2>1, <2>3
<1>6. QED
  BY ONLY <1>1, <1>2, <1>3, <1>4, <1>5 DEF WrittenFor

(* It is complete, whether it is new or was there.                         *)
LEMMA WireForFits ==
  ASSUME NEW r, RowFits(r), NEW s, s = NoWire \/ WireFits(s),
         r.protocol # Null, NEW w, w = WireFor(r, s)
  PROVE  WireFits(w) /\ w # NoWire
<1>0. WrittenFor(r, s, w)
  BY WireForSays
<1>1. w.protocol \in Protocols /\ w.network # Null /\ w.security \in Securities
  BY <1>0 DEF WrittenFor, RowFits, Transports, Null
<1>2. IF w.security = "tls" THEN w.tls.serverName # Null /\ w.tls.alpn # Null ELSE w.tls = NoTls
  BY <1>0 DEF WrittenFor, Or, Null
<1>3. ASSUME w.security = "reality"
      PROVE  /\ w.reality.target # Null /\ w.reality.publicKey # Null
             /\ w.reality.fingerprint \notin {Null, ""}
             /\ w.reality.serverNames \in {Null, ""} => w.reality.serverName \in {Null, ""}
  <2>1. r.security = "reality"
    BY <1>0, <1>3 DEF WrittenFor
  <2>2. s.reality.serverNames \in {Null, ""} => s.reality.serverName \in {Null, ""}
    <3>1. CASE s.reality = NoReality
      <4>1. NoReality.serverName = Null
        BY DEF NoReality
      <4>2. QED
        BY <3>1, <4>1
    <3>2. CASE WireFits(s) /\ s.security = "reality"
      BY <3>2 DEF WireFits
    <3>3. NoWire.reality = NoReality
      BY DEF NoWire
    <3>4. QED
      BY <3>1, <3>2, <3>3 DEF WireFits
  <2>3. r.fingerprint # "" /\ r.sni # ""
    BY DEF RowFits
  <2>4. w.reality.target # Null /\ w.reality.publicKey # Null
    BY <1>0, <2>1 DEF WrittenFor, Or, Null
  <2>5. w.reality.fingerprint \notin {Null, ""}
    BY <1>0, <2>1, <2>3 DEF WrittenFor, Or, Null, StringAt
  <2>6. w.reality.serverNames \in {Null, ""} => w.reality.serverName \in {Null, ""}
    BY <1>0, <2>1, <2>2, <2>3 DEF WrittenFor, Or, Null, StringAt
  <2>7. QED
    BY <2>4, <2>5, <2>6
<1>4. w.security # "reality" => w.reality = NoReality
  BY <1>0 DEF WrittenFor
<1>5. IF w.network = "ws"
      THEN /\ w.ws = [path |-> w.ws.path, host |-> w.ws.host]
           /\ w.ws.path \notin {Null, ""} /\ w.ws.host # Null
      ELSE w.ws = NoWs
  <2>1. CASE r.transport = "ws"
    <3>1. w.ws.path = Or(r.path, "/") /\ w.ws.host = Or(r.hostHeader, "")
      BY <1>0, <2>1 DEF WrittenFor
    <3>2. w.ws.path \notin {Null, ""} /\ w.ws.host # Null
      BY <3>1 DEF Or, Null, RowFits
    <3>3. QED
      BY <1>0, <2>1, <3>2 DEF WrittenFor
  <2>2. CASE r.transport # "ws"
    BY <1>0, <2>2 DEF WrittenFor
  <2>3. QED
    BY <2>1, <2>2
<1>6. IF w.network = "grpc" THEN w.grpc.serviceName # Null ELSE w.grpc = NoGrpc
  BY <1>0 DEF WrittenFor, Or, Null
<1>7. w.password # Null => w.protocol = "shadowsocks"
  BY <1>0 DEF WrittenFor
<1>8. w # NoWire
  BY <1>1 DEF NoWire, Protocols, Null
<1>9. QED
  BY <1>1, <1>2, <1>3, <1>4, <1>5, <1>6, <1>7, <1>8 DEF WireFits

(* What a sync or an apply reads back is of the inbound, and the rest of   *)
(* the row stays.                                                          *)
LEMMA PatchSays ==
  ASSUME NEW r, RowFits(r), NEW w, WireFits(w), NEW p, p = PatchedRow(r, w)
  PROVE  /\ RowFits(p) /\ RowOfWire(p, w) /\ p.spiderX = StringAt(w.reality.spiderX)
         /\ p.key = r.key /\ p.password = r.password /\ p.known = r.known
<1>1. /\ p.protocol = w.protocol /\ p.transport = SupportedTransport(w.network)
      /\ p.security = w.security
      /\ p.sni = Or(StringAt(w.reality.serverNames),
                    Or(StringAt(w.reality.serverName), StringAt(w.tls.serverName)))
      /\ p.hostHeader = StringAt(w.ws.host) /\ p.path = StringAt(w.ws.path)
      /\ p.serviceName = StringAt(w.grpc.serviceName)
      /\ p.alpn = w.tls.alpn /\ p.fingerprint = StringAt(w.reality.fingerprint)
      /\ p.flow = w.flow /\ p.publicKey = StringAt(w.reality.publicKey)
      /\ p.shortId = StringAt(w.reality.shortIds)
      /\ p.spiderX = StringAt(w.reality.spiderX)
      /\ p.key = r.key /\ p.password = r.password /\ p.known = r.known
      /\ IsRow(p)
  BY DEF PatchedRow, RowFits, IsRow
<1>2. RowOfWire(p, w)
  BY <1>1 DEF RowOfWire
<1>3. p.transport \in Transports
  BY <1>1 DEF SupportedTransport, Transports
<1>4. p.sni # ""
  BY <1>1 DEF Or, StringAt, Null
<1>5. p.protocol \in Protocols /\ p.security \in Securities
      /\ p.known \in {"no", "synced", "applied"}
  BY <1>1 DEF WireFits, RowFits
<1>6. /\ p.hostHeader # "" /\ p.path # "" /\ p.serviceName # "" /\ p.fingerprint # ""
      /\ p.publicKey # "" /\ p.shortId # "" /\ p.spiderX # ""
  BY ONLY <1>1 DEF StringAt, Null
<1>7. QED
  BY <1>1, <1>2, <1>3, <1>4, <1>5, <1>6 DEF RowFits

(* An apply of a row that says what the inbound says changes neither what  *)
(* the row says of the inbound nor what clients hold of it.                *)
LEMMA ApplySettles ==
  ASSUME NEW r, RowFits(r), NEW s, WireFits(s), RowOfWire(r, s), NEW w, w = WireFor(r, s)
  PROVE  /\ RowOfWire(r, w) /\ (Complete(r, s) => Complete(r, w))
         /\ w.protocol = s.protocol /\ w.security = s.security
         /\ w.network = SupportedTransport(s.network) /\ w.flow = s.flow
         /\ w.ws = s.ws /\ w.grpc.serviceName = s.grpc.serviceName
         /\ w.tls.serverName = s.tls.serverName /\ w.tls.alpn = s.tls.alpn
         /\ w.reality.serverNames = s.reality.serverNames
         /\ w.reality.shortIds = s.reality.shortIds
         /\ w.reality.publicKey = s.reality.publicKey
         /\ w.reality.fingerprint = s.reality.fingerprint
<1>1. WrittenFor(r, s, w)
  BY WireForSays
<1>2. /\ w.protocol = s.protocol /\ w.security = s.security /\ w.flow = s.flow
      /\ w.network = r.transport /\ r.transport = SupportedTransport(s.network)
      /\ r.protocol = w.protocol /\ r.security = w.security /\ r.flow = w.flow
  BY <1>1 DEF WrittenFor, RowOfWire
<1>3. r.transport = SupportedTransport(w.network)
  BY <1>2 DEF SupportedTransport, RowFits
<1>4. /\ NoTls.serverName = Null /\ NoTls.alpn = Null /\ NoWs.host = Null /\ NoWs.path = Null
      /\ NoGrpc.serviceName = Null
  BY DEF NoTls, NoWs, NoGrpc
<1>5. /\ NoReality.serverNames = Null /\ NoReality.serverName = Null
      /\ NoReality.fingerprint = Null /\ NoReality.publicKey = Null
      /\ NoReality.shortIds = Null /\ NoReality.spiderX = Null
  BY DEF NoReality
<1>6. /\ w.tls.serverName = s.tls.serverName /\ w.tls.alpn = s.tls.alpn
  <2>1. CASE r.security = "tls"
    <3>1. /\ w.tls.serverName = Or(r.sni, "") /\ w.tls.alpn = Or(r.alpn, "h2,http/1.1")
          /\ s.tls.serverName # Null /\ s.tls.alpn # Null /\ s.reality = NoReality
      BY <1>1, <1>2, <2>1 DEF WrittenFor, WireFits
    <3>2. r.sni = StringAt(s.tls.serverName) /\ r.alpn = s.tls.alpn
      BY <1>5, <3>1 DEF RowOfWire, Or, StringAt, Null
    <3>3. QED
      BY <3>1, <3>2 DEF Or, StringAt, Null
  <2>2. CASE r.security # "tls"
    BY <1>1, <1>2, <2>2 DEF WrittenFor, WireFits
  <2>3. QED
    BY <2>1, <2>2
<1>7. r.alpn = w.tls.alpn
  BY <1>6 DEF RowOfWire
<1>8. /\ w.reality.serverNames = s.reality.serverNames
      /\ w.reality.shortIds = s.reality.shortIds
      /\ w.reality.publicKey = s.reality.publicKey
      /\ w.reality.fingerprint = s.reality.fingerprint
      /\ StringAt(w.reality.serverName) \in {Null, StringAt(w.reality.serverNames)}
      /\ StringAt(s.reality.serverName) # Null => StringAt(s.reality.serverNames) # Null
  <2>1. CASE r.security = "reality"
    <3>1. /\ w.reality.serverNames = Or(r.sni, s.reality.serverNames)
          /\ w.reality.shortIds = Or(r.shortId, s.reality.shortIds)
          /\ w.reality.publicKey = Or(r.publicKey, Or(StringAt(s.reality.publicKey), ""))
          /\ w.reality.fingerprint =
               Or(r.fingerprint, Or(StringAt(s.reality.fingerprint), "chrome"))
          /\ w.reality.serverName = Or(r.sni, Or(StringAt(s.reality.serverName), ""))
      BY <1>1, <2>1 DEF WrittenFor
    <3>2. /\ s.reality.publicKey # Null /\ s.reality.fingerprint \notin {Null, ""}
          /\ s.reality.serverNames \in {Null, ""} => s.reality.serverName \in {Null, ""}
          /\ s.tls = NoTls
      BY <1>2, <2>1 DEF WireFits
    <3>3. r.sni = StringAt(s.reality.serverNames)
      BY <1>4, <3>2 DEF RowOfWire, Or, StringAt, Null
    <3>4. r.shortId = StringAt(s.reality.shortIds) /\ r.publicKey = StringAt(s.reality.publicKey)
          /\ r.fingerprint = StringAt(s.reality.fingerprint)
      BY DEF RowOfWire
    <3>5. w.reality.serverNames = s.reality.serverNames
      BY <3>1, <3>3 DEF Or, StringAt, Null
    <3>6. w.reality.shortIds = s.reality.shortIds
      BY <3>1, <3>4 DEF Or, StringAt, Null
    <3>7. w.reality.publicKey = s.reality.publicKey
      BY <3>1, <3>2, <3>4 DEF Or, StringAt, Null
    <3>8. w.reality.fingerprint = s.reality.fingerprint
      BY <3>1, <3>2, <3>4 DEF Or, StringAt, Null
    <3>9. StringAt(w.reality.serverName) \in {Null, StringAt(w.reality.serverNames)}
      BY <3>1, <3>2, <3>3, <3>5 DEF Or, StringAt, Null
    <3>10. StringAt(s.reality.serverName) # Null => StringAt(s.reality.serverNames) # Null
      BY <3>2 DEF StringAt, Null
    <3>11. QED
      BY <3>5, <3>6, <3>7, <3>8, <3>9, <3>10
  <2>2. CASE r.security # "reality"
    <3>1. w.reality = NoReality /\ s.reality = NoReality
      BY <1>1, <1>2, <2>2 DEF WrittenFor, WireFits
    <3>2. QED
      BY <1>5, <3>1 DEF StringAt, Null
  <2>3. QED
    BY <2>1, <2>2
<1>9. r.sni = Or(StringAt(w.reality.serverNames),
                 Or(StringAt(w.reality.serverName), StringAt(w.tls.serverName)))
  <2>1. r.sni = Or(StringAt(s.reality.serverNames),
                   Or(StringAt(s.reality.serverName), StringAt(s.tls.serverName)))
    BY DEF RowOfWire
  <2>2. Or(StringAt(s.reality.serverNames), Or(StringAt(s.reality.serverName), Null)) =
          StringAt(s.reality.serverNames)
    BY <1>8 DEF Or, Null
  <2>3. r.sni = Or(StringAt(s.reality.serverNames), StringAt(s.tls.serverName))
    BY <1>8, <2>1 DEF Or, Null
  <2>4. Or(StringAt(w.reality.serverNames),
           Or(StringAt(w.reality.serverName), StringAt(w.tls.serverName))) =
          Or(StringAt(w.reality.serverNames), StringAt(w.tls.serverName))
    BY <1>8 DEF Or, Null
  <2>5. QED
    BY <1>6, <1>8, <2>3, <2>4
<1>10. /\ w.ws = s.ws /\ w.grpc.serviceName = s.grpc.serviceName
  <2>1. r.transport = "ws" <=> s.network = "ws"
    BY <1>2 DEF SupportedTransport, Transports
  <2>2. r.transport = "grpc" <=> s.network = "grpc"
    BY <1>2 DEF SupportedTransport, Transports
  <2>3. w.ws = s.ws
    <3>1. CASE r.transport = "ws"
      <4>1. w.ws.path = Or(r.path, "/") /\ w.ws.host = Or(r.hostHeader, "")
        BY <1>1, <3>1 DEF WrittenFor
      <4>2. s.ws.path \notin {Null, ""} /\ s.ws.host # Null
        BY <2>1, <3>1 DEF WireFits
      <4>3. r.path = StringAt(s.ws.path) /\ r.hostHeader = StringAt(s.ws.host)
        BY DEF RowOfWire
      <4>4. w.ws.path = s.ws.path /\ w.ws.host = s.ws.host
        BY <4>1, <4>2, <4>3 DEF Or, StringAt, Null
      <4>5. w.ws = [path |-> w.ws.path, host |-> w.ws.host]
        BY <1>1, <3>1 DEF WrittenFor
      <4>6. s.ws = [path |-> s.ws.path, host |-> s.ws.host]
        BY <2>1, <3>1 DEF WireFits
      <4>7. QED
        BY ONLY <4>4, <4>5, <4>6
    <3>2. CASE r.transport # "ws"
      BY <1>1, <2>1, <3>2 DEF WrittenFor, WireFits
    <3>3. QED
      BY <3>1, <3>2
  <2>4. w.grpc.serviceName = s.grpc.serviceName
    <3>1. CASE r.transport = "grpc"
      <4>1. w.grpc.serviceName = Or(r.serviceName, "") /\ s.grpc.serviceName # Null
        BY <1>1, <2>2, <3>1 DEF WrittenFor, WireFits
      <4>2. r.serviceName = StringAt(s.grpc.serviceName)
        BY DEF RowOfWire
      <4>3. QED
        BY <4>1, <4>2 DEF Or, StringAt, Null
    <3>2. CASE r.transport # "grpc"
      BY <1>1, <2>2, <3>2 DEF WrittenFor, WireFits
    <3>3. QED
      BY <3>1, <3>2
  <2>5. QED
    BY <2>3, <2>4
<1>11. RowOfWire(r, w)
  BY <1>2, <1>3, <1>7, <1>8, <1>9, <1>10 DEF RowOfWire
<1>12. Complete(r, s) => Complete(r, w)
  <2>1. CASE r.security = "reality"
    <3>1. w.reality.spiderX = Or(r.spiderX, Or(StringAt(s.reality.spiderX), "/"))
      BY <1>1, <2>1 DEF WrittenFor
    <3>2. Complete(r, s) => r.spiderX = StringAt(s.reality.spiderX)
                            /\ s.reality.spiderX \notin {Null, ""}
      BY <1>2, <2>1 DEF Complete
    <3>3. QED
      BY <3>1, <3>2 DEF Complete, Or, StringAt, Null
  <2>2. CASE r.security # "reality"
    BY <1>1, <1>2, <2>2 DEF WrittenFor, WireFits, Complete
  <2>3. QED
    BY <2>1, <2>2
<1>13. QED
  BY <1>2, <1>6, <1>8, <1>10, <1>11, <1>12

(* The row keeps a password it was given for a new inbound.                *)
LEMMA KeptSays ==
  ASSUME NEW r, RowFits(r), NEW s, NEW k, k = KeptRow(r, s)
  PROVE  /\ RowFits(k) /\ \A w : RowOfWire(r, w) => RowOfWire(k, w)
         /\ k.protocol = r.protocol /\ k.security = r.security /\ k.known = r.known
         /\ k.spiderX = r.spiderX /\ k.key = r.key
         /\ r.protocol = "shadowsocks" /\ s.password = Null => k.password = Password(r, s)
         /\ ~(r.protocol = "shadowsocks" /\ s.password = Null) => k = r
<1>1. CASE r.protocol = "shadowsocks" /\ s.password = Null
  <2>1. PICK p : p = Password(r, s)
    OBVIOUS
  <2>2. k = [r EXCEPT !.password = p]
    BY <1>1, <2>1 DEF KeptRow
  <2>3. /\ k.protocol = r.protocol /\ k.transport = r.transport /\ k.security = r.security
        /\ k.sni = r.sni /\ k.hostHeader = r.hostHeader /\ k.path = r.path
        /\ k.serviceName = r.serviceName /\ k.alpn = r.alpn /\ k.fingerprint = r.fingerprint
        /\ k.flow = r.flow /\ k.publicKey = r.publicKey /\ k.shortId = r.shortId
        /\ k.spiderX = r.spiderX /\ k.key = r.key /\ k.known = r.known /\ k.password = p
        /\ IsRow(k)
    BY <2>2 DEF RowFits, IsRow
  <2>4. RowFits(k)
    BY <2>3 DEF RowFits
  <2>5. \A w : RowOfWire(r, w) => RowOfWire(k, w)
    BY ONLY <2>3 DEF RowOfWire
  <2>6. QED
    BY <1>1, <2>1, <2>3, <2>4, <2>5
<1>2. CASE ~(r.protocol = "shadowsocks" /\ s.password = Null)
  BY <1>2 DEF KeptRow
<1>3. QED
  BY <1>1, <1>2

(* Two rows that say the same of an inbound are the same but for what it   *)
(* does not tell.                                                          *)
LEMMA SameRow ==
  ASSUME NEW r, RowFits(r), NEW p, RowFits(p), NEW w, RowOfWire(r, w), RowOfWire(p, w),
         p.spiderX = r.spiderX, p.known = r.known
  PROVE  p = [r EXCEPT !.key = p.key, !.password = p.password]
<1>1. /\ p.protocol = r.protocol /\ p.transport = r.transport /\ p.security = r.security
      /\ p.sni = r.sni /\ p.hostHeader = r.hostHeader /\ p.path = r.path
      /\ p.serviceName = r.serviceName /\ p.alpn = r.alpn /\ p.fingerprint = r.fingerprint
      /\ p.flow = r.flow /\ p.publicKey = r.publicKey /\ p.shortId = r.shortId
  BY DEF RowOfWire
<1>2. IsRow(r) /\ IsRow(p)
  BY DEF RowFits
<1>3. PICK q : q = [r EXCEPT !.key = p.key, !.password = p.password]
  OBVIOUS
<1>4. q = [protocol |-> r.protocol, transport |-> r.transport, security |-> r.security,
           sni |-> r.sni, hostHeader |-> r.hostHeader, path |-> r.path,
           serviceName |-> r.serviceName, alpn |-> r.alpn, fingerprint |-> r.fingerprint,
           flow |-> r.flow, publicKey |-> r.publicKey, shortId |-> r.shortId,
           spiderX |-> r.spiderX, key |-> p.key, password |-> p.password, known |-> r.known]
  BY ONLY <1>2, <1>3 DEF IsRow
<1>5. QED
  BY <1>1, <1>2, <1>3, <1>4 DEF IsRow

(* An answered apply writes what the inbound now says.                     *)
LEMMA AnsweredSays ==
  ASSUME NEW r, RowFits(r), NEW s, NEW n, WireFits(n), n = WireFor(r, s),
         NEW k, k = KeptRow(r, s),
         NEW p, p = [PatchedRow(k, n) EXCEPT !.known = "applied"]
  PROVE  RowFits(p) /\ p.known = "applied" /\ RowOfWire(p, n) /\ Complete(p, n)
<1>1. RowFits(k)
  BY KeptSays
<1>2. PICK q : q = PatchedRow(k, n)
  OBVIOUS
<1>3. RowFits(q) /\ RowOfWire(q, n) /\ q.spiderX = StringAt(n.reality.spiderX)
  BY <1>1, <1>2, PatchSays
<1>4. p = [q EXCEPT !.known = "applied"]
  BY <1>2
<1>5. /\ p.protocol = q.protocol /\ p.transport = q.transport /\ p.security = q.security
      /\ p.sni = q.sni /\ p.hostHeader = q.hostHeader /\ p.path = q.path
      /\ p.serviceName = q.serviceName /\ p.alpn = q.alpn /\ p.fingerprint = q.fingerprint
      /\ p.flow = q.flow /\ p.publicKey = q.publicKey /\ p.shortId = q.shortId
      /\ p.spiderX = q.spiderX /\ p.known = "applied" /\ IsRow(p)
  BY ONLY <1>3, <1>4 DEF RowFits, IsRow
<1>6. RowFits(p)
  BY ONLY <1>3, <1>5 DEF RowFits
<1>7. RowOfWire(p, n)
  BY ONLY <1>3, <1>5 DEF RowOfWire
<1>8. n.security = "reality" => n.reality.spiderX \notin {Null, ""}
  <2>1. WrittenFor(r, s, n)
    BY WireForSays
  <2>2. n.security = "reality" =>
          n.reality.spiderX = Or(r.spiderX, Or(StringAt(s.reality.spiderX), "/"))
    BY <2>1 DEF WrittenFor
  <2>3. r.spiderX # ""
    BY DEF RowFits
  <2>4. QED
    BY <2>2, <2>3 DEF Or, StringAt, Null
<1>9. QED
  BY <1>3, <1>5, <1>6, <1>7, <1>8 DEF Complete

(* An inbound of its own that a row makes has the secrets of the row.      *)
LEMMA NewSecrets ==
  ASSUME NEW r, RowFits(r), NEW n, n = WireFor(r, NoWire), NEW k, k = KeptRow(r, NoWire)
  PROVE  /\ SecretsInRow(k, n)
         /\ \A w : WireFits(w) /\ SecretsInRow(r, w) =>
              /\ SecretsInRow(k, w)
              /\ w.password # Null => n.password = w.password
              /\ w.reality.privateKey # Null =>
                   /\ n.reality.privateKey = w.reality.privateKey
                   /\ n.reality.target = w.reality.target
<1>1. /\ NoWire.password = Null
      /\ NoWire.reality = NoReality /\ NoReality.privateKey = Null /\ NoReality.target = Null
  BY DEF NoWire, NoReality
<1>2. WrittenFor(r, NoWire, n)
  BY WireForSays
<1>3. /\ k.protocol = r.protocol /\ k.security = r.security /\ k.key = r.key
      /\ r.protocol = "shadowsocks" => k.password = Password(r, NoWire)
      /\ r.protocol # "shadowsocks" => k.password = r.password
  BY <1>1, KeptSays
<1>4. /\ n.protocol = r.protocol /\ n.security = r.security
      /\ r.protocol = "shadowsocks" => n.password = Password(r, NoWire)
      /\ r.protocol # "shadowsocks" => n.password = Null
      /\ r.security # "reality" => n.reality = NoReality
      /\ r.security = "reality" => n.reality.target = Or(NoReality.target, "dest")
                                   /\ n.reality.privateKey = Or(NoReality.privateKey, r.key)
  BY <1>1, <1>2 DEF WrittenFor
<1>5. r.security = "reality" => n.reality.target = "dest" /\ n.reality.privateKey = r.key
  BY <1>1, <1>4 DEF Or
<1>6. r.password # Null => Password(r, NoWire) = r.password
  BY <1>1 DEF Password, Or
<1>7. SecretsInRow(k, n)
  BY <1>1, <1>3, <1>4, <1>5 DEF SecretsInRow
<1>8. ASSUME NEW w, WireFits(w), SecretsInRow(r, w)
      PROVE  /\ SecretsInRow(k, w)
             /\ w.password # Null => n.password = w.password
             /\ w.reality.privateKey # Null =>
                  /\ n.reality.privateKey = w.reality.privateKey
                  /\ n.reality.target = w.reality.target
  <2>1. w.password # Null => w.protocol = "shadowsocks"
    BY <1>8 DEF WireFits
  <2>2. /\ w.protocol = r.protocol /\ (w.password # Null => r.password = w.password)
        /\ w.reality.privateKey # Null =>
             r.security = "reality" /\ r.key = w.reality.privateKey /\ w.reality.target = "dest"
    BY <1>8 DEF SecretsInRow
  <2>3. QED
    BY <1>3, <1>4, <1>5, <1>6, <2>1, <2>2 DEF SecretsInRow
<1>9. QED
  BY <1>7, <1>8

(* A typed row fits, and so does an inbound made by hand.                  *)
LEMMA MappingStarts == MappingInit => MappingInv
<1>1. ASSUME NEW r \in TypedRows PROVE RowFits(r) /\ r.known = "no"
  <2>1. PICK pr \in Protocols, tr \in Transports, se \in Securities, s \in Maybe("host"),
             h \in Maybe("front"), pa \in Maybe("/p"), al \in Maybe("h3"),
             fl \in Maybe("vision"), k \in Maybe("id"), mk \in Maybe("secret") :
        r = [protocol |-> pr, transport |-> tr, security |-> se, sni |-> s,
             hostHeader |-> h, path |-> pa,
             serviceName |-> IF pa = Null THEN Null ELSE "svc", alpn |-> al,
             fingerprint |-> IF al = Null THEN Null ELSE "firefox", flow |-> fl,
             publicKey |-> k, shortId |-> k, spiderX |-> k, key |-> mk, password |-> Null,
             known |-> "no"]
    BY DEF TypedRows
  <2>2. s # "" /\ h # "" /\ pa # "" /\ k # ""
    BY DEF Maybe, Null
  <2>3. PICK sn : sn = IF pa = Null THEN Null ELSE "svc"
    OBVIOUS
  <2>4. PICK fp : fp = IF al = Null THEN Null ELSE "firefox"
    OBVIOUS
  <2>5. sn # "" /\ fp # ""
    BY <2>3, <2>4 DEF Null
  <2>6. r = [protocol |-> pr, transport |-> tr, security |-> se, sni |-> s,
             hostHeader |-> h, path |-> pa, serviceName |-> sn, alpn |-> al,
             fingerprint |-> fp, flow |-> fl, publicKey |-> k, shortId |-> k,
             spiderX |-> k, key |-> mk, password |-> Null, known |-> "no"]
    BY <2>1, <2>3, <2>4
  <2>7. QED
    BY <2>2, <2>5, <2>6 DEF RowFits, IsRow
<1>2. RowFits(BlankRow) /\ BlankRow.known = "no" /\ BlankRow.protocol = Null
  BY DEF RowFits, IsRow, BlankRow, Null, Transports, Securities
<1>3. ASSUME NEW w \in HandMade PROVE WireFits(w)
  <2>1. PICK pr \in Protocols, net \in Networks, se \in Securities,
             fl \in Maybe("vision"), s \in Blank("host"), h \in Blank("front") :
        w = MadeByHand(pr, net, se, fl, s, h)
    BY DEF HandMade
  <2>2. PICK pw : pw = IF pr = "shadowsocks" THEN "by hand" ELSE Null
    OBVIOUS
  <2>3. PICK tls : tls = IF se = "tls" THEN [serverName |-> s, alpn |-> "h3",
                                            fingerprint |-> "firefox"] ELSE NoTls
    OBVIOUS
  <2>4. PICK re : re = IF se = "reality"
                       THEN [NoReality EXCEPT !.target = "dest", !.privateKey = "secret",
                               !.serverNames = s, !.shortIds = "id", !.publicKey = "id",
                               !.fingerprint = "firefox"] ELSE NoReality
    OBVIOUS
  <2>5. PICK ws : ws = IF net = "ws" THEN [path |-> "/p", host |-> h] ELSE NoWs
    OBVIOUS
  <2>6. PICK gr : gr = IF net = "grpc" THEN [serviceName |-> "svc", authority |-> h] ELSE NoGrpc
    OBVIOUS
  <2>7. w = [NoWire EXCEPT !.protocol = pr, !.network = net, !.security = se, !.flow = fl,
               !.password = pw, !.tls = tls, !.reality = re, !.ws = ws, !.grpc = gr]
    BY <2>1, <2>2, <2>3, <2>4, <2>5, <2>6 DEF MadeByHand
  <2>8. /\ w.protocol = pr /\ w.network = net /\ w.security = se /\ w.password = pw
        /\ w.tls = tls /\ w.reality = re /\ w.ws = ws /\ w.grpc = gr
    BY ONLY <2>7 DEF NoWire
  <2>9. IF se = "tls" THEN tls.serverName # Null /\ tls.alpn # Null ELSE tls = NoTls
    BY ONLY <2>1, <2>3 DEF Null, Blank
  <2>10. IF se = "reality"
         THEN /\ re.target # Null /\ re.publicKey # Null /\ re.fingerprint \notin {Null, ""}
              /\ re.serverNames \in {Null, ""} => re.serverName \in {Null, ""}
         ELSE re = NoReality
    BY ONLY <2>1, <2>4 DEF Null, NoReality, Blank
  <2>11. IF net = "ws"
         THEN ws = [path |-> ws.path, host |-> ws.host] /\ ws.path \notin {Null, ""}
              /\ ws.host # Null
         ELSE ws = NoWs
    BY ONLY <2>1, <2>5 DEF Null, Blank
  <2>12. IF net = "grpc" THEN gr.serviceName # Null ELSE gr = NoGrpc
    BY ONLY <2>1, <2>6 DEF Null, Blank
  <2>13. pw # Null => pr = "shadowsocks"
    BY ONLY <2>2
  <2>14. net # Null
    BY <2>1 DEF Networks, Transports, Null
  <2>15. QED
    BY ONLY <2>1, <2>8, <2>9, <2>10, <2>11, <2>12, <2>13, <2>14 DEF WireFits
<1>4. QED
  BY <1>1, <1>2, <1>3, MappingAssumption DEF MappingInit, MappingInv

Drift == SecretsStay /\ RowStays /\ ClientsServedAsBefore

(* A row that knows its inbound describes it, so that an apply writes what *)
(* is there; one that does not has the secrets of the inbound it made.     *)
LEMMA ApplyKeeps ==
  ASSUME MappingInv, NEW answer, Apply(answer)
  PROVE  MappingInv' /\ Drift
<1>0. PICK r : r = row
  OBVIOUS
<1>1. PICK w : w = wire
  OBVIOUS
<1>2. PICK s : s = IF r.known # "no" THEN w ELSE NoWire
  OBVIOUS
<1>3. PICK n : n = WireFor(r, s)
  OBVIOUS
<1>4. PICK k : k = KeptRow(r, s)
  OBVIOUS
<1>5. PICK p : p = [PatchedRow(k, n) EXCEPT !.known = "applied"]
  OBVIOUS
<1>6. /\ wire' = (IF answer = "refused" THEN w ELSE n)
      /\ row' = (IF answer = "answered" THEN p ELSE k)
      /\ r.protocol # Null
      /\ applies < MaxApplies /\ applies' = applies + 1
      /\ sent' = (IF answer = "refused" THEN sent ELSE sent + 1)
  BY <1>0, <1>1, <1>2, <1>3, <1>4, <1>5 DEF Apply
<1>7. /\ RowFits(r) /\ (w # NoWire => WireFits(w))
      /\ r.known # "no" => w # NoWire /\ RowOfWire(r, w)
      /\ r.known = "applied" => Complete(r, w)
      /\ r.known = "no" /\ r.protocol # Null /\ w # NoWire => SecretsInRow(r, w)
      /\ applies \in 0 .. MaxApplies /\ sent \in 0 .. applies
  BY <1>0, <1>1 DEF MappingInv
<1>8. WireFits(n) /\ n # NoWire
  BY <1>2, <1>3, <1>6, <1>7, WireForFits
<1>9. RowFits(p) /\ p.known = "applied" /\ RowOfWire(p, n) /\ Complete(p, n)
  BY <1>3, <1>4, <1>5, <1>7, <1>8, AnsweredSays
<1>10. /\ RowFits(k) /\ (\A v : RowOfWire(r, v) => RowOfWire(k, v))
       /\ k.protocol = r.protocol /\ k.known = r.known
       /\ k.spiderX = r.spiderX /\ k.key = r.key
  BY <1>4, <1>7, KeptSays
<1>11. applies' \in 0 .. MaxApplies /\ sent' \in 0 .. applies'
  BY <1>6, <1>7, MappingAssumption
<1>12. CASE r.known = "no"
  <2>1. s = NoWire
    BY <1>2, <1>12
  <2>2. /\ SecretsInRow(k, n)
        /\ WireFits(w) /\ SecretsInRow(r, w) =>
             /\ SecretsInRow(k, w)
             /\ w.password # Null => n.password = w.password
             /\ w.reality.privateKey # Null =>
                  /\ n.reality.privateKey = w.reality.privateKey
                  /\ n.reality.target = w.reality.target
    BY <1>3, <1>4, <1>7, <2>1, NewSecrets
  <2>3. w = NoWire => w.password = Null /\ w.reality.privateKey = Null
    BY DEF NoWire, NoReality
  <2>4. SecretsStay
    BY <1>1, <1>6, <1>7, <1>12, <2>2, <2>3 DEF SecretsStay
  <2>5. RowStays /\ ClientsServedAsBefore
    BY <1>0, <1>12 DEF RowStays, ClientsServedAsBefore
  <2>6. CASE answer = "answered"
    <3>1. wire' = n /\ row' = p
      BY <1>6, <2>6
    <3>2. QED
      BY <1>8, <1>9, <1>11, <2>4, <2>5, <3>1 DEF MappingInv, Drift
  <2>7. CASE answer # "answered"
    <3>1. row' = k /\ (wire' = w \/ wire' = n)
      BY <1>6, <2>7
    <3>2. wire' # NoWire => SecretsInRow(k, wire') /\ WireFits(wire')
      BY <1>6, <1>7, <1>8, <1>12, <2>2, <3>1
    <3>3. QED
      BY <1>10, <1>11, <1>12, <2>4, <2>5, <3>1, <3>2 DEF MappingInv, Drift
  <2>8. QED
    BY <2>6, <2>7
<1>13. CASE r.known # "no"
  <2>1. s = w /\ WireFits(w) /\ RowOfWire(r, w) /\ w # NoWire
    BY <1>2, <1>7, <1>13
  <2>2. /\ RowOfWire(r, n) /\ (Complete(r, w) => Complete(r, n))
        /\ n.protocol = w.protocol /\ n.security = w.security
        /\ n.network = SupportedTransport(w.network) /\ n.flow = w.flow
        /\ n.ws = w.ws /\ n.grpc.serviceName = w.grpc.serviceName
        /\ n.tls.serverName = w.tls.serverName /\ n.tls.alpn = w.tls.alpn
        /\ n.reality.serverNames = w.reality.serverNames
        /\ n.reality.shortIds = w.reality.shortIds
        /\ n.reality.publicKey = w.reality.publicKey
        /\ n.reality.fingerprint = w.reality.fingerprint
    BY <1>3, <1>7, <2>1, ApplySettles
  <2>3. WrittenFor(r, w, n)
    BY <1>3, <2>1, WireForSays
  <2>4. r.protocol = w.protocol /\ r.security = w.security
    BY <2>1 DEF RowOfWire
  <2>5. w.password # Null => n.password = w.password
    BY <2>1, <2>3, <2>4 DEF WireFits, WrittenFor, Password, Or
  <2>6. w.reality.privateKey # Null =>
          n.reality.privateKey = w.reality.privateKey /\ n.reality.target = w.reality.target
    <3>1. CASE w.security = "reality"
      <4>1. w.reality.target # Null
        BY <2>1, <3>1 DEF WireFits
      <4>2. QED
        BY <2>3, <2>4, <3>1, <4>1 DEF WrittenFor, Or
    <3>2. CASE w.security # "reality"
      <4>1. w.reality = NoReality /\ NoReality.privateKey = Null
        BY <2>1, <3>2 DEF WireFits, NoReality
      <4>2. QED
        BY <4>1
    <3>3. QED
      BY <3>1, <3>2
  <2>7. SecretsStay
    BY <1>1, <1>6, <2>5, <2>6 DEF SecretsStay
  <2>8. ClientsServedAsBefore
    <3>1. wire' = w \/ wire' = n
      BY <1>6
    <3>2. CASE wire' = w
      BY <1>1, <3>2 DEF ClientsServedAsBefore
    <3>3. CASE wire' = n
      BY <1>1, <2>2, <3>3 DEF ClientsServedAsBefore
    <3>4. QED
      BY <3>1, <3>2, <3>3
  <2>9. CASE answer = "answered"
    <3>1. wire' = n /\ row' = p
      BY <1>6, <2>9
    <3>2. ASSUME r.known = "applied" PROVE p = [r EXCEPT !.key = p.key, !.password = p.password]
      <4>1. Complete(r, n)
        BY <1>7, <2>2, <3>2
      <4>2. p.spiderX = r.spiderX
        BY <1>9, <4>1 DEF Complete
      <4>3. QED
        BY <1>7, <1>9, <2>2, <3>2, <4>2, SameRow
    <3>3. RowStays
      BY <1>0, <3>1, <3>2 DEF RowStays
    <3>4. QED
      BY <1>8, <1>9, <1>11, <2>7, <2>8, <3>1, <3>3 DEF MappingInv, Drift
  <2>10. CASE answer # "answered"
    <3>1. row' = k /\ (wire' = w \/ wire' = n)
      BY <1>6, <2>10
    <3>2. RowOfWire(k, wire') /\ WireFits(wire') /\ wire' # NoWire
      BY <1>8, <1>10, <2>1, <2>2, <3>1
    <3>3. r.known = "applied" => Complete(r, wire')
      BY <1>7, <2>2, <3>1
    <3>4. k.known = "applied" => Complete(k, wire')
      BY <1>10, <3>3 DEF Complete
    <3>5. RowOfWire(k, w) /\ RowOfWire(r, w)
      BY <1>10, <2>1
    <3>6. k = [r EXCEPT !.key = k.key, !.password = k.password]
      BY <1>7, <1>10, <3>5, SameRow
    <3>7. RowStays
      BY <1>0, <3>1, <3>6 DEF RowStays
    <3>8. QED
      BY <1>10, <1>11, <1>13, <2>7, <2>8, <3>1, <3>2, <3>4, <3>7 DEF MappingInv, Drift
  <2>11. QED
    BY <2>9, <2>10
<1>14. QED
  BY <1>12, <1>13

(* A sync drops the row's secrets, and a row it leaves knows its inbound.  *)
LEMMA SyncKeeps ==
  ASSUME MappingInv, SyncRow
  PROVE  MappingInv' /\ Drift
<1>0. PICK r : r = row
  OBVIOUS
<1>1. PICK w : w = wire
  OBVIOUS
<1>2. PICK q : q = PatchedRow(r, w)
  OBVIOUS
<1>3. PICK kn : kn = IF r.known = "no" THEN "synced" ELSE r.known
  OBVIOUS
<1>4. /\ RowFits(r) /\ WireFits(w) /\ w # NoWire /\ r.known \in {"no", "synced", "applied"}
      /\ r.known # "no" => RowOfWire(r, w)
      /\ r.known = "applied" => Complete(r, w)
      /\ wire' = w /\ applies' = applies /\ sent' = sent
  BY <1>0, <1>1 DEF MappingInv, SyncRow, RowFits
<1>5. /\ RowFits(q) /\ RowOfWire(q, w) /\ q.spiderX = StringAt(w.reality.spiderX)
      /\ q.known = r.known
  BY <1>2, <1>4, PatchSays
<1>6. PICK p : p = [q EXCEPT !.key = Null, !.password = Null, !.known = kn]
  OBVIOUS
<1>7. row' = p
  BY <1>0, <1>1, <1>2, <1>3, <1>5, <1>6 DEF SyncRow
<1>8. /\ p.protocol = q.protocol /\ p.transport = q.transport /\ p.security = q.security
      /\ p.sni = q.sni /\ p.hostHeader = q.hostHeader /\ p.path = q.path
      /\ p.serviceName = q.serviceName /\ p.alpn = q.alpn /\ p.fingerprint = q.fingerprint
      /\ p.flow = q.flow /\ p.publicKey = q.publicKey /\ p.shortId = q.shortId
      /\ p.spiderX = q.spiderX /\ p.known = kn /\ IsRow(p)
  BY <1>5, <1>6 DEF RowFits, IsRow
<1>9. kn \in {"synced", "applied"} /\ (kn = "applied" <=> r.known = "applied")
  BY <1>3, <1>4
<1>10. RowFits(p) /\ RowOfWire(p, w)
  BY ONLY <1>5, <1>8, <1>9 DEF RowFits, RowOfWire
<1>11. kn = "applied" => Complete(p, w)
  BY <1>4, <1>5, <1>8, <1>9 DEF Complete
<1>12. MappingInv'
  BY <1>4, <1>7, <1>8, <1>9, <1>10, <1>11 DEF MappingInv
<1>13. SecretsStay /\ ClientsServedAsBefore
  BY <1>1, <1>4 DEF SecretsStay, ClientsServedAsBefore
<1>14. RowStays
  <2>1. ASSUME r.known = "applied" PROVE p = [r EXCEPT !.key = p.key, !.password = p.password]
    <3>1. p.spiderX = r.spiderX /\ p.known = r.known /\ RowOfWire(r, w)
      BY <1>4, <1>5, <1>8, <1>9, <2>1 DEF Complete
    <3>2. QED
      BY <1>4, <1>10, <3>1, SameRow
  <2>2. QED
    BY <1>0, <1>7, <2>1 DEF RowStays
<1>15. QED
  BY <1>12, <1>13, <1>14 DEF Drift

(* Every step keeps the invariant and lets nothing drift.                  *)
LEMMA MappingStep == MappingInv /\ [MappingNext]_mappingVars => MappingInv' /\ [Drift]_mappingVars
<1>1. CASE UNCHANGED mappingVars
  BY <1>1 DEF mappingVars, MappingInv
<1>2. ASSUME MappingInv, NEW answer \in {"answered", "lost", "refused"}, Apply(answer)
      PROVE  MappingInv' /\ Drift
  BY <1>2, ApplyKeeps
<1>3. ASSUME MappingInv, SyncRow PROVE MappingInv' /\ Drift
  BY <1>3, SyncKeeps
<1>4. QED
  BY <1>1, <1>2, <1>3 DEF MappingNext

LEMMA MappingTypes == MappingInv => MappingTypeOK
BY DEF MappingInv, MappingTypeOK, RowFits, WireFits

(* Whatever a profile went through, its inbound is complete, and a row     *)
(* that knows its inbound says of it what a sync would write               *)
(* (applyToProvider, syncFromProvider).                                    *)
THEOREM MappingHolds == MappingSpec => []MappingInv
BY MappingStarts, MappingStep, PTL DEF MappingSpec

(* The types of a profile and its inbound, which MappingInv includes       *)
(* (applyToProvider, syncFromProvider).                                    *)
THEOREM MappingTypeCorrect == MappingSpec => []MappingTypeOK
BY MappingTypes, MappingHolds, PTL

(* For any number of applies, nothing drifts from one to the next, though  *)
(* each takes the row from the panel's answer: the server's secrets stay,  *)
(* so does a row that an apply has written, and the clients an inbound has *)
(* are served as before (applyToProvider, profilePatchFromInbound,         *)
(* shadowsocksPassword, providerRealitySettings).                          *)
THEOREM NothingEverDrifts == MappingSpec => NothingDrifts
<1>1. MappingInv /\ [MappingNext]_mappingVars
        => [SecretsStay /\ RowStays /\ ClientsServedAsBefore]_mappingVars
  BY MappingStep DEF Drift
<1>2. QED
  BY <1>1, MappingHolds, PTL DEF MappingSpec, NothingDrifts
-----------------------------------------------------------------------------
(* A link, the stream settings read out of it, and the inbound.            *)

(* What a link says of its inbound, parameter by parameter.                *)
LEMMA LinkSays ==
  ASSUME NEW w, NEW scheme, NEW link, link = LinkOf(w, scheme), NEW q, q = link.query
  PROVE  /\ link.scheme = scheme
         /\ q.type = w.network
         /\ q.security = IF scheme = "vmess" THEN Null ELSE w.security
         /\ q.tls = IF scheme = "vmess" /\ w.security = "tls" THEN "tls" ELSE Null
         /\ w.security = "reality" => q.sni = StringAt(w.reality.serverNames)
         /\ w.security # "reality" => q.sni = StringAt(w.tls.serverName)
         /\ q.alpn = w.tls.alpn
         /\ q.pbk = StringAt(w.reality.publicKey)
         /\ q.sid = StringAt(w.reality.shortIds)
         /\ scheme = "vmess" /\ w.network = "grpc" => q.path = StringAt(w.grpc.serviceName)
         /\ ~(scheme = "vmess" /\ w.network = "grpc") => q.path = StringAt(w.ws.path)
         /\ q.host = StringAt(w.ws.host)
         /\ scheme = "vmess" => q.serviceName = Null
         /\ scheme # "vmess" => q.serviceName = StringAt(w.grpc.serviceName)
<1>1. PICK sec : sec = IF scheme = "vmess" THEN Null ELSE w.security
  OBVIOUS
<1>2. PICK tls : tls = IF scheme = "vmess" /\ w.security = "tls" THEN "tls" ELSE Null
  OBVIOUS
<1>3. PICK sni : sni = StringAt(IF w.security = "reality" THEN w.reality.serverNames
                                ELSE w.tls.serverName)
  OBVIOUS
<1>4. PICK alpn : alpn = w.tls.alpn
  OBVIOUS
<1>5. PICK pbk : pbk = StringAt(w.reality.publicKey)
  OBVIOUS
<1>6. PICK sid : sid = StringAt(w.reality.shortIds)
  OBVIOUS
<1>7. PICK path : path = StringAt(IF scheme = "vmess" /\ w.network = "grpc"
                                  THEN w.grpc.serviceName ELSE w.ws.path)
  OBVIOUS
<1>8. PICK host : host = StringAt(w.ws.host)
  OBVIOUS
<1>9. PICK sn : sn = IF scheme = "vmess" THEN Null ELSE StringAt(w.grpc.serviceName)
  OBVIOUS
<1>10. PICK fp, spx, au : /\ fp = StringAt(Or(w.reality.fingerprint, w.tls.fingerprint))
                          /\ spx = StringAt(w.reality.spiderX)
                          /\ au = StringAt(w.grpc.authority)
  OBVIOUS
<1>11. q = [type |-> w.network, security |-> sec, tls |-> tls, sni |-> sni, alpn |-> alpn,
            pbk |-> pbk, sid |-> sid, fp |-> fp, spx |-> spx, path |-> path, host |-> host,
            serviceName |-> sn, authority |-> au]
  BY <1>1, <1>2, <1>3, <1>4, <1>5, <1>6, <1>7, <1>8, <1>9, <1>10 DEF LinkOf
<1>12. /\ q.type = w.network /\ q.security = sec /\ q.tls = tls /\ q.sni = sni
       /\ q.alpn = alpn /\ q.pbk = pbk /\ q.sid = sid /\ q.path = path /\ q.host = host
       /\ q.serviceName = sn
  BY ONLY <1>11
<1>13. link.scheme = scheme
  BY DEF LinkOf
<1>14. /\ w.security = "reality" => q.sni = StringAt(w.reality.serverNames)
       /\ w.security # "reality" => q.sni = StringAt(w.tls.serverName)
  BY ONLY <1>3, <1>12
<1>15. /\ scheme = "vmess" /\ w.network = "grpc" => q.path = StringAt(w.grpc.serviceName)
       /\ ~(scheme = "vmess" /\ w.network = "grpc") => q.path = StringAt(w.ws.path)
  BY ONLY <1>7, <1>12
<1>16. /\ scheme = "vmess" => q.serviceName = Null
       /\ scheme # "vmess" => q.serviceName = StringAt(w.grpc.serviceName)
  BY ONLY <1>9, <1>12
<1>17. QED
  BY ONLY <1>1, <1>2, <1>4, <1>5, <1>6, <1>8, <1>12, <1>13, <1>14, <1>15, <1>16

(* What buildStreamSettings makes of a query, setting by setting.          *)
LEMMA StreamSays ==
  ASSUME NEW network, NEW security, NEW q, NEW x, x = StreamSettings(network, security, q)
  PROVE  /\ x.network = network /\ x.security = security
         /\ security \in {"tls", "reality"} => x.serverName = ServerName(q)
         /\ security = "tls" => x.alpn = q.alpn
         /\ security = "reality" => x.publicKey = q.pbk /\ x.shortId = q.sid
         /\ network = "ws" => /\ x.path = Or(q.path, "/")
                              /\ x.host = Or(q.host, Or(q.authority, q.sni))
         /\ network = "grpc" => x.serviceName = Or(q.serviceName, q.path)
<1>1. CASE network = "tcp" /\ security = "none"
  BY <1>1 DEF StreamSettings
<1>2. CASE ~(network = "tcp" /\ security = "none")
  <2>1. PICK name : name = IF security \in {"tls", "reality"} THEN ServerName(q) ELSE Null
    OBVIOUS
  <2>2. PICK alpn : alpn = IF security = "tls" THEN q.alpn ELSE Null
    OBVIOUS
  <2>3. PICK pk : pk = IF security = "reality" THEN q.pbk ELSE Null
    OBVIOUS
  <2>4. PICK sid : sid = IF security = "reality" THEN q.sid ELSE Null
    OBVIOUS
  <2>5. PICK fp : fp = IF security = "reality" THEN q.fp ELSE Null
    OBVIOUS
  <2>6. PICK path : path = IF network \in {"ws", "h2"} THEN Or(q.path, "/") ELSE Null
    OBVIOUS
  <2>7. PICK host : host = CASE network = "ws" -> Or(q.host, Or(q.authority, q.sni))
                             [] network = "h2" -> q.host
                             [] OTHER -> Null
    OBVIOUS
  <2>8. PICK sn : sn = IF network = "grpc" THEN Or(q.serviceName, q.path) ELSE Null
    OBVIOUS
  <2>9. PICK au : au = IF network = "grpc" THEN Or(q.authority, Or(q.host, q.sni)) ELSE Null
    OBVIOUS
  <2>10. x = [network |-> network, security |-> security, serverName |-> name,
              alpn |-> alpn, publicKey |-> pk, shortId |-> sid, fingerprint |-> fp,
              path |-> path, host |-> host, serviceName |-> sn, authority |-> au]
    BY <1>2, <2>1, <2>2, <2>3, <2>4, <2>5, <2>6, <2>7, <2>8, <2>9 DEF StreamSettings
  <2>11. /\ x.network = network /\ x.security = security /\ x.serverName = name
         /\ x.alpn = alpn /\ x.publicKey = pk /\ x.shortId = sid /\ x.path = path
         /\ x.host = host /\ x.serviceName = sn
    BY ONLY <2>10
  <2>12. network = "ws" => path = Or(q.path, "/") /\ host = Or(q.host, Or(q.authority, q.sni))
    BY ONLY <2>6, <2>7
  <2>13. QED
    BY ONLY <2>1, <2>2, <2>3, <2>4, <2>8, <2>11, <2>12
<1>3. QED
  BY <1>1, <1>2

(* The settings of a link that carries parameters are the inbound's.       *)
LEMMA StreamAccepted ==
  ASSUME NEW w, WireFits(w), NEW scheme \in {"vless", "trojan", "vmess"},
         scheme = "vmess" => w.security # "reality",
         NEW link, link = LinkOf(w, scheme), NEW q, q = link.query,
         NEW x, x = StreamSettings(w.network, w.security, q)
  PROVE  Accepts(w, x)
<1>1. /\ x.network = w.network /\ x.security = w.security
      /\ w.security \in {"tls", "reality"} => x.serverName = ServerName(q)
      /\ w.security = "tls" => x.alpn = q.alpn
      /\ w.security = "reality" => x.publicKey = q.pbk /\ x.shortId = q.sid
      /\ w.network = "ws" => /\ x.path = Or(q.path, "/")
                             /\ x.host = Or(q.host, Or(q.authority, q.sni))
      /\ w.network = "grpc" => x.serviceName = Or(q.serviceName, q.path)
  BY StreamSays
<1>2. /\ w.security = "reality" => q.sni = StringAt(w.reality.serverNames)
      /\ w.security # "reality" => q.sni = StringAt(w.tls.serverName)
      /\ q.alpn = w.tls.alpn
      /\ q.pbk = StringAt(w.reality.publicKey) /\ q.sid = StringAt(w.reality.shortIds)
      /\ scheme = "vmess" /\ w.network = "grpc" => q.path = StringAt(w.grpc.serviceName)
      /\ ~(scheme = "vmess" /\ w.network = "grpc") => q.path = StringAt(w.ws.path)
      /\ q.host = StringAt(w.ws.host)
      /\ scheme = "vmess" => q.serviceName = Null
      /\ scheme # "vmess" => q.serviceName = StringAt(w.grpc.serviceName)
  BY LinkSays
<1>3. \A v : Given(v) => StringAt(v) = v /\ v # Null
  BY DEF Given, StringAt
<1>4. \A a, b : (a # Null => Or(a, b) = a) /\ (a = Null => Or(a, b) = b)
  BY DEF Or
<1>5. w.security = "tls" =>
        /\ Given(w.tls.serverName) => x.serverName = w.tls.serverName
        /\ Given(w.tls.alpn) => x.alpn = w.tls.alpn
  BY <1>1, <1>2, <1>3, <1>4 DEF ServerName
<1>6. w.security = "reality" =>
        /\ Given(w.reality.serverNames) => x.serverName = w.reality.serverNames
        /\ Given(w.reality.publicKey) => x.publicKey = w.reality.publicKey
        /\ Given(w.reality.shortIds) => x.shortId = w.reality.shortIds
  BY <1>1, <1>2, <1>3, <1>4 DEF ServerName
<1>7. w.network = "ws" => Given(w.ws.path)
  BY DEF WireFits, Given
<1>8. w.network = "ws" => /\ x.path = w.ws.path
                          /\ Given(w.ws.host) => x.host = w.ws.host
  BY <1>1, <1>2, <1>3, <1>4, <1>7
<1>9. w.network = "grpc" => (Given(w.grpc.serviceName) => x.serviceName = w.grpc.serviceName)
  BY <1>1, <1>2, <1>3, <1>4
<1>10. QED
  BY <1>1, <1>5, <1>6, <1>8, <1>9 DEF Accepts

(* By each parser: vless, trojan and vmess say the security differently.   *)
LEMMA OutboundAccepted ==
  ASSUME NEW w, WireFits(w), NEW scheme \in {"vless", "trojan", "vmess"},
         scheme = "vmess" => w.security # "reality",
         NEW config, config = ParsedLink(LinkOf(w, scheme))
  PROVE  config # NoConfig /\ Accepts(w, config.stream)
<1>1. PICK link : link = LinkOf(w, scheme)
  OBVIOUS
<1>2. PICK q : q = link.query
  OBVIOUS
<1>3. PICK x : x = StreamSettings(w.network, w.security, q)
  OBVIOUS
<1>4. Accepts(w, x)
  BY <1>1, <1>2, <1>3, StreamAccepted
<1>5. /\ link.scheme = scheme /\ q.type = w.network
      /\ q.security = IF scheme = "vmess" THEN Null ELSE w.security
      /\ q.tls = IF scheme = "vmess" /\ w.security = "tls" THEN "tls" ELSE Null
  BY <1>1, <1>2, LinkSays
<1>6. w.network # Null /\ w.security \in {"none", "tls", "reality"}
  BY DEF WireFits, Securities
<1>7. Or(q.type, "tcp") = w.network
  BY <1>5, <1>6 DEF Or
<1>8. /\ scheme = "vless" => VlessSecurity(q) = w.security
      /\ scheme = "trojan" => TrojanSecurity(q) = w.security
  BY <1>5, <1>6 DEF VlessSecurity, TrojanSecurity, Or, Null
<1>9. scheme = "vmess" => VmessSecurity(q) = w.security
  BY <1>5, <1>6 DEF VmessSecurity, Or, Null
<1>10. PICK protocol \in {"vless", "trojan", "vmess"} : config = Outbound(protocol, w.security, q)
  <2>1. CASE scheme = "vless"
    BY <1>1, <1>2, <1>5, <1>8, <2>1 DEF ParsedLink
  <2>2. CASE scheme = "trojan"
    BY <1>1, <1>2, <1>5, <1>8, <2>2 DEF ParsedLink
  <2>3. CASE scheme = "vmess"
    BY <1>1, <1>2, <1>5, <1>9, <2>3 DEF ParsedLink
  <2>4. QED
    BY <2>1, <2>2, <2>3
<1>11. config = [protocol |-> protocol, stream |-> x]
  BY <1>3, <1>7, <1>10 DEF Outbound
<1>12. config.protocol # "none" /\ config.stream = x
  BY <1>10, <1>11
<1>13. NoConfig.protocol = "none"
  BY DEF NoConfig
<1>14. QED
  BY <1>4, <1>12, <1>13

(* An inbound that is complete accepts what is built from its link.        *)
LEMMA CompleteIsReached == MappingInv => ConfigReachesInbound
<1>1. ASSUME NEW w, w # NoWire, WireFits(w), NEW scheme \in Schemes(w), NEW source \in Sources,
             NEW config, config = RuntimeOf(source, LinkOf(w, scheme))
      PROVE  \/ config = NoConfig /\ (scheme = "wireguard" \/ source \in {"no links", "http error"})
             \/ config # NoConfig /\ Accepts(w, config.stream)
             \/ scheme = "ss" /\ (w.network # "tcp" \/ w.security # "none")
  <2>1. PICK link : link = LinkOf(w, scheme)
    OBVIOUS
  <2>2. link.scheme = scheme
    BY <2>1 DEF LinkOf
  <2>3. CASE source \in {"no links", "http error"} \/ scheme = "wireguard"
    <3>1. ResolvedLinks(source, link) = << >>
      BY <2>2, <2>3 DEF ResolvedLinks
    <3>2. config = NoConfig
      BY <1>1, <2>1, <3>1 DEF RuntimeOf
    <3>3. QED
      BY <2>3, <3>2
  <2>4. CASE source \notin {"no links", "http error"} /\ scheme # "wireguard"
    <3>1. scheme \in {"ss", "vless", "trojan", "vmess"} /\ (scheme = "vmess" => w.security # "reality")
      BY <1>1, <2>4 DEF Schemes
    <3>2. ResolvedLinks(source, link) = <<link>>
      BY <2>2, <2>4, <3>1 DEF ResolvedLinks
    <3>3. <<link>> # << >> /\ Head(<<link>>) = link
      OBVIOUS
    <3>4. config = ParsedLink(link)
      BY <1>1, <2>1, <3>2, <3>3 DEF RuntimeOf
    <3>5. CASE scheme = "ss"
      <4>1. config = ShadowsocksOutbound
        BY <2>2, <3>4, <3>5 DEF ParsedLink
      <4>2. /\ config.protocol = "shadowsocks" /\ NoConfig.protocol = "none"
            /\ config.stream = [network |-> "tcp", security |-> "none"]
        BY <4>1 DEF ShadowsocksOutbound, NoConfig
      <4>3. PICK x : x = config.stream
        OBVIOUS
      <4>4. x.network = "tcp" /\ x.security = "none"
        BY <4>2, <4>3
      <4>5. w.network = "tcp" /\ w.security = "none" => Accepts(w, x)
        BY <4>4 DEF Accepts
      <4>6. QED
        BY <3>5, <4>2, <4>3, <4>5
    <3>6. CASE scheme # "ss"
      BY <1>1, <2>1, <3>1, <3>4, <3>6, OutboundAccepted
    <3>7. QED
      BY <3>5, <3>6
  <2>5. QED
    BY <2>3, <2>4
<1>2. QED
  BY <1>1 DEF MappingInv, ConfigReachesInbound

(* Whatever applies, syncs and refusals have made of an inbound, the       *)
(* config built from its link is one it accepts or none is built, except   *)
(* shadowsocks over anything but plain tcp (providerInboundInput,          *)
(* parseLink, buildStreamSettings): an inbound is always complete.         *)
THEOREM ConfigsReachInbound == MappingSpec => []ConfigReachesInbound
BY CompleteIsReached, MappingHolds, PTL
=============================================================================
