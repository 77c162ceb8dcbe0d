---------------------------- MODULE PanelSession ----------------------------
(***************************************************************************)
(* The session cache of three-x-ui-vpn.client.ts for one panel: calls      *)
(* share one cookie, log in when there is none, and are retried once after *)
(* the panel refuses them with 401, 403 or 404.  A cookie is the number of *)
(* the login that got it.                                                  *)
(***************************************************************************)
EXTENDS Integers, FiniteSets

CONSTANTS
  PanelCalls,  \* concurrent callers
  MaxLogins,   \* bound: sessions the panel issues
  MaxDrops     \* bound: times the panel forgets its sessions

ASSUME SessionAssumption == MaxLogins \in Nat /\ MaxDrops \in Nat

VARIABLES
  cached,   \* sessions.get(node.id), 0 for none
  valid,    \* the cookies the panel accepts
  issued,   \* logins so far
  drops,    \* times the panel has dropped its sessions
  pcall,    \* each call: its step, its cookie and whether it may retry
  lostIn    \* history: calls during whose retry the panel dropped sessions

sessionVars == <<cached, valid, issued, drops, pcall, lostIn>>

Cookies == 0 .. MaxLogins
PanelCall == [pc : {"idle", "logging in", "storing", "requesting", "done",
                    "failed", "refused"},
              cookie : Cookies, retry : BOOLEAN]
Resting == {"idle", "done", "failed", "refused"}

SessionTypeOK ==
  /\ cached \in Cookies /\ issued \in Cookies
  /\ valid \subseteq 1 .. issued
  /\ drops \in 0 .. MaxDrops
  /\ pcall \in [PanelCalls -> PanelCall]
  /\ lostIn \subseteq PanelCalls

SessionInit ==
  /\ cached = 0 /\ valid = {} /\ issued = 0 /\ drops = 0
  /\ pcall = [c \in PanelCalls |-> [pc |-> "idle", cookie |-> 0, retry |-> TRUE]]
  /\ lostIn = {}
-----------------------------------------------------------------------------
(* A faulty variant of AfterRefusal, for mutation of the runs.             *)
RetryFromCache(c) ==
  /\ cached' = cached
  /\ pcall' = [pcall EXCEPT ![c] =
       IF cached # 0
       THEN [pc |-> "requesting", cookie |-> cached, retry |-> FALSE]
       ELSE [pc |-> "logging in", cookie |-> 0, retry |-> FALSE]]
-----------------------------------------------------------------------------
(* getSessionCookie: the cached cookie, or a login.                        *)
WithCookie(c, cookie, retry) ==
  pcall' = [pcall EXCEPT ![c] =
    IF cookie # 0 THEN [pc |-> "requesting", cookie |-> cookie, retry |-> retry]
    ELSE [pc |-> "logging in", cookie |-> 0, retry |-> retry]]

(* checkNode forgets the session before it asks (forceReauth).             *)
StartPanelCall(c, force) ==
  /\ pcall[c].pc \in Resting
  /\ cached' = IF force THEN 0 ELSE cached
  /\ WithCookie(c, cached', TRUE)
  /\ lostIn' = lostIn \ {c}
  /\ UNCHANGED <<valid, issued, drops>>

(* The panel answers the login with a new session, or the login fails.     *)
Login(c) ==
  /\ pcall[c].pc = "logging in"
  /\ \/ /\ issued < MaxLogins
        /\ issued' = issued + 1
        /\ valid' = valid \cup {issued + 1}
        /\ pcall' = [pcall EXCEPT ![c].pc = "storing", ![c].cookie = issued + 1]
     \/ /\ pcall' = [pcall EXCEPT ![c].pc = "failed"]
        /\ UNCHANGED <<issued, valid>>
  /\ UNCHANGED <<cached, drops, lostIn>>

StoreCookie(c) ==
  /\ pcall[c].pc = "storing"
  /\ cached' = pcall[c].cookie
  /\ pcall' = [pcall EXCEPT ![c].pc = "requesting"]
  /\ UNCHANGED <<valid, issued, drops, lostIn>>

(* A refusal with a retry left: the session is forgotten, and nothing else *)
(* runs before the second getSessionCookie finds none and logs in.         *)
AfterRefusal(c) ==
  /\ cached' = 0
  /\ WithCookie(c, 0, FALSE)

(* getWithSession, postWithSessionResult: an answer, an error of its own   *)
(* that assertSuccess throws, or a refusal of the cookie.                  *)
Request(c) ==
  /\ pcall[c].pc = "requesting"
  /\ IF pcall[c].cookie \in valid
     THEN /\ \E pc \in {"done", "failed"} : pcall' = [pcall EXCEPT ![c].pc = pc]
          /\ UNCHANGED cached
     ELSE IF pcall[c].retry THEN AfterRefusal(c)
     ELSE /\ pcall' = [pcall EXCEPT ![c].pc = "refused"]
          /\ UNCHANGED cached
  /\ UNCHANGED <<valid, issued, drops, lostIn>>

(* The panel restarts or expires its sessions.                             *)
DropSessions ==
  /\ drops < MaxDrops
  /\ drops' = drops + 1
  /\ valid' = {}
  /\ lostIn' = lostIn \cup {c \in PanelCalls : /\ pcall[c].pc \notin Resting
                                               /\ ~pcall[c].retry}
  /\ UNCHANGED <<cached, issued, pcall>>

SessionNext ==
  \/ \E c \in PanelCalls :
       \/ \E force \in BOOLEAN : StartPanelCall(c, force)
       \/ Login(c) \/ StoreCookie(c) \/ Request(c)
  \/ DropSessions

SessionSpec == SessionInit /\ [][SessionNext]_sessionVars
-----------------------------------------------------------------------------
(* The one retry is enough: however calls share and forget each other's    *)
(* cookie, a call is refused for good only if the panel dropped its        *)
(* sessions again while that call was being retried (getWithSession).      *)
RefusedOnlyIfDropped ==
  \A c \in PanelCalls : pcall[c].pc = "refused" => c \in lostIn
=============================================================================
