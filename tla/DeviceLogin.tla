----------------------------- MODULE DeviceLogin -----------------------------
(***************************************************************************)
(* Signing in a device through a browser (backend/auth/deviceLogin.ts and  *)
(* the client's loop, desktop/src-tauri/src/client.rs).  Each server keeps *)
(* its codes in memory; a handler is one synchronous step.  A code is      *)
(* eight random characters and stands here for the one login it was made   *)
(* for.                                                                    *)
(***************************************************************************)
EXTENDS Naturals

CONSTANTS
    Logins,        \* attempts to sign in, each with a code of its own
    LoginServers   \* the servers a request may arrive at

VARIABLES
    pending,   \* per server and login, the entry of its code, "none" if there is none
    old,       \* the logins whose code is older than DEVICE_CODE_TTL_MS
    device,    \* per login, how far the device is: off, waiting, signed or failed
    polled     \* history: per login, how often a poll was answered with a session

deviceVars == <<pending, old, device, polled>>

\* What the tables of codes and the devices hold.
DeviceTypeOK ==
    /\ pending \in [LoginServers -> [Logins -> {"none", "pending", "approved", "denied"}]]
    /\ old \subseteq Logins
    /\ device \in [Logins -> {"off", "waiting", "signed", "failed"}]
    /\ polled \in [Logins -> Nat]

DeviceInit ==
    /\ pending = [s \in LoginServers |-> [d \in Logins |-> "none"]]
    /\ old = {}
    /\ device = [d \in Logins |-> "off"]
    /\ polled = [d \in Logins |-> 0]

-----------------------------------------------------------------------------
\* What a server holds once the codes that are too old are dropped.
prune(s) == [d \in Logins |-> IF d \in old THEN "none" ELSE pending[s][d]]
\* The entry of d after that, and with e written to it.
Live(s, d) == prune(s)[d]
Put(s, d, e) == pending' = [pending EXCEPT ![s] = [prune(s) EXCEPT ![d] = e]]
PruneAlone(s) == pending' = [pending EXCEPT ![s] = prune(s)]

\* The device asks for a code and shows it; the answer may be lost.
start(d, s) ==
    /\ device[d] = "off"
    /\ Put(s, d, "pending")
    /\ \E got \in {"waiting", "failed"} : device' = [device EXCEPT ![d] = got]
    /\ UNCHANGED <<old, polled>>

\* The session is handed out once: the entry goes with the answer.
Deliver(d, s) ==
    /\ Live(s, d) = "approved"
    /\ Put(s, d, "none")
    /\ polled' = [polled EXCEPT ![d] = @ + 1]
    /\ \E got \in {"signed", "failed"} : device' = [device EXCEPT ![d] = got]

\* Denied, or unknown to this server: the device stops.
TurnAway(d, s) ==
    /\ Live(s, d) \in {"none", "denied"}
    /\ PruneAlone(s)
    /\ device' = [device EXCEPT ![d] = "failed"]
    /\ UNCHANGED polled

\* Not decided: the device goes on asking, unless this answer does not reach it.
KeepWaiting(d, s) ==
    /\ Live(s, d) = "pending"
    /\ PruneAlone(s)
    /\ \E got \in {"waiting", "failed"} : device' = [device EXCEPT ![d] = got]
    /\ UNCHANGED polled

poll(d, s) ==
    /\ device[d] = "waiting"
    /\ Deliver(d, s) \/ TurnAway(d, s) \/ KeepWaiting(d, s)
    /\ UNCHANGED old

\* The browser shows what is asked for.
describe(s) ==
    /\ PruneAlone(s)
    /\ UNCHANGED <<old, device, polled>>

\* Mutant: a code is approved whatever its status.
approveAny(d, s) ==
    /\ Live(s, d) # "none"
    /\ Put(s, d, "approved")
    /\ UNCHANGED <<old, device, polled>>

approve(d, s) ==
    /\ Live(s, d) = "pending"
    /\ Put(s, d, "approved")
    /\ UNCHANGED <<old, device, polled>>

\* deny does not prune and does not look at the status.
deny(d, s) ==
    /\ pending[s][d] # "none"
    /\ pending' = [pending EXCEPT ![s][d] = "denied"]
    /\ UNCHANGED <<old, device, polled>>

GrowOld(d) ==
    /\ device[d] # "off"
    /\ d \notin old
    /\ old' = old \cup {d}
    /\ UNCHANGED <<pending, device, polled>>

\* The device's own ten minutes are up.
GiveUp(d) ==
    /\ device[d] = "waiting"
    /\ d \in old
    /\ device' = [device EXCEPT ![d] = "failed"]
    /\ UNCHANGED <<pending, old, polled>>

\* A server stops: its codes were in memory only.
Restart(s) ==
    /\ pending' = [pending EXCEPT ![s] = [d \in Logins |-> "none"]]
    /\ UNCHANGED <<old, device, polled>>

DeviceNext ==
    \/ \E d \in Logins, s \in LoginServers : start(d, s) \/ poll(d, s) \/ approve(d, s) \/ deny(d, s)
    \/ \E d \in Logins : GrowOld(d) \/ GiveUp(d)
    \/ \E s \in LoginServers : describe(s) \/ Restart(s)

DeviceSpec == DeviceInit /\ [][DeviceNext]_deviceVars

-----------------------------------------------------------------------------
\* What makes it so: a code is on one server, and there only while its session
\* was not handed out.
CodeOnOneServer ==
    \A d \in Logins : \A s, t \in LoginServers :
        pending[s][d] # "none" /\ pending[t][d] # "none" => s = t
CodeGoesWithSession ==
    \A d \in Logins :
        polled[d] > 0 => device[d] # "off" /\ \A s \in LoginServers : pending[s][d] = "none"
NothingBeforeStart ==
    \A d \in Logins :
        device[d] = "off" => d \notin old /\ \A s \in LoginServers : pending[s][d] = "none"

\* What the servers' tables say of a login.  A code that is too old is over,
\* dropped or not: every handler but deny drops it before it looks.
Has(d, e) == \E s \in LoginServers : pending[s][d] = e
Standing(d) ==
    CASE polled[d] > 0 -> "given"
      [] polled[d] = 0 /\ device[d] = "off" -> "idle"
      [] polled[d] = 0 /\ device[d] # "off" /\ d \notin old /\ Has(d, "pending") -> "asked"
      [] polled[d] = 0 /\ device[d] # "off" /\ d \notin old /\ Has(d, "approved") -> "granted"
      [] OTHER -> "over"

Logon == INSTANCE OneTimeGrant
            WITH Requests <- Logins, grant <- [d \in Logins |-> Standing(d)], given <- polled

\* However polls, approvals, denials, restarts and expiries follow one another,
\* a session is handed out once, for a code that was approved and neither
\* denied nor dropped since ("deliver once", deviceLogin.ts).
DeviceOneTime == Logon!Spec
=============================================================================
