----------------------------- MODULE PingTimeout -----------------------------
(***************************************************************************)
(* The clock of the health task (main.rs, check_client_pings): who is sent *)
(* a ping, who is given up, and when.                                      *)
(*                                                                         *)
(* Time passes in ticks.  A timestamp of the code (last_action, last_ping) *)
(* is kept as its age, and the two limits, which the code computes from    *)
(* the time a pass starts, are compared with the age at that moment.  The  *)
(* task looks at one client at a time and time passes in between, since it *)
(* waits for locks and for its sends to end.                               *)
(***************************************************************************)
EXTENDS Integers

CONSTANTS
    Clients,        \* a slot is taken by one client after the other
    Responsive,     \* those whose answers are handled in time
    CheckIdle,      \* PING_CHECK_IDLE
    Timeout,        \* PING_TIMEOUT
    Pause,          \* what the task sleeps between two passes
    MaxGap,         \* bound on the time from the start of a pass to that of the next
    Delay           \* bound on the time from a ping to the handling of its answer

ASSUME TimesAssumption ==
    /\ CheckIdle \in Nat /\ Timeout \in Nat /\ Delay \in Nat /\ MaxGap \in Nat
    /\ Pause \in Nat \ {0}
    /\ Responsive \subseteq Clients

\* What the figures of main.rs owe their effect to: passes that are not too
\* far apart, and peers that answer before they would be looked at again.
ASSUME PaceAssumption ==
    /\ MaxGap + CheckIdle <= Timeout
    /\ Delay <= CheckIdle

VARIABLES
    registered,     \* the clients in the clients map
    idle,           \* age of Client::last_action
    quiet,          \* age of Client::last_ping
    asked,          \* clients with a ping they have not answered
    waited,         \* age of the first of these pings
    phase,          \* what the health task does
    unseen,         \* clients this pass has still to look at
    expired,        \* expired_clients
    elapsed,        \* time since the pass began
    slept           \* time since it ended

clientVars == <<registered, idle, quiet, asked, waited>>
taskVars   == <<phase, unseen, expired, elapsed, slept>>
vars       == <<clientVars, taskVars>>

Init ==
    /\ registered = {}
    /\ idle = [c \in Clients |-> 0]
    /\ quiet = [c \in Clients |-> 0]
    /\ asked = {}
    /\ waited = [c \in Clients |-> 0]
    /\ phase = "asleep"
    /\ unseen = {}
    /\ expired = {}
    /\ elapsed = 0
    /\ slept = 0

-----------------------------------------------------------------------------
(* Clients come, are heard of, and go.  The clients map is locked during a  *)
(* scan: nobody enters or leaves it then.                                   *)

AddClient(c) ==
    /\ phase # "scan"
    /\ c \notin registered \cup expired
    /\ registered' = registered \cup {c}
    /\ idle' = [idle EXCEPT ![c] = 0]
    /\ quiet' = [quiet EXCEPT ![c] = 0]
    /\ UNCHANGED <<asked, waited, taskVars>>

\* handle_client_command: a Pong or any other request.
HandleCommand(c) ==
    /\ c \in registered
    /\ idle' = [idle EXCEPT ![c] = 0]
    /\ quiet' = [quiet EXCEPT ![c] = 0]
    /\ asked' = asked \ {c}
    /\ waited' = [waited EXCEPT ![c] = 0]
    /\ UNCHANGED <<registered, taskVars>>

\* Out of the map, on an error or when the health task is through with it.
Drop(c) ==
    /\ registered' = registered \ {c}
    /\ idle' = [idle EXCEPT ![c] = 0]
    /\ quiet' = [quiet EXCEPT ![c] = 0]
    /\ asked' = asked \ {c}
    /\ waited' = [waited EXCEPT ![c] = 0]

\* Mutant of RemoveClient: the scan goes over a copy of the map.
RemoveDuringScan(c) ==
    /\ c \in registered
    /\ Drop(c)
    /\ UNCHANGED taskVars

RemoveClient(c) ==
    /\ phase # "scan"
    /\ c \in registered
    /\ Drop(c)
    /\ UNCHANGED taskVars

-----------------------------------------------------------------------------
(* The health task.                                                         *)

Wake ==
    /\ phase = "asleep"
    /\ slept >= Pause
    /\ phase' = "scan"
    /\ unseen' = registered
    /\ elapsed' = 0
    /\ slept' = 0
    /\ UNCHANGED <<clientVars, expired>>

\* The age exceeded the limit when the pass began.
Over(age, limit) == age - elapsed > limit

Look(c) ==
    /\ phase = "scan"
    /\ c \in unseen
    /\ unseen' = unseen \ {c}

Spare(c) ==
    /\ Look(c)
    /\ ~Over(idle[c], CheckIdle) \/ ~Over(quiet[c], CheckIdle)
    /\ UNCHANGED <<clientVars, phase, expired, elapsed, slept>>

\* Mutant of Ping: the client is not given another cycle.
PingAgain(c) ==
    /\ Look(c)
    /\ Over(idle[c], CheckIdle)
    /\ Over(quiet[c], CheckIdle) /\ ~Over(quiet[c], Timeout)
    /\ asked' = asked \cup {c}
    /\ UNCHANGED <<registered, idle, quiet, waited, phase, expired, elapsed, slept>>

\* Mutant of Ping: a ping resets both ages, as a request does.
PingForever(c) ==
    /\ Look(c)
    /\ Over(idle[c], CheckIdle)
    /\ Over(quiet[c], CheckIdle) /\ ~Over(quiet[c], Timeout)
    /\ idle' = [idle EXCEPT ![c] = 0]
    /\ quiet' = [quiet EXCEPT ![c] = 0]
    /\ asked' = asked \cup {c}
    /\ UNCHANGED <<registered, waited, phase, expired, elapsed, slept>>

\* A ping, and one more cycle to answer it.
Ping(c) ==
    /\ Look(c)
    /\ Over(idle[c], CheckIdle)
    /\ Over(quiet[c], CheckIdle) /\ ~Over(quiet[c], Timeout)
    /\ idle' = [idle EXCEPT ![c] = 0]
    /\ asked' = asked \cup {c}
    /\ UNCHANGED <<registered, quiet, waited, phase, expired, elapsed, slept>>

\* Mutant of Expire: the last request is not looked at.
ExpireQuiet(c) ==
    /\ Look(c)
    /\ Over(quiet[c], Timeout)
    /\ expired' = expired \cup {c}
    /\ UNCHANGED <<clientVars, phase, elapsed, slept>>

Expire(c) ==
    /\ Look(c)
    /\ Over(idle[c], CheckIdle)
    /\ Over(quiet[c], Timeout)
    /\ expired' = expired \cup {c}
    /\ UNCHANGED <<clientVars, phase, elapsed, slept>>

ScanEnds ==
    /\ phase = "scan"
    /\ unseen = {}
    /\ phase' = "purge"
    /\ UNCHANGED <<clientVars, unseen, expired, elapsed, slept>>

\* It goes even if it was heard of since the scan.
Purge(c) ==
    /\ phase = "purge"
    /\ c \in expired
    /\ Drop(c)
    /\ expired' = expired \ {c}
    /\ UNCHANGED <<phase, unseen, elapsed, slept>>

PassEnds ==
    /\ phase = "purge"
    /\ expired = {}
    /\ phase' = "asleep"
    /\ slept' = 0
    /\ UNCHANGED <<clientVars, unseen, expired, elapsed>>

-----------------------------------------------------------------------------
(* Time.  During a scan the dispatcher may be kept from looking clients up. *)

InTime(c) == c \in asked /\ phase # "scan" => waited[c] < Delay

Tick ==
    /\ elapsed < MaxGap
    /\ \A c \in Responsive : InTime(c)
    /\ idle' = [c \in Clients |-> IF c \in registered THEN idle[c] + 1 ELSE 0]
    /\ quiet' = [c \in Clients |-> IF c \in registered THEN quiet[c] + 1 ELSE 0]
    /\ waited' = [c \in Clients |-> IF c \in asked THEN waited[c] + 1 ELSE 0]
    /\ elapsed' = elapsed + 1
    /\ slept' = IF phase = "asleep" THEN slept + 1 ELSE slept
    /\ UNCHANGED <<registered, asked, phase, unseen, expired>>

Next ==
    \/ \E c \in Clients : AddClient(c) \/ HandleCommand(c) \/ RemoveClient(c)
    \/ \E c \in Clients : Spare(c) \/ Ping(c) \/ Expire(c) \/ Purge(c)
    \/ Wake \/ ScanEnds \/ PassEnds
    \/ Tick

Spec == Init /\ [][Next]_vars

-----------------------------------------------------------------------------
(* Properties.                                                              *)

\* Ages are times; whom a scan has still to look at is registered, and so is
\* everybody with a ping pending (main.rs: the scan holds the lock of the map).
TypeOK ==
    /\ registered \subseteq Clients
    /\ idle \in [Clients -> Nat] /\ quiet \in [Clients -> Nat]
    /\ waited \in [Clients -> Nat]
    /\ asked \subseteq registered
    /\ phase \in {"asleep", "scan", "purge"}
    /\ unseen \subseteq registered
    /\ expired \subseteq Clients
    /\ elapsed \in Nat /\ slept \in Nat

\* A client whose answers arrive in time is never given up, whatever the order
\* in which the pings, the answers and the passes of the health task come, and
\* although no answer is handled during a scan.
ResponsiveStay == expired \cap Responsive = {}

\* Nobody is given up without a warning: a ping was sent, and more than
\* CheckIdle has passed without an answer (main.rs: "send a ping and reset
\* last action to give them one more cycle to reply").
WarnedFirst ==
    [][\A c \in expired' \ expired : c \in asked /\ waited[c] > CheckIdle]_vars

\* Who does not answer is given up: no registered client has a ping pending for
\* longer than this, although every further ping resets one of the two ages
\* (main.rs: "ping timeout: {} seconds", with PING_TIMEOUT).
GivenUpInTime ==
    \A c \in asked : waited[c] <= Timeout + 3 * MaxGap - Pause
=============================================================================
