-------------------------- MODULE PingTimeoutProofs --------------------------
(***************************************************************************)
(* Type correctness, ResponsiveStay, WarnedFirst and GivenUpInTime of      *)
(* PingTimeout, for any clients and for any times that satisfy its two     *)
(* assumptions.                                                            *)
(*                                                                         *)
(* None of them is inductive: whether a client is given up depends on      *)
(* two ages that the task compares at different moments.  PInv relates     *)
(* them to each other, to the age of the pass and to the pass that looked  *)
(* at the client last.  The bound of GivenUpInTime needs LInv as well: it  *)
(* follows the last ping, which resets one of the ages once again.         *)
(***************************************************************************)
EXTENDS PingTimeout, TLAPS

\* Between two scans there is nobody left to be looked at.
ScanOnly == phase # "scan" => unseen = {}

\* A pass is never older than MaxGap.
YoungPass == elapsed <= MaxGap

\* The two ages of a client drift apart only by a ping, ...
SameAges == \A c \in registered \ asked : idle[c] = quiet[c]

\* ... and the younger is never older than the ping.
IdleSincePing ==
    /\ \A c \in asked : idle[c] <= waited[c]
    /\ \A c \in Clients \ asked : waited[c] = 0

\* A client without a ping was heard of within CheckIdle of the pass that
\* looked at it last: one gap earlier when this pass has not looked at it yet.
HeardOf ==
    \A c \in registered \ asked :
        quiet[c] <= CheckIdle + elapsed + (IF c \in unseen THEN MaxGap ELSE 0)

\* A responsive client answers within Delay, and what a scan adds to that.
AnswersDue ==
    /\ \A c \in Responsive \cap asked : c \in unseen => waited[c] <= Delay + elapsed
    /\ (phase = "asleep" /\ slept > 0) =>
           \A c \in Responsive \cap asked : waited[c] <= Delay

PInv ==
    /\ TypeOK
    /\ ScanOnly
    /\ YoungPass
    /\ SameAges
    /\ IdleSincePing
    /\ HeardOf
    /\ AnswersDue
    /\ ResponsiveStay

-----------------------------------------------------------------------------
LEMMA PInit == Init => PInv
  BY TimesAssumption
  DEF Init, PInv, TypeOK, ScanOnly, YoungPass, SameAges, IdleSincePing, HeardOf,
      AnswersDue, ResponsiveStay

\* A client is given up only if it was asked and did not answer for CheckIdle.
LEMMA ExpiredWasAsked ==
  ASSUME PInv, NEW c \in Clients, Expire(c)
  PROVE  c \in asked /\ waited[c] > CheckIdle /\ c \notin Responsive
<1>1. /\ c \in unseen /\ c \in registered
      /\ idle[c] \in Nat /\ quiet[c] \in Nat /\ waited[c] \in Nat /\ elapsed \in Nat
  BY DEF PInv, TypeOK, Expire, Look
<1>2. idle[c] - elapsed > CheckIdle /\ quiet[c] - elapsed > Timeout
  BY DEF Expire, Over
<1>3. c \in asked
  <2>1. SUFFICES ASSUME c \notin asked PROVE FALSE
    OBVIOUS
  <2>2. quiet[c] <= CheckIdle + elapsed + MaxGap
    BY <1>1, <2>1 DEF PInv, HeardOf
  <2>3. QED
    BY <1>1, <1>2, <2>2, TimesAssumption, PaceAssumption
<1>4. idle[c] <= waited[c]
  BY <1>3 DEF PInv, IdleSincePing
<1>5. waited[c] > CheckIdle
  BY <1>1, <1>2, <1>4, TimesAssumption
<1>6. c \notin Responsive
  <2>1. SUFFICES ASSUME c \in Responsive PROVE FALSE
    OBVIOUS
  <2>2. waited[c] <= Delay + elapsed
    BY <1>1, <1>3, <2>1 DEF PInv, AnswersDue
  <2>3. QED
    BY <1>1, <1>2, <1>4, <2>2, TimesAssumption, PaceAssumption
<1>7. QED
  BY <1>3, <1>5, <1>6

-----------------------------------------------------------------------------
LEMMA TypeStep ==
  ASSUME PInv, [Next]_vars
  PROVE  TypeOK' /\ ScanOnly' /\ YoungPass'
<1> USE TimesAssumption DEF PInv, TypeOK, ScanOnly, YoungPass, taskVars, clientVars
<1>1. ASSUME NEW c \in Clients, AddClient(c) PROVE TypeOK' /\ ScanOnly' /\ YoungPass'
  BY <1>1 DEF AddClient
<1>2. ASSUME NEW c \in Clients, HandleCommand(c) PROVE TypeOK' /\ ScanOnly' /\ YoungPass'
  BY <1>2 DEF HandleCommand
<1>3. ASSUME NEW c \in Clients, RemoveClient(c) PROVE TypeOK' /\ ScanOnly' /\ YoungPass'
  BY <1>3 DEF RemoveClient, Drop
<1>4. ASSUME NEW c \in Clients, Spare(c) PROVE TypeOK' /\ ScanOnly' /\ YoungPass'
  BY <1>4 DEF Spare, Look
<1>5. ASSUME NEW c \in Clients, Ping(c) PROVE TypeOK' /\ ScanOnly' /\ YoungPass'
  BY <1>5 DEF Ping, Look
<1>6. ASSUME NEW c \in Clients, Expire(c) PROVE TypeOK' /\ ScanOnly' /\ YoungPass'
  BY <1>6 DEF Expire, Look
<1>7. ASSUME NEW c \in Clients, Purge(c) PROVE TypeOK' /\ ScanOnly' /\ YoungPass'
  BY <1>7 DEF Purge, Drop
<1>8. CASE Wake
  BY <1>8 DEF Wake
<1>9. CASE ScanEnds
  BY <1>9 DEF ScanEnds
<1>10. CASE PassEnds
  BY <1>10 DEF PassEnds
<1>11. CASE Tick
  BY <1>11 DEF Tick
<1>12. CASE UNCHANGED vars
  BY <1>12 DEF vars
<1>13. QED
  BY <1>1, <1>2, <1>3, <1>4, <1>5, <1>6, <1>7, <1>8, <1>9, <1>10, <1>11, <1>12 DEF Next

\* The ages and the ping.
LEMMA AgesStep ==
  ASSUME PInv, [Next]_vars
  PROVE  SameAges' /\ IdleSincePing'
<1> USE DEF PInv, TypeOK, SameAges, IdleSincePing, taskVars, clientVars
<1>1. ASSUME NEW c \in Clients, AddClient(c) PROVE SameAges' /\ IdleSincePing'
  BY <1>1 DEF AddClient
<1>2. ASSUME NEW c \in Clients, HandleCommand(c) PROVE SameAges' /\ IdleSincePing'
  BY <1>2 DEF HandleCommand
<1>3. ASSUME NEW c \in Clients, RemoveClient(c) PROVE SameAges' /\ IdleSincePing'
  BY <1>3 DEF RemoveClient, Drop
<1>4. ASSUME NEW c \in Clients, Spare(c) PROVE SameAges' /\ IdleSincePing'
  BY <1>4 DEF Spare
<1>5. ASSUME NEW c \in Clients, Ping(c) PROVE SameAges' /\ IdleSincePing'
  BY <1>5 DEF Ping
<1>6. ASSUME NEW c \in Clients, Expire(c) PROVE SameAges' /\ IdleSincePing'
  BY <1>6 DEF Expire
<1>7. ASSUME NEW c \in Clients, Purge(c) PROVE SameAges' /\ IdleSincePing'
  BY <1>7 DEF Purge, Drop
<1>8. CASE Wake
  BY <1>8 DEF Wake
<1>9. CASE ScanEnds
  BY <1>9 DEF ScanEnds
<1>10. CASE PassEnds
  BY <1>10 DEF PassEnds
<1>11. CASE Tick
  BY <1>11 DEF Tick
<1>12. CASE UNCHANGED vars
  BY <1>12 DEF vars
<1>13. QED
  BY <1>1, <1>2, <1>3, <1>4, <1>5, <1>6, <1>7, <1>8, <1>9, <1>10, <1>11, <1>12 DEF Next

\* A pass looks at everybody once, and one gap after the last.
LEMMA HeardOfStep ==
  ASSUME PInv, [Next]_vars
  PROVE  HeardOf'
<1> USE TimesAssumption DEF PInv, TypeOK, HeardOf, taskVars, clientVars
<1>1. ASSUME NEW c \in Clients, AddClient(c) PROVE HeardOf'
  BY <1>1 DEF AddClient
<1>2. ASSUME NEW c \in Clients, HandleCommand(c) PROVE HeardOf'
  BY <1>2 DEF HandleCommand
<1>3. ASSUME NEW c \in Clients, RemoveClient(c) PROVE HeardOf'
  BY <1>3 DEF RemoveClient, Drop
<1>4. ASSUME NEW c \in Clients, Spare(c) PROVE HeardOf'
  BY <1>4 DEF Spare, Look, Over, SameAges
<1>5. ASSUME NEW c \in Clients, Ping(c) PROVE HeardOf'
  BY <1>5 DEF Ping, Look
<1>6. ASSUME NEW c \in Clients, Expire(c) PROVE HeardOf'
  BY <1>6, ExpiredWasAsked DEF Expire, Look
<1>7. ASSUME NEW c \in Clients, Purge(c) PROVE HeardOf'
  BY <1>7 DEF Purge, Drop
<1>8. CASE Wake
  BY <1>8 DEF Wake, ScanOnly, YoungPass
<1>9. CASE ScanEnds
  BY <1>9 DEF ScanEnds
<1>10. CASE PassEnds
  BY <1>10 DEF PassEnds
<1>11. CASE Tick
  BY <1>11 DEF Tick
<1>12. CASE UNCHANGED vars
  BY <1>12 DEF vars
<1>13. QED
  BY <1>1, <1>2, <1>3, <1>4, <1>5, <1>6, <1>7, <1>8, <1>9, <1>10, <1>11, <1>12 DEF Next

\* Responsive clients have answered before they are looked at again.
LEMMA AnswersStep ==
  ASSUME PInv, [Next]_vars
  PROVE  AnswersDue' /\ ResponsiveStay'
<1> USE TimesAssumption DEF PInv, TypeOK, AnswersDue, ResponsiveStay, taskVars, clientVars
<1>1. ASSUME NEW c \in Clients, AddClient(c) PROVE AnswersDue' /\ ResponsiveStay'
  BY <1>1 DEF AddClient
<1>2. ASSUME NEW c \in Clients, HandleCommand(c) PROVE AnswersDue' /\ ResponsiveStay'
  BY <1>2 DEF HandleCommand
<1>3. ASSUME NEW c \in Clients, RemoveClient(c) PROVE AnswersDue' /\ ResponsiveStay'
  BY <1>3 DEF RemoveClient, Drop
<1>4. ASSUME NEW c \in Clients, Spare(c) PROVE AnswersDue' /\ ResponsiveStay'
  BY <1>4 DEF Spare, Look
<1>5. ASSUME NEW c \in Clients, Ping(c) PROVE AnswersDue' /\ ResponsiveStay'
  BY <1>5 DEF Ping, Look
<1>6. ASSUME NEW c \in Clients, Expire(c) PROVE AnswersDue' /\ ResponsiveStay'
  BY <1>6, ExpiredWasAsked DEF Expire, Look
<1>7. ASSUME NEW c \in Clients, Purge(c) PROVE AnswersDue' /\ ResponsiveStay'
  BY <1>7 DEF Purge, Drop
<1>8. CASE Wake
  BY <1>8 DEF Wake
<1>9. CASE ScanEnds
  BY <1>9 DEF ScanEnds
<1>10. CASE PassEnds
  BY <1>10 DEF PassEnds
<1>11. CASE Tick
  <2>1. /\ waited' = [c \in Clients |-> IF c \in asked THEN waited[c] + 1 ELSE 0]
        /\ elapsed' = elapsed + 1
        /\ asked' = asked /\ unseen' = unseen /\ phase' = phase /\ expired' = expired
        /\ \A c \in Responsive \cap asked : phase # "scan" => waited[c] < Delay
    BY <1>11 DEF Tick, InTime
  <2>2. \A c \in Responsive \cap asked : c \in Clients /\ waited[c] \in Nat
    OBVIOUS
  <2>3. \A c \in Responsive \cap asked : c \in unseen' => waited'[c] <= Delay + elapsed'
    BY <2>1, <2>2
  <2>4. phase' # "scan" => \A c \in Responsive \cap asked : waited'[c] <= Delay
    BY <2>1, <2>2
  <2>5. QED
    BY <2>1, <2>3, <2>4
<1>12. CASE UNCHANGED vars
  BY <1>12 DEF vars
<1>13. QED
  BY <1>1, <1>2, <1>3, <1>4, <1>5, <1>6, <1>7, <1>8, <1>9, <1>10, <1>11, <1>12 DEF Next

LEMMA PInvAlways == Spec => []PInv
<1>1. PInv /\ [Next]_vars => PInv'
  BY TypeStep, AgesStep, HeardOfStep, AnswersStep DEF PInv
<1>2. QED
  BY PInit, <1>1, PTL DEF Spec

-----------------------------------------------------------------------------
(* Who does not answer is given up. *)

\* Sleep is part of a pass; nobody waits to be purged while the task sleeps.
Sleep ==
    /\ slept <= elapsed
    /\ phase # "asleep" => slept = 0
    /\ phase = "asleep" => expired = {}
    /\ unseen \cap expired = {}
    /\ (phase # "asleep" \/ asked # {}) => Pause <= MaxGap

\* The first ping comes when nothing was heard for more than CheckIdle.
QuietBeforePing == \A c \in asked : quiet[c] > waited[c] + CheckIdle

\* How old the first ping was at the last one.
PingedAt(c) == waited[c] - idle[c]

\* The last ping was sent in a pass that began before Timeout was over: in this
\* one, or in an earlier one that left Pause of its gap to sleep.
LastPing ==
    \A c \in asked :
        \/ PingedAt(c) < Timeout - CheckIdle + MaxGap - Pause
        \/ c \notin unseen \cup expired /\ PingedAt(c) < Timeout - CheckIdle + elapsed - slept

\* The pass that looked at an asked client last saw it ping or be idle for no
\* longer than CheckIdle, or has given it up.
IdleAtLook ==
    \A c \in asked :
        idle[c] <= CheckIdle + elapsed + (IF c \in unseen \cup expired THEN MaxGap ELSE 0)

LInv == Sleep /\ QuietBeforePing /\ LastPing /\ IdleAtLook

LEMMA LInit == Init => LInv
  BY TimesAssumption DEF Init, LInv, Sleep, QuietBeforePing, LastPing, IdleAtLook

\* What a pass does to its own times, and a ping to the ages.
LEMMA SleepStep ==
  ASSUME PInv, LInv, [Next]_vars
  PROVE  Sleep' /\ QuietBeforePing'
<1> USE TimesAssumption DEF PInv, TypeOK, LInv, Sleep, QuietBeforePing, taskVars, clientVars
<1>1. ASSUME NEW c \in Clients, AddClient(c) PROVE Sleep' /\ QuietBeforePing'
  BY <1>1 DEF AddClient
<1>2. ASSUME NEW c \in Clients, HandleCommand(c) PROVE Sleep' /\ QuietBeforePing'
  BY <1>2 DEF HandleCommand
<1>3. ASSUME NEW c \in Clients, RemoveClient(c) PROVE Sleep' /\ QuietBeforePing'
  BY <1>3 DEF RemoveClient, Drop
<1>4. ASSUME NEW c \in Clients, Spare(c) PROVE Sleep' /\ QuietBeforePing'
  BY <1>4 DEF Spare, Look
<1>5. ASSUME NEW c \in Clients, Ping(c) PROVE Sleep' /\ QuietBeforePing'
  BY <1>5 DEF Ping, Look, Over, IdleSincePing
<1>6. ASSUME NEW c \in Clients, Expire(c) PROVE Sleep' /\ QuietBeforePing'
  BY <1>6 DEF Expire, Look
<1>7. ASSUME NEW c \in Clients, Purge(c) PROVE Sleep' /\ QuietBeforePing'
  BY <1>7 DEF Purge, Drop
<1>8. CASE Wake
  BY <1>8 DEF Wake, YoungPass
<1>9. CASE ScanEnds
  BY <1>9 DEF ScanEnds
<1>10. CASE PassEnds
  BY <1>10 DEF PassEnds
<1>11. CASE Tick
  BY <1>11 DEF Tick, ScanOnly
<1>12. CASE UNCHANGED vars
  BY <1>12 DEF vars
<1>13. QED
  BY <1>1, <1>2, <1>3, <1>4, <1>5, <1>6, <1>7, <1>8, <1>9, <1>10, <1>11, <1>12 DEF Next

\* The last ping and the last look.
LEMMA PingsStep ==
  ASSUME PInv, LInv, [Next]_vars
  PROVE  LastPing' /\ IdleAtLook'
<1> USE TimesAssumption DEF PInv, TypeOK, LInv, LastPing, IdleAtLook, PingedAt, taskVars, clientVars
<1>1. ASSUME NEW c \in Clients, AddClient(c) PROVE LastPing' /\ IdleAtLook'
  BY <1>1 DEF AddClient
<1>2. ASSUME NEW c \in Clients, HandleCommand(c) PROVE LastPing' /\ IdleAtLook'
  BY <1>2 DEF HandleCommand
<1>3. ASSUME NEW c \in Clients, RemoveClient(c) PROVE LastPing' /\ IdleAtLook'
  BY <1>3 DEF RemoveClient, Drop
<1>4. ASSUME NEW c \in Clients, Spare(c) PROVE LastPing' /\ IdleAtLook'
  BY <1>4 DEF Spare, Look, Over, QuietBeforePing, IdleSincePing
<1>5. ASSUME NEW c \in Clients, Ping(c) PROVE LastPing' /\ IdleAtLook'
  BY <1>5 DEF Ping, Look, Over, QuietBeforePing, IdleSincePing, Sleep
<1>6. ASSUME NEW c \in Clients, Expire(c) PROVE LastPing' /\ IdleAtLook'
  BY <1>6, ExpiredWasAsked DEF Expire, Look, Sleep
<1>7. ASSUME NEW c \in Clients, Purge(c) PROVE LastPing' /\ IdleAtLook'
  BY <1>7 DEF Purge, Drop
<1>8. CASE Wake
  BY <1>8 DEF Wake, YoungPass, Sleep, ScanOnly
<1>9. CASE ScanEnds
  BY <1>9 DEF ScanEnds
<1>10. CASE PassEnds
  BY <1>10 DEF PassEnds
<1>11. CASE Tick
  BY <1>11 DEF Tick, Sleep
<1>12. CASE UNCHANGED vars
  BY <1>12 DEF vars
<1>13. QED
  BY <1>1, <1>2, <1>3, <1>4, <1>5, <1>6, <1>7, <1>8, <1>9, <1>10, <1>11, <1>12 DEF Next

\* The bound: the last ping and what idle may still become.
LEMMA LastPingBounds == PInv /\ LInv => GivenUpInTime
<1>1. SUFFICES ASSUME PInv, LInv, NEW c \in asked
               PROVE  waited[c] <= Timeout + 3 * MaxGap - Pause
  BY DEF GivenUpInTime
<1>2. /\ c \in Clients /\ waited[c] \in Nat /\ idle[c] \in Nat
      /\ elapsed \in Nat /\ slept \in Nat /\ elapsed <= MaxGap /\ Pause <= MaxGap
  BY <1>1 DEF PInv, TypeOK, YoungPass, LInv, Sleep
<1>3. idle[c] <= CheckIdle + elapsed + (IF c \in unseen \cup expired THEN MaxGap ELSE 0)
  BY <1>1 DEF LInv, IdleAtLook
<1>4. CASE waited[c] - idle[c] < Timeout - CheckIdle + MaxGap - Pause
  BY <1>2, <1>3, <1>4, TimesAssumption
<1>5. CASE c \notin unseen \cup expired /\ waited[c] - idle[c] < Timeout - CheckIdle + elapsed - slept
  BY <1>2, <1>3, <1>5, TimesAssumption
<1>6. QED
  BY <1>1, <1>4, <1>5 DEF LInv, LastPing, PingedAt

LEMMA LInvAlways == Spec => [](PInv /\ LInv)
<1>1. PInv /\ LInv /\ [Next]_vars => LInv'
  BY SleepStep, PingsStep DEF LInv
<1>2. QED
  BY PInvAlways, LInit, <1>1, PTL DEF Spec

-----------------------------------------------------------------------------
\* TypeOK: ages are times, and the sets of a pass hold registered clients
\* (main.rs, check_client_pings).
THEOREM TypeCorrect == Spec => []TypeOK
  BY PInvAlways, PTL DEF PInv

\* ResponsiveStay: a client whose answers arrive in time is never given up,
\* for every pause, gap and limit that keep to PaceAssumption.
THEOREM ResponsiveStayAlways == Spec => []ResponsiveStay
  BY PInvAlways, PTL DEF PInv

\* WarnedFirst: whoever the scan gives up had been sent a ping and had
\* CheckIdle to answer it.
THEOREM WarnedFirstAlways == Spec => WarnedFirst
<1> DEFINE Warned == \A c \in expired' \ expired : c \in asked /\ waited[c] > CheckIdle
<1>1. ASSUME PInv, [Next]_vars PROVE [Warned]_vars
  <2>1. ASSUME NEW c \in Clients, Expire(c) PROVE Warned
    BY <1>1, <2>1, ExpiredWasAsked DEF Expire, PInv, TypeOK
  <2>2. ASSUME NEW c \in Clients, Purge(c) PROVE Warned
    BY <2>2 DEF Purge
  <2>3. CASE expired' = expired
    BY <2>3
  <2>4. QED
    BY <1>1, <2>1, <2>2, <2>3
    DEF Next, AddClient, HandleCommand, RemoveClient, Spare, Ping, Wake, ScanEnds,
        PassEnds, Tick, vars, taskVars
<1>2. QED
  BY <1>1, PInvAlways, PTL DEF Spec, WarnedFirst

\* GivenUpInTime: no ping stays unanswered for longer by a registered client,
\* for all figures that keep to the assumptions.
THEOREM GivenUpInTimeAlways == Spec => []GivenUpInTime
  BY LInvAlways, LastPingBounds, PTL
=============================================================================
