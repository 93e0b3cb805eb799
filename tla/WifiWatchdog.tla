------------------------------ MODULE WifiWatchdog ------------------------------
(***************************************************************************)
(* The Wi-Fi watchdog (brilliant_wifi_watchdog): while the gateway does    *)
(* not answer it climbs a ladder of recoveries (ladder.py), the last of    *)
(* which is a reboot that the guard must allow and record (RebootGuard).   *)
(***************************************************************************)
EXTENDS RebootGuard

CONSTANTS
    Debounce,                            \* Thresholds.fail_debounce
    SoftAfter, RestartAfter, RebootAfter \* the other Thresholds

ASSUME ThresholdsAssumption ==
    /\ {Debounce, SoftAfter, RestartAfter, RebootAfter} \subseteq Nat \ {0}
    /\ SoftAfter <= RestartAfter /\ RestartAfter <= RebootAfter

Cheap == {"soft", "restart"}
After == [soft |-> SoftAfter, restart |-> RestartAfter, reboot |-> RebootAfter]
Idle == RebootAfter + 1
Upto(n) == IF n > RebootAfter THEN RebootAfter ELSE n

VARIABLES
    fails,      \* _fails, counted up to Debounce
    held,       \* _last_observed_at - _down_since, up to RebootAfter, or Idle
    gap,        \* time since _last_observed_at, up to RebootAfter
    fired,      \* _fired
    deferred,   \* _reboot_deferred
    lost,       \* from here on, every probe fails
    ran,        \* history: cheap recoveries run since the gateway last answered
    confirmed   \* history: the outage, without the time no probe could confirm

ladder == <<fails, held, gap, fired, deferred, ran, confirmed>>
wifiVars == <<guardVars, ladder, lost>>

\* The type invariant.
WifiTypeOK ==
    /\ GuardTypeOK
    /\ fails \in 0 .. Debounce /\ held \in 0 .. Idle /\ gap \in 0 .. RebootAfter
    /\ fired \subseteq Cheap /\ ran \subseteq Cheap /\ deferred \in BOOLEAN
    /\ confirmed \in 0 .. RebootAfter /\ lost \in BOOLEAN

WifiInit ==
    /\ GuardInit
    /\ fails = 0 /\ held = Idle /\ gap = 0 /\ fired = {} /\ deferred = FALSE
    /\ ran = {} /\ confirmed = 0 /\ lost = FALSE

\* The history of an outage that is over.
OutageEnds == ran' = {} /\ confirmed' = 0

\* Faulty variant: the start of the outage outlives it.
ResetKeepingStart == fails' = 0 /\ fired' = {} /\ deferred' = FALSE /\ UNCHANGED <<held, gap>>

\* reset, and __init__ of a new process
Reset == fails' = 0 /\ held' = Idle /\ gap' = 0 /\ fired' = {} /\ deferred' = FALSE

-----------------------------------------------------------------------------
(* A poll: one reading of the guard, one probe, at most one recovery. *)

Answers == ~lost /\ Poll /\ Reset /\ OutageEnds

\* The probe cannot tell: the clock of the outage stands still.
Inconclusive ==
    /\ ~lost /\ Poll
    /\ gap' = 0
    /\ UNCHANGED <<fails, held, fired, deferred, ran, confirmed>>

\* Another failed probe.
Failed ==
    /\ fails' = (IF fails < Debounce THEN fails + 1 ELSE fails)
    /\ held' = (IF held = Idle THEN 0 ELSE Upto(held + gap))
    /\ gap' = 0
    /\ confirmed' = (IF held = Idle THEN 0 ELSE Upto(confirmed + gap))

\* The recovery of a failed probe: the highest rung that is due; a reboot that
\* the guard refuses is announced once, then leaves its turns to cheaper rungs.
Choice ==
    LET elapsed == IF held = Idle THEN 0 ELSE Upto(held + gap)
        due == IF fails + 1 < Debounce THEN {}
               ELSE {r \in DOMAIN After \ fired : elapsed >= After[r]}
    IN  CASE "reboot" \in due /\ Reading.can -> "reboot"
          [] "reboot" \in due /\ ~deferred   -> "notify"
          [] "restart" \in due               -> "restart"
          [] "soft" \in due                  -> "soft"
          [] OTHER                           -> "none"

Climb ==
    /\ Choice # "reboot"
    /\ Poll /\ Failed
    /\ fired' = fired \cup (Cheap \cap {Choice}) /\ ran' = ran \cup (Cheap \cap {Choice})
    /\ deferred' = (deferred \/ Choice = "notify")

\* The reboot is due and the guard grants it.
WifiReboot == Choice = "reboot" /\ GuardedReboot /\ Reset /\ OutageEnds

\* It stays due when the request fails, or when it may not happen unrecorded.
StaysDue == Failed /\ deferred' = TRUE /\ UNCHANGED <<fired, ran>>
WifiRequestLost == Choice = "reboot" /\ RequestLost /\ StaysDue /\ UNCHANGED lost
RebootRefused ==
    /\ Choice = "reboot" /\ ~writable /\ ~Reading.lastBad
    /\ Poll /\ StaysDue

WifiPoll ==
    /\ Answers \/ Inconclusive \/ Climb \/ WifiReboot \/ RebootRefused
    /\ UNCHANGED lost

-----------------------------------------------------------------------------
(* Time and failures. *)

WifiPass ==
    /\ GuardPass
    /\ gap' = Upto(gap + 1)
    /\ UNCHANGED <<fails, held, fired, deferred, ran, confirmed, lost>>

WifiRestarts == GuardRestarts /\ Reset /\ OutageEnds /\ UNCHANGED lost

\* The gateway is gone for good.
GatewayLost == ~lost /\ lost' = TRUE /\ UNCHANGED <<guardVars, ladder>>

\* The ladder runs on the monotonic clock and keeps nothing on the disk.
WifiFailure == Failure /\ UNCHANGED <<ladder, lost>>

WifiNext == WifiPoll \/ WifiRequestLost \/ WifiPass \/ WifiRestarts \/ GatewayLost \/ WifiFailure

\* The watchdog polls for ever and time passes.
WifiSpec ==
    WifiInit /\ [][WifiNext]_wifiVars /\ WF_wifiVars(WifiPoll) /\ WF_wifiVars(WifiPass)

-----------------------------------------------------------------------------
(* Properties. *)

\* A recovery is earned: the gateway was seen not to answer for the rung's time
\* since it last answered, whatever the probes could not tell in between, and a
\* cheap recovery runs once in an outage (class Ladder, observe).
Runs(r) == IF r = "reboot" THEN WifiReboot ELSE Climb /\ Choice = r
RecoveriesAreEarned ==
    [][\A r \in DOMAIN After :
         Runs(r) => r \notin ran /\ Upto(confirmed + gap) >= After[r]]_wifiVars

\* The guard fails closed but not for ever: when the storage can be written and
\* the gateway never answers, the panel is rebooted again and again, although
\* stamps may lie in the future ("repeatedly clamping ... would ... wedge
\* recovery") and each reboot finds the ladder at its foot.
NeverWedged == <>[](writable /\ lost) => []<><<WifiReboot>>_wifiVars
=============================================================================
