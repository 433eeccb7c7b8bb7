----------------------------- MODULE SessionRisk -----------------------------
(***************************************************************************)
(* SessionRiskService for ONE principal: concurrent calls of report, of    *)
(* the context check of authenticated requests (sessionIsValid) and of     *)
(* release, interleaved at every store command, over the quarantine        *)
(* record, a counter per signal type and the claimed fingerprints.         *)
(*                                                                         *)
(* No call catches anything, so a rejection ends it.  A request either     *)
(* shows the address (device) its session was created with or one other,   *)
(* so a change's fingerprint is its type.                                  *)
(***************************************************************************)
EXTENDS Naturals, FiniteSets

CONSTANTS
    Reports,               \* calls of report by the refresh or agent service
    ReportTypes,           \* the signals they report
    Requests,              \* authenticated requests: sessionIsValid
    Releases,              \* calls of release
    ConcurrentThreshold,   \* concurrentRefreshThreshold
    AgentThreshold,        \* suspiciousAgentThreshold
    IpAction,              \* ipChangeAction
    DeviceAction,          \* deviceChangeAction
    FaultKinds,            \* which rejections may happen: "audit", "store"
    MaxFaults              \* how many

Calls == Reports \cup Requests \cup Releases

ContextTypes == {"ip_change", "device_change"}
SignalTypes ==
    ContextTypes \cup {"refresh_replay", "concurrent_refresh", "suspicious_agent_activity"}
Actions == {"ignore", "audit", "quarantine"}

ASSUME RiskAssumption ==
    /\ Reports \cap Requests = {}
    /\ (Reports \cup Requests) \cap Releases = {}
    /\ IsFiniteSet(Calls)
    /\ ReportTypes \subseteq SignalTypes \ ContextTypes
    /\ ConcurrentThreshold \in Nat \ {0}
    /\ AgentThreshold \in Nat \ {0}
    /\ {IpAction, DeviceAction} \subseteq Actions
    /\ FaultKinds \subseteq {"audit", "store"}
    /\ MaxFaults \in Nat

VARIABLES
    reasons,   \* reasons of the quarantine record; {} when there is none
    counter,   \* the counter of each signal type, 0 when absent
    windowed,  \* signal types whose counter has its TTL
    seen,      \* context changes whose fingerprint is claimed
    pc,        \* the await each call is suspended at
    signal,    \* the signal a call is reporting
    todo,      \* context changes a request has yet to report
    merged,    \* the reasons a call is about to write
    faults,    \* rejections so far, by kind
    total,     \* history: increments of each counter
    lifted     \* history: how the last record ended: "expired" or "released"

store == <<reasons, counter, windowed, seen, total, lifted>>
local == <<signal, todo, merged>>
vars  == <<store, local, pc, faults>>

-----------------------------------------------------------------------------

Labels == {"idle", "assess", "claim", "increment", "expire", "get", "set",
           "quarantined", "detected", "recorded", "state", "released", "done"}

AllFaultKinds == {"audit", "store"}

TypeOK ==
    /\ reasons \subseteq SignalTypes
    /\ counter \in [SignalTypes -> 0..Cardinality(Calls)]
    /\ windowed \subseteq {t \in SignalTypes : counter[t] > 0}
    /\ seen \subseteq ContextTypes
    /\ pc \in [Calls -> Labels]
    /\ signal \in [Calls -> SignalTypes \cup {"none"}]
    /\ todo \in [Calls -> SUBSET ContextTypes]
    /\ merged \in [Calls -> SUBSET SignalTypes]
    /\ faults \in [AllFaultKinds -> 0..MaxFaults]
    /\ total \in [SignalTypes -> 0..Cardinality(Calls)]
    /\ lifted \in {"none", "expired", "released"}

Init ==
    /\ reasons = {}
    /\ counter = [t \in SignalTypes |-> 0]
    /\ windowed = {}
    /\ seen = {}
    /\ pc = [c \in Calls |-> "idle"]
    /\ signal = [c \in Calls |-> "none"]
    /\ todo = [c \in Calls |-> {}]
    /\ merged = [c \in Calls |-> {}]
    /\ faults = [k \in AllFaultKinds |-> 0]
    /\ total = [t \in SignalTypes |-> 0]
    /\ lifted = "none"

-----------------------------------------------------------------------------
(* Configuration *)

ActionFor(t) ==
    CASE t = "ip_change" -> IpAction
      [] t = "device_change" -> DeviceAction
      [] OTHER -> "quarantine"

\* Seeded fault: every reported change counts as a reason.
ReachesAlways(t, n) == n >= 1

\* count >= thresholdFor(type); the threshold of an audited change is infinite.
Reaches(t, n) ==
    CASE t = "concurrent_refresh" -> n >= ConcurrentThreshold
      [] t = "suspicious_agent_activity" -> n >= AgentThreshold
      [] OTHER -> ActionFor(t) = "quarantine"

-----------------------------------------------------------------------------
(* Control *)

Goto(c, label) == pc' = [pc EXCEPT ![c] = label] /\ UNCHANGED faults

Reject(c, kind) ==
    /\ kind \in FaultKinds
    /\ faults["audit"] + faults["store"] < MaxFaults
    /\ faults' = [faults EXCEPT ![kind] = @ + 1]
    /\ pc' = [pc EXCEPT ![c] = "done"]

\* A store command took effect: its reply arrives, or is lost and it rejects.
Reply(c, label) == Goto(c, label) \/ Reject(c, "store")

\* A state was returned to call c: it ends the call unless the session is
\* active and a change is left to report, the address first.
Continue(c, quarantined) ==
    IF quarantined \/ todo[c] = {}
    THEN Goto(c, "done") /\ UNCHANGED <<signal, todo>>
    ELSE LET t == IF "ip_change" \in todo[c] THEN "ip_change" ELSE "device_change"
         IN /\ signal' = [signal EXCEPT ![c] = t]
            /\ todo' = [todo EXCEPT ![c] = @ \ {t}]
            /\ Goto(c, IF ActionFor(t) = "ignore" THEN "state" ELSE "claim")

-----------------------------------------------------------------------------
(* Where the calls begin *)

BeginReport(c) ==
    /\ c \in Reports
    /\ pc[c] = "idle"
    /\ \E t \in ReportTypes : signal' = [signal EXCEPT ![c] = t]
    /\ Goto(c, "increment")
    /\ UNCHANGED <<store, todo, merged>>

\* sessionIsValid: isQuarantined, then assessContext.
BeginRequest(c) ==
    /\ c \in Requests
    /\ pc[c] = "idle"
    /\ \E changes \in SUBSET ContextTypes : todo' = [todo EXCEPT ![c] = changes]
    /\ Goto(c, IF reasons # {} THEN "done" ELSE "assess")
    /\ UNCHANGED <<store, signal, merged>>

\* assessContext reads the state; a request with changes reports them whatever
\* it is.
Assess(c) ==
    /\ pc[c] = "assess"
    /\ Continue(c, FALSE)
    /\ UNCHANGED <<store, merged>>

-----------------------------------------------------------------------------
(* report *)

\* claimFingerprint: SET NX.  A change that was claimed is not counted again.
Claim(c) ==
    /\ pc[c] = "claim"
    /\ seen' = seen \cup {signal[c]}
    /\ Reply(c, IF signal[c] \in seen THEN "state" ELSE "increment")
    /\ UNCHANGED <<reasons, counter, windowed, total, lifted, local>>

\* What follows a count that is not the first.
Weigh(c, n) == IF Reaches(signal[c], n) THEN "get" ELSE "detected"

\* Seeded fault: the window is started by the second signal.
IncrementLateWindow(c) ==
    /\ pc[c] = "increment"
    /\ counter' = [counter EXCEPT ![signal[c]] = @ + 1]
    /\ total' = [total EXCEPT ![signal[c]] = @ + 1]
    /\ LET n == counter[signal[c]] + 1
       IN Reply(c, IF n = 2 THEN "expire" ELSE Weigh(c, n))
    /\ UNCHANGED <<reasons, windowed, seen, lifted, local>>

\* INCR; the first signal of a window starts it.
Increment(c) ==
    /\ pc[c] = "increment"
    /\ counter' = [counter EXCEPT ![signal[c]] = @ + 1]
    /\ total' = [total EXCEPT ![signal[c]] = @ + 1]
    /\ LET n == counter[signal[c]] + 1
       IN Reply(c, IF n = 1 THEN "expire" ELSE Weigh(c, n))
    /\ UNCHANGED <<reasons, windowed, seen, lifted, local>>

\* Seeded fault: the window is kept as a key of its own.
ExpireSeparately(c) ==
    /\ pc[c] = "expire"
    /\ windowed' = windowed \cup {signal[c]}
    /\ Reply(c, Weigh(c, 1))
    /\ UNCHANGED <<reasons, counter, seen, total, lifted, local>>

\* EXPIRE of the counter, if it is still there; this call's count is one.
ExpireCounter(c) ==
    /\ pc[c] = "expire"
    /\ windowed' = IF counter[signal[c]] > 0 THEN windowed \cup {signal[c]} ELSE windowed
    /\ Reply(c, Weigh(c, 1))
    /\ UNCHANGED <<reasons, counter, seen, total, lifted, local>>

\* quarantine reads the record it will replace ...
ReadRecord(c) ==
    /\ pc[c] = "get"
    /\ merged' = [merged EXCEPT ![c] = reasons \cup {signal[c]}]
    /\ Goto(c, "set")
    /\ UNCHANGED <<store, signal, todo>>

\* ... writes it with the reason added ...
WriteRecord(c) ==
    /\ pc[c] = "set"
    /\ reasons' = merged[c]
    /\ merged' = [merged EXCEPT ![c] = {}]
    /\ lifted' = "none"
    /\ Reply(c, "quarantined")
    /\ UNCHANGED <<counter, windowed, seen, total, signal, todo>>

\* Seeded fault: a rejected audit undoes the quarantine.
AuditUndoes(c) ==
    /\ pc[c] = "quarantined"
    /\ \/ Goto(c, "recorded") /\ UNCHANGED reasons
       \/ Reject(c, "audit") /\ reasons' = {}
    /\ UNCHANGED <<counter, windowed, seen, total, lifted, local>>

\* ... and audits it.
AuditQuarantined(c) ==
    /\ pc[c] = "quarantined"
    /\ Goto(c, "recorded") \/ Reject(c, "audit")
    /\ UNCHANGED <<store, local>>

\* audit "session.risk_detected"; a report that quarantined knows the state.
AuditDetected(c) ==
    /\ \/ pc[c] = "recorded" /\ Continue(c, TRUE)
       \/ pc[c] = "detected" /\ Goto(c, "state") /\ UNCHANGED <<signal, todo>>
       \/ /\ pc[c] \in {"recorded", "detected"}
          /\ Reject(c, "audit")
          /\ UNCHANGED <<signal, todo>>
    /\ UNCHANGED <<store, merged>>

\* getState at the end of report.
ReadState(c) ==
    /\ pc[c] = "state"
    /\ Continue(c, reasons # {})
    /\ UNCHANGED <<store, merged>>

-----------------------------------------------------------------------------
(* release *)

\* Seeded fault: the counters are left as they are.
ReleaseRecordOnly(c) ==
    /\ c \in Releases
    /\ pc[c] = "idle"
    /\ reasons' = {}
    /\ Reply(c, "released")
    /\ UNCHANGED <<counter, windowed, lifted, seen, total, local>>

\* One DEL of the record and of every counter; the claims stay.
Release(c) ==
    /\ c \in Releases
    /\ pc[c] = "idle"
    /\ reasons' = {}
    /\ counter' = [t \in SignalTypes |-> 0]
    /\ windowed' = {}
    /\ lifted' = IF reasons # {} \/ lifted # "none" THEN "released" ELSE "none"
    /\ Reply(c, "released")
    /\ UNCHANGED <<seen, total, local>>

AuditRelease(c) ==
    /\ pc[c] = "released"
    /\ Goto(c, "done") \/ Reject(c, "audit")
    /\ UNCHANGED <<store, local>>

-----------------------------------------------------------------------------
(* Failures and expiry *)

CommandFails(c) ==
    /\ pc[c] \in {"assess", "claim", "increment", "expire", "get", "set", "state"}
    /\ Reject(c, "store")
    /\ UNCHANGED <<store, local>>

WindowEnds(t) ==
    /\ t \in windowed
    /\ counter' = [counter EXCEPT ![t] = 0]
    /\ windowed' = windowed \ {t}
    /\ UNCHANGED <<reasons, seen, total, lifted, local, pc, faults>>

ClaimEnds(t) ==
    /\ t \in seen
    /\ seen' = seen \ {t}
    /\ UNCHANGED <<reasons, counter, windowed, total, lifted, local, pc, faults>>

QuarantineEnds ==
    /\ reasons # {}
    /\ reasons' = {}
    /\ lifted' = "expired"
    /\ UNCHANGED <<counter, windowed, seen, total, local, pc, faults>>

-----------------------------------------------------------------------------

\* A call that has begun takes its next step.
Proceed(c) ==
    \/ Assess(c) \/ Claim(c) \/ Increment(c) \/ ExpireCounter(c)
    \/ ReadRecord(c) \/ WriteRecord(c) \/ AuditQuarantined(c)
    \/ AuditDetected(c) \/ ReadState(c) \/ AuditRelease(c)

Next ==
    \/ \E c \in Calls :
          BeginReport(c) \/ BeginRequest(c) \/ Release(c) \/ Proceed(c) \/ CommandFails(c)
    \/ \E t \in SignalTypes : WindowEnds(t) \/ ClaimEnds(t)
    \/ QuarantineEnds

Spec == Init /\ [][Next]_vars

-----------------------------------------------------------------------------
(* Properties *)

\* "Concurrent refresh and suspicious-agent signals use bounded time-window
\* thresholds": a counter is either on its way out or about to be, so signals
\* far apart never add up, unless a command or the call failed in between.
CounterLapses ==
    \A t \in SignalTypes :
        counter[t] > 0 /\ t \notin windowed =>
            \/ \E c \in Calls : pc[c] = "expire" /\ signal[c] = t
            \/ faults["store"] > 0

\* When as many signals as the threshold were counted in one window, the
\* session is quarantined or a report is about to do it: no interleaving of
\* the reports, and no release, leaves the signals counted and unanswered.
ThresholdQuarantines ==
    \A t \in SignalTypes :
        /\ counter[t] > 0
        /\ Reaches(t, counter[t])
        /\ faults["store"] = 0
        /\ lifted # "expired"
        => \/ reasons # {}
           \/ \E c \in Calls : pc[c] \in {"expire", "get", "set"} /\ signal[c] = t

\* A session is quarantined for a cause: as many signals as the cause needs
\* were reported, and a change that is configured to be audited is none.
QuarantinedForCause ==
    \A t \in reasons :
        /\ total[t] > 0
        /\ ActionFor(t) = "quarantine"
        /\ t = "concurrent_refresh" => total[t] >= ConcurrentThreshold
        /\ t = "suspicious_agent_activity" => total[t] >= AgentThreshold

\* "IP and device changes ... can be configured to quarantine": a change that
\* was noticed, and so will not be counted again, quarantines the session, or
\* a call is about to do it, though the audit sinks reject; only an operator
\* or the passing of time lifts it.
ChangeAnswered ==
    \A t \in seen :
        /\ ActionFor(t) = "quarantine"
        /\ faults["store"] = 0
        /\ lifted = "none"
        => \/ reasons # {}
           \/ \E c \in Calls :
                 pc[c] \in {"increment", "expire", "get", "set"} /\ signal[c] = t

=============================================================================
