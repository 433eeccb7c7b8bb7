-------------------------- MODULE SessionRisk_proofs --------------------------
(***************************************************************************)
(* For every number of calls, every threshold and every configuration of   *)
(* the changes: the invariants that SessionRisk states.                    *)
(***************************************************************************)
EXTENDS SessionRisk, FiniteSetTheorems, TLAPS

-----------------------------------------------------------------------------
(* The strengthening of the invariants *)

RiskTypes ==
    /\ reasons \subseteq SignalTypes
    /\ counter \in [SignalTypes -> Nat]
    /\ windowed \subseteq {t \in SignalTypes : counter[t] > 0}
    /\ seen \subseteq ContextTypes
    /\ pc \in [Calls -> Labels]
    /\ signal \in [Calls -> SignalTypes \cup {"none"}]
    /\ todo \in [Calls -> SUBSET ContextTypes]
    /\ merged \in [Calls -> SUBSET SignalTypes]
    /\ faults \in [AllFaultKinds -> 0..MaxFaults]
    /\ total \in [SignalTypes -> Nat]
    /\ lifted \in {"none", "expired", "released"}

\* The calls that may yet count a signal of type t: each does so once.
MayCount(t) ==
    {c \in Calls : \/ pc[c] = "idle"
                   \/ pc[c] \in {"claim", "increment"} /\ signal[c] = t
                   \/ t \in todo[c]}

CountsBounded ==
    \A t \in SignalTypes :
        /\ counter[t] <= total[t]
        /\ total[t] + Cardinality(MayCount(t)) <= Cardinality(Calls)

\* What entitles a report to quarantine for t, and what QuarantinedForCause
\* says of the record.
Cause(t) ==
    /\ t \in SignalTypes
    /\ ActionFor(t) = "quarantine"
    /\ total[t] > 0
    /\ Reaches(t, total[t])

\* A call that weighs, reads or writes has a cause.
OnCourse(c) ==
    /\ pc[c] \in {"claim", "increment", "expire", "get", "set"} => signal[c] \in SignalTypes
    /\ pc[c] \in {"claim", "increment"} => signal[c] \notin todo[c]
    /\ pc[c] = "claim" => signal[c] \in ContextTypes
    /\ pc[c] = "expire" => total[signal[c]] > 0
    /\ pc[c] = "get" => Cause(signal[c])
    /\ pc[c] = "set" => signal[c] \in merged[c] /\ \A t \in merged[c] : Cause(t)

\* ThresholdQuarantines holds because the count that reached the threshold is
\* itself answered: a report whose count was one may still be at its EXPIRE,
\* and counts for this only if one signal is enough.
Answers(c, t) ==
    /\ signal[c] = t
    /\ \/ pc[c] \in {"get", "set"}
       \/ pc[c] = "expire" /\ Reaches(t, 1)

ThresholdAnswered ==
    \A t \in SignalTypes :
        counter[t] > 0 /\ Reaches(t, counter[t]) /\ faults["store"] = 0 /\ lifted # "expired"
            => reasons # {} \/ \E c \in Calls : Answers(c, t)

RInv ==
    /\ RiskTypes
    /\ CountsBounded
    /\ \A c \in Calls : OnCourse(c)
    /\ \A t \in reasons : Cause(t)
    /\ CounterLapses
    /\ ThresholdAnswered
    /\ ChangeAnswered


-----------------------------------------------------------------------------
(* The steps of a call *)

CallStep(c) ==
    \/ BeginReport(c) \/ BeginRequest(c) \/ Release(c) \/ CommandFails(c)
    \/ Assess(c) \/ Claim(c) \/ Increment(c) \/ ExpireCounter(c)
    \/ ReadRecord(c) \/ WriteRecord(c) \/ AuditQuarantined(c)
    \/ AuditDetected(c) \/ ReadState(c) \/ AuditRelease(c)

TimePasses ==
    \/ \E t \in SignalTypes : WindowEnds(t) \/ ClaimEnds(t)
    \/ QuarantineEnds

\* A step is one of a call, or time passing.
LEMMA NextSteps == Next <=> TimePasses \/ \E c \in Calls : CallStep(c)
BY DEF Next, CallStep, Proceed, TimePasses

\* The labels a step can lead to.
LEMMA LabelFacts ==
    /\ "assess" \in Labels /\ "claim" \in Labels /\ "increment" \in Labels
    /\ "expire" \in Labels /\ "get" \in Labels /\ "set" \in Labels /\ "quarantined" \in Labels
    /\ "detected" \in Labels /\ "recorded" \in Labels /\ "state" \in Labels
    /\ "released" \in Labels /\ "done" \in Labels
BY DEF Labels

\* What RiskAssumption says of the signals, calls and thresholds.
LEMMA TypeFacts ==
    /\ ContextTypes \subseteq SignalTypes /\ ReportTypes \subseteq SignalTypes
    /\ "ip_change" \in ContextTypes /\ "device_change" \in ContextTypes
    /\ ReportTypes \cap ContextTypes = {}
    /\ FaultKinds \subseteq AllFaultKinds /\ AllFaultKinds = {"audit", "store"}
    /\ MaxFaults \in Nat /\ IsFiniteSet(Calls)
    /\ ConcurrentThreshold \in Nat \ {0} /\ AgentThreshold \in Nat \ {0}
BY RiskAssumption DEF ContextTypes, SignalTypes, AllFaultKinds

\* Call c goes to label x, and at most one rejection is counted.
Leads(c) ==
    \E x \in Labels \ {"idle"} :
        /\ pc' = [pc EXCEPT ![c] = x]
        /\ \/ UNCHANGED faults
           \/ /\ x = "done"
              /\ \E k \in FaultKinds :
                    /\ faults["audit"] + faults["store"] < MaxFaults
                    /\ faults' = [faults EXCEPT ![k] = faults[k] + 1]

\* The ways a step can end each move one call, to a label other than idle.
LEMMA GotoLeads ==
    ASSUME NEW c \in Calls, NEW x \in Labels, x # "idle", Goto(c, x)
    PROVE  Leads(c)
BY DEF Goto, Leads

\* A rejection moves its call.
LEMMA RejectLeads ==
    ASSUME NEW c \in Calls, NEW k \in AllFaultKinds, Reject(c, k)
    PROVE  Leads(c)
BY LabelFacts DEF Reject, Leads

\* So does a reply, which may be lost.
LEMMA ReplyLeads ==
    ASSUME NEW c \in Calls, NEW x \in Labels, x # "idle", Reply(c, x)
    PROVE  Leads(c)
BY GotoLeads, RejectLeads, TypeFacts DEF Reply

\* The change that a request reports next.
LEMMA ContinueMoves ==
    ASSUME RiskTypes, NEW c \in Calls, NEW q \in BOOLEAN, Continue(c, q)
    PROVE  /\ UNCHANGED faults
           /\ \/ pc' = [pc EXCEPT ![c] = "done"] /\ UNCHANGED <<signal, todo>>
              \/ \E t \in todo[c] :
                    /\ t \in ContextTypes
                    /\ signal' = [signal EXCEPT ![c] = t]
                    /\ todo' = [todo EXCEPT ![c] = todo[c] \ {t}]
                    /\ \/ pc' = [pc EXCEPT ![c] = "state"]
                       \/ pc' = [pc EXCEPT ![c] = "claim"]
<1>1. CASE q \/ todo[c] = {}
  BY <1>1 DEF Continue, Goto
<1>2. CASE ~ q /\ todo[c] # {}
  <2>1. todo[c] \subseteq {"ip_change", "device_change"}
    BY DEF RiskTypes, ContextTypes
  <2> DEFINE t == IF "ip_change" \in todo[c] THEN "ip_change" ELSE "device_change"
  <2>2. t \in todo[c] /\ t \in ContextTypes
    BY <1>2, <2>1 DEF ContextTypes
  <2>3. /\ signal' = [signal EXCEPT ![c] = t]
        /\ todo' = [todo EXCEPT ![c] = todo[c] \ {t}]
        /\ Goto(c, IF ActionFor(t) = "ignore" THEN "state" ELSE "claim")
    BY <1>2 DEF Continue
  <2> HIDE DEF t
  <2>4. QED
    BY <2>2, <2>3 DEF Goto
<1>3. QED
  BY <1>1, <1>2

\* So does going on to the next change of context.
LEMMA ContinueLeads ==
    ASSUME RiskTypes, NEW c \in Calls, NEW q \in BOOLEAN, Continue(c, q)
    PROVE  Leads(c)
BY ContinueMoves, LabelFacts DEF Leads

\* A count leads to the record or to the audit.
LEMMA WeighFacts ==
    ASSUME NEW c \in Calls, NEW n \in Nat
    PROVE  Weigh(c, n) \in Labels /\ Weigh(c, n) \in {"get", "detected"}
BY LabelFacts DEF Weigh

\* Every step of a call moves that call and no other.
LEMMA StepLeads ==
    ASSUME RiskTypes, \A d \in Calls : OnCourse(d), NEW c \in Calls, CallStep(c)
    PROVE  Leads(c)
<1> USE LabelFacts, TypeFacts
<1>1. CASE BeginReport(c)
  BY <1>1, GotoLeads DEF BeginReport
<1>2. CASE BeginRequest(c)
  BY <1>2, GotoLeads DEF BeginRequest
<1>3. CASE Release(c)
  BY <1>3, ReplyLeads DEF Release
<1>4. CASE CommandFails(c)
  BY <1>4, RejectLeads DEF CommandFails
<1>5. CASE Assess(c)
  BY <1>5, ContinueLeads DEF Assess
<1>6. CASE Claim(c)
  BY <1>6, ReplyLeads DEF Claim
<1>7. CASE Increment(c)
  <2>1. signal[c] \in SignalTypes
    BY <1>7 DEF Increment, OnCourse
  <2>2. counter[signal[c]] + 1 \in Nat
    BY <2>1 DEF RiskTypes
  <2>3. \E x \in Labels : x # "idle" /\ Reply(c, x)
    BY <1>7, <2>2, WeighFacts DEF Increment
  <2>4. QED
    BY <2>3, ReplyLeads
<1>8. CASE ExpireCounter(c)
  BY <1>8, ReplyLeads, WeighFacts DEF ExpireCounter
<1>9. CASE ReadRecord(c)
  BY <1>9, GotoLeads DEF ReadRecord
<1>10. CASE WriteRecord(c)
  BY <1>10, ReplyLeads DEF WriteRecord
<1>11. CASE AuditQuarantined(c)
  BY <1>11, GotoLeads, RejectLeads DEF AuditQuarantined
<1>12. CASE AuditDetected(c)
  BY <1>12, GotoLeads, RejectLeads, ContinueLeads DEF AuditDetected
<1>13. CASE ReadState(c)
  BY <1>13, ContinueLeads DEF ReadState
<1>14. CASE AuditRelease(c)
  BY <1>14, GotoLeads, RejectLeads DEF AuditRelease
<1>15. QED
  BY <1>1, <1>2, <1>3, <1>4, <1>5, <1>6, <1>7, <1>8, <1>9, <1>10, <1>11, <1>12, <1>13, <1>14
  DEF CallStep

\* What a step does to the locals of its call.
LocalMove(c) ==
    /\ UNCHANGED signal \/ \E t \in SignalTypes : signal' = [signal EXCEPT ![c] = t]
    /\ \/ UNCHANGED todo
       \/ /\ pc[c] = "idle"
          /\ \E S \in SUBSET ContextTypes : todo' = [todo EXCEPT ![c] = S]
       \/ \E t \in todo[c] : todo' = [todo EXCEPT ![c] = todo[c] \ {t}]
    /\ UNCHANGED merged \/ \E S \in SUBSET SignalTypes : merged' = [merged EXCEPT ![c] = S]

\* What a step of a call can do to what the calls remember.
LEMMA StepLocals ==
    ASSUME RiskTypes, \A d \in Calls : OnCourse(d), NEW c \in Calls, CallStep(c)
    PROVE  LocalMove(c)
<1> USE TypeFacts
<1>0. ASSUME NEW q \in BOOLEAN, Continue(c, q), UNCHANGED merged PROVE LocalMove(c)
  BY <1>0, ContinueMoves DEF LocalMove
<1>1. CASE BeginReport(c)
  BY <1>1 DEF BeginReport, LocalMove
<1>2. CASE BeginRequest(c)
  BY <1>2 DEF BeginRequest, LocalMove
<1>3. CASE Assess(c)
  BY <1>0, <1>3 DEF Assess
<1>4. CASE ReadState(c)
  BY <1>0, <1>4 DEF ReadState
<1>5. CASE AuditDetected(c)
  BY <1>0, <1>5 DEF AuditDetected, LocalMove
<1>6. CASE ReadRecord(c)
  <2>1. reasons \cup {signal[c]} \in SUBSET SignalTypes
    BY <1>6 DEF ReadRecord, RiskTypes, OnCourse
  <2>2. QED
    BY <1>6, <2>1 DEF ReadRecord, LocalMove
<1>7. CASE WriteRecord(c)
  <2>1. {} \in SUBSET SignalTypes
    OBVIOUS
  <2>2. QED
    BY <1>7, <2>1 DEF WriteRecord, LocalMove
<1>8. CASE UNCHANGED local
  BY <1>8 DEF local, LocalMove
<1>9. QED
  BY <1>1, <1>2, <1>3, <1>4, <1>5, <1>6, <1>7, <1>8
  DEF CallStep, Release, CommandFails, Claim, Increment, ExpireCounter, AuditQuarantined,
      AuditRelease

\* What a step does to the store.
StoreMove(c) ==
    \/ UNCHANGED store
    \/ /\ pc[c] = "claim" /\ seen' = seen \cup {signal[c]}
       /\ UNCHANGED <<reasons, counter, windowed, total, lifted>>
    \/ /\ pc[c] = "increment"
       /\ counter' = [counter EXCEPT ![signal[c]] = counter[signal[c]] + 1]
       /\ total' = [total EXCEPT ![signal[c]] = total[signal[c]] + 1]
       /\ UNCHANGED <<reasons, windowed, seen, lifted>>
    \/ /\ pc[c] = "expire"
       /\ windowed' = IF counter[signal[c]] > 0 THEN windowed \cup {signal[c]} ELSE windowed
       /\ UNCHANGED <<reasons, counter, seen, total, lifted>>
    \/ /\ pc[c] = "set"
       /\ reasons' = merged[c]
       /\ lifted' = "none"
       /\ UNCHANGED <<counter, windowed, seen, total>>
    \/ /\ pc[c] = "idle"
       /\ reasons' = {}
       /\ counter' = [t \in SignalTypes |-> 0]
       /\ windowed' = {}
       /\ lifted' = IF reasons # {} \/ lifted # "none" THEN "released" ELSE "none"
       /\ UNCHANGED <<seen, total>>

\* What a step of a call can do to what Redis holds.
LEMMA StepStore ==
    ASSUME RiskTypes, \A d \in Calls : OnCourse(d), NEW c \in Calls, CallStep(c)
    PROVE  StoreMove(c)
<1>1. CASE Claim(c)
  BY <1>1 DEF Claim, StoreMove
<1>2. CASE Increment(c)
  BY <1>2 DEF Increment, StoreMove, RiskTypes, OnCourse
<1>3. CASE ExpireCounter(c)
  BY <1>3 DEF ExpireCounter, StoreMove
<1>4. CASE WriteRecord(c)
  BY <1>4 DEF WriteRecord, StoreMove
<1>5. CASE Release(c)
  BY <1>5 DEF Release, StoreMove
<1>6. CASE UNCHANGED store
  BY <1>6 DEF StoreMove
<1>7. QED
  BY <1>1, <1>2, <1>3, <1>4, <1>5, <1>6
  DEF CallStep, BeginReport, BeginRequest, CommandFails, Assess, ReadRecord, AuditQuarantined,
      AuditDetected, ReadState, AuditRelease

-----------------------------------------------------------------------------
(* Types *)

\* What the calls remember keeps its type.
LEMMA LocalTypes ==
    ASSUME RiskTypes, NEW c \in Calls, Leads(c), LocalMove(c)
    PROVE  /\ pc' \in [Calls -> Labels]
           /\ signal' \in [Calls -> SignalTypes \cup {"none"}]
           /\ todo' \in [Calls -> SUBSET ContextTypes]
           /\ merged' \in [Calls -> SUBSET SignalTypes]
           /\ faults' \in [AllFaultKinds -> 0..MaxFaults]
<1>1. pc' \in [Calls -> Labels]
  BY DEF RiskTypes, Leads
<1>2. signal' \in [Calls -> SignalTypes \cup {"none"}]
  BY DEF RiskTypes, LocalMove
<1>3. todo' \in [Calls -> SUBSET ContextTypes]
  <2>1. todo \in [Calls -> SUBSET ContextTypes]
    BY DEF RiskTypes
  <2>2. \E S \in SUBSET ContextTypes : todo' = [todo EXCEPT ![c] = S] \/ todo' = todo
    BY <2>1 DEF LocalMove
  <2>3. QED
    BY <2>1, <2>2
<1>4. merged' \in [Calls -> SUBSET SignalTypes]
  BY DEF RiskTypes, LocalMove
<1>5. faults' \in [AllFaultKinds -> 0..MaxFaults]
  <2>1. /\ faults \in [AllFaultKinds -> 0..MaxFaults] /\ MaxFaults \in Nat
        /\ AllFaultKinds = {"audit", "store"} /\ FaultKinds \subseteq AllFaultKinds
    BY TypeFacts DEF RiskTypes
  <2>2. ASSUME NEW k \in FaultKinds, faults["audit"] + faults["store"] < MaxFaults
        PROVE  faults[k] + 1 \in 0..MaxFaults
    BY <2>1, <2>2
  <2>3. QED
    BY <2>1, <2>2 DEF Leads
<1>6. QED
  BY <1>1, <1>2, <1>3, <1>4, <1>5

\* What Redis holds keeps its type.
LEMMA StoreTypes ==
    ASSUME RiskTypes, NEW c \in Calls, OnCourse(c), StoreMove(c)
    PROVE  /\ reasons' \subseteq SignalTypes
           /\ counter' \in [SignalTypes -> Nat]
           /\ windowed' \subseteq {t \in SignalTypes : counter'[t] > 0}
           /\ seen' \subseteq ContextTypes
           /\ total' \in [SignalTypes -> Nat]
           /\ lifted' \in {"none", "expired", "released"}
<1>0. /\ counter \in [SignalTypes -> Nat] /\ total \in [SignalTypes -> Nat]
      /\ reasons \subseteq SignalTypes /\ seen \subseteq ContextTypes
      /\ merged[c] \subseteq SignalTypes
      /\ windowed \subseteq {t \in SignalTypes : counter[t] > 0}
      /\ lifted \in {"none", "expired", "released"}
      /\ pc[c] \in {"claim", "increment", "expire"} => signal[c] \in SignalTypes
      /\ pc[c] = "claim" => signal[c] \in ContextTypes
  BY DEF RiskTypes, OnCourse
<1>1. CASE UNCHANGED store
  BY <1>0, <1>1 DEF store
<1>2. CASE /\ pc[c] = "increment"
           /\ counter' = [counter EXCEPT ![signal[c]] = counter[signal[c]] + 1]
           /\ total' = [total EXCEPT ![signal[c]] = total[signal[c]] + 1]
           /\ UNCHANGED <<reasons, windowed, seen, lifted>>
  <2>1. counter' \in [SignalTypes -> Nat] /\ total' \in [SignalTypes -> Nat]
    BY <1>0, <1>2
  <2>2. \A t \in SignalTypes : counter[t] > 0 => counter'[t] > 0
    BY <1>0, <1>2
  <2>3. QED
    BY <1>0, <1>2, <2>1, <2>2
<1>3. QED
  BY <1>0, <1>1, <1>2 DEF StoreMove

\* A step of a call keeps the types.
LEMMA StepTypes ==
    ASSUME RInv, NEW c \in Calls, CallStep(c)
    PROVE  RiskTypes'
<1>1. RiskTypes /\ Leads(c) /\ LocalMove(c) /\ StoreMove(c) /\ OnCourse(c)
  BY StepLeads, StepLocals, StepStore DEF RInv
<1>2. QED
  BY <1>1, LocalTypes, StoreTypes DEF RiskTypes

\* A step of a call leaves what other calls remember.
LEMMA Others ==
    ASSUME RInv, NEW c \in Calls, CallStep(c), NEW d \in Calls, d # c
    PROVE  pc'[d] = pc[d] /\ signal'[d] = signal[d] /\ todo'[d] = todo[d] /\ merged'[d] = merged[d]
<1>1. RiskTypes /\ Leads(c) /\ LocalMove(c)
  BY StepLeads, StepLocals DEF RInv
<1>2. pc'[d] = pc[d]
  BY <1>1 DEF RiskTypes, Leads
<1>3. signal'[d] = signal[d]
  BY <1>1 DEF RiskTypes, LocalMove
<1>4. todo'[d] = todo[d]
  BY <1>1 DEF RiskTypes, LocalMove
<1>5. merged'[d] = merged[d]
  BY <1>1 DEF RiskTypes, LocalMove
<1>6. QED
  BY <1>2, <1>3, <1>4, <1>5


-----------------------------------------------------------------------------
(* Counts and causes *)

\* What reaches a threshold still does when there is more of it.
LEMMA ReachesFacts ==
    ASSUME NEW t \in SignalTypes, NEW m \in Nat, NEW n \in Nat, m <= n, Reaches(t, m)
    PROVE  Reaches(t, n) /\ ActionFor(t) = "quarantine"
BY TypeFacts DEF Reaches, ActionFor

\* Where a call stands after its step: off the way to a quarantine, or one
\* step further on it.
Course(c) ==
    \/ pc'[c] \in {"assess", "state", "released", "done", "detected", "quarantined", "recorded"}
    \/ /\ pc[c] = "idle" /\ pc'[c] = "increment"
       /\ signal'[c] \in ReportTypes /\ todo'[c] = todo[c] /\ UNCHANGED <<counter, total>>
    \/ /\ pc'[c] = "claim"
       /\ signal'[c] \in todo[c] /\ signal'[c] \in ContextTypes
       /\ todo'[c] = todo[c] \ {signal'[c]} /\ UNCHANGED <<counter, total>>
    \/ /\ pc[c] = "claim" /\ pc'[c] = "increment"
       /\ signal'[c] = signal[c] /\ todo'[c] = todo[c] /\ UNCHANGED <<counter, total>>
    \/ /\ pc[c] = "increment" /\ pc'[c] = "expire"
       /\ signal'[c] = signal[c] /\ todo'[c] = todo[c]
       /\ total'[signal[c]] = total[signal[c]] + 1
    \/ /\ pc[c] = "increment" /\ pc'[c] = "get"
       /\ signal'[c] = signal[c] /\ todo'[c] = todo[c]
       /\ total'[signal[c]] = total[signal[c]] + 1
       /\ Reaches(signal[c], counter[signal[c]] + 1)
    \/ /\ pc[c] = "expire" /\ pc'[c] = "get"
       /\ signal'[c] = signal[c] /\ todo'[c] = todo[c] /\ UNCHANGED <<counter, total>>
       /\ Reaches(signal[c], 1)
    \/ /\ pc[c] = "get" /\ pc'[c] = "set"
       /\ signal'[c] = signal[c] /\ todo'[c] = todo[c] /\ UNCHANGED <<counter, total>>
       /\ merged'[c] = reasons \cup {signal[c]}

\* Where each way to end a step leaves its call.
LEMMA GotoFacts ==
    ASSUME RiskTypes, NEW c \in Calls
    PROVE  /\ \A x : Goto(c, x) => pc'[c] = x /\ UNCHANGED faults
           /\ \A k : Reject(c, k) => pc'[c] = "done" /\ k \in FaultKinds
           /\ \A x : Reply(c, x) => pc'[c] \in {x, "done"}
BY DEF RiskTypes, Goto, Reject, Reply

\* Going on with a change that is left to assess stays on course.
LEMMA ContinueCourse ==
    ASSUME RiskTypes, NEW c \in Calls, NEW q \in BOOLEAN, Continue(c, q), UNCHANGED <<counter, total>>
    PROVE  Course(c)
BY ContinueMoves DEF Course, RiskTypes

\* The call that takes a step stays on its course.
LEMMA StepCourse ==
    ASSUME RInv, NEW c \in Calls, CallStep(c)
    PROVE  Course(c)
<1>0. RiskTypes /\ OnCourse(c)
  BY DEF RInv
<1>a. /\ signal \in [Calls -> SignalTypes \cup {"none"}] /\ total \in [SignalTypes -> Nat]
      /\ merged \in [Calls -> SUBSET SignalTypes] /\ counter \in [SignalTypes -> Nat]
  BY <1>0 DEF RiskTypes
<1>b. UNCHANGED store => UNCHANGED <<counter, total>>
  BY DEF store
<1>1. CASE BeginReport(c)
  BY <1>0, <1>a, <1>b, <1>1, GotoFacts, TypeFacts DEF BeginReport, Course
<1>2. CASE BeginRequest(c)
  BY <1>0, <1>2, GotoFacts DEF BeginRequest, Course
<1>3. CASE Release(c)
  BY <1>0, <1>3, GotoFacts DEF Release, Course
<1>4. CASE CommandFails(c)
  BY <1>0, <1>4, GotoFacts DEF CommandFails, Course
<1>5. CASE Assess(c)
  BY <1>0, <1>b, <1>5, ContinueCourse DEF Assess
<1>6. CASE Claim(c)
  <2>1. UNCHANGED <<signal, todo, counter, total>> /\ pc'[c] \in {"state", "increment", "done"}
    BY <1>0, <1>6, GotoFacts DEF Claim, local
  <2>2. QED
    BY <1>6, <2>1 DEF Claim, Course
<1>7. CASE Increment(c)
  <2>1. /\ UNCHANGED <<signal, todo>> /\ pc[c] = "increment"
        /\ total' = [total EXCEPT ![signal[c]] = total[signal[c]] + 1]
        /\ Reply(c, IF counter[signal[c]] + 1 = 1 THEN "expire"
                    ELSE Weigh(c, counter[signal[c]] + 1))
    BY <1>7 DEF Increment, local
  <2>2. signal[c] \in SignalTypes
    BY <1>0, <2>1 DEF OnCourse
  <2>3. total'[signal[c]] = total[signal[c]] + 1
    BY <1>a, <2>1, <2>2
  <2>4. \/ pc'[c] \in {"expire", "done", "detected"}
        \/ pc'[c] = "get" /\ Reaches(signal[c], counter[signal[c]] + 1)
    BY <1>0, <2>1, GotoFacts DEF Weigh
  <2>5. QED
    BY <2>1, <2>3, <2>4 DEF Course
<1>8. CASE ExpireCounter(c)
  <2>1. UNCHANGED <<signal, todo, counter, total>> /\ pc[c] = "expire" /\ Reply(c, Weigh(c, 1))
    BY <1>8 DEF ExpireCounter, local
  <2>2. pc'[c] \in {"done", "detected"} \/ (pc'[c] = "get" /\ Reaches(signal[c], 1))
    BY <1>0, <2>1, GotoFacts DEF Weigh
  <2>3. QED
    BY <2>1, <2>2 DEF Course
<1>9. CASE ReadRecord(c)
  BY <1>0, <1>a, <1>b, <1>9, GotoFacts DEF ReadRecord, Course
<1>10. CASE WriteRecord(c)
  BY <1>0, <1>10, GotoFacts DEF WriteRecord, Course
<1>11. CASE AuditQuarantined(c)
  BY <1>0, <1>11, GotoFacts DEF AuditQuarantined, Course
<1>12. CASE AuditDetected(c)
  BY <1>0, <1>b, <1>12, GotoFacts, ContinueCourse DEF AuditDetected, Course
<1>13. CASE ReadState(c)
  BY <1>0, <1>b, <1>13, ContinueCourse DEF ReadState
<1>14. CASE AuditRelease(c)
  BY <1>0, <1>14, GotoFacts DEF AuditRelease, Course
<1>15. QED
  BY <1>1, <1>2, <1>3, <1>4, <1>5, <1>6, <1>7, <1>8, <1>9, <1>10, <1>11, <1>12, <1>13, <1>14
  DEF CallStep

\* No report is forgotten, so a cause remains one.
LEMMA TotalsGrow ==
    ASSUME RInv, NEW c \in Calls, CallStep(c)
    PROVE  /\ \A t \in SignalTypes : total[t] <= total'[t]
           /\ \A t : Cause(t) => Cause(t)'
<1>0. /\ total \in [SignalTypes -> Nat] /\ OnCourse(c) /\ StoreMove(c)
      /\ total' \in [SignalTypes -> Nat]
  BY StepStore, StepTypes DEF RInv, RiskTypes
<1>1. \A t \in SignalTypes : total[t] <= total'[t]
  <2>1. \/ total' = total
        \/ /\ signal[c] \in SignalTypes
           /\ total' = [total EXCEPT ![signal[c]] = total[signal[c]] + 1]
    BY <1>0 DEF StoreMove, store, OnCourse
  <2>2. QED
    BY <1>0, <2>1
<1>2. ASSUME NEW t, Cause(t) PROVE Cause(t)'
  <2>1. /\ t \in SignalTypes /\ total[t] \in Nat /\ total'[t] \in Nat /\ total[t] > 0
        /\ Reaches(t, total[t])
    BY <1>0, <1>2 DEF Cause
  <2>2. Reaches(t, total'[t]) /\ ActionFor(t) = "quarantine" /\ total'[t] > 0
    BY <1>1, <2>1, ReachesFacts
  <2>3. QED
    BY <2>1, <2>2 DEF Cause, Reaches, ActionFor
<1>3. QED
  BY <1>1, <1>2

\* A step of one call leaves every call on its course.
LEMMA StepOnCourse ==
    ASSUME RInv, NEW c \in Calls, CallStep(c), NEW d \in Calls
    PROVE  OnCourse(d)'
<1>0. /\ RiskTypes /\ OnCourse(d) /\ OnCourse(c) /\ total \in [SignalTypes -> Nat]
      /\ counter \in [SignalTypes -> Nat] /\ todo[c] \subseteq ContextTypes
      /\ total' \in [SignalTypes -> Nat] /\ signal'[d] \in SignalTypes \cup {"none"}
      /\ \A t \in reasons : Cause(t)
      /\ \A t \in SignalTypes : counter[t] <= total[t]
  BY StepTypes DEF RInv, RiskTypes, CountsBounded
<1>1. CASE d # c
  <2>1. pc'[d] = pc[d] /\ signal'[d] = signal[d] /\ todo'[d] = todo[d] /\ merged'[d] = merged[d]
    BY <1>1, Others
  <2>2. pc[d] = "expire" => total'[signal[d]] > 0
    BY <1>0, TotalsGrow DEF OnCourse
  <2>3. pc[d] = "get" => Cause(signal[d])'
    <3>1. SUFFICES ASSUME NEW t, t = signal[d], Cause(t) PROVE t = signal'[d] /\ Cause(t)'
      BY <1>0, <2>1 DEF OnCourse, Cause, Reaches, ActionFor
    <3>2. QED
      BY <2>1, <3>1, TotalsGrow
  <2>5. pc[d] = "set" => signal[d] \in merged[d] /\ \A t \in merged[d] : Cause(t)'
    BY <1>0, TotalsGrow DEF OnCourse
  <2>6. QED
    BY <1>0, <2>1, <2>2, <2>3, <2>5 DEF OnCourse
<1>2. CASE d = c
  <2>0. Course(c)
    BY StepCourse
  <2>1. CASE pc'[c] \in {"assess", "state", "released", "done", "detected", "quarantined",
                         "recorded"}
    BY <1>2, <2>1 DEF OnCourse
  <2>2. CASE pc'[c] = "increment"
    BY <1>0, <1>2, <2>0, <2>2, TypeFacts DEF OnCourse, Course
  <2>3. CASE pc'[c] = "claim"
    BY <1>0, <1>2, <2>0, <2>3, TypeFacts DEF OnCourse, Course
  <2>4. CASE pc'[c] = "expire"
    BY <1>0, <1>2, <2>0, <2>4 DEF OnCourse, Course
  <2>5. CASE pc'[c] = "get"
    <3>1. signal'[c] = signal[c] /\ signal[c] \in SignalTypes
      BY <1>0, <1>2, <2>0, <2>5 DEF OnCourse, Course
    <3>2. \E m \in Nat : Reaches(signal[c], m) /\ m <= total'[signal[c]] /\ total'[signal[c]] > 0
      <4>1. CASE pc[c] = "increment"
        <5>1. /\ total'[signal[c]] = total[signal[c]] + 1
              /\ Reaches(signal[c], counter[signal[c]] + 1)
          BY <2>0, <2>5, <4>1 DEF Course
        <5>2. counter[signal[c]] + 1 \in Nat /\ counter[signal[c]] + 1 <= total'[signal[c]]
          BY <1>0, <3>1, <5>1
        <5>3. QED
          BY <1>0, <3>1, <5>1, <5>2
      <4>2. CASE pc[c] = "expire"
        <5>1. total' = total /\ Reaches(signal[c], 1) /\ total[signal[c]] > 0
          BY <1>0, <2>0, <2>5, <4>2 DEF Course, OnCourse
        <5>2. QED
          BY <1>0, <3>1, <5>1
      <4>3. QED
        BY <2>0, <2>5, <4>1, <4>2 DEF Course
    <3>3. Reaches(signal[c], total'[signal[c]]) /\ ActionFor(signal[c]) = "quarantine"
      BY <1>0, <3>1, <3>2, ReachesFacts
    <3>4. QED
      BY <1>2, <2>5, <3>1, <3>2, <3>3 DEF OnCourse, Cause, Reaches, ActionFor
  <2>6. CASE pc'[c] = "set"
    <3>1. pc[c] = "get" /\ signal'[c] = signal[c] /\ merged'[c] = reasons \cup {signal[c]}
      BY <2>0, <2>6 DEF Course
    <3>2. signal[c] \in SignalTypes /\ Cause(signal[c])
      BY <1>0, <3>1 DEF OnCourse
    <3>3. \A t \in merged'[c] : Cause(t)'
      BY <1>0, <3>1, <3>2, TotalsGrow
    <3>4. QED
      BY <1>2, <2>6, <3>1, <3>2, <3>3 DEF OnCourse, Cause
  <2>7. QED
    BY <2>0, <2>1, <2>2, <2>3, <2>4, <2>5, <2>6 DEF Course
<1>3. QED
  BY <1>1, <1>2

\* Every reason that is recorded has a cause.
LEMMA StepCauses ==
    ASSUME RInv, NEW c \in Calls, CallStep(c)
    PROVE  \A t \in reasons' : Cause(t)'
<1>1. StoreMove(c) /\ OnCourse(c) /\ \A t \in reasons : Cause(t)
  BY StepStore DEF RInv
<1>2. \A t \in reasons' : Cause(t)
  BY <1>1 DEF StoreMove, store, OnCourse
<1>3. QED
  BY <1>2, TotalsGrow

\* Each call counts a signal of each type once.
LEMMA StepCounts ==
    ASSUME RInv, NEW c \in Calls, CallStep(c)
    PROVE  CountsBounded'
<1>0. /\ RiskTypes /\ OnCourse(c) /\ CountsBounded /\ RiskTypes' /\ StoreMove(c) /\ LocalMove(c)
      /\ counter \in [SignalTypes -> Nat] /\ total \in [SignalTypes -> Nat]
      /\ pc[c] \in Labels /\ todo \in [Calls -> SUBSET ContextTypes] /\ Course(c)
  BY StepTypes, StepStore, StepLocals, StepCourse DEF RInv, RiskTypes
<1>1. ASSUME NEW t \in SignalTypes
      PROVE  counter'[t] <= total'[t] /\ total'[t] + Cardinality(MayCount(t)') <= Cardinality(Calls)
  <2>1. MayCount(t)' \subseteq MayCount(t)
    <3>1. ASSUME NEW d \in Calls, d \in MayCount(t)', d # c PROVE d \in MayCount(t)
      BY <3>1, Others DEF MayCount
    <3>2. ASSUME c \in MayCount(t)' PROVE c \in MayCount(t)
      <4>1. pc'[c] # "idle"
        BY <1>0 DEF Course
      <4>2. CASE t \in todo'[c]
        BY <1>0, <4>2 DEF LocalMove, MayCount
      <4>3. CASE pc'[c] \in {"claim", "increment"} /\ signal'[c] = t
        BY <1>0, <4>3 DEF Course, MayCount
      <4>4. QED
        BY <3>2, <4>1, <4>2, <4>3 DEF MayCount
    <3>3. MayCount(t)' \subseteq Calls
      BY DEF MayCount
    <3>4. QED
      BY <3>1, <3>2, <3>3
  <2>2. IsFiniteSet(MayCount(t)) /\ Cardinality(MayCount(t)) \in Nat /\ Cardinality(Calls) \in Nat
    <3>1. MayCount(t) \subseteq Calls
      BY DEF MayCount
    <3>2. QED
      BY <3>1, TypeFacts, FS_Subset, FS_CardinalityType
  <2>3. Cardinality(MayCount(t)') <= Cardinality(MayCount(t)) /\ Cardinality(MayCount(t)') \in Nat
    BY <2>1, <2>2, FS_Subset, FS_CardinalityType
  <2>4. counter[t] <= total[t] /\ total[t] + Cardinality(MayCount(t)) <= Cardinality(Calls)
    BY <1>0 DEF CountsBounded
  <2>5. CASE /\ pc[c] = "increment" /\ signal[c] = t
             /\ counter' = [counter EXCEPT ![signal[c]] = counter[signal[c]] + 1]
             /\ total' = [total EXCEPT ![signal[c]] = total[signal[c]] + 1]
    <3>1. c \in MayCount(t)
      BY <2>5 DEF MayCount
    <3>2. c \notin MayCount(t)'
      <4>1. pc'[c] \notin {"idle", "claim", "increment"}
        BY <1>0, <2>5 DEF OnCourse, Course
      <4>2. t \notin todo'[c]
        BY <1>0, <2>5 DEF OnCourse, LocalMove
      <4>3. QED
        BY <4>1, <4>2 DEF MayCount
    <3>3. MayCount(t)' \subseteq MayCount(t) \ {c}
      BY <2>1, <3>2
    <3>4. /\ Cardinality(MayCount(t) \ {c}) = Cardinality(MayCount(t)) - 1
          /\ IsFiniteSet(MayCount(t) \ {c})
      BY <2>2, <3>1, FS_RemoveElement
    <3>5. Cardinality(MayCount(t)') <= Cardinality(MayCount(t)) - 1
      BY <3>3, <3>4, FS_Subset
    <3>6. counter'[t] = counter[t] + 1 /\ total'[t] = total[t] + 1
      BY <1>0, <2>5
    <3>7. QED
      BY <1>0, <2>2, <2>3, <2>4, <3>5, <3>6
  <2>6. CASE total'[t] = total[t] /\ counter'[t] \in {counter[t], 0}
    <3>1. counter[t] \in Nat /\ total[t] \in Nat
      BY <1>0
    <3>2. QED
      BY <2>2, <2>3, <2>4, <2>6, <3>1
  <2>7. QED
    BY <1>0, <2>5, <2>6 DEF StoreMove, store
<1>2. QED
  BY <1>1 DEF CountsBounded


-----------------------------------------------------------------------------
(* Signals that were counted are answered *)

\* Once a command was rejected, nothing is promised of the session.
LEMMA FaultsGrow ==
    ASSUME RInv, NEW c \in Calls, CallStep(c)
    PROVE  faults["store"] \in Nat /\ faults'["store"] \in Nat /\ faults["store"] <= faults'["store"]
<1>1. /\ RiskTypes /\ Leads(c) /\ faults \in [AllFaultKinds -> 0..MaxFaults]
      /\ faults' \in [AllFaultKinds -> 0..MaxFaults]
  BY StepLeads, StepTypes DEF RInv, RiskTypes
<1>2. QED
  BY <1>1, TypeFacts DEF Leads

\* Without a fault of Redis a reply arrives.
LEMMA Replies ==
    ASSUME RiskTypes, NEW c \in Calls
    PROVE  /\ Reject(c, "store") => faults'["store"] > 0
           /\ \A x : Reply(c, x) /\ faults'["store"] = 0 => pc'[c] = x
<1>1. faults \in [AllFaultKinds -> 0..MaxFaults] /\ pc \in [Calls -> Labels]
  BY DEF RiskTypes
<1>2. Reject(c, "store") => faults'["store"] > 0
  BY <1>1, TypeFacts DEF Reject
<1>3. ASSUME NEW x, Reply(c, x), faults'["store"] = 0 PROVE pc'[c] = x
  BY <1>1, <1>2, <1>3 DEF Reply, Goto
<1>4. QED
  BY <1>2, <1>3

\* The next step of a call on its way to a quarantine, no command being
\* rejected.
LEMMA Forward ==
    ASSUME RInv, NEW c \in Calls, CallStep(c), faults'["store"] = 0,
           pc[c] \in {"increment", "expire", "get", "set"}
    PROVE  /\ signal'[c] = signal[c]
           /\ pc[c] = "increment" =>
                 /\ Increment(c)
                 /\ pc'[c] = IF counter[signal[c]] + 1 = 1 THEN "expire"
                             ELSE Weigh(c, counter[signal[c]] + 1)
           /\ pc[c] = "expire" =>
                 /\ windowed' = IF counter[signal[c]] > 0 THEN windowed \cup {signal[c]}
                                ELSE windowed
                 /\ pc'[c] = Weigh(c, 1)
           /\ pc[c] = "get" => pc'[c] = "set"
           /\ pc[c] = "set" => reasons' = merged[c] /\ reasons' # {}
<1>0. RiskTypes /\ OnCourse(c)
  BY DEF RInv
<1>1. ~ CommandFails(c)
  BY <1>0, Replies DEF CommandFails
<1>2. \/ pc[c] = "increment" /\ Increment(c)
      \/ pc[c] = "expire" /\ ExpireCounter(c)
      \/ pc[c] = "get" /\ ReadRecord(c)
      \/ pc[c] = "set" /\ WriteRecord(c)
  BY <1>1
  DEF CallStep, BeginReport, BeginRequest, Release, Assess, Claim, Increment, ExpireCounter,
      ReadRecord, WriteRecord, AuditQuarantined, AuditDetected, ReadState, AuditRelease
<1>3. CASE pc[c] = "increment" /\ Increment(c)
  BY <1>0, <1>3, Replies DEF Increment, local
<1>4. CASE pc[c] = "expire" /\ ExpireCounter(c)
  BY <1>0, <1>4, Replies DEF ExpireCounter, local
<1>5. CASE pc[c] = "get" /\ ReadRecord(c)
  BY <1>0, <1>5, GotoFacts DEF ReadRecord
<1>6. CASE pc[c] = "set" /\ WriteRecord(c)
  BY <1>0, <1>6 DEF WriteRecord, OnCourse
<1>7. QED
  BY <1>2, <1>3, <1>4, <1>5, <1>6

\* A counter that is created gets its window from the call that created it.
LEMMA StepLapses ==
    ASSUME RInv, NEW c \in Calls, CallStep(c)
    PROVE  CounterLapses'
<1>0. /\ RiskTypes /\ StoreMove(c) /\ CounterLapses /\ OnCourse(c)
      /\ counter \in [SignalTypes -> Nat] /\ windowed \subseteq SignalTypes
  BY StepStore DEF RInv, RiskTypes
<1>1. SUFFICES ASSUME NEW t \in SignalTypes, counter'[t] > 0, t \notin windowed',
                      faults'["store"] = 0
               PROVE  \E d \in Calls : pc'[d] = "expire" /\ signal'[d] = t
  BY FaultsGrow DEF CounterLapses
<1>2. faults["store"] = 0
  BY <1>1, FaultsGrow
<1>3. CASE pc[c] = "increment" /\ signal[c] = t /\ counter[t] = 0
  BY <1>1, <1>3, Forward
<1>4. CASE counter[t] > 0 /\ t \notin windowed
  <2>1. PICK w \in Calls : pc[w] = "expire" /\ signal[w] = t
    BY <1>0, <1>2, <1>4 DEF CounterLapses
  <2>2. w # c
    BY <1>1, <1>4, <2>1, Forward
  <2>3. QED
    BY <2>1, <2>2, Others
<1>5. counter[t] > 0 => t \notin windowed
  BY <1>0, <1>1 DEF StoreMove, store
<1>6. counter[t] > 0 \/ (counter[t] = 0 /\ pc[c] = "increment" /\ signal[c] = t)
  BY <1>0, <1>1 DEF StoreMove, store, OnCourse
<1>7. QED
  BY <1>3, <1>4, <1>5, <1>6

\* A call that will answer a count goes on to do so.
LEMMA AnswerStays ==
    ASSUME RInv, NEW c \in Calls, CallStep(c), faults'["store"] = 0,
           NEW t \in SignalTypes, NEW w \in Calls, Answers(w, t)
    PROVE  Answers(w, t)' \/ reasons' # {}
<1>1. CASE w # c
  BY <1>1, Others DEF Answers, Reaches, ActionFor
<1>2. CASE w = c
  <2>1. CASE pc[c] = "expire" /\ Reaches(t, 1)
    <3>1. pc'[c] = "get" /\ signal'[c] = t
      BY <1>2, <2>1, Forward DEF Answers, Weigh
    <3>2. QED
      BY <1>2, <3>1 DEF Answers
  <2>2. CASE pc[c] = "get"
    BY <1>2, <2>2, Forward DEF Answers
  <2>3. CASE pc[c] = "set"
    BY <1>2, <2>3, Forward
  <2>4. QED
    BY <1>2, <2>1, <2>2, <2>3 DEF Answers
<1>3. QED
  BY <1>1, <1>2

\* A count that reaches its threshold is answered by the call that counted.
LEMMA StepAnswered ==
    ASSUME RInv, NEW c \in Calls, CallStep(c)
    PROVE  ThresholdAnswered'
<1>0. /\ RiskTypes /\ StoreMove(c) /\ ThresholdAnswered /\ OnCourse(c)
      /\ counter \in [SignalTypes -> Nat]
  BY StepStore DEF RInv, RiskTypes
<1>1. SUFFICES ASSUME NEW t \in SignalTypes, counter'[t] > 0, Reaches(t, counter'[t]),
                      faults'["store"] = 0, lifted' # "expired"
               PROVE  reasons' # {} \/ \E d \in Calls : Answers(d, t)'
  BY DEF ThresholdAnswered, Reaches, ActionFor
<1>2. faults["store"] = 0
  BY <1>1, FaultsGrow
<1>3. CASE pc[c] = "set"
  BY <1>1, <1>3, Forward
<1>4. CASE pc[c] = "increment" /\ signal[c] = t
  <2>1. Increment(c) /\ signal'[c] = t
    BY <1>1, <1>4, Forward
  <2>2. counter'[t] = counter[t] + 1
    BY <1>0, <1>4, <2>1 DEF Increment
  <2>3. pc'[c] = IF counter[t] + 1 = 1 THEN "expire" ELSE Weigh(c, counter[t] + 1)
    BY <1>1, <1>4, Forward
  <2>4. pc'[c] = "get" \/ (pc'[c] = "expire" /\ Reaches(t, 1))
    BY <1>1, <1>4, <2>2, <2>3 DEF Weigh
  <2>5. Answers(c, t)'
    BY <2>1, <2>4 DEF Answers, Reaches, ActionFor
  <2>6. QED
    BY <2>5
<1>5. CASE pc[c] # "set" /\ ~ (pc[c] = "increment" /\ signal[c] = t)
  <2>1. counter'[t] = counter[t] /\ reasons' = reasons /\ lifted' = lifted
    BY <1>0, <1>1, <1>5 DEF StoreMove, store, OnCourse
  <2>2. reasons # {} \/ \E w \in Calls : Answers(w, t)
    BY <1>0, <1>1, <1>2, <2>1 DEF ThresholdAnswered
  <2>3. QED
    BY <1>1, <2>1, <2>2, AnswerStays
<1>6. QED
  BY <1>3, <1>4, <1>5

\* A change is claimed by a call that will answer it.
LEMMA StepChange ==
    ASSUME RInv, NEW c \in Calls, CallStep(c)
    PROVE  ChangeAnswered'
<1>0. /\ RiskTypes /\ StoreMove(c) /\ ChangeAnswered /\ OnCourse(c)
      /\ seen \subseteq ContextTypes /\ seen' \subseteq ContextTypes
  BY StepStore, StepTypes DEF RInv, RiskTypes
<1>1. SUFFICES ASSUME NEW t \in seen', ActionFor(t) = "quarantine", faults'["store"] = 0,
                      lifted' = "none"
               PROVE  \/ reasons' # {}
                      \/ \E d \in Calls : /\ pc'[d] \in {"increment", "expire", "get", "set"}
                                          /\ signal'[d] = t
  BY DEF ChangeAnswered, ActionFor
<1>2. faults["store"] = 0
  BY <1>1, FaultsGrow
<1>3. CASE pc[c] = "set"
  BY <1>1, <1>3, Forward
<1>4. CASE t \notin seen
  <2>1. pc[c] = "claim" /\ signal[c] = t
    BY <1>0, <1>4 DEF StoreMove, store
  <2>2. Claim(c)
    BY <1>0, <1>1, <2>1, Replies
    DEF CallStep, BeginReport, BeginRequest, Release, CommandFails, Assess, Increment,
        ExpireCounter, ReadRecord, WriteRecord, AuditQuarantined, AuditDetected, ReadState,
        AuditRelease
  <2>3. pc'[c] = "increment" /\ signal'[c] = t
    BY <1>0, <1>1, <1>4, <2>1, <2>2, Replies DEF Claim, local
  <2>4. QED
    BY <2>3
<1>5. CASE t \in seen /\ pc[c] # "set"
  <2>1. (reasons' = reasons \/ reasons = {}) /\ lifted = "none"
    BY <1>0, <1>1, <1>5 DEF StoreMove, store
  <2>2. \/ reasons # {}
        \/ \E w \in Calls : pc[w] \in {"increment", "expire", "get", "set"} /\ signal[w] = t
    BY <1>1, <1>2, <1>5, <2>1, <1>0 DEF ChangeAnswered
  <2>3. ASSUME NEW w \in Calls, pc[w] \in {"increment", "expire", "get", "set"}, signal[w] = t
        PROVE  \E d \in Calls : /\ pc'[d] \in {"increment", "expire", "get", "set"}
                                /\ signal'[d] = t
    <3>1. CASE w # c
      BY <2>3, <3>1, Others
    <3>2. CASE w = c
      <4>1. Weigh(c, 1) = "get" /\ Weigh(c, counter[t] + 1) = "get"
        BY <1>0, <1>1, <1>5, <2>3, <3>2 DEF Weigh, Reaches, ContextTypes
      <4>2. pc'[c] \in {"expire", "get", "set"} /\ signal'[c] = t
        BY <1>1, <1>5, <2>3, <3>2, <4>1, Forward
      <4>3. QED
        BY <4>2
    <3>3. QED
      BY <3>1, <3>2
  <2>4. QED
    BY <2>1, <2>2, <2>3
<1>6. QED
  BY <1>3, <1>4, <1>5

-----------------------------------------------------------------------------
(* Time *)

\* The passing of time keeps the types, and counts nothing.
LEMMA TimeTypes ==
    ASSUME RInv, TimePasses
    PROVE  RiskTypes' /\ CountsBounded'
<1>0. /\ RiskTypes /\ CountsBounded /\ counter \in [SignalTypes -> Nat]
      /\ total \in [SignalTypes -> Nat] /\ windowed \subseteq {t \in SignalTypes : counter[t] > 0}
  BY DEF RInv, RiskTypes
<1>1. UNCHANGED <<total, signal, todo, merged, pc, faults>>
  BY DEF TimePasses, WindowEnds, ClaimEnds, QuarantineEnds, local
<1>2. \/ UNCHANGED <<counter, windowed>>
      \/ \E t \in SignalTypes :
            counter' = [counter EXCEPT ![t] = 0] /\ windowed' = windowed \ {t}
  BY DEF TimePasses, WindowEnds, ClaimEnds, QuarantineEnds
<1>3. counter' \in [SignalTypes -> Nat] /\ windowed' \subseteq {t \in SignalTypes : counter'[t] > 0}
  BY <1>0, <1>2
<1>4. /\ seen' \subseteq seen /\ reasons' \subseteq reasons
      /\ lifted' \in {lifted, "expired"}
  BY DEF TimePasses, WindowEnds, ClaimEnds, QuarantineEnds
<1>5. RiskTypes'
  BY <1>0, <1>1, <1>3, <1>4 DEF RiskTypes
<1>6. \A t \in SignalTypes : MayCount(t)' = MayCount(t)
  BY <1>1 DEF MayCount
<1>7. \A t \in SignalTypes : counter'[t] <= total'[t]
  <2>1. \A t \in SignalTypes : counter[t] <= total[t] /\ 0 <= total[t]
    BY <1>0 DEF CountsBounded
  <2>2. QED
    BY <1>0, <1>1, <1>2, <2>1
<1>8. CountsBounded'
  <2>1. \A t \in SignalTypes : total'[t] + Cardinality(MayCount(t)') <= Cardinality(Calls)
    BY <1>0, <1>1, <1>6 DEF CountsBounded
  <2>2. QED
    BY <1>7, <2>1 DEF CountsBounded
<1>9. QED
  BY <1>5, <1>8

\* The passing of time keeps the invariant.
LEMMA TimeRInv ==
    ASSUME RInv, TimePasses
    PROVE  RInv'
<1>0. /\ counter \in [SignalTypes -> Nat] /\ windowed \subseteq SignalTypes
      /\ \A c \in Calls : OnCourse(c)
      /\ \A t \in reasons : Cause(t)
      /\ CounterLapses /\ ThresholdAnswered /\ ChangeAnswered
  BY DEF RInv, RiskTypes
<1>1. UNCHANGED <<total, signal, todo, merged, pc, faults>> /\ reasons' \subseteq reasons
  BY DEF TimePasses, WindowEnds, ClaimEnds, QuarantineEnds, local
<1>2. \A t : Cause(t)' <=> Cause(t)
  BY <1>1 DEF Cause, Reaches, ActionFor
<1>3. \A c \in Calls : OnCourse(c)'
  BY <1>0, <1>1, <1>2 DEF OnCourse, Cause, Reaches, ActionFor
<1>4. \A t \in reasons' : Cause(t)'
  BY <1>0, <1>1, <1>2
<1>5. \A t \in SignalTypes :
         counter'[t] > 0 => /\ counter'[t] = counter[t]
                            /\ t \notin windowed' => t \notin windowed
  BY <1>0 DEF TimePasses, WindowEnds, ClaimEnds, QuarantineEnds
<1>6. CounterLapses'
  BY <1>0, <1>1, <1>5 DEF CounterLapses
<1>7. lifted' = "expired" \/ (lifted' = lifted /\ reasons' = reasons)
  BY DEF TimePasses, WindowEnds, ClaimEnds, QuarantineEnds
<1>8. ThresholdAnswered'
  <2>1. SUFFICES ASSUME NEW t \in SignalTypes, counter'[t] > 0, Reaches(t, counter'[t]),
                        faults'["store"] = 0, lifted' # "expired"
                 PROVE  reasons' # {} \/ \E d \in Calls : Answers(d, t)'
    BY DEF ThresholdAnswered, Reaches, ActionFor
  <2>2. reasons # {} \/ \E d \in Calls : Answers(d, t)
    BY <1>0, <1>1, <1>5, <1>7, <2>1 DEF ThresholdAnswered
  <2>3. \A d \in Calls : Answers(d, t) => Answers(d, t)'
    BY <1>1 DEF Answers, Reaches, ActionFor
  <2>4. QED
    BY <1>7, <2>1, <2>2, <2>3
<1>9. ChangeAnswered'
  <2>1. seen' \subseteq seen
    BY DEF TimePasses, WindowEnds, ClaimEnds, QuarantineEnds
  <2>2. QED
    BY <1>0, <1>1, <1>7, <2>1 DEF ChangeAnswered, ActionFor
<1>10. QED
  BY <1>3, <1>4, <1>6, <1>8, <1>9, TimeTypes DEF RInv

-----------------------------------------------------------------------------
(* The inductive invariant *)

\* The invariant holds at first.
LEMMA InitRInv == Init => RInv
<1> SUFFICES ASSUME Init PROVE RInv
  OBVIOUS
<1>1. RiskTypes
  BY TypeFacts DEF Init, RiskTypes, Labels
<1>2. CountsBounded
  <2>1. \A t \in SignalTypes : MayCount(t) \subseteq Calls
    BY DEF MayCount
  <2>2. /\ \A t \in SignalTypes : /\ Cardinality(MayCount(t)) <= Cardinality(Calls)
                                  /\ Cardinality(MayCount(t)) \in Nat
        /\ Cardinality(Calls) \in Nat
    BY <2>1, TypeFacts, FS_Subset, FS_CardinalityType
  <2>3. \A t \in SignalTypes : counter[t] = 0 /\ total[t] = 0
    BY DEF Init
  <2>4. QED
    BY <2>2, <2>3 DEF CountsBounded
<1>3. \A c \in Calls : OnCourse(c)
  BY DEF Init, OnCourse
<1>4. (\A t \in reasons : Cause(t)) /\ CounterLapses /\ ThresholdAnswered /\ ChangeAnswered
  BY DEF Init, CounterLapses, ThresholdAnswered, ChangeAnswered
<1>5. QED
  BY <1>1, <1>2, <1>3, <1>4 DEF RInv

\* The invariant is inductive.
LEMMA NextRInv == RInv /\ [Next]_vars => RInv'
<1> SUFFICES ASSUME RInv, [Next]_vars PROVE RInv'
  OBVIOUS
<1>1. ASSUME NEW c \in Calls, CallStep(c) PROVE RInv'
  <2>1. RiskTypes' /\ CountsBounded'
    BY <1>1, StepTypes, StepCounts
  <2>2. \A d \in Calls : OnCourse(d)'
    BY <1>1, StepOnCourse
  <2>3. \A t \in reasons' : Cause(t)'
    BY <1>1, StepCauses
  <2>4. CounterLapses' /\ ThresholdAnswered' /\ ChangeAnswered'
    BY <1>1, StepLapses, StepAnswered, StepChange
  <2>5. QED
    BY <2>1, <2>2, <2>3, <2>4 DEF RInv
<1>2. CASE TimePasses
  BY <1>2, TimeRInv
<1>3. CASE UNCHANGED vars
  <2>1. /\ UNCHANGED <<reasons, counter, windowed, seen, total, lifted>>
        /\ UNCHANGED <<signal, todo, merged, pc, faults>>
    BY <1>3 DEF vars, store, local
  <2>2. RiskTypes' /\ CountsBounded'
    BY <2>1 DEF RInv, RiskTypes, CountsBounded, MayCount
  <2>3. (\A d \in Calls : OnCourse(d)') /\ \A t \in reasons' : Cause(t)'
    BY <2>1 DEF RInv, OnCourse, Cause, Reaches, ActionFor
  <2>4. CounterLapses' /\ ChangeAnswered'
    BY <2>1 DEF RInv, CounterLapses, ChangeAnswered, ActionFor
  <2>5. ThresholdAnswered'
    BY <2>1 DEF RInv, ThresholdAnswered, Answers, Reaches, ActionFor
  <2>6. QED
    BY <2>2, <2>3, <2>4, <2>5 DEF RInv
<1>4. QED
  BY <1>1, <1>2, <1>3, NextSteps

\* All that is said below of the record, the counters and the claims follows
\* from this.
THEOREM RInvHolds == Spec => []RInv
BY InitRInv, NextRInv, PTL DEF Spec

\* Every variable keeps its type, and no counter outgrows the number of calls:
\* a call counts a signal of each type at most once.
THEOREM TypeCorrect == Spec => []TypeOK
<1>1. RInv => TypeOK
  <2>1. SUFFICES ASSUME RInv PROVE TypeOK
    OBVIOUS
  <2>2. \A t \in SignalTypes : /\ MayCount(t) \subseteq Calls
                               /\ Cardinality(MayCount(t)) \in Nat
    <3>1. \A t \in SignalTypes : MayCount(t) \subseteq Calls
      BY DEF MayCount
    <3>2. QED
      BY <3>1, TypeFacts, FS_Subset, FS_CardinalityType
  <2>3. Cardinality(Calls) \in Nat
    BY TypeFacts, FS_CardinalityType
  <2>4. counter \in [SignalTypes -> Nat] /\ total \in [SignalTypes -> Nat]
    BY <2>1 DEF RInv, RiskTypes
  <2>5. \A t \in SignalTypes : /\ counter[t] \in 0..Cardinality(Calls)
                               /\ total[t] \in 0..Cardinality(Calls)
    BY <2>1, <2>2, <2>3, <2>4 DEF RInv, CountsBounded
  <2>6. QED
    BY <2>1, <2>4, <2>5 DEF RInv, RiskTypes, TypeOK
<1>2. QED
  BY <1>1, RInvHolds, PTL

\* Unless a command failed in between, a counter has its TTL or is about to
\* get it: signals far apart never add up.
THEOREM CountersLapse == Spec => []CounterLapses
<1>1. RInv => CounterLapses
  BY DEF RInv
<1>2. QED
  BY <1>1, RInvHolds, PTL

\* As many signals as the threshold, counted in one window, quarantine the
\* session, whatever the interleaving of the reports and of release.
THEOREM CountsAreAnswered == Spec => []ThresholdQuarantines
<1>1. RInv => ThresholdQuarantines
  BY DEF RInv, ThresholdAnswered, Answers, ThresholdQuarantines
<1>2. QED
  BY <1>1, RInvHolds, PTL

\* A reason is in the record only when as many of its signals as it needs were
\* reported, and never for a change that is only audited.
THEOREM NoneQuarantinedWithoutCause == Spec => []QuarantinedForCause
<1>1. RInv => QuarantinedForCause
  BY DEF RInv, Cause, Reaches, QuarantinedForCause
<1>2. QED
  BY <1>1, RInvHolds, PTL

\* A change that was claimed, and so is not counted again, quarantines the
\* session unless a command failed, an operator released it or time passed.
THEOREM ChangesAreAnswered == Spec => []ChangeAnswered
<1>1. RInv => ChangeAnswered
  BY DEF RInv
<1>2. QED
  BY <1>1, RInvHolds, PTL

=============================================================================
