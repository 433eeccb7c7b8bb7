--------------------------- MODULE AuditDispatcher ---------------------------
(***************************************************************************)
(* AuditDispatcher.emit: one event is handed to every sink at once, each   *)
(* sink accepts or rejects it in its own time, and when all have settled   *)
(* the emission resolves, or rejects when delivery is strict and a sink    *)
(* rejected.  Each caller emits at most one event here.                    *)
(***************************************************************************)
EXTENDS FiniteSets

CONSTANTS
    Emitters,      \* the calls that may emit
    Sinks          \* the configured sinks

VARIABLES
    waiting,       \* the sinks that have an emitter's event in hand
    rejected,      \* the sinks that rejected it
    recorded       \* the sinks that accepted it

auditVars == <<waiting, rejected, recorded>>

AuditTypeOK ==
    /\ waiting \in [Emitters -> SUBSET Sinks]
    /\ rejected \in [Emitters -> SUBSET Sinks]
    /\ recorded \in [Emitters -> SUBSET Sinks]

AuditInit ==
    /\ waiting = [e \in Emitters |-> {}]
    /\ rejected = [e \in Emitters |-> {}]
    /\ recorded = [e \in Emitters |-> {}]

\* emit: every sink.write starts before any has settled.
Emit(e) ==
    /\ waiting' = [waiting EXCEPT ![e] = Sinks]
    /\ UNCHANGED <<rejected, recorded>>

\* One sink.write of Promise.allSettled resolves ...
Accept(e, s) ==
    /\ s \in waiting[e]
    /\ waiting' = [waiting EXCEPT ![e] = @ \ {s}]
    /\ recorded' = [recorded EXCEPT ![e] = @ \cup {s}]
    /\ UNCHANGED rejected

\* ... or rejects; a synchronous throw is a rejection too.
Refuse(e, s) ==
    /\ s \in waiting[e]
    /\ waiting' = [waiting EXCEPT ![e] = @ \ {s}]
    /\ rejected' = [rejected EXCEPT ![e] = @ \cup {s}]
    /\ UNCHANGED recorded

\* Seeded fault: Promise.race, the first sink that settles decides.
ResolvesOnFirst(e, strict) == (Sinks # {} => waiting[e] # Sinks) /\ (strict => rejected[e] = {})

\* emit settles: onDeliveryError is told of the failures, whatever it does with
\* them, and only strict delivery passes them on.
Resolves(e, strict) == waiting[e] = {} /\ (strict => rejected[e] = {})
Rejects(e, strict)  == waiting[e] = {} /\ strict /\ rejected[e] # {}
=============================================================================
