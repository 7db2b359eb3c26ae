----------------------------- MODULE Gatekeeper ------------------------------
(***************************************************************************)
(* What the dial gateway promises, without coroutines, connections, locks  *)
(* or a DNC cache: a request gets one decision, chosen among those its     *)
(* payload permits; the ledger is a set of rows that only grows and holds  *)
(* at most one row per call_id, each the row of a decision really taken;   *)
(* a request may be lost at any time before it is answered; and only a     *)
(* power failure takes rows away, never one that has been kept.            *)
(***************************************************************************)
EXTENDS DialRules

CONSTANTS
    Requests, Inputs, NoPayload,
    Listed,        \* normalised numbers on the DNC list
    MayMissListed, \* whether a listed number may go unnoticed
    PowerMayFail

VARIABLES
    phase,    \* "waiting", "decided", "answered" or "lost"
    call,     \* the payload a decision was taken on
    verdict,  \* the decision
    rows,     \* the audit ledger
    kept      \* those of its rows that no power failure can take

vars == <<phase, call, verdict, rows, kept>>

NoAnswer == [decision |-> "none", block_reason |-> NoReason]

OnList(p) == NormalizeForDnc(p.destination_number) \in Listed

Window(p) == CheckTimeWindow(p.destination_number, p.timestamp)

\* An ALLOW needs every rule satisfied.
MayAllow(p) ==
    /\ ~ConsentGateBlocks(p)
    /\ OnList(p) => MayMissListed
    /\ Window(p) = Passed
    /\ CheckRnd(p.destination_number) = Passed

\* A BLOCK names a rule the payload breaks, or a fault.
MayBlock(p, br) ==
    IF ConsentGateBlocks(p) THEN br = AI_REQUIRES_PEWC
    ELSE \/ br = DNC /\ OnList(p)
         \/ br = STATE_WINDOW /\ Window(p) = STATE_WINDOW
         \/ br = RND_REASSIGNED /\ CheckRnd(p.destination_number) = RND_REASSIGNED
         \/ br \in {REGISTRY_TIMEOUT, SYSTEM_FAULT}

Permitted(p) ==
    {d \in Decisions : IF d = Allow THEN MayAllow(p)
                                    ELSE MayBlock(p, d.block_reason)}

Decide(r, p) ==
    /\ phase[r] = "waiting"
    /\ phase' = [phase EXCEPT ![r] = "decided"]
    /\ call' = [call EXCEPT ![r] = p]
    /\ \E d \in Permitted(p) : verdict' = [verdict EXCEPT ![r] = d]
    /\ UNCHANGED <<rows, kept>>

Record(r) ==
    /\ phase[r] = "decided"
    /\ \A row \in rows : row.call_id # call[r].call_id
    /\ rows' = rows \cup {RowFor(call[r], verdict[r])}
    /\ UNCHANGED <<phase, call, verdict, kept>>

Keep ==
    /\ kept' = rows
    /\ UNCHANGED <<phase, call, verdict, rows>>

Answer(r) ==
    /\ phase[r] = "decided"
    /\ phase' = [phase EXCEPT ![r] = "answered"]
    /\ UNCHANGED <<call, verdict, rows, kept>>

Lose(S) ==
    /\ \A r \in S : phase[r] \in {"waiting", "decided"}
    /\ phase' = [r \in Requests |-> IF r \in S THEN "lost" ELSE phase[r]]
    /\ UNCHANGED <<call, verdict, kept>>
    /\ \/ UNCHANGED rows
       \/ PowerMayFail /\ kept \subseteq rows' /\ rows' \subseteq rows

Init ==
    /\ phase = [r \in Requests |-> "waiting"]
    /\ call = [r \in Requests |-> NoPayload]
    /\ verdict = [r \in Requests |-> NoAnswer]
    /\ rows = {}
    /\ kept = {}

Next ==
    \/ \E r \in Requests, p \in Inputs : Decide(r, p)
    \/ \E r \in Requests : Record(r) \/ Answer(r)
    \/ Keep
    \/ \E S \in SUBSET Requests : Lose(S)

Spec == Init /\ [][Next]_vars

=============================================================================
