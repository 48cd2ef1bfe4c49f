---------------------------- MODULE MCPhasedRun ----------------------------
EXTENDS PhasedRun

CONSTANTS t1, t2, ok, changes, m1, m2, m3

Step0(id) == [id |-> <<id>>, kind |-> "agent", artifact |-> <<id>>, inputs |-> {},
              internal |-> FALSE, policy |-> FALSE, retryFrom |-> Nil, budget |-> 0,
              reviewer |-> FALSE, patch |-> FALSE]
HandoffStep(id, inputs) == [Step0(id) EXCEPT !.kind = "host-handoff", !.inputs = inputs]
GateOn(id, a) == [Step0(id) EXCEPT !.kind = "gate", !.artifact = <<a>>]

(* A brief by the host, approved, and a draft by an agent. *)
Amending == << HandoffStep("brief", {}), GateOn("agree", "brief"), Step0("draft") >>

(* A source by an agent, a note by the host that consumes it, both approved. *)
Handing == << Step0("source"), HandoffStep("note", {<<"source">>}),
              GateOn("check", "source"), GateOn("accept", "note") >>

(* A manifest, approved, then its phases; the second time by the host, with   *)
(* reviews, and an audit behind them that sends back to the manifest.        *)
Placeholder(a, reviewer) == [Step0("build") EXCEPT !.kind = "phases", !.artifact = <<a>>,
                                                   !.reviewer = reviewer]
Phasing == << Step0("plan"), GateOn("approve", "plan"),
              Placeholder("plan", FALSE) >>
Reviewing == << HandoffStep("outline", {}), GateOn("approve", "outline"),
                Placeholder("outline", TRUE),
                [Step0("audit") EXCEPT !.policy = TRUE, !.retryFrom = <<"outline">>, !.budget = 1] >>

(* A phase with a gate that may send it back, and a note by the host behind. *)
Shipping == << Step0("sketch"), GateOn("approve", "sketch"),
               Placeholder("sketch", FALSE), HandoffStep("ship", {}) >>

MCPlans == {Amending, Handing, Phasing, Reviewing, Shipping}
MCMortal == {Amending}

MCVerdictOf == ok :> "APPROVED" @@ changes :> "CHANGES_REQUESTED"

Phase(id, budget, gate) == [id |-> <<id>>, budget |-> budget, gate |-> gate]

(* Two phases with a gate between them; one with a retry budget. *)
MCPhasesIn == m1 :> << Phase("x", 0, TRUE), Phase("y", 0, FALSE) >>
              @@ m2 :> << Phase("x", 1, FALSE) >>
              @@ m3 :> << Phase("x", 0, TRUE) >>

(* t1 is no manifest. *)
MCWrites == [a \in Artifact |->
    CASE Last(a) \in {"review", "audit"} -> {ok, changes}
      [] Last(a) = "plan" -> {m1, m2}
      [] Last(a) = "outline" -> {m2, t1}
      [] Last(a) = "sketch" -> {m3}
      [] Last(a) \in {"brief", "source"} -> {t1, t2}
      [] OTHER -> {t1}]

MCEditable == {<<"source">>, <<"plan">>}
=============================================================================
