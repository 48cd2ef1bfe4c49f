-------------------------- MODULE MCConditionalRun ---------------------------
EXTENDS ConditionalRun

CONSTANTS yes, no, low, high

Empty == << >>
Param(type, values, default) == [type |-> type, values |-> values, default |-> default]
Flag == Param("boolean", {yes, no}, Nil)

Step(id, kind) ==
    [id |-> <<id>>, kind |-> kind, actor |-> Nil, reviewer |-> Nil, output |-> Nil, file |-> Nil,
     internal |-> FALSE, artifact |-> Nil, inputs |-> {}, retryFrom |-> Nil, result |-> Empty,
     when |-> Nil, rounds |-> 0, gate |-> Nil, child |-> Nil, actors |-> Empty, with |-> Empty]

Output(s) == [s EXCEPT !.output = s.id, !.file = s.id]
Agent(id, actor) == [Output(Step(id, "agent")) EXCEPT !.actor = actor]
Gate(id, a) == [Step(id, "gate") EXCEPT !.artifact = <<a>>]
Handoff(id, inputs) == [Output(Step(id, "host-handoff")) EXCEPT !.inputs = inputs]
Cycle(id, actor, reviewer) ==
    [Output(Step(id, "review-cycle")) EXCEPT !.actor = actor, !.reviewer = reviewer,
                                             !.rounds = 2, !.gate = <<"accept">>]
Uses(id, child, actors, with) ==
    [Step(id, "uses") EXCEPT !.child = child, !.actors = actors, !.with = with]

Value(v) == [kind |-> "value", name |-> v, step |-> Nil]
Parameter(n) == [kind |-> "parameter", name |-> n, step |-> Nil]
Result(step, f) == [kind |-> "result", name |-> f, step |-> step]
Is(l, r) == <<[op |-> "equals", left |-> l, right |-> r]>>
Not(c) == Append(c, [op |-> "not", of |-> {Len(c)}])
(* c and d are comparisons. *)
All(c, d) == c \o d \o <<[op |-> "all", of |-> {1, 2}]>>

Workflow(id, params, body) == [id |-> id, params |-> params, steps |-> body]

(* A triage, a probe that depends on it, the mounted part, and a step that   *)
(* depends on both answers.                                                  *)
Triaged(mount) == Workflow("main", "depth" :> Param("string", {low, high}, low), <<
    [Agent("triage", "lead") EXCEPT !.result = "risky" :> Flag],
    [Agent("probe", "dev") EXCEPT !.result = "found" :> Flag,
        !.when = All(Is(Result(<<<<"triage">>>>, "risky"), Value(yes)),
                     Is(Parameter("depth"), Value(high)))],
    mount,
    [Agent("fix", "dev") EXCEPT !.retryFrom = <<"triage">>,
        !.when = Not(Is(Result(<<<<"probe">>>>, "found"), Value(no)))] >>)

Mounting == Triaged(Uses("part", "part", "author" :> "lead", "mode" :> [from |-> TRUE, name |-> "depth"]))

(* An approved manifest, its placeholder and its own reviewer. *)
Phased == Workflow("main", Empty, <<
    Handoff("manifest", {}), Gate("approve", "manifest"),
    [Step("build", "implementation-phases") EXCEPT
        !.artifact = <<"manifest">>, !.actor = "dev", !.reviewer = "critic"] >>)

(* The mounted part: a reviewed draft, its reviewer a role of its own or the *)
(* one its author is mapped to; or a check that is retried.                  *)
Part(values, body) == Workflow("part", "mode" :> Param("string", values, Nil), body)
Drafted == Part({low, high}, << Cycle("draft", "author", "critic") >>)
Captured == Part({low, high}, << Cycle("draft", "author", "lead") >>)
Checked == Part({low}, <<
    Agent("work", "author"),
    [Agent("check", "critic") EXCEPT !.retryFrom = <<"work">>,
        !.when = Is(Parameter("mode"), Value(low))] >>)
(* A part that asks for an answer its step does not give. *)
Unanswered == Part({low, high}, <<
    Agent("work", "author"),
    [Agent("check", "critic") EXCEPT
        !.when = Is(Result(<<<<"work">>>>, "found"), Value(no))] >>)
(* A part that mounts the workflow it is mounted by. *)
Circular == Part({low, high}, << Uses("again", "main", Empty, Empty) >>)

MCTexts == [f \in {"repository", "global", "package"} \X {"main", "part"} |->
    CASE f = <<"package", "main">> -> {Mounting}
      [] f = <<"repository", "main">> -> {Nil, Phased}
      [] f = <<"package", "part">> -> {Drafted}
      [] f = <<"global", "part">> -> {Nil, Captured, Checked, Unanswered, Circular, Unreadable}
      [] OTHER -> {Nil}]

MCRequests == {[params |-> p, roles |-> r] : p \in {Empty, "depth" :> high},
    r \in {{"lead", "dev"}, {"lead", "dev", "critic"}, {"dev", "critic"}}}
MCTypeOf == yes :> "boolean" @@ no :> "boolean" @@ low :> "string" @@ high :> "string"
=============================================================================
