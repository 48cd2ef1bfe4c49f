---------------------------- MODULE PlanExpansion ----------------------------
(***************************************************************************)
(* start: a workflow and the workflows it mounts are read from the registry, *)
(* one file after the other while somebody may be editing them, expanded     *)
(* into one sequence of steps, checked and frozen as the plan of a run.      *)
(* src/runs/run.service.ts, src/workflows/workflow-registry.service.ts,      *)
(* workflow-expander.service.ts, workflow.schema.ts, workflow-parameters.ts, *)
(* src/agents/agent-profile.service.ts.                                      *)
(*                                                                         *)
(* An identifier is a tuple, an id of the run the sequence of identifiers    *)
(* between its "--".  A text of a workflow file is Unreadable or a record    *)
(*   [id, params, steps], params: name -> [type, values, default],           *)
(* a step of it a record with a field for every key any kind of step has,    *)
(* Nil where it has none.  A file name stands for its normalized form.  A    *)
(* condition is the sequence of its nodes, the parts of a node in front of   *)
(* it: [op, left, right] for a comparison, else [op, of], of being the set   *)
(* of the places of its parts.                                               *)
(***************************************************************************)
EXTENDS Naturals, Sequences, SequencesExt

CONSTANTS
    Name,        \* identifiers of workflows
    MayHold,     \* the texts, or Nil, that each workflow file may hold
    Unreadable,  \* the text of a file that is no workflow
    Root,        \* the workflow that is started
    Requests,    \* what start may be given: [params, roles]
    TypeOf,      \* the type of each literal value
    MaxDepth,    \* how deep workflows may be mounted (32)
    Nil

Sources == <<"repository", "global", "package">>
Path == ToSet(Sources) \X Name
Text == UNION {MayHold[f] : f \in Path} \ {Nil}

(* Every role some text names, and Nil. *)
Role ==
    {Nil} \cup UNION {UNION {{s.actor, s.reviewer} \cup DOMAIN s.actors \cup Range(s.actors)
                             : s \in ToSet(w.steps)} : w \in Text \ {Unreadable}}

IsComparison(n) == n.op \in {"equals", "notEquals"}

(* Every node but the last is part of a later one. *)
WellFormed(c) ==
    /\ c # << >>
    /\ \A k \in DOMAIN c :
         /\ c[k].op \in {"equals", "notEquals", "all", "any", "not"}
         /\ IsComparison(c[k]) \/ c[k].of \subseteq 1 .. k - 1
         /\ k < Len(c) => \E j \in DOMAIN c : ~IsComparison(c[j]) /\ k \in c[j].of

AnyStep == UNION {ToSet(w.steps) : w \in Text \ {Unreadable}}

ASSUME ExpansionAssumption ==
    /\ MayHold \in [Path -> SUBSET (Text \cup {Nil})]
    /\ Root \in Name
    /\ MaxDepth \in Nat \ {0}
    /\ Nil \notin {"review", "consolidate"}
    /\ \A w \in Text \ {Unreadable} : w.steps \in Seq(ToSet(w.steps))
    /\ \A s \in AnyStep :
         /\ s.id # Nil
         /\ s.kind \in {"agent", "host-handoff", "gate", "implementation-phases",
                        "review-cycle", "uses"}
         /\ s.kind = "uses" => s.child \in Name
         /\ s.rounds \in Nat /\ (s.kind = "review-cycle" => s.rounds > 0)
         /\ s.retryFrom # Nil => s.kind = "agent"
         /\ s.when # Nil => s.kind = "agent" /\ s.when \in Seq(ToSet(s.when)) /\ WellFormed(s.when)

-----------------------------------------------------------------------------
(* What the schema of a workflow accepts *)

Reviews(s) == {s.id \o <<"review", n>> : n \in 1 .. s.rounds}
Consolidations(s) == {s.id \o <<"consolidate", n>> : n \in 1 .. s.rounds - 1}
Generated(s) == {s.gate} \cup Reviews(s) \cup Consolidations(s)

Publishes(s) == s.kind \in {"agent", "host-handoff", "review-cycle"}

(* Step i may rely on artifact a; a host handoff counts its own output in.   *)
Available(w, i, a) ==
    \E j \in 1 .. i : /\ Publishes(w.steps[j]) /\ w.steps[j].output = a
                      /\ w.steps[j].kind = "agent" => w.steps[j].when = Nil

DistinctIds(w) ==
    \A i, j \in DOMAIN w.steps :
        LET s == w.steps[i]  t == w.steps[j]
        IN  /\ i # j => /\ s.id # t.id
                        /\ Publishes(s) /\ Publishes(t) => s.output # t.output
            /\ s.kind = "review-cycle" =>
                 /\ t.id \notin Generated(s)
                 /\ s.gate \notin Reviews(s) \cup Consolidations(s)
                 /\ t.kind = "review-cycle" /\ i # j => Generated(s) \cap Generated(t) = {}
                 /\ Publishes(t) => t.output \notin Reviews(s)

ReferencesResolve(w) ==
    \A i \in DOMAIN w.steps :
        LET s == w.steps[i]
        IN  /\ \A a \in s.inputs : Available(w, i, a)
            /\ s.kind = "gate" => Available(w, i, s.artifact)
            /\ s.kind = "implementation-phases" =>
                 \E g \in 1 .. i - 1 : w.steps[g].kind = "gate" /\ w.steps[g].artifact = s.artifact
            /\ s.retryFrom # Nil =>
                 \E t \in 1 .. i - 1 : /\ w.steps[t].id = s.retryFrom
                                       /\ w.steps[t].kind \in {"agent", "host-handoff"}

ParametersSound(w) ==
    /\ \A n \in DOMAIN w.params : w.params[n].default \in w.params[n].values \cup {Nil}
    /\ \A i \in DOMAIN w.steps : \A f \in DOMAIN w.steps[i].result : w.steps[i].result[f].default = Nil

Valid(w) ==
    /\ w # Unreadable
    /\ w.steps # << >>
    /\ DistinctIds(w)
    /\ ReferencesResolve(w)
    /\ ParametersSound(w)
    /\ \A i \in DOMAIN w.steps :
         w.steps[i].kind \in {"review-cycle", "implementation-phases"}
         => w.steps[i].reviewer # w.steps[i].actor

-----------------------------------------------------------------------------
VARIABLES
    files,   \* the workflow files
    call,    \* where start stands
    bound,   \* the roles it was given a profile for
    agenda,  \* the mounts it has still to read, the next one first
    nodes,   \* what it has read, by namespace
    plan     \* the frozen steps of the run

startVars == <<files, call, bound, agenda, nodes, plan>>

ExpansionInit ==
    /\ files \in [Path -> Text \cup {Nil}] /\ \A f \in Path : files[f] \in MayHold[f]
    /\ call = "none"
    /\ bound = {}
    /\ agenda = << >>
    /\ nodes = << >>
    /\ plan = << >>

(* The registry: the first file of that name, whatever is in it.             *)
Selected(name) ==
    LET found == {k \in DOMAIN Sources : files[<<Sources[k], name>>] # Nil}
    IN  IF found = {} THEN Nil ELSE <<Sources[Min(found)], name>>

Resolves(name) ==
    /\ Selected(name) # Nil
    /\ Valid(files[Selected(name)])
    /\ files[Selected(name)].id = name

(* resolveRootParameters and resolveChildParameters. *)
BoundValue(b, parent) ==
    IF ~b.from THEN b.name ELSE IF b.name \in DOMAIN parent THEN parent[b.name] ELSE Nil

Bindable_Unvalidated(params, with, parent) ==
    /\ DOMAIN with \subseteq DOMAIN params
    /\ \A n \in DOMAIN params :
         IF n \in DOMAIN with THEN BoundValue(with[n], parent) # Nil
         ELSE params[n].default # Nil

Bindable(params, with, parent) ==
    /\ DOMAIN with \subseteq DOMAIN params
    /\ \A n \in DOMAIN params :
         IF n \in DOMAIN with THEN BoundValue(with[n], parent) \in params[n].values
         ELSE params[n].default # Nil

Effective(params, with, parent) ==
    [n \in DOMAIN params |->
        IF n \in DOMAIN with THEN BoundValue(with[n], parent) ELSE params[n].default]

Mount(ns, name, stack, with, parent) ==
    [ns |-> ns, name |-> name, stack |-> stack, with |-> with, parent |-> parent]

Mounts(node, stack) ==
    LET steps == node.text.steps
    IN  FlattenSeq([k \in DOMAIN steps |->
          IF steps[k].kind = "uses"
          THEN <<Mount(Append(node.ns, steps[k].id), steps[k].child, stack, steps[k].with, node.params)>>
          ELSE << >>])

StartBegins ==
    /\ call = "none"
    /\ \E r \in Requests :
         /\ bound' = r.roles
         /\ agenda' = <<Mount(<< >>, Root, << >>,
                              [n \in DOMAIN r.params |-> [from |-> FALSE, name |-> r.params[n]]],
                              << >>)>>
    /\ call' = "reading"
    /\ UNCHANGED <<files, nodes, plan>>

Refuses_TriesAgain == UNCHANGED startVars

(* start throws: nothing was created. *)
Refuses ==
    /\ call' = "none"
    /\ agenda' = << >>
    /\ nodes' = << >>
    /\ bound' = {}
    /\ UNCHANGED <<files, plan>>

(* buildTree, one workflow at a time: no file inside itself, none too deep.  *)
Readable(m) ==
    /\ Resolves(m.name)
    /\ Len(m.stack) < MaxDepth
    /\ Selected(m.name) \notin ToSet(m.stack)
    /\ Bindable(files[Selected(m.name)].params, m.with, m.parent)

Read ==
    /\ call = "reading"
    /\ agenda # << >>
    /\ LET m == Head(agenda)
           w == files[Selected(m.name)]
           node == [ns |-> m.ns, text |-> w, params |-> Effective(w.params, m.with, m.parent)]
       IN  IF ~Readable(m) THEN Refuses
           ELSE /\ nodes' = [n \in DOMAIN nodes \cup {m.ns} |-> IF n = m.ns THEN node ELSE nodes[n]]
                /\ agenda' = Mounts(node, Append(m.stack, Selected(m.name))) \o Tail(agenda)
                /\ UNCHANGED <<files, call, bound, plan>>

-----------------------------------------------------------------------------
(* The expansion of what was read *)

Under(ns, id) == IF id = Nil THEN Nil ELSE Append(ns, id)

RolesOf(s) == IF s.kind = "gate" THEN {} ELSE {s.actor, s.reviewer} \ {Nil}

Through(actors, r) == IF r \in DOMAIN actors THEN actors[r] ELSE r

(* The roles a workflow and those it mounts leave to whoever mounts it. *)
ExposedRoles[ns \in DOMAIN nodes] ==
    UNION {IF s.kind = "uses" THEN {Through(s.actors, r) : r \in ExposedRoles[Append(ns, s.id)]}
           ELSE RolesOf(s) : s \in ToSet(nodes[ns].text.steps)}

MappedRolesExposed ==
    \A ns \in DOMAIN nodes : \A s \in ToSet(nodes[ns].text.steps) :
        s.kind = "uses" => DOMAIN s.actors \subseteq ExposedRoles[Append(ns, s.id)]

OperandUnder(ns, o) == IF o.kind = "result" THEN [o EXCEPT !.step = ns \o @] ELSE o

ConditionUnder(ns, c) ==
    [k \in DOMAIN c |->
        IF IsComparison(c[k])
        THEN [op |-> c[k].op, left |-> OperandUnder(ns, c[k].left),
                              right |-> OperandUnder(ns, c[k].right)]
        ELSE c[k]]

RetryUnder_AsWritten(ns, s) == s.retryFrom
RetryUnder(ns, s) == Under(ns, s.retryFrom)

(* A step in its namespace, its roles those of the run. *)
Mapped(node, s, role) ==
    [id |-> Under(node.ns, s.id), kind |-> s.kind,
     actor |-> role[s.actor], reviewer |-> role[s.reviewer],
     output |-> Under(node.ns, s.output), file |-> s.file, internal |-> s.internal,
     artifact |-> Under(node.ns, s.artifact), inputs |-> {Under(node.ns, a) : a \in s.inputs},
     retryFrom |-> RetryUnder(node.ns, s), result |-> s.result,
     when |-> IF s.when = Nil THEN Nil ELSE ConditionUnder(node.ns, s.when),
     rounds |-> s.rounds, gate |-> Under(node.ns, s.gate),
     origin |-> Under(node.ns, s.id), declared |-> node.text.params, params |-> node.params,
     cycle |-> << >>, part |-> Nil]

(* flatten: the steps of a mounted workflow take the place of its mount.     *)
ExpandedOver(below) ==
    [ns \in DOMAIN nodes |-> [role \in [Role -> Role] |->
        LET steps == nodes[ns].text.steps
        IN  FlattenSeq([k \in DOMAIN steps |->
              IF steps[k].kind = "uses"
              THEN below[Append(ns, steps[k].id)][[r \in Role |-> role[Through(steps[k].actors, r)]]]
              ELSE <<Mapped(nodes[ns], steps[k], role)>>])]]

Flattened ==
    LET expanded[n \in 0 .. MaxDepth] ==
          IF n = 0 THEN [ns \in DOMAIN nodes |-> [role \in [Role -> Role] |-> << >>]]
          ELSE ExpandedOver(expanded[n - 1])
    IN  expanded[MaxDepth][<< >>][[r \in Role |-> r]]

(* The author, as many reviews as there are rounds, a consolidation between  *)
(* two of them, and the gate.                                                *)
Round(s, part, n) == [s.id EXCEPT ![Len(s.id)] = @ \o <<part, n>>]

Authored(s) == [s EXCEPT !.kind = "agent", !.reviewer = Nil]

Review(s, n) ==
    LET id == Round(s, "review", n)
    IN  [Authored(s) EXCEPT !.id = id, !.output = id, !.file = id, !.internal = TRUE,
                  !.origin = id, !.actor = s.reviewer, !.cycle = s.id, !.part = "review"]

Consolidation(s, n) ==
    [Authored(s) EXCEPT !.id = Round(s, "consolidate", n), !.cycle = s.id, !.part = "consolidate"]

CycleUnrolled(s) ==
    IF s.kind # "review-cycle" THEN <<s>>
    ELSE <<Authored(s)>>
         \o FlattenSeq([n \in 1 .. s.rounds |->
              <<Review(s, n)>> \o IF n < s.rounds THEN <<Consolidation(s, n)>> ELSE << >>])
         \o <<[s EXCEPT !.kind = "gate", !.id = s.gate, !.artifact = s.output]>>

Unrolled(mapped) == FlattenSeq([k \in DOMAIN mapped |-> CycleUnrolled(mapped[k])])

CycleActorsDiffer_AsWritten(mapped) == TRUE

(* After the mapping of roles; nobody asks again for implementation phases.  *)
CycleActorsDiffer(mapped) ==
    \A s \in ToSet(mapped) : s.kind = "review-cycle" => s.actor # s.reviewer

-----------------------------------------------------------------------------
(* The checks of the expanded plan *)

HasOutput(s) == s.kind \in {"agent", "host-handoff"}

NoCollision(p) ==
    \A i, j \in DOMAIN p : i # j =>
        /\ p[i].id # p[j].id
        /\ HasOutput(p[i]) /\ HasOutput(p[j]) /\ p[i].output = p[j].output => p[i].origin = p[j].origin

Comparisons(c) == {n \in ToSet(c) : IsComparison(n)}

(* The type of an operand of the condition of step i, Nil if it has none.    *)
OperandType(p, i, o) ==
    IF o.kind = "value" THEN TypeOf[o.name]
    ELSE IF o.kind = "parameter"
    THEN IF o.name \in DOMAIN p[i].declared THEN p[i].declared[o.name].type ELSE Nil
    ELSE LET sources == {j \in 1 .. i - 1 : /\ p[j].kind = "agent" /\ p[j].id = o.step
                                            /\ o.name \in DOMAIN p[j].result}
         IN  IF sources = {} THEN Nil ELSE p[CHOOSE j \in sources : TRUE].result[o.name].type

ConditionsSound(p) ==
    \A i \in DOMAIN p : p[i].kind = "agent" /\ p[i].when # Nil =>
        \A c \in Comparisons(p[i].when) :
            /\ OperandType(p, i, c.left) = OperandType(p, i, c.right)
            /\ OperandType(p, i, c.left) # Nil

(* validateArtifactDestinations. *)
DestinationsDiffer(p) ==
    \A i, j \in DOMAIN p :
        /\ HasOutput(p[i]) /\ HasOutput(p[j])
        /\ p[i].internal = p[j].internal /\ p[i].file = p[j].file
        => p[i].output = p[j].output

(* workflowActors and resolveForActors: a profile for each, and no other.    *)
Actors(p) == UNION {RolesOf(p[i]) : i \in DOMAIN p}

Acceptable(mapped, unrolled) ==
    /\ MappedRolesExposed
    /\ CycleActorsDiffer(mapped)
    /\ NoCollision(unrolled)
    /\ ConditionsSound(unrolled)
    /\ DestinationsDiffer(unrolled)
    /\ Actors(unrolled) = bound

Freeze ==
    /\ call = "reading"
    /\ agenda = << >>
    /\ \E mapped \in {Flattened} :
         \E unrolled \in {Unrolled(mapped)} :
           IF Acceptable(mapped, unrolled)
           THEN /\ plan' = unrolled
                /\ call' = "frozen"
                /\ UNCHANGED <<files, bound, agenda, nodes>>
           ELSE Refuses

(* Somebody writes or removes a workflow file; nobody reads one afterwards.  *)
Edit(f) ==
    /\ call # "frozen"
    /\ \E t \in MayHold[f] : t # files[f] /\ files' = [files EXCEPT ![f] = t]
    /\ UNCHANGED <<call, bound, agenda, nodes, plan>>

-----------------------------------------------------------------------------
(* A condition compares values of one type, each a literal, a parameter the  *)
(* step has or a field an agent in front of it must answer; only agents have *)
(* one, and no step of a review cycle.                                       *)
ConditionsAskWhatIsKnown ==
    \A i \in DOMAIN plan : plan[i].when # Nil =>
        /\ plan[i].kind = "agent" /\ plan[i].cycle = << >>
        /\ \A c \in Comparisons(plan[i].when) :
             /\ OperandType(plan, i, c.left) = OperandType(plan, i, c.right)
             /\ \A o \in {c.left, c.right} :
                  /\ o.kind = "parameter" => o.name \in DOMAIN plan[i].params
                  /\ o.kind = "result" =>
                       \E j \in 1 .. i - 1 : /\ plan[j].kind = "agent" /\ plan[j].id = o.step
                                             /\ o.name \in DOMAIN plan[j].result

(* What the runner, the gates, the handoffs, the materializer and advance    *)
(* rely on, of every plan that was ever frozen, whatever was edited while it *)
(* was read: distinct ids; gates, handoffs and placeholders behind what they *)
(* refer to, which no condition may leave out; a retry that goes back, of a  *)
(* step that alone writes its artifact; conditions on known answers; one     *)
(* output in each file; a frozen profile for everyone who is to act.  A host *)
(* handoff may name its own output: the schema registers it before it looks  *)
(* at the inputs.                                                            *)
FrozenPlanIsRunnable ==
    /\ ConditionsAskWhatIsKnown
    /\ \A i \in DOMAIN plan :
           LET s == plan[i]
               Written(j, a) == HasOutput(plan[j]) /\ plan[j].output = a /\ plan[j].when = Nil
           IN  /\ \A j \in DOMAIN plan :
                    /\ i # j => plan[j].id # s.id
                    /\ HasOutput(s) /\ HasOutput(plan[j]) /\ plan[j].output # s.output
                       => <<plan[j].internal, plan[j].file>> # <<s.internal, s.file>>
                    /\ /\ s.kind = "agent" /\ s.retryFrom # Nil
                       /\ HasOutput(plan[j]) /\ plan[j].output = s.output
                       => i = j
               /\ s.kind \in {"gate", "implementation-phases"} => \E j \in 1 .. i - 1 : Written(j, s.artifact)
               /\ s.kind = "host-handoff" => \A a \in s.inputs : \E j \in 1 .. i : Written(j, a)
               /\ s.kind = "implementation-phases" =>
                    \E g \in 1 .. i - 1 : plan[g].kind = "gate" /\ plan[g].artifact = s.artifact
               /\ s.kind = "agent" /\ s.retryFrom # Nil =>
                    \E j \in 1 .. i - 1 : plan[j].id = s.retryFrom /\ HasOutput(plan[j])
               /\ s.kind # "gate" => s.actor \in bound \cup {Nil}
               /\ s.kind = "implementation-phases" => s.reviewer \in bound \cup {Nil}

(* Nobody reviews his own text: in no frozen cycle is the reviewer the actor *)
(* of the author or of a consolidation, through any mapping of roles         *)
(* (WorkflowExpanderService.flatten).                                        *)
CycleReviewerIsNotAuthor ==
    \A i, j \in DOMAIN plan :
        /\ plan[i].part = "review"
        /\ \/ plan[j].id = plan[i].cycle
           \/ plan[j].cycle = plan[i].cycle /\ plan[j].part = "consolidate"
        => plan[i].actor # plan[j].actor

(* Every parameter of every mounted workflow has a value that workflow       *)
(* accepts, through any chain of bindings and while files are replaced       *)
(* (resolveChildParameters).                                                 *)
EffectiveParametersConform ==
    \A ns \in DOMAIN nodes :
        LET declared == nodes[ns].text.params
        IN  /\ DOMAIN nodes[ns].params = DOMAIN declared
            /\ \A n \in DOMAIN declared : nodes[ns].params[n] \in declared[n].values

(* start ends, whatever mounts itself or is edited meanwhile: reading does   *)
(* not go on for ever (WorkflowExpanderService.buildTree).                   *)
StartEnds == call = "reading" ~> call # "reading"
=============================================================================
