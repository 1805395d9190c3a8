------------------------ MODULE AgentPipeline_proofs ------------------------
(***************************************************************************)
(* Theorems of AgentPipeline.  The executor and the loop of fixes keep     *)
(* their own invariants whatever the pipeline does around them, so that    *)
(* each is proved about the steps of its own variables (ExecNext,          *)
(* HealNext), of which every step of the pipeline is one or a stutter.     *)
(***************************************************************************)
EXTENDS AgentPipeline, TLAPS, FiniteSetTheorems

-----------------------------------------------------------------------------
(* The router.                                                             *)

(* For whatever signals the engine is given, an exception included, the    *)
(* route it chooses never has more privilege than the classified intent.   *)
THEOREM RouteNeverEscalates ==
    \A s \in Signals, raises \in BOOLEAN :
        Privilege(ResolveRoute(s, raises)) <= Privilege(LegacyKind(s))
<1> SUFFICES ASSUME NEW s \in Signals, NEW raises \in BOOLEAN
             PROVE  Privilege(ResolveRoute(s, raises)) <= Privilege(LegacyKind(s))
    OBVIOUS
<1>1. LegacyKind(s) \in Kinds
    BY DEF LegacyKind, Kinds
<1>2. InferKind(s) \in Kinds
    BY DEF InferKind, Kinds
<1>3. DispatchKind(s) \in Kinds
    BY <1>1, <1>2 DEF DispatchKind, DecidedKind, Kinds
<1>4. \A k \in Kinds : Privilege(k) \in Nat
    BY DEF Kinds, Privilege
<1>. QED
    BY <1>1, <1>3, <1>4 DEF ResolveRoute

(* The signals the pipeline builds always lead back to the intent they     *)
(* were built from.                                                        *)
LEMMA PipelineKeepsIntent ==
    ASSUME NEW i \in Kinds, NEW d \in BOOLEAN, NEW r \in BOOLEAN,
           NEW v \in BOOLEAN, NEW raises \in BOOLEAN, d => i = "server"
    PROVE  ResolveRoute(PipelineSignals(i, d, r, v), raises) = i
<1> DEFINE s == PipelineSignals(i, d, r, v)
<1>1. s.intent = i /\ s.deployment = d
    BY DEF PipelineSignals
<1>2. LegacyKind(s) = i /\ InferKind(s) = i
    BY <1>1 DEF LegacyKind, InferKind, Kinds
<1> HIDE DEF s
<1>3. DecidedKind(s) \in {"none", i}
    BY <1>2 DEF DecidedKind
<1>4. DispatchKind(s) = i
    BY <1>1, <1>2, <1>3 DEF DispatchKind, Kinds
<1>. QED
    BY <1>2, <1>4 DEF ResolveRoute, s

(* A job that is not a conversation is counted as blocked by the weighted  *)
(* mode, whatever it is: the pipeline never tells the engine that it has   *)
(* the context, so that the recommendation is never to execute.            *)
THEOREM WeightedIsAlwaysBlocked ==
    \A i \in {"code", "server"}, d, r, v \in BOOLEAN :
        (d => i = "server") => Classify(PipelineSignals(i, d, r, v)) = "BLOCKED"
<1> SUFFICES ASSUME NEW i \in {"code", "server"}, NEW d \in BOOLEAN,
                    NEW r \in BOOLEAN, NEW v \in BOOLEAN, d => i = "server"
             PROVE  Classify(PipelineSignals(i, d, r, v)) = "BLOCKED"
    OBVIOUS
<1> DEFINE s == PipelineSignals(i, d, r, v)
<1>1. s.intent = i /\ s.deployment = d /\ ~s.context
    BY DEF PipelineSignals
<1>2. InferKind(s) # "chat"
    BY <1>1 DEF InferKind, Kinds
<1> HIDE DEF s
<1>3. NextAction(s) # "execute"
    BY <1>1, <1>2 DEF NextAction
<1>. QED
    BY <1>3 DEF Classify, s

-----------------------------------------------------------------------------
(* The loop of fixes.                                                      *)

HealNext == StartHealing \/ HealStep

HealInv ==
    /\ HealTypeOK
    /\ HealingIsBounded
    /\ IsFiniteSet(used)
    /\ healing = "off" => runs = 0 /\ retries = 0
    /\ healing = "failed" => retries < MaxRetries
    /\ background => <<"timeout_to_background">> \in used

LEMMA HealInvInit == HealInit => HealInv
<1> SUFFICES ASSUME HealInit PROVE HealInv
    OBVIOUS
<1>1. NoError \in Errors
    BY DEF NoError, Errors
<1>2. IsFiniteSet({}) /\ Cardinality({}) = 0
    BY FS_EmptySet
<1>3. HealTypeOK
  <2>1. runs \in 0..(MaxRetries + 1) /\ retries \in 0..MaxRetries
      BY RetriesAssumption DEF HealInit
  <2>2. error \in Errors
      BY <1>1 DEF HealInit
  <2>3. used \in SUBSET FixKeys
      BY DEF HealInit
  <2>. QED
      BY <2>1, <2>2, <2>3 DEF HealInit, HealTypeOK
<1>4. HealingIsBounded
    BY <1>2, RetriesAssumption DEF HealInit, HealingIsBounded
<1>. QED
    BY <1>2, <1>3, <1>4 DEF HealInit, HealInv

LEMMA HealInvStep == HealInv /\ [HealNext]_healVars => HealInv'
<1> SUFFICES ASSUME HealInv, [HealNext]_healVars PROVE HealInv'
    OBVIOUS
<1> USE DEF HealInv, HealTypeOK, HealingIsBounded
<1>1. CASE StartHealing
    BY <1>1 DEF StartHealing
<1>2. CASE RunSucceeds
    BY <1>2, RetriesAssumption DEF RunSucceeds
<1>3. CASE RunInBackground
    BY <1>3, RetriesAssumption DEF RunInBackground
<1>4. ASSUME NEW e \in Errors, RunFails(e) PROVE HealInv'
    BY <1>4, RetriesAssumption DEF RunFails
<1>5. ASSUME NEW k \in FixKeys, ApplyFix(k) PROVE HealInv'
  <2>1. k \notin used /\ used' = used \cup {k} /\ k \in Fixes(error)
      BY <1>5 DEF ApplyFix
  <2>2. IsFiniteSet(used') /\ Cardinality(used') = Cardinality(used) + 1
      BY <2>1, FS_AddElement
  <2>3. error[1] = "timeout" => k = <<"timeout_to_background">>
      BY <2>1 DEF Fixes
  <2>. QED
      BY <1>5, <2>1, <2>2, <2>3, RetriesAssumption DEF ApplyFix
<1>6. CASE GiveUp
    BY <1>6 DEF GiveUp
<1>7. CASE UNCHANGED healVars
    BY <1>7 DEF healVars
<1>. QED
    BY <1>1, <1>2, <1>3, <1>4, <1>5, <1>6, <1>7 DEF HealNext, HealStep

-----------------------------------------------------------------------------
(* Every step of the pipeline is a step of each of its parts or a stutter. *)

ExecNext ==
    \/ Start
    \/ ExecStep
    \/ ExecRaises
    \/ \E exit \in Exits, confirmed \in BOOLEAN : RunTool(exit, confirmed)
    \/ PassGate
    \/ SuspendAtGate
    \/ SwallowGate

(* The actions that leave a part alone say so. *)
LEMMA StepsOfParts ==
    [Next]_vars => [HealNext]_healVars /\ [ExecNext]_execVars /\ [CodeStep]_codeVars
<1> SUFFICES ASSUME [Next]_vars
             PROVE  [HealNext]_healVars /\ [ExecNext]_execVars /\ [CodeStep]_codeVars
    OBVIOUS
<1> USE DEF HealNext, ExecNext
<1>1. CASE \/ Activate \/ Permit \/ Deny \/ NoQuestion \/ AskQuestion \/ Resolve
           \/ ResolveFails \/ Detect
    BY <1>1 DEF Activate, Permit, Deny, NoQuestion, AskQuestion, Resolve, ResolveFails, Detect
<1>2. CASE \E c \in Kinds, aboutCode, v \in BOOLEAN : ClassifyIntent(c, aboutCode, v)
    BY <1>2 DEF ClassifyIntent
<1>3. CASE \E mode \in Modes, raises \in BOOLEAN : Route(mode, raises)
    BY <1>3 DEF Route
<1>4. CASE \/ CallRaises \/ Answer \/ RefuseCode \/ CodeRaises \/ Patch
           \/ SettleProgram \/ PrepareFails \/ SettleSteps \/ Mark
    BY <1>4 DEF CallRaises, Answer, RefuseCode, CodeRaises, Patch, SettleProgram,
                PrepareFails, SettleSteps, Mark
<1>5. CASE WriteCode \/ WriteProgram
    BY <1>5 DEF WriteCode, WriteProgram
<1>6. CASE RunProgram
    BY <1>6 DEF RunProgram
<1>7. CASE StartSteps \/ RunSteps \/ AllowStep \/ SuspendJob \/ GateFails
    BY <1>7 DEF StartSteps, RunSteps, AllowStep, SuspendJob, GateFails
<1>8. CASE \E exit \in Exits, confirmed \in BOOLEAN : ExecuteTool(exit, confirmed)
    BY <1>8 DEF ExecuteTool
<1>9. CASE Done \/ UNCHANGED vars
    BY <1>9 DEF Done, vars
<1>. QED
    BY <1>1, <1>2, <1>3, <1>4, <1>5, <1>6, <1>7, <1>8, <1>9 DEF Next

(* A program is fixed at most MaxRetries times, never twice in the same    *)
(* way, and called a success unseen only after it timed out.               *)
THEOREM HealingBounded == Spec => []HealingIsBounded
<1>1. Init => HealInv
    BY HealInvInit DEF Init
<1>2. HealInv /\ [Next]_vars => HealInv'
    BY HealInvStep, StepsOfParts
<1>3. HealInv => HealingIsBounded
    BY DEF HealInv
<1>. QED
    BY <1>1, <1>2, <1>3, PTL DEF Spec
-----------------------------------------------------------------------------
(* The executor: types, and where it is.                                   *)

AtWork == {"step", "gate", "tool", "judge"}

(* The step that runs is one of the steps there are; only the plan is      *)
(* retried; the probes are fixed when the plan is over, and the first of   *)
(* them is the end of the plan.                                            *)
WhereInv ==
    /\ phase \in AtWork => at.n \in 1..Len(StepsOf(at.part)) /\ Len(plan) >= 1
    /\ phase \in {"off", "ready"} => results = <<>> /\ at.part = "plan" /\ attempt = 0
    /\ phase = "closing" => at.part = "plan" /\ Len(plan) >= 1
    /\ at.part = "contract" <=> probes # <<>>
    /\ at.part # "plan" => attempt = 0
    /\ verdict # "none" => phase = "over"

(* What has been executed was a step that there is, and a probe only after *)
(* the plan.                                                               *)
ResultsInv ==
    \A i \in 1..Len(results) :
        /\ results[i].place.n \in 1..Len(StepsOf(results[i].place.part))
        /\ results[i].place.part = "contract" => probes # <<>>

(* A tool that needs an approval is about to run because its gate failed.  *)
GateInv ==
    phase = "tool" /\ Current.gated =>
        \E k \in 1..Len(swallowed) : swallowed[k] = [place |-> at, attempt |-> attempt]

(* The results are behind the step that runs, and so is the last attempt.  *)
Position(place) == Offset(place.part) + place.n

OrderInv ==
    /\ \A i \in 1..Len(results) : Position(results[i].place) <= Position(at)
    /\ phase \in {"step", "gate", "tool"} /\ attempt = 0 =>
          \A i \in 1..Len(results) : results[i].place # at
    /\ phase \in {"step", "gate", "tool"} /\ attempt > 0 =>
          /\ Len(results) > 0
          /\ Current.type = "ACTION"
          /\ Last(results).place = at
          /\ Last(results).attempt = attempt - 1
          /\ ~Last(results).valid
    /\ phase = "judge" =>
          /\ Len(results) > 0
          /\ Last(results).place = at
          /\ Last(results).attempt = attempt
    /\ phase = "closing" => at.n = Len(plan) \/ ~AllValid

(* While nothing has failed, the results are the required steps so far.    *)
JournalInv ==
    AllValid =>
        /\ phase \in {"step", "gate", "tool"} => Len(results) = Position(at) - 1
        /\ phase \in {"judge", "closing"} => Len(results) = Position(at)
        /\ phase \in AtWork \cup {"closing"} =>
              /\ Len(results) <= Len(Required)
              /\ \A i \in 1..Len(results) : results[i].place = Required[i]

(* The probes are those of a deployment, they are reached only by a run    *)
(* without a failure, and to pass one is to be valid; the first of them    *)
(* passed because of its exit code.                                        *)
ProbeInv ==
    /\ aim = "deploy" => probes \in DeployProbes
    /\ at.part = "contract" /\ phase \in {"step", "gate", "tool"} => AllValid
    /\ at.part = "contract" /\ phase = "judge" /\ ProbePassed => AllValid
    /\ aim = "deploy" /\ at.part = "contract" /\ phase \in AtWork =>
          \A i \in 1..Len(results) :
              results[i].place = Place("contract", 1) =>
                  results[i].exit = 0 \/ (at.n = 1 /\ phase = "judge" /\ i = Len(results))

ExecInv == ExecTypeOK /\ WhereInv /\ ResultsInv /\ GateInv /\ GatedStepsWait

LEMMA KindsOfTools == \A t, c : KindOf(t, c) \in StepKind
<1> SUFFICES ASSUME NEW t, NEW c PROVE KindOf(t, c) \in StepKind
    OBVIOUS
<1>1. TypeOf(t, c) \in {"CHECK", "ACTION", "VERIFY"}
    BY DEF TypeOf
<1>2. /\ (Policy(ApprovalTypeOf(t)) = "manual") \in BOOLEAN
      /\ HasValidator(t, c) \in BOOLEAN
      /\ (t \in FileWrites \cup EnvTools) \in BOOLEAN
    BY DEF HasValidator
<1>3. t \in FileWrites \cup EnvTools => TypeOf(t, c) = "ACTION"
    BY DEF FileWrites, EnvTools, TypeOf
<1>. QED
    BY <1>1, <1>2, <1>3 DEF KindOf, StepKind

(* Without a port nothing is probed; with one the port and the application *)
(* are, and what follows is fetched.                                       *)
LEMMA ProbePlans ==
    /\ DeployProbes \subseteq {<<>>, <<Inspect, Curl>>, <<Inspect, Curl, Curl>>,
                               <<Inspect, Curl, Curl, Curl>>}
    /\ <<>> \in DeployProbes
    /\ StartProbes \subseteq {<<>>, <<Curl>>}
<1>1. ASSUME NEW c \in Contexts, NEW x, NEW y
      PROVE  ContractProbes(c, x, y) \in {<<>>, <<x, y>>, <<x, y, y>>, <<x, y, y, y>>}
  <2>1. c.port \in BOOLEAN /\ c.gateway \in BOOLEAN /\ c.subdomain \in BOOLEAN
    <3>1. PICK s \in Surroundings : c = Load(s)
        BY DEF Contexts
    <3>. QED
        BY <3>1 DEF Load, Surroundings
  <2>. QED
      BY <2>1 DEF ContractProbes
<1>2. \A c, y : LocalProbes(c, y) \in {<<>>, <<y>>}
    BY DEF LocalProbes
<1>3. <<>> \in DeployProbes
  <2> DEFINE s == [redis |-> "none", allocated |-> FALSE, active |-> FALSE,
                   named |-> FALSE, reachable |-> FALSE, cert |-> FALSE]
             c == Load(s)
  <2>1. c \in Contexts
    <3>1. s \in Surroundings
        BY DEF Surroundings
    <3>. QED
        BY <3>1, Zenon DEF Contexts
  <2>2. ~c.port
      BY DEF Load
  <2>3. ContractProbes(c, Inspect, Curl) = <<>>
      BY <2>2, Zenon DEF ContractProbes
  <2>. QED
      BY <2>1, <2>3, Zenon DEF DeployProbes
<1>. QED
    BY <1>1, <1>2, <1>3 DEF DeployProbes, StartProbes

LEMMA KindsOfSteps ==
    /\ Tools \subseteq StepKind
    /\ Toolset \subseteq StepKind
    /\ Preflight \in Seq(StepKind) /\ Len(Preflight) = 3
    /\ \A a \in Aims : ProbesOf(a) \subseteq Seq(StepKind)
    /\ Plans \subseteq Seq(StepKind)
    /\ \A p \in Plans : Len(p) >= 1
    /\ \A a : PlansFor(a) \subseteq Plans
<1>1. Tools \subseteq StepKind
    BY KindsOfTools DEF Tools
<1>2. Toolset \subseteq StepKind
    BY <1>1, ToolsetAssumption
<1>3. Command \in StepKind /\ Inspect \in StepKind /\ Curl \in StepKind
    BY KindsOfTools DEF Command, Inspect, Curl
<1>4. Preflight \in Seq(StepKind) /\ Len(Preflight) = 3
    BY <1>3 DEF Preflight
<1>5. <<>> \in Seq(StepKind) /\ <<Curl>> \in Seq(StepKind) /\ <<Inspect, Curl>> \in Seq(StepKind)
      /\ <<Inspect, Curl, Curl>> \in Seq(StepKind) /\ <<Inspect, Curl, Curl, Curl>> \in Seq(StepKind)
    BY <1>3
<1>6. \A a \in Aims : ProbesOf(a) \subseteq Seq(StepKind)
    BY <1>5, ProbePlans DEF Aims, ProbesOf
<1>7. \A p \in Plans : p \in Seq(StepKind) /\ Len(p) >= 1
  <2>1. SUFFICES ASSUME NEW n \in 1..MaxPlan, NEW p \in [1..n -> Toolset]
                 PROVE  p \in Seq(StepKind) /\ Len(p) >= 1
      BY DEF Plans
  <2>. QED
      BY <1>2, PlanAssumption
<1>. QED
    BY <1>1, <1>2, <1>4, <1>6, <1>7 DEF PlansFor

LEMMA StepsByPart ==
    /\ StepsOf("plan") = plan /\ StepsOf("plan")' = plan'
    /\ StepsOf("contract") = probes /\ StepsOf("contract")' = probes'
    /\ StepsOf("preflight") = IF aim = "deploy" THEN Preflight ELSE <<>>
    /\ StepsOf("preflight")' = IF aim' = "deploy" THEN Preflight ELSE <<>>
    /\ Preflight' = Preflight
BY DEF StepsOf, Preflight, Command, KindOf, TypeOf, Policy, ApprovalTypeOf, HasValidator,
       FileWrites, EnvTools, GitChanges

LEMMA PartsOfSteps ==
    ASSUME ExecTypeOK
    PROVE  \A part \in Parts : StepsOf(part) \in Seq(StepKind)
BY KindsOfSteps DEF ExecTypeOK, Parts, StepsOf

(* The step that runs is a step, and what validates it answers. *)
LEMMA CurrentIsAStep ==
    ASSUME ExecTypeOK, WhereInv, phase \in AtWork
    PROVE  /\ Current \in StepKind
           /\ \A exit \in Exits, confirmed \in BOOLEAN : Valid(Current, exit, confirmed) \in BOOLEAN
<1>1. at.part \in Parts /\ at.n \in 1..Len(StepsOf(at.part))
    BY DEF ExecTypeOK, Places, WhereInv
<1>2. Current \in StepKind
    BY <1>1, PartsOfSteps DEF Current
<1>3. ASSUME NEW exit \in Exits, NEW confirmed \in BOOLEAN
      PROVE  Valid(Current, exit, confirmed) \in BOOLEAN
  <2>1. CASE Current.type = "CHECK"
      BY <2>1 DEF Valid
  <2>2. CASE Current.type = "VERIFY"
      BY <2>2 DEF Valid
  <2>3. CASE Current.type = "ACTION"
      BY <2>3 DEF Valid
  <2>. QED
      BY <1>2, <2>1, <2>2, <2>3 DEF StepKind
<1>. QED
    BY <1>2, <1>3

LEMMA ExecTypeInit == ExecInit => ExecTypeOK
BY TriesAssumption DEF ExecInit, ExecTypeOK, Place, Places, Parts, Aims, StepKind, Result

LEMMA ExecTypeStep == ExecTypeOK /\ WhereInv /\ [ExecNext]_execVars => ExecTypeOK'
<1> SUFFICES ASSUME ExecTypeOK, WhereInv, [ExecNext]_execVars PROVE ExecTypeOK'
    OBVIOUS
<1> USE DEF ExecTypeOK, Running, Ended, AtWork
<1>1. CASE Start
    BY <1>1 DEF Start
<1>2. CASE Begin
    BY <1>2, KindsOfSteps DEF Begin, Place, Places, Parts
<1>3. CASE CheckStep
    BY <1>3 DEF CheckStep
<1>4. CASE AfterPreflight
    BY <1>4 DEF AfterPreflight, Place, Places, Parts
<1>5. CASE Continue
    BY <1>5, TriesAssumption DEF Continue, Place, Places, Parts
<1>6. CASE Retry
    BY <1>6, TriesAssumption DEF Retry, MayRetry
<1>7. CASE Abort
    BY <1>7 DEF Abort
<1>8. CASE Close
  <2>1. probes' \in Seq(StepKind)
    <3>1. probes' \in ProbesOf(aim) \cup {<<>>}
        BY <1>8 DEF Close
    <3>2. <<>> \in Seq(StepKind)
        OBVIOUS
    <3>. QED
        BY <3>1, <3>2, KindsOfSteps
  <2>. QED
      BY <1>8, <2>1, TriesAssumption DEF Close, Place, Places, Parts
<1>9. CASE AfterProbe
    BY <1>9 DEF AfterProbe, Place, Places, Parts
<1>10. CASE ExecRaises
    BY <1>10 DEF ExecRaises, BeginRaises, ToolRaises
<1>11. ASSUME NEW exit \in Exits, NEW confirmed \in BOOLEAN, RunTool(exit, confirmed)
       PROVE  ExecTypeOK'
  <2>1. Valid(Current, exit, confirmed) \in BOOLEAN
      BY <1>11, CurrentIsAStep DEF RunTool
  <2>2. [place |-> at, attempt |-> attempt, exit |-> exit,
         valid |-> Valid(Current, exit, confirmed)] \in Result
      BY <2>1, TriesAssumption DEF Result
  <2>. QED
      BY <1>11, <2>2 DEF RunTool
<1>12. CASE PassGate \/ SuspendAtGate
    BY <1>12 DEF PassGate, SuspendAtGate
<1>13. CASE SwallowGate
  <2>1. [place |-> at, attempt |-> attempt] \in [place: Places, attempt: Nat]
      BY TriesAssumption
  <2>2. swallowed' \in {swallowed, Append(swallowed, [place |-> at, attempt |-> attempt])}
      BY <1>13 DEF SwallowGate
  <2>3. Append(swallowed, [place |-> at, attempt |-> attempt])
            \in Seq([place: Places, attempt: Nat])
      BY <2>1
  <2>. QED
      BY <1>13, <2>2, <2>3 DEF SwallowGate
<1>14. CASE UNCHANGED execVars
    BY <1>14 DEF execVars
<1>. QED
    BY <1>1, <1>2, <1>3, <1>4, <1>5, <1>6, <1>7, <1>8, <1>9, <1>10, <1>11, <1>12,
       <1>13, <1>14 DEF ExecNext, ExecStep

LEMMA WhereInit == ExecInit => WhereInv
BY DEF ExecInit, WhereInv, AtWork, Place

LEMMA WhereStep == ExecTypeOK /\ WhereInv /\ [ExecNext]_execVars => WhereInv'
<1> SUFFICES ASSUME ExecTypeOK, WhereInv, [ExecNext]_execVars PROVE WhereInv'
    OBVIOUS
<1>0. at \in [part: Parts, n: Nat \ {0}] /\ Len(plan) \in Nat /\ Len(probes) \in Nat
    BY DEF ExecTypeOK, Places
<1> USE <1>0 DEF WhereInv, AtWork
<1>1. CASE Start
    BY <1>1 DEF Start, StepsOf
<1>2. CASE Begin
  <2>1. Len(plan') \in Nat /\ Len(plan') >= 1 /\ Len(Preflight) = 3
      BY <1>2, KindsOfSteps DEF Begin
  <2>2. probes = <<>> /\ attempt = 0 /\ verdict = "none"
      BY <1>2 DEF Begin, ExecTypeOK
  <2>3. CASE aim = "deploy"
    <3>1. at' = Place("preflight", 1) /\ aim' = "deploy"
        BY <1>2, <2>3 DEF Begin
    <3>2. StepsOf(at.part)' = Preflight
        BY <3>1, StepsByPart DEF Place, StepsOf
    <3>3. Len(StepsOf(at.part))' = 3
        BY <2>1, <3>2
    <3>4. at'.part = "preflight" /\ at'.n = 1
        BY <3>1 DEF Place
    <3>5. phase' = "step" /\ UNCHANGED <<probes, attempt, results, verdict>>
        BY <1>2 DEF Begin
    <3>. QED
        BY <2>1, <2>2, <3>3, <3>4, <3>5
  <2>4. CASE aim # "deploy"
    <3>1. at' = Place("plan", 1)
        BY <1>2, <2>4 DEF Begin
    <3>2. StepsOf(at.part)' = plan'
        BY <3>1 DEF Place, StepsOf
    <3>. QED
        BY <1>2, <2>1, <2>2, <3>1, <3>2 DEF Begin, Place
  <2>. QED
      BY <2>3, <2>4
<1>3. CASE CheckStep
    BY <1>3 DEF CheckStep, StepsOf
<1>4. CASE AfterPreflight
  <2>1. Len(Preflight) = 3 /\ aim = "deploy" /\ aim' = "deploy" /\ plan' = plan
      BY <1>4, KindsOfSteps DEF AfterPreflight, StepsOf
  <2>2. CASE at.n < Len(Preflight)
    <3>1. at' = Place("preflight", at.n + 1)
        BY <1>4, <2>2 DEF AfterPreflight
    <3>2. StepsOf(at.part)' = Preflight
        BY <2>1, <3>1, StepsByPart DEF Place, StepsOf
    <3>3. at'.part = "preflight" /\ at'.n = at.n + 1 /\ at.n \in Nat \ {0}
        BY <3>1 DEF Place
    <3>4. phase' = "step" /\ UNCHANGED <<probes, attempt, results, verdict>>
        BY <1>4 DEF AfterPreflight
    <3>5. attempt = 0 /\ verdict = "none" /\ probes = <<>> /\ Len(plan) >= 1
        BY <1>4 DEF AfterPreflight
    <3>6. Len(StepsOf(at.part))' = 3
        BY <2>1, <3>2
    <3>7. at'.n \in 1..3
        BY <2>1, <2>2, <3>3
    <3>. QED
        BY <2>1, <3>3, <3>4, <3>5, <3>6, <3>7
  <2>3. CASE ~(at.n < Len(Preflight))
    <3>1. at' = Place("plan", 1)
        BY <1>4, <2>3 DEF AfterPreflight
    <3>2. StepsOf(at.part)' = plan
        BY <2>1, <3>1 DEF Place, StepsOf
    <3>. QED
        BY <1>4, <2>1, <3>1, <3>2 DEF AfterPreflight, Place
  <2>. QED
      BY <2>2, <2>3
<1>5. CASE Continue
    BY <1>5 DEF Continue, Place, StepsOf
<1>6. CASE Retry
    BY <1>6 DEF Retry, StepsOf
<1>7. CASE Abort
    BY <1>7 DEF Abort, StepsOf
<1>8. CASE Close
  <2>1. Len(probes') \in Nat /\ (probes' # <<>> => Len(probes') >= 1)
      BY <1>8, KindsOfSteps DEF Close, ExecTypeOK
  <2>2. at.part = "plan"
      BY <1>8 DEF Close
  <2>3. CASE probes' # <<>>
    <3>1. at' = Place("contract", 1) /\ phase' = "step" /\ attempt' = 0
        BY <1>8, <2>3 DEF Close
    <3>2. StepsOf(at.part)' = probes'
        BY <3>1 DEF Place, StepsOf
    <3>3. Len(plan) >= 1 /\ plan' = plan
        BY <1>8 DEF Close
    <3>. QED
        BY <1>8, <2>1, <2>3, <3>1, <3>2, <3>3 DEF Close, Place
  <2>4. CASE probes' = <<>>
      BY <1>8, <2>2, <2>4 DEF Close
  <2>. QED
      BY <2>3, <2>4
<1>9. CASE AfterProbe
    BY <1>9 DEF AfterProbe, Place, StepsOf
<1>10. CASE ExecRaises
    BY <1>10 DEF ExecRaises, BeginRaises, ToolRaises, StepsOf
<1>11. ASSUME NEW exit \in Exits, NEW confirmed \in BOOLEAN, RunTool(exit, confirmed)
       PROVE  WhereInv'
    BY <1>11 DEF RunTool, StepsOf
<1>12. CASE PassGate \/ SuspendAtGate \/ SwallowGate
    BY <1>12 DEF PassGate, SuspendAtGate, SwallowGate, StepsOf
<1>13. CASE UNCHANGED execVars
    BY <1>13 DEF execVars, StepsOf
<1>. QED
    BY <1>1, <1>2, <1>3, <1>4, <1>5, <1>6, <1>7, <1>8, <1>9, <1>10, <1>11, <1>12,
       <1>13 DEF ExecNext, ExecStep

-----------------------------------------------------------------------------
(* The gate.                                                               *)

(* What a step may do to the histories: they grow by one element of the    *)
(* execution at hand, and the steps that were executed stay what they were.*)
LEMMA HistoriesGrow ==
    ASSUME ExecTypeOK, WhereInv, ResultsInv, [ExecNext]_execVars
    PROVE  /\ \/ results' = results
              \/ /\ phase = "tool" /\ phase' = "judge"
                 /\ \E exit \in Exits, confirmed \in BOOLEAN :
                       /\ exit \in ExitsOf(Current)
                       /\ results' = Append(results,
                             [place |-> at, attempt |-> attempt, exit |-> exit,
                              valid |-> Valid(Current, exit, confirmed)])
                 /\ UNCHANGED <<aim, plan, probes, at, attempt, swallowed, verdict>>
           /\ \/ swallowed' = swallowed
              \/ swallowed' = Append(swallowed, [place |-> at, attempt |-> attempt])
           /\ aim' = aim
           /\ \A i \in 1..Len(results) :
                 \A part : results[i].place.part = part => StepsOf(part)' = StepsOf(part)
           /\ probes # <<>> => probes' = probes
<1>1. CASE Begin
  <2>1. results = <<>>
      BY <1>1 DEF Begin, WhereInv
  <2>. QED
      BY <1>1, <2>1 DEF Begin
<1>2. CASE Close
  <2>1. probes = <<>> /\ plan' = plan /\ aim' = aim /\ results' = results /\ swallowed' = swallowed
      BY <1>2 DEF Close, WhereInv
  <2>2. ASSUME NEW i \in 1..Len(results), NEW part, results[i].place.part = part
        PROVE  StepsOf(part)' = StepsOf(part)
    <3>1. results[i] \in Result
        BY DEF ExecTypeOK
    <3>2. part \in {"preflight", "plan"}
        BY <2>1, <2>2, <3>1 DEF ResultsInv, Result, Places, Parts
    <3>. QED
        BY <2>1, <3>2, StepsByPart
  <2>. QED
      BY <2>1, <2>2
<1>3. CASE UNCHANGED <<aim, plan, probes>> /\ results' = results /\ swallowed' = swallowed
    BY <1>3 DEF StepsOf, Preflight
<1>4. ASSUME NEW exit \in Exits, NEW confirmed \in BOOLEAN, RunTool(exit, confirmed)
      PROVE  /\ phase = "tool" /\ phase' = "judge"
             /\ exit \in ExitsOf(Current)
             /\ results' = Append(results,
                    [place |-> at, attempt |-> attempt, exit |-> exit,
                     valid |-> Valid(Current, exit, confirmed)])
             /\ UNCHANGED <<aim, plan, probes, at, attempt, swallowed, verdict>>
    BY <1>4 DEF RunTool
<1>5. CASE SwallowGate
  <2>1. UNCHANGED <<aim, plan, probes, results>>
        /\ swallowed' \in {swallowed, Append(swallowed, [place |-> at, attempt |-> attempt])}
      BY <1>5 DEF SwallowGate
  <2>. QED
      BY <2>1 DEF StepsOf, Preflight
<1>6. CASE \E exit \in Exits, confirmed \in BOOLEAN : RunTool(exit, confirmed)
    BY <1>4, <1>6 DEF StepsOf, Preflight
<1>. QED
    BY <1>1, <1>2, <1>3, <1>5, <1>6
    DEF ExecNext, ExecStep, execVars, Start, CheckStep, AfterPreflight, Continue, Retry,
        Abort, AfterProbe, ExecRaises, BeginRaises, ToolRaises, PassGate, SuspendAtGate

LEMMA ResultsStep == ExecTypeOK /\ WhereInv /\ ResultsInv /\ [ExecNext]_execVars => ResultsInv'
<1> SUFFICES ASSUME ExecTypeOK, WhereInv, ResultsInv, [ExecNext]_execVars,
                    NEW i \in 1..Len(results')
             PROVE  /\ results'[i].place.n \in 1..Len(StepsOf(results[i].place.part))'
                    /\ results'[i].place.part = "contract" => probes' # <<>>
    BY DEF ResultsInv
<1>1. CASE results' = results
    BY <1>1, HistoriesGrow DEF ResultsInv
<1>2. CASE results' # results
  <2>1. PICK exit \in Exits, confirmed \in BOOLEAN :
            results' = Append(results, [place |-> at, attempt |-> attempt, exit |-> exit,
                                        valid |-> Valid(Current, exit, confirmed)])
      BY <1>2, HistoriesGrow
  <2>2. phase = "tool" /\ UNCHANGED <<aim, plan, probes, at>>
      BY <1>2, HistoriesGrow
  <2>3. results \in Seq(Result)
      BY DEF ExecTypeOK
  <2>4. CASE i \in 1..Len(results)
    <3>1. results'[i] = results[i]
        BY <2>1, <2>3, <2>4
    <3>. QED
        BY <2>2, <2>4, <3>1, HistoriesGrow DEF ResultsInv
  <2>5. CASE i = Len(results) + 1
    <3>1. results'[i].place = at
        BY <2>1, <2>3, <2>5
    <3>2. at.n \in 1..Len(StepsOf(at.part)) /\ (at.part = "contract" => probes # <<>>)
        BY <2>2 DEF WhereInv, AtWork
    <3>3. StepsOf(at.part)' = StepsOf(at.part)
        BY <2>2 DEF StepsOf, Preflight
    <3>. QED
        BY <2>2, <3>1, <3>2, <3>3
  <2>. QED
      BY <2>1, <2>3, <2>4, <2>5
<1>. QED
    BY <1>1, <1>2

LEMMA GateStep == ExecTypeOK /\ GateInv /\ [ExecNext]_execVars => GateInv'
<1> SUFFICES ASSUME ExecTypeOK, GateInv, [ExecNext]_execVars, phase' = "tool", Current'.gated
             PROVE  \E k \in 1..Len(swallowed') :
                        swallowed'[k] = [place |-> at', attempt |-> attempt']
    BY DEF GateInv
<1>1. CASE PassGate
  <2>1. Current' = Current
      BY <1>1 DEF PassGate, Current, StepsOf, Preflight
  <2>. QED
      BY <1>1, <2>1 DEF PassGate
<1>2. CASE SwallowGate
  <2>1. Current' = Current /\ UNCHANGED <<at, attempt>>
      BY <1>2 DEF SwallowGate, Current, StepsOf, Preflight
  <2>2. swallowed' = Append(swallowed, [place |-> at, attempt |-> attempt])
      BY <1>2, <2>1 DEF SwallowGate
  <2>3. /\ Len(swallowed) + 1 \in 1..Len(swallowed')
        /\ swallowed'[Len(swallowed) + 1] = [place |-> at, attempt |-> attempt]
      BY <2>2 DEF ExecTypeOK
  <2>. QED
      BY <2>1, <2>3
<1>3. CASE UNCHANGED execVars
  <2>1. Current' = Current
      BY <1>3 DEF execVars, Current, StepsOf, Preflight
  <2>. QED
      BY <1>3, <2>1 DEF execVars, GateInv
<1>4. PassGate \/ SwallowGate \/ UNCHANGED execVars
    BY DEF ExecNext, ExecStep, Start, Begin, CheckStep, AfterPreflight, Continue, Retry,
           Abort, Close, AfterProbe, ExecRaises, BeginRaises, ToolRaises, RunTool,
           SuspendAtGate
<1>. QED
    BY <1>1, <1>2, <1>3, <1>4

LEMMA GatedStepsStep == ExecInv /\ [ExecNext]_execVars => GatedStepsWait'
<1> SUFFICES ASSUME ExecInv, [ExecNext]_execVars, NEW i \in 1..Len(results'),
                    (StepsOf(results[i].place.part)[results[i].place.n].gated)'
             PROVE  \E k \in 1..Len(swallowed') :
                        swallowed'[k] = [place |-> results'[i].place,
                                         attempt |-> results'[i].attempt]
    BY DEF GatedStepsWait
<1>0. results \in Seq(Result) /\ swallowed \in Seq([place: Places, attempt: Nat])
    BY DEF ExecInv, ExecTypeOK
<1>1. \A k \in 1..Len(swallowed) : k \in 1..Len(swallowed') /\ swallowed'[k] = swallowed[k]
  <2>1. CASE swallowed' = swallowed
      BY <2>1
  <2>2. CASE swallowed' = Append(swallowed, [place |-> at, attempt |-> attempt])
      BY <1>0, <2>2
  <2>. QED
      BY <2>1, <2>2, HistoriesGrow DEF ExecInv
<1>2. ASSUME i \in 1..Len(results), results'[i] = results[i]
      PROVE  \E k \in 1..Len(swallowed') :
                 swallowed'[k] = [place |-> results'[i].place, attempt |-> results'[i].attempt]
  <2>1. StepsOf(results[i].place.part)[results[i].place.n].gated
      BY <1>2, HistoriesGrow DEF ExecInv
  <2>. QED
      BY <1>1, <1>2, <2>1 DEF ExecInv, GatedStepsWait
<1>3. CASE results' = results
    BY <1>2, <1>3
<1>4. CASE results' # results
  <2>1. PICK exit \in Exits, confirmed \in BOOLEAN :
            results' = Append(results, [place |-> at, attempt |-> attempt, exit |-> exit,
                                        valid |-> Valid(Current, exit, confirmed)])
      BY <1>4, HistoriesGrow DEF ExecInv
  <2>2. phase = "tool" /\ UNCHANGED <<aim, plan, probes, at>>
      BY <1>4, HistoriesGrow DEF ExecInv
  <2>3. CASE i \in 1..Len(results)
      BY <1>0, <1>2, <2>1, <2>3
  <2>4. CASE i = Len(results) + 1
    <3>1. results'[i].place = at /\ results'[i].attempt = attempt
        BY <1>0, <2>1, <2>4
    <3>2. Current.gated
        BY <2>2, <3>1 DEF StepsOf, Preflight, Current
    <3>. QED
        BY <1>1, <2>2, <3>1, <3>2 DEF ExecInv, GateInv
  <2>. QED
      BY <1>0, <2>1, <2>3, <2>4
<1>. QED
    BY <1>3, <1>4

LEMMA ExecInvInit == ExecInit => ExecInv
BY ExecTypeInit, WhereInit DEF ExecInit, ExecInv, ResultsInv, GateInv, GatedStepsWait

LEMMA ExecInvStep == ExecInv /\ [ExecNext]_execVars => ExecInv'
BY ExecTypeStep, WhereStep, ResultsStep, GateStep, GatedStepsStep DEF ExecInv

(* Whatever the plan, the retries and the way in which anything fails, a   *)
(* tool that needs an approval runs only if its gate raised something else *)
(* than the suspension.                                                    *)
THEOREM GatedStepsAlwaysWait == Spec => []GatedStepsWait
<1>1. Init => ExecInv
    BY ExecInvInit DEF Init
<1>2. ExecInv /\ [Next]_vars => ExecInv'
    BY ExecInvStep, StepsOfParts
<1>3. ExecInv => GatedStepsWait
    BY DEF ExecInv
<1>. QED
    BY <1>1, <1>2, <1>3, PTL DEF Spec

-----------------------------------------------------------------------------
(* The choice of a template.                                               *)

LEMMA ObjectiveTypes ==
    ASSUME NEW o \in Objectives
    PROVE  /\ Matching(o) \subseteq Templates
           /\ o.words \subseteq AllWords
           /\ o.others \in Nat
BY ObjectivesAssumption DEF IsObjective, Matching

LEMMA FewAreFinite ==
    /\ \A a, b : IsFiniteSet({a, b}) /\ Cardinality({a, b}) \in 0..2
    /\ \A a, b, c : IsFiniteSet({a, b, c}) /\ Cardinality({a, b, c}) \in 0..3
<1>1. \A a, b : IsFiniteSet({a, b}) /\ Cardinality({a, b}) \in 0..2
  <2> TAKE a, b
  <2>1. {a, b} = {a} \cup {b}
      OBVIOUS
  <2>2. IsFiniteSet({a}) /\ Cardinality({a}) = 1
      BY FS_Singleton
  <2>. QED
      BY <2>1, <2>2, FS_AddElement
<1>2. \A a, b, c : IsFiniteSet({a, b, c}) /\ Cardinality({a, b, c}) \in 0..3
  <2> TAKE a, b, c
  <2>1. {a, b, c} = {a, b} \cup {c}
      OBVIOUS
  <2>2. /\ IsFiniteSet({a, b} \cup {c})
        /\ Cardinality({a, b} \cup {c}) =
              IF c \in {a, b} THEN Cardinality({a, b}) ELSE Cardinality({a, b}) + 1
      BY <1>1, FS_AddElement
  <2>3. Cardinality({a, b}) \in 0..2
      BY <1>1
  <2>. QED
      BY <2>1, <2>2, <2>3
<1>. QED
    BY <1>1, <1>2

LEMMA WordsAreFinite ==
    /\ \A t \in Templates : IsFiniteSet(Keywords(t)) /\ IsFiniteSet(KeywordWords(t))
    /\ IsFiniteSet(AllWords)
<1>0. Templates = {"telegram_bot", "fastapi_app", "flask_app", "python_script"}
    BY DEF Templates, Order
<1>1. \A t \in Templates : IsFiniteSet(Keywords(t)) /\ IsFiniteSet(KeywordWords(t))
    BY <1>0, FewAreFinite DEF Keywords, KeywordWords
<1> DEFINE A == KeywordWords("telegram_bot") \cup KeywordWords("fastapi_app")
           B == KeywordWords("flask_app") \cup KeywordWords("python_script")
<1>2. IsFiniteSet(A) /\ IsFiniteSet(B)
    BY <1>0, <1>1, FS_Union
<1>3. IsFiniteSet(A \cup B)
    BY <1>2, FS_Union
<1>4. AllWords = A \cup B
    BY <1>0 DEF AllWords
<1>. QED
    BY <1>1, <1>3, <1>4

(* The numbers a score is made of. *)
LEMMA Numbers ==
    ASSUME NEW o \in Objectives, NEW t \in Templates
    PROVE  /\ Cardinality(Hits(o, t)) \in Nat
           /\ Cardinality(Hits(o, t)) <= Cardinality(Keywords(t))
           /\ Overlap(o, t) \in Nat
           /\ Length(o) \in Nat
           /\ Overlap(o, t) <= Length(o)
           /\ Points(o, t) \in Nat
<1>1. /\ IsFiniteSet(Keywords(t)) /\ IsFiniteSet(o.words)
      /\ o.others \in Nat
    BY WordsAreFinite, ObjectiveTypes, FS_Subset
<1>2. /\ Hits(o, t) \subseteq Keywords(t)
      /\ o.words \cap KeywordWords(t) \subseteq o.words
    BY DEF Hits
<1>3. /\ Cardinality(Hits(o, t)) \in Nat
      /\ Cardinality(Hits(o, t)) <= Cardinality(Keywords(t))
    BY <1>1, <1>2, FS_Subset, FS_CardinalityType
<1>4. /\ Cardinality(o.words \cap KeywordWords(t)) \in Nat
      /\ Cardinality(o.words) \in Nat
      /\ Cardinality(o.words \cap KeywordWords(t)) <= Cardinality(o.words)
    BY <1>1, <1>2, FS_Subset, FS_CardinalityType
<1>5. Overlap(o, t) \in Nat /\ Length(o) \in Nat /\ Overlap(o, t) <= Length(o)
    BY <1>1, <1>4 DEF Overlap, Length
<1>6. Dependencies(t) \in Nat
    BY DEF Dependencies
<1>7. \A h, d, l, v \in Nat : Score(h, d, l, v) \in Nat
  <2> TAKE h, d, l, v \in Nat
  <2>1. l * h \in Nat
      OBVIOUS
  <2>. QED
      BY <2>1 DEF Score
<1>. QED
    BY <1>3, <1>5, <1>6, <1>7 DEF Points

Beats(o, t, u) ==
    \/ Points(o, t) > Points(o, u)
    \/ Points(o, t) = Points(o, u) /\ ByName[t] <= ByName[u]

HasBest(o, S) == S = {} \/ \E b \in S : \A u \in S : Beats(o, b, u)

(* One more candidate leaves a best one. *)
LEMMA BestOfOneMore ==
    ASSUME NEW o \in Objectives, NEW S \in SUBSET Templates, NEW x \in Templates,
           HasBest(o, S)
    PROVE  HasBest(o, S \cup {x})
<1>1. \A t \in Templates : Points(o, t) \in Nat /\ ByName[t] \in Nat
    BY Numbers DEF Templates, Order, ByName
<1>2. CASE S = {}
    BY <1>1, <1>2 DEF Beats, HasBest
<1>3. ASSUME NEW b \in S, \A u \in S : Beats(o, b, u)
      PROVE  \E c \in S \cup {x} : \A u \in S \cup {x} : Beats(o, c, u)
  <2>1. CASE Beats(o, b, x)
      BY <1>3, <2>1
  <2>2. CASE ~Beats(o, b, x)
      BY <1>1, <1>3, <2>2 DEF Beats
  <2>. QED
      BY <2>1, <2>2
<1>. QED
    BY <1>2, <1>3 DEF HasBest

LEMMA BestIsThere ==
    ASSUME NEW o \in Objectives, Matching(o) # {}
    PROVE  BestOf(o) \in Matching(o)
<1> DEFINE M == Matching(o)
<1>1. M \subseteq Templates
    BY ObjectiveTypes
<1>2. \A S \in SUBSET Templates : \A x \in Templates : HasBest(o, S) => HasBest(o, S \cup {x})
    BY BestOfOneMore
<1>3. \A S \in SUBSET Templates : \A x \in Templates :
          HasBest(o, S) => HasBest(o, S \cup (M \cap {x}))
  <2> SUFFICES ASSUME NEW S \in SUBSET Templates, NEW x \in Templates, HasBest(o, S)
               PROVE  HasBest(o, S \cup (M \cap {x}))
      OBVIOUS
  <2>1. CASE x \in M
    <3>1. S \cup (M \cap {x}) = S \cup {x}
        BY <2>1
    <3>. QED
        BY <1>2, <3>1
  <2>2. CASE x \notin M
    <3>1. S \cup (M \cap {x}) = S
        BY <2>2
    <3>. QED
        BY <3>1
  <2>. QED
      BY <2>1, <2>2
<1>4. Templates = {"telegram_bot", "fastapi_app", "flask_app", "python_script"}
    BY DEF Templates, Order
<1>5. HasBest(o, {})
    BY DEF HasBest
<1> DEFINE A == {} \cup (M \cap {"telegram_bot"})
           B == A \cup (M \cap {"fastapi_app"})
           C == B \cup (M \cap {"flask_app"})
           D == C \cup (M \cap {"python_script"})
<1>6. HasBest(o, A)
    BY <1>3, <1>4, <1>5
<1>7. HasBest(o, B)
    BY <1>1, <1>3, <1>4, <1>6
<1>8. HasBest(o, C)
    BY <1>1, <1>3, <1>4, <1>7
<1>9. HasBest(o, D)
    BY <1>1, <1>3, <1>4, <1>8
<1>10. D = M
    BY <1>1, <1>4
<1>11. \E b \in M : \A u \in M : Beats(o, b, u)
    BY <1>9, <1>10 DEF HasBest
<1>. QED
    BY <1>11 DEF BestOf, Beats

LEMMA FirstIsFirst ==
    ASSUME NEW S \in SUBSET Templates, S # {}
    PROVE  FirstOf(S) \in S /\ \A u \in S : Order[FirstOf(S)] <= Order[u]
<1>1. \E t \in S : \A u \in S : Order[t] <= Order[u]
  <2>1. Templates = {"telegram_bot", "fastapi_app", "flask_app", "python_script"}
      BY DEF Templates, Order
  <2>2. /\ Order["telegram_bot"] = 1 /\ Order["fastapi_app"] = 2
        /\ Order["flask_app"] = 3 /\ Order["python_script"] = 4
      BY DEF Order
  <2>3. CASE "telegram_bot" \in S
      BY <2>1, <2>2, <2>3
  <2>4. CASE "telegram_bot" \notin S /\ "fastapi_app" \in S
      BY <2>1, <2>2, <2>4
  <2>5. CASE "telegram_bot" \notin S /\ "fastapi_app" \notin S /\ "flask_app" \in S
      BY <2>1, <2>2, <2>5
  <2>6. CASE S = {"python_script"}
      BY <2>2, <2>6
  <2>. QED
      BY <2>1, <2>3, <2>4, <2>5, <2>6
<1>. QED
    BY <1>1 DEF FirstOf

(* The files of a report are among those of the template that would follow *)
(* it: the only template without requirements is the last of the           *)
(* catalogue, and is never the first beside another.                       *)
Covered(c) ==
    c.report # "none" => c.first # "none" /\ FilesOf(c.report) \subseteq FilesOf(c.first)

LEMMA ChoicesAreCovered ==
    ASSUME NEW c \in Choices
    PROVE  /\ c \in [report : Templates \cup {"none"}, first : Templates \cup {"none"}]
           /\ Covered(c)
<1>1. PICK o \in Objectives, hint \in Hints, parses \in BOOLEAN :
          c = [report |-> ReportOf(o, hint, parses),
               first |-> IF Matching(o) = {} THEN "none" ELSE FirstOf(Matching(o))]
    BY DEF Choices
<1>2. Matching(o) \subseteq Templates
    BY ObjectiveTypes
<1>3. Templates = {"telegram_bot", "fastapi_app", "flask_app", "python_script"}
    BY DEF Templates, Order
<1>4. CASE Matching(o) = {}
    BY <1>1, <1>4 DEF ReportOf, Covered
<1>5. CASE Matching(o) # {}
  <2>1. ReportOf(o, hint, parses) \in Matching(o) \cup {"none"}
      BY <1>5, BestIsThere DEF ReportOf
  <2>2. /\ FirstOf(Matching(o)) \in Matching(o)
        /\ \A u \in Matching(o) : Order[FirstOf(Matching(o))] <= Order[u]
      BY <1>2, <1>5, FirstIsFirst
  <2>3. c.report = ReportOf(o, hint, parses) /\ c.first = FirstOf(Matching(o))
      BY <1>1, <1>5
  <2>4. c.first # "none"
      BY <1>2, <1>3, <2>2, <2>3
  <2>5. c.report # "none" /\ c.first = "python_script" => c.report = "python_script"
      BY <1>2, <1>3, <2>1, <2>2, <2>3 DEF Order
  <2>6. Covered(c)
      BY <2>4, <2>5 DEF Covered, FilesOf
  <2>. QED
      BY <1>1, <1>2, <1>5, <2>1, <2>2, <2>6
<1>. QED
    BY <1>4, <1>5

LEMMA CountOfKeywords ==
    /\ Cardinality(Keywords("telegram_bot")) <= 2
    /\ Cardinality(Keywords("flask_app")) <= 2
    /\ Cardinality(Keywords("fastapi_app")) <= 3
<1>1. /\ Cardinality({"telegram", "bot"}) \in 0..2
      /\ Cardinality({"flask", "web"}) \in 0..2
      /\ Cardinality({"api", "fastapi", "backend"}) \in 0..3
    BY FewAreFinite, Zenon
<1>. QED
    BY <1>1 DEF Keywords

(* Whatever an objective says, a template that needs a library is never    *)
(* found compatible, not even half: only the plain script is, and the      *)
(* other templates get into a report by the word of the reviewer alone.    *)
THEOREM OnlyScriptsFit ==
    \A o \in Objectives : \A t \in Matching(o) : Compatible(o, t, 5) => t = "python_script"
<1> SUFFICES ASSUME NEW o \in Objectives, NEW t \in Matching(o), t # "python_script"
             PROVE  ~Compatible(o, t, 5)
    OBVIOUS
<1> DEFINE h == Cardinality(Hits(o, t))
           v == Overlap(o, t)
           l == Length(o)
<1>1. t \in Templates
    BY ObjectiveTypes
<1>2. /\ h \in Nat /\ v \in Nat /\ l \in Nat /\ v <= l
      /\ h <= Cardinality(Keywords(t))
    BY <1>1, Numbers
<1>3. l > 0
  <2>1. o.found # {}
      BY DEF Matching, Hits
  <2>2. o.words # {} \/ o.others > 0
      BY <2>1, ObjectivesAssumption DEF IsObjective
  <2>3. IsFiniteSet(o.words) /\ o.others \in Nat
      BY WordsAreFinite, ObjectiveTypes, FS_Subset
  <2>. QED
      BY <2>2, <2>3, FS_EmptySet, FS_CardinalityType DEF Length
<1>4. /\ t \in {"telegram_bot", "flask_app"} => h <= 2 /\ Dependencies(t) = 1
      /\ t = "fastapi_app" => h <= 3 /\ Dependencies(t) = 2
    BY <1>1, <1>2, CountOfKeywords, FS_CardinalityType, WordsAreFinite DEF Dependencies
<1>5. t \in {"telegram_bot", "flask_app", "fastapi_app"}
    BY <1>1 DEF Templates, Order
<1> HIDE DEF h, v, l
<1>6. l * h <= 3 * l
    BY <1>2, <1>4, <1>5
<1>7. h <= 2 => l * h <= 2 * l
    BY <1>2
<1>8. CASE h <= 2 /\ Dependencies(t) = 1
  <2>1. 10 * ((l * h) + 0 + (3 * v)) < 9 * l * (5 + 1)
      BY <1>2, <1>3, <1>7, <1>8
  <2>. QED
      BY <1>2, <1>8, <2>1 DEF Compatible, Reaches, Score, h, v, l
<1>9. CASE h <= 3 /\ Dependencies(t) = 2
  <2>1. 10 * ((l * h) + 0 + (3 * v)) < 9 * l * (5 + 2)
      BY <1>2, <1>3, <1>6
  <2>. QED
      BY <1>2, <1>9, <2>1 DEF Compatible, Reaches, Score, h, v, l
<1>. QED
    BY <1>4, <1>5, <1>8, <1>9

-----------------------------------------------------------------------------
(* The writing of a program.                                               *)

(* Which files belong to whom: what an abandoned report has left is        *)
(* overwritten by the template that follows it.                            *)
DiskInv ==
    \A f \in Files :
        \/ disk[f] = Before
        \/ disk[f] = By(author) /\ f \in FilesBy(author)
        \/ /\ author = "template"
           /\ disk[f] = By("report")
           /\ choice.report # "none"
           /\ f \in FilesOf(choice.report)

(* What this implementation has already written. *)
WrittenInv ==
    /\ coding = "write" =>
          /\ left # {} /\ left \subseteq FilesBy(author)
          /\ \A f \in FilesBy(author) \ left : disk[f] = By(author)
    /\ coding \in {"compile", "ready"} => \A f \in FilesBy(author) : disk[f] = By(author)

AuthorInv ==
    /\ coding \in {"permission", "workspace", "strategy"} =>
          author = "none" /\ choice = NoChoice
    /\ coding \in {"context", "edit", "generate", "regenerate"} => author = "llm"
    /\ coding \in {"validate", "write", "compile", "ready"} => author # "none"
    /\ author = "none" => \A f \in Files : disk[f] = Before
    /\ author = "report" => choice.report # "none"
    /\ author = "template" => choice.first # "none"
    /\ author = "llm" => choice.report = "none"

CodeInv == CodeTypeOK /\ Covered(choice) /\ AuthorInv /\ DiskInv /\ WrittenInv

LEMMA CodeInvInit == CodeInit => CodeInv
<1> SUFFICES ASSUME CodeInit PROVE CodeInv
    OBVIOUS
<1>1. Before \in Authors \X (Templates \cup {"none"})
    BY DEF Before, Authors
<1>2. CodeTypeOK
    BY <1>1 DEF CodeInit, CodeTypeOK, CodePhases, Authors, NoChoice
<1>3. Covered(choice) /\ AuthorInv /\ DiskInv /\ WrittenInv
    BY DEF CodeInit, NoChoice, Covered, AuthorInv, DiskInv, WrittenInv
<1>. QED
    BY <1>2, <1>3 DEF CodeInv

LEMMA FilesAreKnown ==
    ASSUME CodeTypeOK, NEW a \in Authors \ {"none"}, Covered(choice),
           a = "report" => choice.report # "none",
           a = "template" => choice.first # "none"
    PROVE  FilesBy(a) \subseteq Files /\ "main.py" \in FilesBy(a)
BY DEF FilesBy, FilesOf, Files

(* The next way: what is on the disk so far is of the report or of nobody. *)
LEMMA TurnKeeps ==
    ASSUME CodeTypeOK, Covered(choice), Turn(choice), choice' = choice, disk' = disk,
           reported' \in BOOLEAN, left' \subseteq Files,
           \A f \in Files :
              \/ disk[f] = Before
              \/ disk[f] = By("report") /\ choice.report # "none"
                 /\ f \in FilesOf(choice.report)
    PROVE  CodeInv'
<1>1. CodeTypeOK'
    BY DEF CodeTypeOK, Turn, CodePhases, Authors
<1>2. Covered(choice)'
    OBVIOUS
<1>3. AuthorInv' /\ WrittenInv'
    BY DEF AuthorInv, WrittenInv, Turn, Covered
<1>4. \A a : By(a)' = By(a)
    BY DEF By
<1>5. DiskInv'
    BY <1>4 DEF DiskInv, Turn, Covered
<1>. QED
    BY <1>1, <1>2, <1>3, <1>5 DEF CodeInv

LEMMA CodeInvStep == CodeInv /\ [CodeStep]_codeVars => CodeInv'
<1> SUFFICES ASSUME CodeInv, [CodeStep]_codeVars PROVE CodeInv'
    OBVIOUS
<1>0. CodeTypeOK /\ Covered(choice) /\ AuthorInv /\ DiskInv /\ WrittenInv
    BY DEF CodeInv
<1>b. choice' = choice => \A a : By(a)' = By(a) /\ FilesBy(a)' = FilesBy(a)
    BY DEF By, FilesBy
(* What an implementation has written may follow when it is given up. *)
<1>r. author = "report" => \A f \in Files :
         \/ disk[f] = Before
         \/ disk[f] = By("report") /\ choice.report # "none"
            /\ f \in FilesOf(choice.report)
    BY <1>0 DEF DiskInv, AuthorInv, FilesBy
<1>a. coding \in {"validate", "write", "compile", "ready"} =>
         FilesBy(author) \subseteq Files /\ "main.py" \in FilesBy(author)
    BY <1>0, FilesAreKnown DEF AuthorInv, CodeTypeOK
(* Only the report has a way out. *)
<1>j. ASSUME Reject, UNCHANGED <<reported, choice, left, disk>> PROVE CodeInv'
  <2>1. CASE author = "report"
      BY <1>0, <1>j, <1>r, <2>1, TurnKeeps DEF Reject, CodeTypeOK
  <2>2. CASE author # "report"
    <3>1. coding' = "refused" /\ author' = author
        BY <1>j, <2>2 DEF Reject
    <3>2. CodeTypeOK' /\ Covered(choice)'
        BY <1>0, <1>j, <3>1 DEF CodeTypeOK, CodePhases
    <3>3. AuthorInv' /\ WrittenInv'
        BY <1>0, <1>j, <3>1 DEF AuthorInv, WrittenInv
    <3>4. DiskInv'
        BY <1>0, <1>j, <1>b, <3>1 DEF DiskInv
    <3>. QED
        BY <3>2, <3>3, <3>4 DEF CodeInv
  <2>. QED
      BY <2>1, <2>2
<1>1. ASSUME NEW next \in CodePhases, Enter(next),
             next \notin {"validate", "write", "compile", "ready"},
             next \in {"permission", "workspace", "strategy"} =>
                author = "none" /\ choice = NoChoice,
             next \in {"context", "edit", "generate", "regenerate"} => author = "llm"
      PROVE  CodeInv'
  <2>1. CodeTypeOK' /\ Covered(choice)'
      BY <1>0, <1>1 DEF Enter, CodeTypeOK
  <2>2. AuthorInv' /\ WrittenInv'
      BY <1>0, <1>1 DEF Enter, AuthorInv, WrittenInv
  <2>3. DiskInv'
      BY <1>0, <1>1, <1>b DEF Enter, DiskInv
  <2>. QED
      BY <2>1, <2>2, <2>3 DEF CodeInv
<1>2. CASE CheckPermission \/ PrepareWorkspace \/ BuildContext \/ EditProject
    BY <1>0, <1>1, <1>2 DEF CheckPermission, PrepareWorkspace, BuildContext, EditProject,
       AuthorInv, CodePhases
<1>3. ASSUME NEW c \in Choices, NEW works \in BOOLEAN, DecideStrategy(c, works)
      PROVE  CodeInv'
  <2>1. /\ c \in [report : Templates \cup {"none"}, first : Templates \cup {"none"}]
        /\ Covered(c)
      BY ChoicesAreCovered
  <2>2. /\ choice' = c /\ left' = left /\ disk' = disk /\ reported' = works
        /\ author = "none" /\ \A f \in Files : disk[f] = Before
      BY <1>0, <1>3 DEF DecideStrategy, AuthorInv
  <2>3. author' \in Authors \ {"none"} /\ coding' \in {"validate", "context"}
        /\ (author' = "report" => c.report # "none")
        /\ (author' = "template" => c.first # "none")
        /\ (author' = "llm" => c.report = "none")
        /\ (coding' = "context" => author' = "llm")
      BY <1>3, <2>1 DEF DecideStrategy, Turn, Authors, Covered
  <2>4. CodeTypeOK' /\ Covered(choice)'
      BY <1>0, <2>1, <2>2, <2>3 DEF CodeTypeOK, CodePhases
  <2>5. AuthorInv' /\ WrittenInv' /\ DiskInv'
      BY <2>2, <2>3 DEF AuthorInv, WrittenInv, DiskInv, Before
  <2>. QED
      BY <2>4, <2>5 DEF CodeInv
<1>4. CASE ValidateCode
  <2>1. CASE coding' = "write" /\ left' = FilesBy(author) /\ UNCHANGED author
    <3>1. coding = "validate" /\ UNCHANGED <<reported, choice, disk>>
        BY <1>4 DEF ValidateCode
    <3>2. CodeTypeOK' /\ Covered(choice)'
        BY <1>0, <1>a, <2>1, <3>1 DEF CodeTypeOK, CodePhases
    <3>3. AuthorInv'
        BY <1>0, <2>1, <3>1 DEF AuthorInv
    <3>4. WrittenInv'
        BY <1>a, <1>b, <2>1, <3>1 DEF WrittenInv
    <3>5. DiskInv'
        BY <1>0, <1>b, <2>1, <3>1 DEF DiskInv
    <3>. QED
        BY <3>2, <3>3, <3>4, <3>5 DEF CodeInv
  <2>2. CASE Reject /\ UNCHANGED left
      BY <1>4, <1>j, <2>2 DEF ValidateCode
  <2>. QED
      BY <1>4, <2>1, <2>2 DEF ValidateCode
<1>5. ASSUME NEW f \in Files, WriteProjectFile(f)
      PROVE  CodeInv'
  <2>1. /\ coding = "write" /\ f \in left /\ f \in FilesBy(author)
        /\ disk' = [disk EXCEPT ![f] = By(author)]
        /\ left' = left \ {f}
        /\ coding' = IF left = {f} THEN "compile" ELSE "write"
        /\ UNCHANGED <<reported, choice, author>>
      BY <1>0, <1>5 DEF WriteProjectFile, WrittenInv
  <2>2. By(author) \in Authors \X (Templates \cup {"none"})
      BY <1>0 DEF By, CodeTypeOK
  <2>3. CodeTypeOK' /\ Covered(choice)'
      BY <1>0, <2>1, <2>2 DEF CodeTypeOK, CodePhases
  <2>4. AuthorInv'
      BY <1>0, <2>1 DEF AuthorInv
  <2>5. \A g \in Files : disk'[g] = IF g = f THEN By(author) ELSE disk[g]
      BY <1>0, <2>1 DEF CodeTypeOK
  <2>6. WrittenInv'
      BY <1>0, <1>a, <1>b, <2>1, <2>5 DEF WrittenInv
  <2>7. DiskInv'
      BY <1>0, <1>b, <2>1, <2>5 DEF DiskInv
  <2>. QED
      BY <2>3, <2>4, <2>6, <2>7 DEF CodeInv
<1>6. CASE Compile
  <2>1. CASE coding' = "ready" /\ UNCHANGED author
    <3>1. coding = "compile" /\ UNCHANGED <<reported, choice, left, disk>>
        BY <1>6 DEF Compile
    <3>2. CodeTypeOK' /\ Covered(choice)'
        BY <1>0, <2>1, <3>1 DEF CodeTypeOK, CodePhases
    <3>3. AuthorInv'
        BY <1>0, <2>1, <3>1 DEF AuthorInv
    <3>4. WrittenInv' /\ DiskInv'
        BY <1>0, <1>b, <2>1, <3>1 DEF WrittenInv, DiskInv
    <3>. QED
        BY <3>2, <3>3, <3>4 DEF CodeInv
  <2>. QED
      BY <1>6, <1>j, <2>1 DEF Compile
<1>7. CASE GenerateCode \/ RegenerateOnError
  <2>1. /\ author = "llm" /\ coding' \in {"validate", "regenerate"}
        /\ UNCHANGED <<reported, choice, author, left, disk>>
      BY <1>0, <1>7 DEF GenerateCode, RegenerateOnError, Enter, AuthorInv
  <2>2. CodeTypeOK' /\ Covered(choice)'
      BY <1>0, <2>1 DEF CodeTypeOK, CodePhases
  <2>3. AuthorInv' /\ WrittenInv'
      BY <1>0, <2>1 DEF AuthorInv, WrittenInv
  <2>4. DiskInv'
      BY <1>0, <1>b, <2>1 DEF DiskInv
  <2>. QED
      BY <2>2, <2>3, <2>4 DEF CodeInv
<1>8. CASE UNCHANGED codeVars
  <2>1. CodeTypeOK' /\ Covered(choice)' /\ AuthorInv'
      BY <1>0, <1>8 DEF codeVars, CodeTypeOK, AuthorInv
  <2>2. WrittenInv' /\ DiskInv'
      BY <1>0, <1>8, <1>b DEF codeVars, WrittenInv, DiskInv
  <2>. QED
      BY <2>1, <2>2 DEF CodeInv
<1>. QED
    BY <1>2, <1>3, <1>4, <1>5, <1>6, <1>7, <1>8
    DEF CodeStep, FromReport, FromTemplate, FromModel, Guardrails

(* However many ways of writing it were given up, a program that is run is *)
(* of one piece.                                                           *)
LEMMA ReadyIsWhole == CodeInv => ProgramIsWhole
<1> SUFFICES ASSUME CodeInv, coding = "ready" PROVE
               /\ disk["main.py"] = By(author)
               /\ \A f \in Files : disk[f] \in {Before, By(author)}
    BY DEF ProgramIsWhole
<1>1. CodeTypeOK /\ Covered(choice) /\ AuthorInv /\ DiskInv /\ WrittenInv
    BY DEF CodeInv
<1>2. author \in Authors \ {"none"} /\ "main.py" \in FilesBy(author)
    BY <1>1, FilesAreKnown DEF AuthorInv, CodeTypeOK
<1>3. \A f \in FilesBy(author) : disk[f] = By(author)
    BY <1>1 DEF WrittenInv
<1>4. author = "template" /\ choice.report # "none" =>
         FilesOf(choice.report) \subseteq FilesBy(author)
    BY <1>1 DEF Covered, FilesBy
<1>. QED
    BY <1>1, <1>2, <1>3, <1>4 DEF DiskInv

(* Whatever was tried before it, a program that may be run is of one       *)
(* piece: every file this job has written is of the same implementation.   *)
THEOREM ProgramIsAlwaysWhole == Spec => []ProgramIsWhole
<1>1. Init => CodeInv
    BY CodeInvInit DEF Init
<1>2. CodeInv /\ [Next]_vars => CodeInv'
    BY CodeInvStep, StepsOfParts
<1>3. CodeInv => ProgramIsWhole
    BY ReadyIsWhole
<1>. QED
    BY <1>1, <1>2, <1>3, PTL DEF Spec

-----------------------------------------------------------------------------
(* The pipeline around them.                                               *)

LEMMA PipeTypeInit == Init => PipeTypeOK
<1> SUFFICES ASSUME Init PROVE PipeTypeOK
    OBVIOUS
<1>1. told \in Seq(FinalEvents)
    BY DEF Init
<1>2. lost \in 0..MaxLost
    BY LostAssumption DEF Init
<1>. QED
    BY <1>1, <1>2 DEF Init, PipeTypeOK, Stages, Rows, Kinds, Sources

LEMMA WriteTypes ==
    ASSUME PipeTypeOK, NEW s \in Rows, Write(s)
    PROVE  row' \in Rows /\ lost' \in 0..MaxLost /\ (lost' = 0 => row' = s)
BY LostAssumption DEF PipeTypeOK, Write

LEMMA TellTypes ==
    ASSUME PipeTypeOK, NEW e \in FinalEvents, Tell(e)
    PROVE  told' \in Seq(FinalEvents)
BY DEF PipeTypeOK, Tell

LEMMA PipeTypeStep == PipeTypeOK /\ CodeTypeOK /\ [Next]_vars => PipeTypeOK'
<1> SUFFICES ASSUME PipeTypeOK, CodeTypeOK, [Next]_vars PROVE PipeTypeOK'
    OBVIOUS
<1>0. {"running", "waiting", "completed", "failed"} \subseteq Rows
      /\ {"success", "failure", "refused", "asked", "waiting"} \subseteq FinalEvents
    BY DEF Rows, FinalEvents
<1>f. Fail => PipeTypeOK'
    BY <1>0, WriteTypes, TellTypes DEF Fail, PipeTypeOK, Stages
<1>s. Succeed => PipeTypeOK'
    BY <1>0, WriteTypes, TellTypes DEF Succeed, PipeTypeOK, Stages
<1>e. Escape => PipeTypeOK'
    BY DEF Escape, PipeTypeOK, Stages
<1>1. CASE Activate
    BY <1>0, <1>1, WriteTypes DEF Activate, PipeTypeOK, Stages
<1>2. CASE Permit \/ NoQuestion \/ Resolve \/ StartSteps
    BY <1>2 DEF Permit, NoQuestion, Resolve, StartSteps, Advance, PipeTypeOK, Stages
<1>3. CASE Deny
    BY <1>0, <1>3, WriteTypes, TellTypes DEF Deny, PipeTypeOK, Stages
<1>4. ASSUME NEW c \in Kinds, NEW aboutCode \in BOOLEAN, NEW v \in BOOLEAN,
             ClassifyIntent(c, aboutCode, v)
      PROVE  PipeTypeOK'
  <2>1. PipelineIntent(c, aim = "deploy", aboutCode) \in Kinds
      BY DEF PipelineIntent, Kinds
  <2>. QED
      BY <1>4, <2>1 DEF ClassifyIntent, PipeTypeOK, Stages
<1>5. CASE AskQuestion
    BY <1>0, <1>5, WriteTypes, TellTypes DEF AskQuestion, PipeTypeOK, Stages
<1>6. CASE \/ ResolveFails \/ RefuseCode \/ CodeRaises \/ PrepareFails
    BY <1>6, <1>f DEF ResolveFails, RefuseCode, CodeRaises, PrepareFails
<1>7. CASE Detect
    BY <1>0, <1>7, WriteTypes DEF Detect, PipeTypeOK, Stages
<1>8. ASSUME NEW mode \in Modes, NEW raises \in BOOLEAN, Route(mode, raises)
      PROVE  PipeTypeOK'
  <2>1. intent' \in Kinds
      BY <1>8 DEF Route, ResolveRoute, DispatchKind, LegacyKind, DecidedKind, InferKind,
                  PipelineSignals, PipeTypeOK, Kinds
  <2>. QED
      BY <1>8, <2>1 DEF Route, PipeTypeOK, Stages, Kinds
<1>9. CASE CallRaises
    BY <1>9, <1>e DEF CallRaises
<1>10. CASE Answer
    BY <1>10, <1>s DEF Answer
<1>11. CASE Patch
    BY <1>0, <1>11, WriteTypes, TellTypes DEF Patch, PipeTypeOK, Stages, Sources
<1>12. CASE WriteProgram
  <2>1. author \in Sources /\ reported \in BOOLEAN
      BY DEF CodeTypeOK, Authors, Sources
  <2>. QED
      BY <1>12, <2>1 DEF WriteProgram, PipeTypeOK, Stages
<1>13. CASE WriteCode \/ RunProgram \/ RunSteps \/ Done \/ UNCHANGED vars
    BY <1>13 DEF WriteCode, RunProgram, RunSteps, Done, vars, pipeVars, PipeTypeOK
<1>14. CASE SettleProgram
    BY <1>14, <1>f, <1>s DEF SettleProgram
<1>15. ASSUME NEW exit \in Exits, NEW confirmed \in BOOLEAN, ExecuteTool(exit, confirmed)
       PROVE  PipeTypeOK'
    BY <1>0, <1>15, WriteTypes DEF ExecuteTool, PipeTypeOK
<1>16. CASE AllowStep
    BY <1>0, <1>16, WriteTypes DEF AllowStep, PipeTypeOK
<1>17. CASE SuspendJob
  <2>1. row' \in Rows /\ lost' \in 0..MaxLost
      BY <1>17, LostAssumption DEF SuspendJob, WriteTwice, PipeTypeOK, Rows
  <2>. QED
      BY <1>0, <1>17, <2>1, TellTypes DEF SuspendJob, PipeTypeOK, Stages
<1>18. CASE GateFails
    BY <1>0, <1>18 DEF GateFails, PipeTypeOK
<1>19. CASE SettleSteps
    BY <1>19, <1>f, <1>e DEF SettleSteps
<1>20. CASE Mark
    BY <1>0, <1>20 DEF Mark, PipeTypeOK, Stages
<1>. QED
    BY <1>1, <1>2, <1>3, <1>4, <1>5, <1>6, <1>7, <1>8, <1>9, <1>10, <1>11, <1>12, <1>13,
       <1>14, <1>15, <1>16, <1>17, <1>18, <1>19, <1>20 DEF Next

(* Type correctness of the pipeline with its executor and its fixes. *)
THEOREM TypeCorrect == Spec => []TypeOK
<1> DEFINE I == ExecInv /\ HealInv /\ CodeInv /\ PipeTypeOK
<1>1. Init => I
    BY ExecInvInit, HealInvInit, CodeInvInit, PipeTypeInit DEF Init
<1>2. I /\ [Next]_vars => I'
  <2>1. CodeInv => CodeTypeOK
      BY DEF CodeInv
  <2>. QED
      BY <2>1, ExecInvStep, HealInvStep, CodeInvStep, PipeTypeStep, StepsOfParts
<1>3. I => TypeOK
    BY DEF ExecInv, HealInv, CodeInv, TypeOK
<1>. QED
    BY <1>1, <1>2, <1>3, PTL DEF Spec

-----------------------------------------------------------------------------
(* The route.                                                              *)

Routed == {"clarify", "lookup", "workspace", "detect", "route"}

(* A job that names a deployment is a server job from its classification. *)
RouteInv == RouteIsKept /\ (stage \in Routed /\ aim = "deploy" => intent = "server")

LEMMA RouteStep == PipeTypeOK /\ RouteInv /\ aim' = aim /\ [Next]_vars => RouteInv'
<1> SUFFICES ASSUME PipeTypeOK, RouteInv, aim' = aim, [Next]_vars PROVE RouteInv'
    OBVIOUS
<1> USE DEF RouteInv, RouteIsKept, Routed
<1>1. ASSUME NEW c \in Kinds, NEW aboutCode \in BOOLEAN, NEW v \in BOOLEAN,
             ClassifyIntent(c, aboutCode, v)
      PROVE  RouteInv'
    BY <1>1 DEF ClassifyIntent, PipelineIntent
<1>2. ASSUME NEW mode \in Modes, NEW raises \in BOOLEAN, Route(mode, raises)
      PROVE  RouteInv'
  <2>1. intent \in Kinds /\ vague \in BOOLEAN /\ (aim = "deploy" => intent = "server")
      BY <1>2 DEF Route, PipeTypeOK
  <2>2. ResolveRoute(PipelineSignals(intent, aim = "deploy", FALSE, vague), raises) = intent
      BY <2>1, PipelineKeepsIntent
  <2>3. intent' = intent /\ wanted' = wanted /\ stage' = intent
      BY <1>2, <2>2 DEF Route
  <2>. QED
      BY <2>1, <2>3 DEF Kinds
<1>3. CASE UNCHANGED <<wanted, intent>> /\ (stage' \in Routed => stage \in Routed)
    BY <1>3
<1>4. \/ UNCHANGED <<wanted, intent>> /\ (stage' \in Routed => stage \in Routed)
      \/ \E c \in Kinds, aboutCode, v \in BOOLEAN : ClassifyIntent(c, aboutCode, v)
      \/ \E mode \in Modes, raises \in BOOLEAN : Route(mode, raises)
    BY DEF Next, Activate, Permit, Deny, NoQuestion, AskQuestion, Resolve, ResolveFails,
           Detect, CallRaises, Answer, WriteCode, RefuseCode, CodeRaises, Patch, WriteProgram,
           RunProgram, SettleProgram, StartSteps, PrepareFails, RunSteps, ExecuteTool,
           AllowStep, SuspendJob, GateFails, SettleSteps, Mark, Done, vars, pipeVars,
           Fail, Succeed, Escape, Advance
<1>. QED
    BY <1>1, <1>2, <1>3, <1>4

(* In every mode of the engine, and whatever a job is about, the pipeline  *)
(* dispatches on the intent of the classification.                         *)
THEOREM RouteIsAlwaysKept == Spec => []RouteIsKept
<1> DEFINE I == ExecInv /\ CodeInv /\ PipeTypeOK /\ RouteInv
<1>1. Init => I
  <2>1. Init => RouteInv
      BY DEF Init, RouteInv, RouteIsKept, Routed
  <2>. QED
      BY <2>1, ExecInvInit, CodeInvInit, PipeTypeInit DEF Init
<1>2. I /\ [Next]_vars => I'
  <2> SUFFICES ASSUME I, [Next]_vars PROVE I'
      OBVIOUS
  <2>1. [ExecNext]_execVars
      BY StepsOfParts
  <2>2. aim \in Aims /\ aim' = aim
      BY <2>1, HistoriesGrow DEF ExecInv, ExecTypeOK
  <2>. QED
      BY <2>1, <2>2, ExecInvStep, CodeInvStep, PipeTypeStep, RouteStep, StepsOfParts DEF CodeInv
<1>3. I => RouteIsKept
    BY DEF RouteInv
<1>. QED
    BY <1>1, <1>2, <1>3, PTL DEF Spec

-----------------------------------------------------------------------------
(* The outcome.                                                            *)

(* Nothing final is said before the end. *)
OutcomeInv ==
    /\ stage \notin {"ended", "marked"} => told = <<>> /\ ~parked
    /\ stage = "chat" => intent = "chat"
    /\ OutcomeIsTold

LEMMA OutcomeStep == PipeTypeOK /\ CodeTypeOK /\ OutcomeInv /\ [Next]_vars => OutcomeInv'
<1> SUFFICES ASSUME PipeTypeOK, CodeTypeOK, OutcomeInv, [Next]_vars PROVE OutcomeInv'
    OBVIOUS
<1> USE DEF OutcomeInv, OutcomeIsTold, Writes
<1>t. \A e : told = <<>> /\ Tell(e) => told' = <<e>> /\ Len(told') = 1 /\ told'[1] = e
    BY DEF Tell
<1>w. \A s : Write(s) /\ lost' < 1 => row' = s
    BY LostAssumption DEF Write, PipeTypeOK
<1>p. \A s : WriteTwice(s) /\ lost' < 2 => row' = s
    BY LostAssumption DEF WriteTwice, PipeTypeOK
<1>f. stage \notin {"ended", "marked"} /\ Fail => OutcomeInv'
    BY <1>t, <1>w DEF Fail, RowOf
<1>s. stage \notin {"ended", "marked"} /\ Succeed
      /\ (intent = "chat" \/ source = "patch" \/ healed') => OutcomeInv'
    BY <1>t, <1>w DEF Succeed, RowOf
<1>e. stage \notin {"ended", "marked"} /\ Escape => OutcomeInv'
    BY DEF Escape
<1>1. CASE \/ Activate \/ Permit \/ NoQuestion \/ Resolve \/ Detect \/ StartSteps
           \/ AllowStep \/ GateFails
    BY <1>1 DEF Activate, Permit, NoQuestion, Resolve, Detect, StartSteps, AllowStep,
                GateFails, Advance
<1>2. CASE Deny
    BY <1>2, <1>t, <1>w DEF Deny, RowOf
<1>3. CASE \E c \in Kinds, aboutCode, v \in BOOLEAN : ClassifyIntent(c, aboutCode, v)
    BY <1>3 DEF ClassifyIntent
<1>4. CASE AskQuestion
    BY <1>4, <1>t DEF AskQuestion
<1>5. CASE ResolveFails \/ RefuseCode \/ CodeRaises \/ PrepareFails
    BY <1>5, <1>f DEF ResolveFails, RefuseCode, CodeRaises, PrepareFails
<1>6. CASE \E mode \in Modes, raises \in BOOLEAN : Route(mode, raises)
  <2>1. told' = told /\ parked' = parked /\ stage' = intent' /\ stage = "route"
      BY <1>6 DEF Route
  <2>2. intent' \in Kinds
      BY <1>6, PipeTypeStep DEF Route, ResolveRoute, DispatchKind, LegacyKind, DecidedKind,
         InferKind, PipelineSignals, PipeTypeOK, Kinds
  <2>. QED
      BY <2>1, <2>2 DEF Kinds
<1>7. CASE CallRaises
    BY <1>7, <1>e DEF CallRaises
<1>8. CASE Answer
    BY <1>8, <1>s DEF Answer
<1>9. CASE Patch
    BY <1>9, <1>t, <1>w DEF Patch, RowOf
<1>10. CASE WriteProgram
    BY <1>10 DEF WriteProgram
<1>11. CASE WriteCode \/ RunProgram \/ RunSteps
    BY <1>11 DEF WriteCode, healVars, RunProgram, RunSteps, pipeVars
<1>12. CASE SettleProgram
    BY <1>12, <1>f, <1>s DEF SettleProgram, healVars
<1>13. CASE \E exit \in Exits, confirmed \in BOOLEAN : ExecuteTool(exit, confirmed)
    BY <1>13 DEF ExecuteTool
<1>14. CASE SuspendJob
    BY <1>14, <1>t, <1>p DEF SuspendJob, RowOf
<1>15. CASE SettleSteps
    BY <1>15, <1>f, <1>e DEF SettleSteps
<1>16. CASE Mark
    BY <1>16 DEF Mark
<1>17. CASE Done \/ UNCHANGED vars
    BY <1>17 DEF Done, vars, pipeVars, healVars
<1>. QED
    BY <1>1, <1>2, <1>3, <1>4, <1>5, <1>6, <1>7, <1>8, <1>9, <1>10, <1>11, <1>12, <1>13,
       <1>14, <1>15, <1>16, <1>17 DEF Next

(* However a job ends, a pipeline that returns has told it once and as the *)
(* row says (unless a write was lost), and a pipeline that raises has      *)
(* parked nothing.                                                         *)
THEOREM OutcomeIsAlwaysTold == Spec => []OutcomeIsTold
<1> DEFINE I == CodeInv /\ PipeTypeOK /\ OutcomeInv
<1>1. Init => I
  <2>1. Init => OutcomeInv
      BY DEF Init, OutcomeInv, OutcomeIsTold
  <2>. QED
      BY <2>1, ExecInvInit, CodeInvInit, PipeTypeInit DEF Init
<1>2. I /\ [Next]_vars => I'
  <2>1. CodeInv => CodeTypeOK
      BY DEF CodeInv
  <2>. QED
      BY <2>1, CodeInvStep, PipeTypeStep, OutcomeStep, StepsOfParts
<1>3. I => OutcomeIsTold
    BY DEF OutcomeInv
<1>. QED
    BY <1>1, <1>2, <1>3, PTL DEF Spec

-----------------------------------------------------------------------------
(* Retries.                                                                *)

LEMMA OffsetsOfParts ==
    ASSUME ExecTypeOK
    PROVE  /\ Offset("preflight") = 0
           /\ Offset("plan") \in Nat /\ Offset("plan") = Len(StepsOf("preflight"))
           /\ Offset("contract") \in Nat /\ Offset("contract") = Offset("plan") + Len(plan)
           /\ \A part \in Parts : Offset(part) \in Nat
           /\ Position(at) \in Nat
           /\ Len(plan) \in Nat /\ Len(probes) \in Nat
<1>1. StepsOf("preflight") \in Seq(StepKind)
    BY PartsOfSteps DEF Parts
<1>2. Len(StepsOf("preflight")) \in Nat /\ Len(plan) \in Nat /\ Len(probes) \in Nat
    BY <1>1 DEF ExecTypeOK
<1>3. /\ Offset("preflight") = 0
      /\ Offset("plan") = Len(StepsOf("preflight"))
      /\ Offset("contract") = Len(StepsOf("preflight")) + Len(plan)
    BY DEF Offset
<1>4. \A part \in Parts : Offset(part) \in Nat
    BY <1>2, <1>3 DEF Parts
<1>5. Position(at) \in Nat
    BY <1>4 DEF Position, ExecTypeOK, Places
<1>. QED
    BY <1>2, <1>3, <1>4, <1>5

(* Before its plan begins a run has no results, and afterwards the plan    *)
(* stays.                                                                  *)
LEMMA OffsetsStay ==
    ASSUME ExecTypeOK, WhereInv, ResultsInv, [ExecNext]_execVars, ~Begin
    PROVE  plan' = plan /\ \A part : Offset(part)' = Offset(part)
<1>1. plan' = plan /\ aim' = aim
    BY DEF ExecNext, ExecStep, Start, CheckStep, AfterPreflight, Continue, Retry,
           Abort, Close, AfterProbe, ExecRaises, BeginRaises, ToolRaises, RunTool,
           PassGate, SuspendAtGate, SwallowGate, execVars
<1>2. StepsOf("preflight")' = StepsOf("preflight")
    BY <1>1, StepsByPart
<1>. QED
    BY <1>1, <1>2 DEF Offset

(* A result is at or before the end of its part. *)
LEMMA ResultsArePlaced ==
    ASSUME ExecInv, NEW i \in 1..Len(results)
    PROVE  /\ results[i].place \in Places
           /\ Position(results[i].place) \in Nat
           /\ results[i].place.part # "contract" =>
                 Position(results[i].place) <= Offset("contract")
<1>1. results[i] \in Result
    BY DEF ExecInv, ExecTypeOK
<1>2. results[i].place.part \in Parts /\ results[i].place.n \in Nat \ {0}
      /\ results[i].place \in Places
    BY <1>1 DEF Result, Places
<1>3. results[i].place.n \in 1..Len(StepsOf(results[i].place.part))
    BY DEF ExecInv, ResultsInv
<1>4. ExecTypeOK
    BY DEF ExecInv
<1>5. Position(results[i].place) \in Nat
    BY <1>2, <1>4, OffsetsOfParts DEF Position
<1>6. CASE results[i].place.part = "preflight"
    BY <1>3, <1>4, <1>5, <1>6, OffsetsOfParts, <1>2 DEF Position
<1>7. CASE results[i].place.part = "plan"
    BY <1>3, <1>4, <1>5, <1>7, OffsetsOfParts, StepsByPart, <1>2 DEF Position
<1>8. CASE results[i].place.part = "contract"
    BY <1>5, <1>8, <1>2
<1>. QED
    BY <1>2, <1>5, <1>6, <1>7, <1>8 DEF Parts

LEMMA PositionsStay ==
    ASSUME ExecInv, [ExecNext]_execVars, ~Begin, results' = results
    PROVE  /\ \A i \in 1..Len(results) :
                 Position(results[i].place)' = Position(results[i].place)
           /\ at' = at => Position(at)' = Position(at)
BY OffsetsStay DEF ExecInv, Position

(* An action that only moves on within an execution of a step. *)
LEMMA OrderWithinStep ==
    ASSUME ExecInv, OrderInv, [ExecNext]_execVars, ~Begin,
           UNCHANGED <<at, attempt, results, plan>>, Current' = Current,
           phase' \in {"step", "gate", "tool"} => phase \in {"step", "gate", "tool"},
           phase' = "judge" => phase = "judge",
           phase' = "closing" => phase = "closing"
    PROVE  OrderInv'
BY PositionsStay DEF OrderInv, Last, AllValid

(* An action that moves on to a step all results are before. *)
LEMMA OrderAtNewStep ==
    ASSUME ExecInv, [ExecNext]_execVars, ~Begin, results' = results,
           phase' = "step", attempt' = 0, Position(at)' \in Nat,
           \A i \in 1..Len(results) : Position(results[i].place) < Position(at)'
    PROVE  OrderInv'
<1>1. ASSUME NEW i \in 1..Len(results)
      PROVE  Position(results[i].place)' <= Position(at)' /\ results'[i].place # at'
  <2>1. Position(results[i].place)' = Position(results[i].place)
        /\ Position(results[i].place) \in Nat
      BY PositionsStay, ResultsArePlaced
  <2>2. results'[i].place = at' => Position(results[i].place)' = Position(at)'
      BY DEF Position
  <2>. QED
      BY <2>1, <2>2
<1>. QED
    BY <1>1 DEF OrderInv

LEMMA OrderStep == ExecInv /\ OrderInv /\ [ExecNext]_execVars => OrderInv'
<1> SUFFICES ASSUME ExecInv, OrderInv, [ExecNext]_execVars PROVE OrderInv'
    OBVIOUS
<1>0. /\ ExecTypeOK /\ WhereInv /\ ResultsInv
      /\ at \in Places /\ attempt \in Nat /\ results \in Seq(Result)
    BY TriesAssumption DEF ExecInv, ExecTypeOK
<1>1. CASE Begin
  <2>1. results = <<>> /\ results' = <<>> /\ attempt' = 0 /\ phase' = "step"
      BY <1>0, <1>1 DEF Begin, WhereInv
  <2>. QED
      BY <2>1 DEF OrderInv
<1>2. CASE \/ Start \/ CheckStep \/ PassGate \/ SuspendAtGate \/ SwallowGate
           \/ ExecRaises \/ UNCHANGED execVars
  <2>1. UNCHANGED <<aim, plan, probes, at, attempt, results>>
      BY <1>2 DEF Start, CheckStep, PassGate, SuspendAtGate, SwallowGate, ExecRaises,
                  BeginRaises, ToolRaises, execVars
  <2>2. Current' = Current
      BY <2>1 DEF Current, StepsOf, Preflight
  <2>3. ~Begin
      BY <1>2 DEF Begin, Start, CheckStep, PassGate, SuspendAtGate, SwallowGate, ExecRaises,
                  BeginRaises, ToolRaises, execVars
  <2>. QED
      BY <1>2, <2>1, <2>2, <2>3, OrderWithinStep
      DEF Start, CheckStep, PassGate, SuspendAtGate, SwallowGate, ExecRaises,
          BeginRaises, ToolRaises, execVars
<1>3. CASE AfterPreflight
  <2>1. /\ results' = results /\ ~Begin /\ attempt' = 0 /\ phase' = "step"
        /\ at.part = "preflight" /\ aim = "deploy"
      BY <1>0, <1>3 DEF AfterPreflight, Begin, WhereInv, AtWork, StepsOf
  <2>2. Offset("plan") = 3 /\ at.n \in 1..3 /\ Len(Preflight) = 3
      BY <1>0, <1>3, <2>1, OffsetsOfParts, StepsByPart, KindsOfSteps DEF WhereInv, AtWork, AfterPreflight
  <2>3. Position(at)' = Position(at) + 1
    <3>1. Position(at) = at.n
        BY <1>0, <2>1, <2>2, OffsetsOfParts DEF Position
    <3>2. Offset("preflight")' = 0 /\ Offset("plan")' = 3
        BY <1>0, <2>1, <2>2, OffsetsOfParts, OffsetsStay
    <3>3. CASE at.n < 3
        BY <1>3, <2>2, <3>1, <3>2, <3>3 DEF AfterPreflight, Position, Place
    <3>4. CASE at.n = 3
        BY <1>3, <2>2, <3>1, <3>2, <3>4 DEF AfterPreflight, Position, Place
    <3>. QED
        BY <2>2, <3>3, <3>4
  <2>. QED
      BY <1>0, <1>3, <2>1, <2>3, OffsetsOfParts, OrderAtNewStep, ResultsArePlaced DEF OrderInv
<1>4. CASE Continue
  <2>1. results' = results /\ ~Begin /\ attempt' = 0 /\ at.part = "plan"
      BY <1>4 DEF Continue, Begin
  <2>2. /\ Position(at) = Offset("plan") + at.n /\ Position(at) \in Nat
        /\ Offset("plan")' = Offset("plan") /\ Offset("plan") \in Nat
        /\ at.n \in 1..Len(plan) /\ Len(plan) \in Nat
      BY <1>0, <1>4, <2>1, OffsetsOfParts, OffsetsStay, StepsByPart
      DEF Position, Continue, WhereInv, AtWork
  <2>3. CASE at.n < Len(plan)
    <3>1. at' = Place("plan", at.n + 1) /\ phase' = "step"
        BY <1>4, <2>3 DEF Continue
    <3>2. Position(at)' = Position(at) + 1
        BY <2>2, <3>1 DEF Position, Place
    <3>. QED
        BY <1>0, <2>1, <2>2, <3>1, <3>2, OrderAtNewStep, ResultsArePlaced DEF OrderInv
  <2>4. CASE ~(at.n < Len(plan))
    <3>1. at' = at /\ phase' = "closing" /\ plan' = plan
        BY <1>4, <2>4 DEF Continue
    <3>2. at.n = Len(plan)
        BY <2>2, <2>4
    <3>. QED
        BY <2>1, <3>1, <3>2, PositionsStay DEF OrderInv
  <2>. QED
      BY <2>3, <2>4
<1>5. CASE Retry
  <2>1. /\ UNCHANGED <<aim, plan, probes, at, results>> /\ ~Begin
        /\ phase' = "step" /\ attempt' = attempt + 1 /\ attempt' > 0
        /\ Current.type = "ACTION" /\ ~Last(results).valid /\ phase = "judge"
      BY <1>0, <1>5 DEF Retry, Begin, MayRetry
  <2>2. Current' = Current /\ Last(results)' = Last(results)
      BY <2>1 DEF Current, StepsOf, Preflight, Last
  <2>3. attempt' - 1 = attempt /\ Len(results') > 0
        /\ Last(results).place = at /\ Last(results).attempt = attempt
      BY <1>0, <2>1 DEF OrderInv
  <2>4. \A i \in 1..Len(results) : Position(results[i].place)' <= Position(at)'
      BY <2>1, PositionsStay DEF OrderInv
  <2>. QED
      BY <2>1, <2>2, <2>3, <2>4 DEF OrderInv
<1>6. CASE Abort
  <2>1. /\ UNCHANGED <<at, results, plan>> /\ ~Begin /\ phase' = "closing" /\ phase = "judge"
        /\ ~Last(results).valid
      BY <1>6 DEF Abort, Begin
  <2>2. ~AllValid'
      BY <1>0, <2>1 DEF OrderInv, AllValid, Last
  <2>. QED
      BY <2>1, <2>2, PositionsStay DEF OrderInv
<1>7. CASE Close
  <2>1. results' = results /\ ~Begin /\ probes = <<>>
      BY <1>0, <1>7 DEF Close, Begin, WhereInv
  <2>2. CASE probes' # <<>>
    <3>1. phase' = "step" /\ attempt' = 0 /\ at' = Place("contract", 1)
        BY <1>7, <2>2 DEF Close
    <3>2. Position(at)' = Offset("contract") + 1 /\ Offset("contract") \in Nat
        BY <1>0, <2>1, <3>1, OffsetsStay, OffsetsOfParts DEF Position, Place
    <3>3. \A i \in 1..Len(results) : Position(results[i].place) \in Nat
                                      /\ Position(results[i].place) <= Offset("contract")
        BY <1>0, <2>1, ResultsArePlaced DEF ResultsInv
    <3>. QED
        BY <2>1, <3>1, <3>2, <3>3, OrderAtNewStep
  <2>3. CASE probes' = <<>>
      BY <1>7, <2>1, <2>3, PositionsStay DEF Close, OrderInv
  <2>. QED
      BY <2>2, <2>3
<1>8. CASE AfterProbe
  <2>1. results' = results /\ ~Begin /\ attempt' = 0 /\ at.part = "contract"
      BY <1>0, <1>8 DEF AfterProbe, Begin, WhereInv
  <2>2. CASE ProbePassed /\ at.n < Len(probes)
    <3>1. phase' = "step" /\ at' = Place("contract", at.n + 1)
        BY <1>8, <2>2 DEF AfterProbe
    <3>2. /\ Position(at) = Offset("contract") + at.n /\ Position(at) \in Nat
          /\ Offset("contract")' = Offset("contract") /\ at.n \in Nat /\ Offset("contract") \in Nat
        BY <1>0, <2>1, OffsetsOfParts, OffsetsStay DEF Position, Places
    <3>3. Position(at)' = Position(at) + 1
        BY <3>1, <3>2 DEF Position, Place
    <3>. QED
        BY <1>0, <2>1, <3>1, <3>2, <3>3, OrderAtNewStep, ResultsArePlaced DEF OrderInv
  <2>3. CASE ~(ProbePassed /\ at.n < Len(probes))
    <3>1. phase' = "over" /\ at' = at
        BY <1>8, <2>3 DEF AfterProbe
    <3>. QED
        BY <2>1, <3>1, PositionsStay DEF OrderInv
  <2>. QED
      BY <2>2, <2>3
<1>9. ASSUME NEW exit \in Exits, NEW confirmed \in BOOLEAN, RunTool(exit, confirmed)
      PROVE  OrderInv'
  <2> DEFINE new == [place |-> at, attempt |-> attempt, exit |-> exit,
                     valid |-> Valid(Current, exit, confirmed)]
  <2>1. /\ results' = Append(results, new) /\ phase' = "judge" /\ phase = "tool" /\ ~Begin
        /\ UNCHANGED <<at, attempt, plan, aim>>
      BY <1>9 DEF RunTool, Begin
  <2>2. new.place = at /\ new.attempt = attempt
      OBVIOUS
  <2> HIDE DEF new
  <2>3. /\ Len(results') = Len(results) + 1 /\ Len(results) \in Nat
        /\ results'[Len(results')] = new
        /\ \A i \in 1..Len(results) : results'[i] = results[i]
      BY <1>0, <2>1
  <2>4. \A part : Offset(part)' = Offset(part)
      BY <1>0, <2>1, OffsetsStay
  <2>5. Position(at)' = Position(at) /\ Position(at) \in Nat
      BY <1>0, <2>1, <2>4, OffsetsOfParts DEF Position
  <2>6. ASSUME NEW i \in 1..Len(results')
        PROVE  Position(results[i].place)' <= Position(at)'
    <3>1. CASE i \in 1..Len(results)
      <4>1. Position(results[i].place)' = Position(results[i].place)
          BY <2>3, <2>4, <3>1 DEF Position
      <4>. QED
          BY <2>5, <3>1, <4>1 DEF OrderInv
    <3>2. CASE i = Len(results')
      <4>1. Position(results[i].place)' = Position(at)'
          BY <2>1, <2>2, <2>3, <3>2 DEF Position
      <4>. QED
          BY <2>5, <4>1
    <3>. QED
        BY <2>3, <3>1, <3>2
  <2>. QED
      BY <2>1, <2>2, <2>3, <2>6 DEF OrderInv, Last
<1>. QED
    BY <1>1, <1>2, <1>3, <1>4, <1>5, <1>6, <1>7, <1>8, <1>9 DEF ExecNext, ExecStep

LEMMA RetriesStep ==
    ExecInv /\ OrderInv /\ RetriesAreJustified /\ [ExecNext]_execVars => RetriesAreJustified'
<1> SUFFICES ASSUME ExecInv, OrderInv, RetriesAreJustified, [ExecNext]_execVars
             PROVE  RetriesAreJustified'
    OBVIOUS
<1>0. ExecTypeOK /\ WhereInv /\ ResultsInv /\ results \in Seq(Result)
    BY DEF ExecInv, ExecTypeOK
<1>1. \A i \in 1..Len(results) :
          \A part : results[i].place.part = part => StepsOf(part)' = StepsOf(part)
    BY <1>0, HistoriesGrow
<1>2. CASE results' = results
    BY <1>1, <1>2 DEF RetriesAreJustified
<1>3. CASE results' # results
  <2>1. PICK exit \in Exits, confirmed \in BOOLEAN :
            results' = Append(results, [place |-> at, attempt |-> attempt, exit |-> exit,
                                        valid |-> Valid(Current, exit, confirmed)])
      BY <1>0, <1>3, HistoriesGrow
  <2>2. phase = "tool" /\ UNCHANGED <<aim, plan, probes, at, attempt>>
      BY <1>0, <1>3, HistoriesGrow
  <2> DEFINE new == [place |-> at, attempt |-> attempt, exit |-> exit,
                     valid |-> Valid(Current, exit, confirmed)]
  <2>3. new.place = at /\ new.attempt = attempt /\ results' = Append(results, new)
      BY <2>1
  <2> HIDE DEF new
  <2>4. /\ Len(results') = Len(results) + 1 /\ Len(results) \in Nat
        /\ results'[Len(results) + 1] = new
        /\ \A i \in 1..Len(results) : results'[i] = results[i]
      BY <1>0, <2>3
  <2>5. attempt \in Nat /\ attempt < MaxTries
      BY <1>0, TriesAssumption DEF ExecTypeOK
  <2>6. attempt > 0 => /\ StepsOf(at.part)'[at.n].type = "ACTION"
                       /\ Len(results) > 0
                       /\ results[Len(results)].place = at
                       /\ results[Len(results)].attempt = attempt - 1
                       /\ ~results[Len(results)].valid
      BY <2>2, <2>5 DEF OrderInv, Current, Last, StepsOf, Preflight
  <2>7. attempt = 0 => \A k \in 1..Len(results) : results[k].place # at
      BY <2>2 DEF OrderInv
  <2>8. ASSUME NEW i \in 1..Len(results')
        PROVE  /\ results'[i].attempt < MaxTries
               /\ results'[i].attempt > 0 =>
                     /\ StepsOf(results[i].place.part)'[results'[i].place.n].type = "ACTION"
                     /\ i > 1
                     /\ results'[i - 1].place = results'[i].place
                     /\ results'[i - 1].attempt = results'[i].attempt - 1
                     /\ ~results'[i - 1].valid
               /\ results'[i].attempt = 0 =>
                     \A k \in 1..(i - 1) : results'[k].place # results'[i].place
    <3>1. CASE i \in 1..Len(results)
      <4>1. results'[i] = results[i] /\ \A k \in 1..(i - 1) : results'[k] = results[k]
          BY <2>4, <3>1
      <4>2. StepsOf(results[i].place.part)' = StepsOf(results[i].place.part)
          BY <1>1, <2>2, <3>1, <4>1
      <4>. QED
          BY <2>4, <3>1, <4>1, <4>2 DEF RetriesAreJustified
    <3>2. CASE i = Len(results) + 1
      <4>1. results'[i].place = at /\ results'[i].attempt = attempt
          BY <2>3, <2>4, <3>2
      <4>2. StepsOf(results[i].place.part)' = StepsOf(at.part)'
          BY <2>2, <4>1
      <4>. QED
          BY <2>4, <2>5, <2>6, <2>7, <3>2, <4>1, <4>2
    <3>. QED
        BY <2>4, <3>1, <3>2
  <2>. QED
      BY <2>8 DEF RetriesAreJustified
<1>. QED
    BY <1>2, <1>3

(* For every plan and every bound on the tries, what changes the server is *)
(* executed again only after it failed and at most MaxTries times, and     *)
(* nothing else is executed twice.                                         *)
THEOREM RetriesAlwaysJustified == Spec => []RetriesAreJustified
<1> DEFINE I == ExecInv /\ OrderInv /\ RetriesAreJustified
<1>1. Init => I
  <2>1. ExecInit => OrderInv /\ RetriesAreJustified
      BY DEF ExecInit, OrderInv, RetriesAreJustified
  <2>. QED
      BY <2>1, ExecInvInit DEF Init
<1>2. I /\ [Next]_vars => I'
    BY ExecInvStep, OrderStep, RetriesStep, StepsOfParts
<1>3. I => RetriesAreJustified
    OBVIOUS
<1>. QED
    BY <1>1, <1>2, <1>3, PTL DEF Spec

(* What is tried again is tried for a reason and not for ever. *)
THEOREM TriesAlwaysEnd == Spec => []TriesAreBounded
<1>1. RetriesAreJustified /\ HealingIsBounded => TriesAreBounded
    BY DEF TriesAreBounded
<1>. QED
    BY <1>1, RetriesAlwaysJustified, HealingBounded, PTL

-----------------------------------------------------------------------------
(* Success.                                                                *)

LEMMA RequiredAt ==
    ASSUME ExecTypeOK, NEW place \in Places,
           place.n \in 1..Len(StepsOf(place.part))
    PROVE  /\ Position(place) \in 1..Len(Required)
           /\ Required[Position(place)] = place
           /\ Len(Required) = Offset("contract") + Len(probes)
<1>1. place.part \in Parts /\ place.n \in Nat /\ place.n >= 1 /\ place = Place(place.part, place.n)
    BY DEF Places, Place
<1>2. Len(Required) = Offset("contract") + Len(probes)
    BY OffsetsOfParts DEF Required
<1>3. \A i \in 1..(Offset("contract") + Len(probes)) :
          Required[i] = IF i <= Offset("plan") THEN Place("preflight", i)
                        ELSE IF i <= Offset("contract") THEN Place("plan", i - Offset("plan"))
                        ELSE Place("contract", i - Offset("contract"))
    BY DEF Required
<1>4. CASE place.part = "preflight"
  <2>1. Position(place) = place.n /\ place.n <= Offset("plan")
      BY <1>1, <1>4, OffsetsOfParts DEF Position
  <2>. QED
      BY <1>1, <1>2, <1>3, <1>4, <2>1, OffsetsOfParts
<1>5. CASE place.part = "plan"
  <2>1. Position(place) = Offset("plan") + place.n /\ place.n <= Len(plan)
      BY <1>1, <1>5, OffsetsOfParts, StepsByPart DEF Position
  <2>2. Position(place) - Offset("plan") = place.n
      BY <1>1, <2>1, OffsetsOfParts
  <2>3. /\ Position(place) \in 1..(Offset("contract") + Len(probes))
        /\ ~(Position(place) <= Offset("plan")) /\ Position(place) <= Offset("contract")
      BY <1>1, <2>1, OffsetsOfParts
  <2>4. Required[Position(place)] = Place("plan", place.n)
      BY <1>3, <2>2, <2>3, OffsetsOfParts
  <2>. QED
      BY <1>1, <1>2, <1>5, <2>3, <2>4
<1>6. CASE place.part = "contract"
  <2>1. Position(place) = Offset("contract") + place.n /\ place.n <= Len(probes)
      BY <1>1, <1>6, OffsetsOfParts, StepsByPart DEF Position
  <2>2. Position(place) - Offset("contract") = place.n
      BY <1>1, <2>1, OffsetsOfParts
  <2>3. /\ Position(place) \in 1..(Offset("contract") + Len(probes))
        /\ ~(Position(place) <= Offset("plan")) /\ Position(place) > Offset("contract")
      BY <1>1, <2>1, OffsetsOfParts
  <2>4. Required[Position(place)] = Place("contract", place.n)
      BY <1>3, <2>2, <2>3, OffsetsOfParts
  <2>. QED
      BY <1>1, <1>2, <1>6, <2>3, <2>4
<1>. QED
    BY <1>1, <1>2, <1>4, <1>5, <1>6 DEF Parts

LEMMA RequiredStays ==
    ASSUME ExecTypeOK, WhereInv, ResultsInv, [ExecNext]_execVars, ~Begin, probes' = probes
    PROVE  Required' = Required
BY OffsetsStay DEF Required, Place

LEMMA JournalStep == ExecInv /\ OrderInv /\ JournalInv /\ [ExecNext]_execVars => JournalInv'
<1> SUFFICES ASSUME ExecInv, OrderInv, JournalInv, [ExecNext]_execVars PROVE JournalInv'
    OBVIOUS
<1>0. /\ ExecTypeOK /\ WhereInv /\ ResultsInv
      /\ at \in Places /\ results \in Seq(Result) /\ Len(results) \in Nat
      /\ Position(at) \in Nat
    BY OffsetsOfParts DEF ExecInv, ExecTypeOK
<1>1. CASE Begin
  <2>1. results' = <<>> /\ phase' = "step"
      BY <1>0, <1>1 DEF Begin, WhereInv
  <2>2. Position(at)' = 1
    <3>1. CASE aim = "deploy"
        BY <1>1, <3>1 DEF Begin, Position, Place, Offset
    <3>2. CASE aim # "deploy"
      <4>1. StepsOf("preflight")' = <<>>
          BY <1>1, <3>2, StepsByPart DEF Begin
      <4>2. Offset("plan")' = 0
          BY <4>1 DEF Offset
      <4>. QED
          BY <1>1, <3>2, <4>2 DEF Begin, Position, Place
    <3>. QED
        BY <3>1, <3>2
  <2>3. Len(Required') >= 0
    <3>1. ExecTypeOK'
        BY <1>0, ExecTypeStep
    <3>2. Offset("contract")' \in Nat /\ Len(probes') \in Nat
        BY <1>1, <3>1, KindsOfSteps, StepsByPart DEF Begin, Offset, ExecTypeOK
    <3>. QED
        BY <3>2 DEF Required
  <2>. QED
      BY <2>1, <2>2, <2>3 DEF JournalInv
<1>2. CASE \/ Start \/ CheckStep \/ PassGate \/ SuspendAtGate \/ SwallowGate
           \/ ExecRaises \/ UNCHANGED execVars
  <2>1. UNCHANGED <<aim, plan, probes, at, results>> /\ ~Begin
      BY <1>2 DEF Start, CheckStep, PassGate, SuspendAtGate, SwallowGate, ExecRaises,
                  BeginRaises, ToolRaises, execVars, Begin
  <2>2. Required' = Required /\ Position(at)' = Position(at) /\ AllValid' = AllValid
      BY <1>0, <2>1, RequiredStays, PositionsStay DEF AllValid
  <2>3. /\ phase' \in {"step", "gate", "tool"} => phase \in {"step", "gate", "tool"}
        /\ phase' \in {"judge", "closing"} => phase = phase'
      BY <1>2 DEF Start, CheckStep, PassGate, SuspendAtGate, SwallowGate, ExecRaises,
                  BeginRaises, ToolRaises, execVars
  <2>. QED
      BY <2>1, <2>2, <2>3 DEF JournalInv, AtWork
<1>3. ASSUME results' = results, probes' = probes, ~Begin, phase = "judge", phase' = "step",
             Position(at)' = Position(at) + 1
      PROVE  JournalInv'
  <2>1. Required' = Required /\ AllValid' = AllValid
      BY <1>0, <1>3, RequiredStays DEF AllValid
  <2>2. AllValid => /\ Len(results) = Position(at)
                    /\ Len(results) <= Len(Required)
                    /\ \A i \in 1..Len(results) : results[i].place = Required[i]
      BY <1>3 DEF JournalInv, AtWork
  <2>3. Position(at)' - 1 = Position(at)
      BY <1>0, <1>3
  <2>. QED
      BY <1>3, <2>1, <2>2, <2>3 DEF JournalInv
<1>4. CASE AfterPreflight
  <2>1. /\ results' = results /\ ~Begin /\ phase = "judge" /\ phase' = "step" /\ probes' = probes
        /\ at.part = "preflight" /\ aim = "deploy"
      BY <1>0, <1>4 DEF AfterPreflight, Begin, WhereInv, AtWork, StepsOf
  <2>2. Offset("plan") = 3 /\ at.n \in 1..3 /\ Len(Preflight) = 3
      BY <1>0, <1>4, <2>1, OffsetsOfParts, StepsByPart, KindsOfSteps
      DEF WhereInv, AtWork, AfterPreflight
  <2>3. Position(at) = at.n /\ Offset("preflight")' = 0 /\ Offset("plan")' = 3
      BY <1>0, <2>1, <2>2, OffsetsOfParts, OffsetsStay DEF Position
  <2>4. CASE at.n < 3
      BY <1>3, <1>4, <2>1, <2>2, <2>3, <2>4 DEF AfterPreflight, Position, Place
  <2>5. CASE at.n = 3
      BY <1>3, <1>4, <2>1, <2>2, <2>3, <2>5 DEF AfterPreflight, Position, Place
  <2>. QED
      BY <2>2, <2>4, <2>5
<1>5. CASE Continue
  <2>1. results' = results /\ ~Begin /\ phase = "judge" /\ probes' = probes /\ at.part = "plan"
      BY <1>5 DEF Continue, Begin
  <2>2. CASE at.n < Len(plan)
    <3>1. at' = Place("plan", at.n + 1) /\ phase' = "step"
        BY <1>5, <2>2 DEF Continue
    <3>2. Position(at)' = Position(at) + 1
        BY <1>0, <2>1, <3>1, OffsetsStay, OffsetsOfParts DEF Position, Place, Places
    <3>. QED
        BY <1>3, <2>1, <3>1, <3>2
  <2>3. CASE ~(at.n < Len(plan))
    <3>1. at' = at /\ phase' = "closing"
        BY <1>5, <2>3 DEF Continue
    <3>2. Required' = Required /\ Position(at)' = Position(at) /\ AllValid' = AllValid
        BY <1>0, <2>1, <3>1, RequiredStays, PositionsStay DEF AllValid
    <3>. QED
        BY <2>1, <3>1, <3>2 DEF JournalInv, AtWork
  <2>. QED
      BY <2>2, <2>3
<1>6. CASE Retry \/ Abort
  <2>1. phase = "judge" /\ ~Last(results).valid /\ results' = results
      BY <1>6 DEF Retry, Abort
  <2>2. ~AllValid'
      BY <1>0, <2>1 DEF OrderInv, AllValid, Last
  <2>. QED
      BY <2>2 DEF JournalInv
<1>7. CASE Close
  <2>1. results' = results /\ ~Begin /\ probes = <<>> /\ at.part = "plan" /\ phase = "closing"
      BY <1>0, <1>7 DEF Close, Begin, WhereInv
  <2>2. CASE probes' # <<>> /\ AllValid
    <3>1. phase' = "step" /\ at' = Place("contract", 1)
        BY <1>7, <2>2 DEF Close
    <3>2. Position(at) = Offset("contract") /\ Len(results) = Offset("contract")
        BY <1>0, <2>1, <2>2, OffsetsOfParts DEF OrderInv, JournalInv, Position
    <3>3. /\ Offset("contract")' = Offset("contract") /\ Offset("plan")' = Offset("plan")
          /\ Offset("contract") \in Nat /\ Len(probes) = 0
        BY <1>0, <2>1, OffsetsOfParts, OffsetsStay
    <3>4. Position(at)' = Len(results) + 1
        BY <3>1, <3>2, <3>3 DEF Position, Place
    <3>5. Len(probes') \in Nat
        BY <1>0, ExecTypeStep DEF ExecTypeOK
    <3>6. /\ Len(results) <= Len(Required')
          /\ \A i \in 1..Len(results) : Required'[i] = Required[i]
        BY <3>2, <3>3, <3>5 DEF Required, Place
    <3>. QED
        BY <2>1, <2>2, <3>1, <3>4, <3>6 DEF JournalInv, AtWork
  <2>3. CASE probes' = <<>>
      BY <1>7, <2>3 DEF Close, JournalInv, AtWork
  <2>4. CASE ~AllValid
      BY <2>1, <2>4 DEF JournalInv, AllValid
  <2>. QED
      BY <2>2, <2>3, <2>4
<1>8. CASE AfterProbe
  <2>1. results' = results /\ ~Begin /\ at.part = "contract" /\ phase = "judge" /\ probes' = probes
      BY <1>8 DEF AfterProbe, Begin
  <2>2. CASE ProbePassed /\ at.n < Len(probes)
    <3>1. phase' = "step" /\ at' = Place("contract", at.n + 1)
        BY <1>8, <2>2 DEF AfterProbe
    <3>2. Position(at)' = Position(at) + 1
        BY <1>0, <2>1, <3>1, OffsetsStay, OffsetsOfParts DEF Position, Place, Places
    <3>. QED
        BY <1>3, <2>1, <3>1, <3>2
  <2>3. CASE ~(ProbePassed /\ at.n < Len(probes))
      BY <1>8, <2>3 DEF AfterProbe, JournalInv, AtWork
  <2>. QED
      BY <2>2, <2>3
<1>9. ASSUME NEW exit \in Exits, NEW confirmed \in BOOLEAN, RunTool(exit, confirmed)
      PROVE  JournalInv'
  <2> DEFINE new == [place |-> at, attempt |-> attempt, exit |-> exit,
                     valid |-> Valid(Current, exit, confirmed)]
  <2>1. /\ results' = Append(results, new) /\ phase' = "judge" /\ phase = "tool" /\ ~Begin
        /\ UNCHANGED <<at, probes>>
      BY <1>9 DEF RunTool, Begin
  <2>2. new.place = at
      OBVIOUS
  <2> HIDE DEF new
  <2>3. /\ Len(results') = Len(results) + 1
        /\ results'[Len(results) + 1] = new
        /\ \A i \in 1..Len(results) : results'[i] = results[i]
      BY <1>0, <2>1
  <2>4. Required' = Required /\ \A part : Offset(part)' = Offset(part)
      BY <1>0, <2>1, RequiredStays, OffsetsStay
  <2>5. Position(at)' = Position(at)
      BY <2>1, <2>4 DEF Position
  <2>6. AllValid' => AllValid
      BY <1>0, <2>3 DEF AllValid
  <2>7. /\ Position(at) \in 1..Len(Required)
        /\ Required[Position(at)] = at
      BY <1>0, <2>1, RequiredAt DEF WhereInv, AtWork
  <2>8. ASSUME AllValid'
        PROVE  /\ Len(results') = Position(at)
               /\ Len(results') <= Len(Required)
               /\ \A i \in 1..Len(results') : results'[i].place = Required[i]
    <3>1. Len(results) = Position(at) - 1
          /\ \A i \in 1..Len(results) : results[i].place = Required[i]
        BY <2>1, <2>6, <2>8 DEF JournalInv, AtWork
    <3>. QED
        BY <1>0, <2>2, <2>3, <2>7, <3>1
  <2>. QED
      BY <2>1, <2>4, <2>5, <2>8 DEF JournalInv
<1>. QED
    BY <1>1, <1>2, <1>4, <1>5, <1>6, <1>7, <1>8, <1>9 DEF ExecNext, ExecStep

(* A probe of a deployment that answers with 0 is valid. *)
LEMMA ProbesAnswer ==
    ASSUME probes \in DeployProbes, NEW n \in {1, 2}, n <= Len(probes), NEW confirmed \in BOOLEAN
    PROVE  Valid(probes[n], 0, confirmed)
<1>1. probes[n] \in {Inspect, Curl}
    BY ProbePlans
<1>2. Valid(Inspect, 0, confirmed)
    BY DEF Inspect, KindOf, TypeOf, Valid
<1>3. Valid(Curl, 0, confirmed)
    BY DEF Curl, KindOf, TypeOf, Valid
<1>. QED
    BY <1>1, <1>2, <1>3

LEMMA ProbeStep == ExecInv /\ OrderInv /\ ProbeInv /\ [ExecNext]_execVars => ProbeInv'
<1> SUFFICES ASSUME ExecInv, OrderInv, ProbeInv, [ExecNext]_execVars PROVE ProbeInv'
    OBVIOUS
<1>0. /\ ExecTypeOK /\ WhereInv /\ ResultsInv /\ results \in Seq(Result) /\ at \in Places
      /\ aim' = aim
    BY HistoriesGrow DEF ExecInv, ExecTypeOK
<1>1. CASE \/ Start \/ CheckStep \/ PassGate \/ SuspendAtGate \/ SwallowGate
           \/ ExecRaises \/ UNCHANGED execVars
  <2>1. UNCHANGED <<probes, at, results>>
        /\ (phase' \in {"step", "gate", "tool"} => phase \in {"step", "gate", "tool"})
        /\ (phase' = "judge" => phase = "judge")
      BY <1>1 DEF Start, CheckStep, PassGate, SuspendAtGate, SwallowGate, ExecRaises,
                  BeginRaises, ToolRaises, execVars
  <2>2. AllValid' = AllValid /\ ProbePassed' = ProbePassed
      BY <1>0, <2>1 DEF AllValid, ProbePassed, Last
  <2>3. phase' \in AtWork => phase \in AtWork /\ (phase = "judge" => phase' = "judge")
      BY <1>1 DEF Start, CheckStep, PassGate, SuspendAtGate, SwallowGate, ExecRaises,
                  BeginRaises, ToolRaises, execVars, AtWork
  <2>. QED
      BY <1>0, <2>1, <2>2, <2>3 DEF ProbeInv, Place
<1>2. CASE Begin \/ AfterPreflight \/ Continue \/ Retry \/ Abort
  <2>1. probes' = probes /\ at.part # "contract"
      BY <1>0, <1>2 DEF Begin, AfterPreflight, Continue, Retry, Abort, WhereInv
  <2>2. at'.part # "contract"
      BY <1>2, <2>1 DEF Begin, AfterPreflight, Continue, Retry, Abort, Place
  <2>. QED
      BY <1>0, <2>1, <2>2 DEF ProbeInv
<1>3. CASE Close
  <2>1. results' = results /\ probes = <<>> /\ at.part # "contract" /\ phase = "closing"
      BY <1>0, <1>3 DEF Close, WhereInv
  <2>2. aim = "deploy" => probes' \in DeployProbes
      BY <1>3, ProbePlans DEF Close, ProbesOf
  <2>3. CASE probes' # <<>>
    <3>1. AllValid /\ AllValid' /\ phase' = "step"
        BY <1>3, <2>1, <2>3 DEF Close, AllValid
    <3>2. \A i \in 1..Len(results) : results[i].place # Place("contract", 1)
        BY <1>0, <2>1 DEF ResultsInv, Place
    <3>. QED
        BY <1>0, <2>1, <2>2, <3>1, <3>2 DEF ProbeInv, Place
  <2>4. CASE probes' = <<>>
      BY <1>0, <1>3, <2>1, <2>2, <2>4 DEF Close, ProbeInv
  <2>. QED
      BY <2>3, <2>4
<1>4. CASE AfterProbe
  <2>1. results' = results /\ probes' = probes /\ at.part = "contract" /\ phase = "judge"
      BY <1>4 DEF AfterProbe
  <2>2. CASE ProbePassed /\ at.n < Len(probes)
    <3>1. phase' = "step" /\ at' = Place("contract", at.n + 1)
        BY <1>4, <2>2 DEF AfterProbe
    <3>2. AllValid /\ AllValid'
        BY <2>1, <2>2 DEF ProbeInv, AllValid
    <3>3. aim = "deploy" => \A i \in 1..Len(results) :
              results[i].place = Place("contract", 1) => results[i].exit = 0
        BY <1>0, <2>1, <2>2 DEF ProbeInv, AtWork, ProbePassed, Last
    <3>. QED
        BY <1>0, <2>1, <3>1, <3>2, <3>3 DEF ProbeInv, Place
  <2>3. CASE ~(ProbePassed /\ at.n < Len(probes))
      BY <1>0, <1>4, <2>1, <2>3 DEF AfterProbe, ProbeInv, AtWork
  <2>. QED
      BY <2>2, <2>3
<1>5. ASSUME NEW exit \in Exits, NEW confirmed \in BOOLEAN, RunTool(exit, confirmed)
      PROVE  ProbeInv'
  <2> DEFINE new == [place |-> at, attempt |-> attempt, exit |-> exit,
                     valid |-> Valid(Current, exit, confirmed)]
  <2>1. /\ results' = Append(results, new) /\ phase' = "judge" /\ phase = "tool"
        /\ UNCHANGED <<at, probes>>
      BY <1>5 DEF RunTool
  <2>2. new.place = at /\ new.exit = exit /\ new.valid = Valid(Current, exit, confirmed)
      OBVIOUS
  <2> HIDE DEF new
  <2>3. /\ Len(results') = Len(results) + 1 /\ Len(results) \in Nat
        /\ results'[Len(results) + 1] = new
        /\ \A i \in 1..Len(results) : results'[i] = results[i]
      BY <1>0, <2>1
  <2>4. ASSUME at.part = "contract", ProbePassed'
        PROVE  AllValid'
    <3>1. new.valid
      <4>1. CASE aim = "deploy" /\ at.n <= 2
        <5>1. exit = 0
            BY <1>0, <2>1, <2>2, <2>3, <2>4, <4>1 DEF ProbePassed, Last
        <5>2. Current = probes[at.n] /\ at.n \in {1, 2} /\ at.n <= Len(probes)
            BY <1>0, <2>1, <2>4, <4>1, StepsByPart DEF Current, WhereInv, AtWork, Places
        <5>. QED
            BY <1>0, <2>2, <4>1, <5>1, <5>2, ProbesAnswer DEF ProbeInv
      <4>2. CASE ~(aim = "deploy" /\ at.n <= 2)
          BY <1>0, <2>1, <2>3, <2>4, <4>2 DEF ProbePassed, Last
      <4>. QED
          BY <4>1, <4>2
    <3>. QED
        BY <2>1, <2>3, <2>4, <3>1 DEF ProbeInv, AllValid
  <2>5. ASSUME aim = "deploy", at.part = "contract", NEW i \in 1..Len(results'),
               results'[i].place = Place("contract", 1)
        PROVE  results'[i].exit = 0 \/ (at.n = 1 /\ i = Len(results'))
    <3>1. CASE i \in 1..Len(results)
        BY <2>1, <2>3, <2>5, <3>1 DEF ProbeInv, AtWork
    <3>2. CASE i = Len(results')
        BY <2>2, <2>3, <2>5, <3>2 DEF Place
    <3>. QED
        BY <2>3, <3>1, <3>2
  <2>. QED
      BY <1>0, <2>1, <2>4, <2>5 DEF ProbeInv, Place
<1>. QED
    BY <1>1, <1>2, <1>3, <1>4, <1>5 DEF ExecNext, ExecStep

(* A journal without a failure that is as long as it has to be. *)
LEMMA JournalIsRequired ==
    ASSUME ExecTypeOK, Len(results) = Len(Required),
           \A i \in 1..Len(results) : results[i].place = Required[i]
    PROVE  [i \in 1..Len(results) |-> results[i].place] = Required
<1>1. Len(Required) = Offset("contract") + Len(probes)
    BY OffsetsOfParts DEF Required
<1>. QED
    BY <1>1 DEF Required

LEMMA EarnedStep ==
    ExecInv /\ OrderInv /\ JournalInv /\ ProbeInv /\ SuccessIsEarned /\ [ExecNext]_execVars
        => SuccessIsEarned'
<1> SUFFICES ASSUME ExecInv, OrderInv, JournalInv, ProbeInv, SuccessIsEarned,
                    [ExecNext]_execVars, verdict' = "success"
             PROVE  SuccessIsEarned'
    BY DEF SuccessIsEarned
<1>0. /\ ExecTypeOK /\ WhereInv /\ ResultsInv /\ results \in Seq(Result) /\ at \in Places
      /\ aim' = aim
    BY HistoriesGrow DEF ExecInv, ExecTypeOK
<1>1. CASE Close
  <2>1. /\ results' = results /\ ~Begin /\ probes = <<>> /\ at.part = "plan"
        /\ phase = "closing" /\ phase' = "over" /\ probes' = <<>> /\ AllValid /\ aim # "deploy"
    <3>1. verdict = "none"
        BY <1>0, <1>1 DEF Close, WhereInv, ExecTypeOK
    <3>. QED
        BY <1>0, <1>1, <3>1 DEF Close, Begin, WhereInv
  <2>2. Len(results) = Offset("contract")
      BY <1>0, <2>1, OffsetsOfParts DEF OrderInv, JournalInv, Position
  <2>3. Len(Required) = Offset("contract")
      BY <1>0, <2>1, OffsetsOfParts DEF Required
  <2>4. \A i \in 1..Len(results) : results[i].place = Required[i]
      BY <2>1 DEF JournalInv, AtWork
  <2>5. Required' = Required
      BY <1>0, <2>1, RequiredStays
  <2>6. AllValid'
      BY <2>1 DEF AllValid
  <2>. QED
      BY <1>0, <2>1, <2>2, <2>3, <2>4, <2>5, <2>6, JournalIsRequired DEF SuccessIsEarned
<1>2. CASE AfterProbe
  <2>1. /\ results' = results /\ ~Begin /\ probes' = probes /\ probes # <<>>
        /\ at.part = "contract" /\ phase = "judge"
      BY <1>0, <1>2 DEF AfterProbe, Begin, WhereInv
  <2>2. verdict = "none" /\ at.n \in 1..Len(probes) /\ Len(probes) \in Nat
      BY <1>0, <2>1, StepsByPart DEF WhereInv, ExecTypeOK, AtWork
  <2>3. ProbePassed /\ ~(at.n < Len(probes))
      BY <1>2, <2>2 DEF AfterProbe
  <2>4. AllValid /\ AllValid'
      BY <2>1, <2>3 DEF ProbeInv, AllValid
  <2>5. Len(results) = Position(at) /\ Position(at) = Offset("contract") + Len(probes)
      BY <1>0, <2>1, <2>2, <2>3, <2>4, OffsetsOfParts DEF JournalInv, Position
  <2>6. Len(Required) = Offset("contract") + Len(probes)
      BY <1>0, OffsetsOfParts DEF Required
  <2>7. \A i \in 1..Len(results) : results[i].place = Required[i]
      BY <2>1, <2>4 DEF JournalInv, AtWork
  <2>8. Required' = Required
      BY <1>0, <2>1, RequiredStays
  <2>9. aim = "deploy" => \A i \in 1..Len(results) :
            results[i].place = Place("contract", 1) => results[i].exit = 0
      BY <1>0, <2>1, <2>3 DEF ProbeInv, AtWork, ProbePassed, Last
  <2>. QED
      BY <1>0, <2>1, <2>4, <2>5, <2>6, <2>7, <2>8, <2>9, JournalIsRequired
      DEF SuccessIsEarned, Place
<1>3. CASE UNCHANGED execVars
  <2>1. UNCHANGED <<aim, plan, probes, results, verdict>>
      BY <1>3 DEF execVars
  <2>2. StepsOf("preflight")' = StepsOf("preflight") /\ StepsOf("plan")' = StepsOf("plan")
      BY <2>1, StepsByPart
  <2>3. Required' = Required /\ AllValid' = AllValid
      BY <2>1, <2>2 DEF Required, Offset, AllValid, Place
  <2>. QED
      BY <2>1, <2>3 DEF SuccessIsEarned, Place
<1>4. CASE verdict' = verdict /\ phase # "over"
    BY <1>0, <1>4 DEF WhereInv
<1>. QED
    BY <1>1, <1>2, <1>3, <1>4
    DEF ExecNext, ExecStep, Start, Begin, CheckStep, AfterPreflight, Continue, Retry, Abort,
        ExecRaises, BeginRaises, ToolRaises, RunTool, PassGate, SuspendAtGate, SwallowGate

(* For every plan, a run that succeeds has executed each required step     *)
(* once, in order and with a valid result, and a deployment was probed.    *)
THEOREM SuccessIsAlwaysEarned == Spec => []SuccessIsEarned
<1> DEFINE I == ExecInv /\ OrderInv /\ JournalInv /\ ProbeInv /\ SuccessIsEarned
<1>1. Init => I
  <2>1. ExecInit => OrderInv /\ JournalInv /\ SuccessIsEarned
      BY DEF ExecInit, OrderInv, JournalInv, SuccessIsEarned, AtWork
  <2>2. ExecInit => ProbeInv
      BY ProbePlans DEF ExecInit, ProbeInv, Place, AtWork
  <2>. QED
      BY <2>1, <2>2, ExecInvInit DEF Init
<1>2. I /\ [Next]_vars => I'
    BY ExecInvStep, OrderStep, JournalStep, ProbeStep, EarnedStep, StepsOfParts
<1>3. I => SuccessIsEarned
    OBVIOUS
<1>. QED
    BY <1>1, <1>2, <1>3, PTL DEF Spec

-----------------------------------------------------------------------------
(* What needs allow_write.                                                 *)

LEMMA NobodyMayWrite == ~AllowWrite
BY DEF AllowWrite, Permitted, MayUse, Requests, Found, Owners, Nobody

(* No execution of a step that writes has a valid result. *)
WritesFail ==
    \A i \in 1..Len(results) :
        StepsOf(results[i].place.part)[results[i].place.n].writes => ~results[i].valid

LEMMA WritesStep ==
    ExecInv /\ ExecInv' /\ WritesFail /\ [ExecNext]_execVars => WritesFail'
<1> SUFFICES ASSUME ExecInv, ExecInv', WritesFail, [ExecNext]_execVars,
                    NEW i \in 1..Len(results'),
                    (StepsOf(results[i].place.part)[results[i].place.n].writes)'
             PROVE  ~results'[i].valid
    BY DEF WritesFail
<1>0. results \in Seq(Result)
    BY DEF ExecInv, ExecTypeOK
<1>1. ASSUME i \in 1..Len(results), results'[i] = results[i]
      PROVE  ~results'[i].valid
  <2>1. StepsOf(results[i].place.part)[results[i].place.n].writes
      BY <1>1, HistoriesGrow DEF ExecInv
  <2>. QED
      BY <1>1, <2>1 DEF WritesFail
<1>2. CASE results' = results
    BY <1>1, <1>2
<1>3. CASE results' # results
  <2>1. PICK exit \in Exits, confirmed \in BOOLEAN :
            /\ exit \in ExitsOf(Current)
            /\ results' = Append(results, [place |-> at, attempt |-> attempt, exit |-> exit,
                                           valid |-> Valid(Current, exit, confirmed)])
      BY <1>3, HistoriesGrow DEF ExecInv
  <2>2. phase = "tool" /\ UNCHANGED <<aim, plan, probes, at>>
      BY <1>3, HistoriesGrow DEF ExecInv
  <2>3. CASE i \in 1..Len(results)
      BY <1>0, <1>1, <2>1, <2>3
  <2>4. CASE i = Len(results) + 1
    <3>1. results'[i].place = at /\ results'[i].valid = Valid(Current, exit, confirmed)
        BY <1>0, <2>1, <2>4
    <3>2. Current.writes
        BY <2>2, <3>1 DEF StepsOf, Preflight, Current
    <3>3. Current \in StepKind
        BY <2>2, CurrentIsAStep DEF ExecInv, AtWork
    <3>4. Current.type = "ACTION" /\ exit = 1
        BY <2>1, <3>2, <3>3, NobodyMayWrite DEF StepKind, ExitsOf
    <3>5. Valid(Current, exit, confirmed) => exit = 0
        BY <3>4 DEF Valid
    <3>6. exit # 0
        BY <3>4
    <3>7. ~Valid(Current, exit, confirmed)
        BY <3>5, <3>6
    <3>. QED
        BY <3>1, <3>7
  <2>. QED
      BY <1>0, <2>1, <2>3, <2>4
<1>. QED
    BY <1>2, <1>3

(* Where the steps of a plan are among the steps that are required. *)
LEMMA PlanIsRequired ==
    ASSUME ExecTypeOK, NEW i \in 1..Len(plan)
    PROVE  /\ Offset("plan") + i \in 1..Len(Required)
           /\ Required[Offset("plan") + i] = Place("plan", i)
BY OffsetsOfParts DEF Required, ExecTypeOK

(* The executor asks for the permission of a user without a name: whatever *)
(* a plan is, if it has to write a file or a setting it does not succeed.  *)
THEOREM WritingPlansFail == Spec => []NoPlanWrites
<1> DEFINE I == ExecInv /\ OrderInv /\ JournalInv /\ ProbeInv /\ SuccessIsEarned /\ WritesFail
<1>1. Init => I
  <2>1. ExecInit => OrderInv /\ JournalInv /\ SuccessIsEarned /\ WritesFail
      BY DEF ExecInit, OrderInv, JournalInv, SuccessIsEarned, AtWork, WritesFail
  <2>2. ExecInit => ProbeInv
      BY ProbePlans DEF ExecInit, ProbeInv, Place, AtWork
  <2>. QED
      BY <2>1, <2>2, ExecInvInit DEF Init
<1>2. I /\ [Next]_vars => I'
    BY ExecInvStep, OrderStep, JournalStep, ProbeStep, EarnedStep, WritesStep, StepsOfParts
<1>3. I => NoPlanWrites
  <2> SUFFICES ASSUME ExecTypeOK, SuccessIsEarned, WritesFail, verdict = "success",
                      NEW i \in 1..Len(plan), plan[i].writes
               PROVE  FALSE
      BY DEF NoPlanWrites, ExecInv
  <2> DEFINE n == Offset("plan") + i
  <2>1. n \in 1..Len(Required) /\ Required[n] = Place("plan", i)
      BY PlanIsRequired
  <2>2. [k \in 1..Len(results) |-> results[k].place] = Required /\ AllValid
      BY DEF SuccessIsEarned
  <2>3. n \in 1..Len(results) /\ results[n].place = Place("plan", i)
    <3> HIDE DEF n
    <3>1. Len(results) \in Nat
        BY DEF ExecTypeOK
    <3>2. Len(Required) = Len(results)
        BY <2>2, <3>1
    <3>. QED
        BY <2>1, <2>2, <3>2
  <2>4. StepsOf(results[n].place.part)[results[n].place.n].writes
      BY <2>3, StepsByPart DEF Place
  <2>. QED
      BY <2>2, <2>3, <2>4 DEF WritesFail, AllValid
<1>. QED
    BY <1>1, <1>2, <1>3, PTL DEF Spec
=============================================================================
