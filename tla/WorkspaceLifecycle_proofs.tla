---------------------- MODULE WorkspaceLifecycle_proofs ----------------------
(* Proofs about the ledger: creating a workspace is all or nothing, and a  *)
(* workspace is never listed without its directory, for any number of      *)
(* creates at the same time, clean failures and restarts.                  *)
EXTENDS WorkspaceLifecycle, TLAPS

(* Only creates, each of a workspace of its own, on an empty server, whose *)
(* failing steps leave nothing done.                                       *)
CreatesOnly ==
    /\ \A o \in Ops : Kind[o] = "create"
    /\ \A o, p \in Ops : Target[o] = Target[p] => o = p
    /\ Existing = {}
    /\ FaultKinds \subseteq {"refused"}

(* How many steps of its plan an operation has done and not undone. *)
Done(o) == IF phase[o] = "running" THEN at[o] - 1 ELSE at[o]

(* The world of a create that is in progress, step by step. *)
LinkedWorld(o) ==
    LET w == Target[o] n == Done(o) IN
    /\ n \in 0..3
    /\ dir[w] <=> n >= 1
    /\ conn[w] <=> n >= 2
    /\ row[w] = IF n >= 3 THEN "linked" ELSE "none"

KeyedWorld(o) ==
    LET w == Target[o] n == Done(o) IN
    /\ n \in 0..2
    /\ dir[w] <=> n >= 1
    /\ ~conn[w]
    /\ row[w] = IF n >= 2 THEN "keyed" ELSE "none"

PlainWorld(o) ==
    LET w == Target[o] n == Done(o) IN
    /\ n \in 0..1
    /\ dir[w] <=> n >= 1
    /\ ~conn[w]
    /\ row[w] = "none"

CreateInv(o) ==
    LET w == Target[o] IN
    /\ phase[o] \in {"idle", "refused", "failed"} => row[w] = "none" /\ ~conn[w] /\ ~dir[w]
    /\ phase[o] \in {"running", "undoing"} =>
          /\ link[o] = RowOf(w)
          /\ w \in App => LinkedWorld(o)
          /\ w \in Ssh => KeyedWorld(o)
          /\ w \notin App /\ w \notin Ssh => PlainWorld(o)
    /\ phase[o] = "undoing" => at[o] >= 1
    /\ row[w] # "none" => dir[w]

SagaInv ==
    /\ row \in [Workspaces -> Rows] /\ conn \in [Workspaces -> BOOLEAN] /\ dir \in [Workspaces -> BOOLEAN]
    /\ phase \in [Ops -> Phases] /\ at \in [Ops -> Nat] /\ link \in [Ops -> Rows]
    /\ \A o \in Ops : CreateInv(o)
    /\ \A w \in Workspaces : (\A o \in Ops : Target[o] # w) => row[w] = "none"

-----------------------------------------------------------------------------
(* The plan of a create, step by step. *)
LEMMA PlanFacts ==
    ASSUME NEW o \in Ops, Kind[o] = "create"
    PROVE  /\ link[o] = "linked" =>
                /\ Len(Plan(o)) = 4
                /\ Plan(o)[1] = "mkdir" /\ Plan(o)[2] = "addConn"
                /\ Plan(o)[3] = "addRow" /\ Plan(o)[4] = "clone"
           /\ link[o] = "keyed" =>
                /\ Len(Plan(o)) = 3
                /\ Plan(o)[1] = "mkdir" /\ Plan(o)[2] = "addRow" /\ Plan(o)[3] = "clone"
           /\ link[o] = "plain" =>
                /\ Len(Plan(o)) = 2 /\ Plan(o)[1] = "mkdir" /\ Plan(o)[2] = "addRow"
BY DEF Plan, CreatePlan

(* An operation that leaves the workspace and the state of another one     *)
(* alone leaves its invariant alone.                                       *)
LEMMA OthersKept ==
    ASSUME NEW o \in Ops, CreateInv(o),
           row'[Target[o]] = row[Target[o]], conn'[Target[o]] = conn[Target[o]],
           dir'[Target[o]] = dir[Target[o]],
           phase'[o] = phase[o], at'[o] = at[o], link'[o] = link[o]
    PROVE  CreateInv(o)'
BY DEF CreateInv, LinkedWorld, KeyedWorld, PlainWorld, Done, RowOf

(* What a step of one operation does not touch. *)
Apart(o) ==
    /\ \A w \in Workspaces : w # Target[o] => row'[w] = row[w] /\ conn'[w] = conn[w] /\ dir'[w] = dir[w]
    /\ \A p \in Ops : p # o => phase'[p] = phase[p] /\ at'[p] = at[p] /\ link'[p] = link[p]
    /\ row' \in [Workspaces -> Rows] /\ conn' \in [Workspaces -> BOOLEAN] /\ dir' \in [Workspaces -> BOOLEAN]
    /\ phase' \in [Ops -> Phases] /\ at' \in [Ops -> Nat] /\ link' \in [Ops -> Rows]

LEMMA ApartKeeps ==
    ASSUME CreatesOnly, SagaInv, NEW o \in Ops, Apart(o), CreateInv(o)'
    PROVE  SagaInv'
<1>1. ASSUME NEW p \in Ops, p # o PROVE CreateInv(p)'
  <2>1. Target[p] \in Workspaces /\ Target[p] # Target[o]
    BY <1>1, OpsAssumption DEF CreatesOnly
  <2> QED
    BY <1>1, <2>1, OthersKept DEF Apart, SagaInv
<1>2. ASSUME NEW w \in Workspaces, \A p \in Ops : Target[p] # w PROVE row'[w] = "none"
  BY <1>2 DEF Apart, SagaInv
<1> QED
  BY <1>1, <1>2 DEF SagaInv, Apart

-----------------------------------------------------------------------------
CreateSteps == {"mkdir", "addConn", "addRow", "clone", "rmdir", "dropConn", "dropRow"}

(* A step of a create touches the workspace of its operation only. *)
LEMMA EffectApart ==
    ASSUME SagaInv, NEW o \in Ops, NEW step \in CreateSteps, Effect(step, o)
    PROVE  LET w == Target[o] IN
           /\ row' \in [Workspaces -> Rows] /\ conn' \in [Workspaces -> BOOLEAN]
           /\ dir' \in [Workspaces -> BOOLEAN]
           /\ \A v \in Workspaces : v # w => row'[v] = row[v] /\ conn'[v] = conn[v] /\ dir'[v] = dir[v]
           /\ row'[w] = RowAfter(step, o, w)
           /\ conn'[w] <=> (step = "addConn" \/ (conn[w] /\ step # "dropConn"))
           /\ dir'[w] <=> (step \in {"mkdir", "clone"} \/ (dir[w] /\ step # "rmdir"))
<1>1. Target[o] \in Workspaces
  BY OpsAssumption
<1>2. \A v \in Workspaces : RowAfter(step, o, v) \in Rows
  BY <1>1 DEF RowAfter, SagaInv, Rows
<1>3. \A v \in Workspaces : v # Target[o] => RowAfter(step, o, v) = row[v]
  BY DEF RowAfter, CreateSteps
<1> QED
  BY <1>1, <1>2, <1>3 DEF Effect, SagaInv, CreateSteps

(* Turning back and going on touch the operation only. *)
LEMMA TurnApart ==
    ASSUME SagaInv, NEW o \in Ops, NEW n \in Nat, TurnTo(o, n)
    PROVE  /\ \A p \in Ops : p # o => phase'[p] = phase[p] /\ at'[p] = at[p] /\ link'[p] = link[p]
           /\ phase' \in [Ops -> Phases] /\ at' \in [Ops -> Nat] /\ link' \in [Ops -> Rows]
           /\ phase'[o] = (IF n = 0 THEN "failed" ELSE "undoing") /\ at'[o] = n /\ link'[o] = link[o]
BY DEF TurnTo, SagaInv, Phases, Closed

LEMMA BeginKeeps ==
    ASSUME CreatesOnly, SagaInv, NEW o \in Ops, Begin(o)
    PROVE  SagaInv'
<1>1. Kind[o] = "create" /\ Target[o] \in Workspaces /\ RowOf(Target[o]) \in Rows
  BY OpsAssumption DEF CreatesOnly, RowOf, Rows
<1>2. Apart(o)
  BY <1>1 DEF Begin, world, Apart, SagaInv, Phases, Closed
<1>3. CreateInv(o)
  BY DEF SagaInv
<1>4. CreateInv(o)'
  BY <1>1, <1>3 DEF Begin, world, SagaInv, CreateInv, LinkedWorld, KeyedWorld, PlainWorld, Done, RowOf
<1> QED
  BY <1>2, <1>4, ApartKeeps

(* Where a running create of a linked or of a plain workspace is. *)
LEMMA RunningFacts ==
    ASSUME CreatesOnly, SagaInv, NEW o \in Ops, Running(o)
    PROVE  /\ Target[o] \in Workspaces /\ Kind[o] = "create"
           /\ Target[o] \in App => link[o] = "linked" /\ at[o] \in {1, 2, 3, 4} /\ LinkedWorld(o)
           /\ Target[o] \in Ssh => link[o] = "keyed" /\ at[o] \in {1, 2, 3} /\ KeyedWorld(o)
           /\ Target[o] \notin App /\ Target[o] \notin Ssh =>
                link[o] = "plain" /\ at[o] \in {1, 2} /\ PlainWorld(o)
           /\ Done(o) = at[o] - 1
BY OpsAssumption, WorkspacesAssumption DEF CreatesOnly, SagaInv, CreateInv, Running, RowOf, LinkedWorld, KeyedWorld, PlainWorld, Done

LEMMA DoKeeps ==
    ASSUME CreatesOnly, SagaInv, NEW o \in Ops, Do(o)
    PROVE  SagaInv'
<1> DEFINE w == Target[o]
<1>r. Running(o)
  BY DEF Do
<1>f. /\ w \in Workspaces /\ Kind[o] = "create"
      /\ w \in App => link[o] = "linked" /\ at[o] \in {1, 2, 3, 4} /\ LinkedWorld(o)
      /\ w \in Ssh => link[o] = "keyed" /\ at[o] \in {1, 2, 3} /\ KeyedWorld(o)
      /\ w \notin App /\ w \notin Ssh => link[o] = "plain" /\ at[o] \in {1, 2} /\ PlainWorld(o)
      /\ Done(o) = at[o] - 1
  BY <1>r, RunningFacts
<1>s. Step(o) \in {"mkdir", "addConn", "addRow"} /\ Effect(Step(o), o) /\ Continue(o)
  BY <1>f, PlanFacts DEF Do, Step, Skips
<1>n. NextStep(o) = at[o] + 1
  BY <1>s DEF NextStep
<1>a. Apart(o)
  BY <1>f, <1>s, <1>n, EffectApart DEF Apart, Continue, CreateSteps, SagaInv, Phases, Closed
<1>e. /\ row'[w] = RowAfter(Step(o), o, w)
      /\ conn'[w] <=> (Step(o) = "addConn" \/ (conn[w] /\ Step(o) # "dropConn"))
      /\ dir'[w] <=> (Step(o) \in {"mkdir", "clone"} \/ (dir[w] /\ Step(o) # "rmdir"))
  BY <1>s, EffectApart DEF CreateSteps
<1>p. /\ at'[o] = at[o] + 1 /\ link'[o] = link[o]
      /\ phase'[o] = IF at[o] + 1 > Len(Plan(o)) THEN "ok" ELSE "running"
  BY <1>s, <1>n DEF Continue, SagaInv
<1>m. /\ w \in App => (at[o] = 1 /\ Step(o) = "mkdir") \/ (at[o] = 2 /\ Step(o) = "addConn")
                            \/ (at[o] = 3 /\ Step(o) = "addRow")
      /\ w \in App => Len(Plan(o)) = 4
      /\ w \in Ssh => (at[o] = 1 /\ Step(o) = "mkdir") \/ (at[o] = 2 /\ Step(o) = "addRow")
      /\ w \in Ssh => Len(Plan(o)) = 3
      /\ w \notin App /\ w \notin Ssh =>
            (at[o] = 1 /\ Step(o) = "mkdir") \/ (at[o] = 2 /\ Step(o) = "addRow")
      /\ w \notin App /\ w \notin Ssh => Len(Plan(o)) = 2
  BY <1>f, <1>s, PlanFacts DEF Step
<1>i. CreateInv(o)'
  <2>1. CASE w \in App
    <3>1. at[o] \in {1, 2, 3} /\ phase'[o] = "running"
      <4>1. at[o] = 1 \/ at[o] = 2 \/ at[o] = 3
        BY <1>m, <2>1
      <4>2. Len(Plan(o)) = 4
        BY <1>m, <2>1
      <4>3. ~(at[o] + 1 > Len(Plan(o)))
        BY <4>1, <4>2
      <4> QED
        BY <1>p, <4>1, <4>3
    <3>2. LinkedWorld(o)'
      <4>1. CASE at[o] = 1
        BY <1>f, <1>m, <1>p, <1>e, <2>1, <3>1, <4>1 DEF LinkedWorld, Done, RowAfter
      <4>2. CASE at[o] = 2
        BY <1>f, <1>m, <1>p, <1>e, <2>1, <3>1, <4>2 DEF LinkedWorld, Done, RowAfter
      <4>3. CASE at[o] = 3
        BY <1>f, <1>m, <1>p, <1>e, <2>1, <3>1, <4>3 DEF LinkedWorld, Done, RowAfter
      <4> QED
        BY <3>1, <4>1, <4>2, <4>3
    <3> QED
      BY <1>f, <1>p, <1>e, <2>1, <3>1, <3>2 DEF CreateInv, RowOf, LinkedWorld
  <2>2. CASE w \in Ssh
    <3>0. Len(Plan(o)) = 3 /\ (at[o] = 1 \/ at[o] = 2) /\ w \notin App
      BY <1>m, <2>2, WorkspacesAssumption
    <3>1. phase'[o] = "running" /\ at'[o] = at[o] + 1
      <4>1. ~(at[o] + 1 > Len(Plan(o)))
        BY <3>0
      <4> QED
        BY <1>p, <4>1
    <3>2. KeyedWorld(o)' /\ (row'[w] # "none" => dir'[w])
      <4>1. CASE at[o] = 1
        BY <1>f, <1>m, <1>e, <2>2, <3>1, <4>1 DEF KeyedWorld, Done, RowAfter
      <4>2. CASE at[o] = 2
        BY <1>f, <1>m, <1>e, <2>2, <3>1, <4>2 DEF KeyedWorld, Done, RowAfter
      <4> QED
        BY <3>0, <4>1, <4>2
    <3> QED
      BY <1>f, <1>p, <2>2, <3>0, <3>1, <3>2 DEF CreateInv, RowOf
  <2>3. CASE w \notin App /\ w \notin Ssh
    <3>1. CASE at[o] = 1
      BY <1>f, <1>m, <1>p, <1>e, <2>3, <3>1 DEF PlainWorld, Done, RowAfter, CreateInv, RowOf
    <3>2. CASE at[o] = 2
      <4>1. phase'[o] = "ok"
        <5>0. Len(Plan(o)) = 2
          BY <1>m, <2>3
        <5>1. at[o] + 1 > Len(Plan(o))
          BY <5>0, <3>2
        <5> QED
          BY <1>p, <5>1
      <4>2. row'[w] = "plain" /\ dir'[w]
        BY <1>f, <1>m, <1>e, <2>3, <3>2 DEF PlainWorld, RowAfter
      <4> QED
        BY <4>1, <4>2 DEF CreateInv
    <3> QED
      BY <1>f, <2>3, <3>1, <3>2
  <2> QED
    BY <2>1, <2>2, <2>3
<1> QED
  BY <1>a, <1>i, ApartKeeps

(* Turning back without an effect: the steps that are done stay done. *)
LEMMA TurnKeeps ==
    ASSUME CreatesOnly, SagaInv, NEW o \in Ops, Running(o), TurnTo(o, at[o] - 1),
           row' = row, conn' = conn, dir' = dir
    PROVE  SagaInv'
<1> DEFINE w == Target[o]
<1>f. /\ w \in Workspaces /\ at[o] - 1 \in Nat
      /\ w \in App => link[o] = "linked" /\ at[o] \in {1, 2, 3, 4} /\ LinkedWorld(o)
      /\ w \in Ssh => link[o] = "keyed" /\ at[o] \in {1, 2, 3} /\ KeyedWorld(o)
      /\ w \notin App /\ w \notin Ssh => link[o] = "plain" /\ at[o] \in {1, 2} /\ PlainWorld(o)
      /\ Done(o) = at[o] - 1
  BY RunningFacts
<1>t. /\ \A p \in Ops : p # o => phase'[p] = phase[p] /\ at'[p] = at[p] /\ link'[p] = link[p]
      /\ phase' \in [Ops -> Phases] /\ at' \in [Ops -> Nat] /\ link' \in [Ops -> Rows]
      /\ phase'[o] = (IF at[o] - 1 = 0 THEN "failed" ELSE "undoing")
      /\ at'[o] = at[o] - 1 /\ link'[o] = link[o]
  BY <1>f, TurnApart
<1>a. Apart(o)
  BY <1>t DEF Apart, SagaInv
<1>c. row' = row /\ conn' = conn /\ dir' = dir
  OBVIOUS
<1>i. CreateInv(o)'
  <2>1. CASE at[o] = 1
    <3>1. phase'[o] = "failed"
      BY <1>t, <2>1
    <3>2. row[w] = "none" /\ ~conn[w] /\ ~dir[w]
      BY <1>f, <2>1 DEF LinkedWorld, KeyedWorld, PlainWorld
    <3> QED
      BY <1>c, <3>1, <3>2 DEF CreateInv
  <2>2. CASE at[o] # 1
    <3>1. phase'[o] = "undoing" /\ at'[o] >= 1 /\ Done(o)' = Done(o)
      BY <1>f, <1>t, <2>2 DEF Done
    <3>2. /\ w \in App => LinkedWorld(o)'
          /\ w \in Ssh => KeyedWorld(o)'
          /\ w \notin App /\ w \notin Ssh => PlainWorld(o)'
      BY <1>f, <1>c, <3>1 DEF LinkedWorld, KeyedWorld, PlainWorld
    <3> QED
      BY <1>f, <1>t, <1>c, <3>1, <3>2 DEF CreateInv, RowOf, LinkedWorld, KeyedWorld, PlainWorld
  <2> QED
    BY <2>1, <2>2
<1> QED
  BY <1>a, <1>i, ApartKeeps

(* The clone always fails, with everything else done. *)
LEMMA ShipKeeps ==
    ASSUME CreatesOnly, SagaInv, NEW o \in Ops, Ship(o) \/ ShipWithKey(o)
    PROVE  SagaInv'
<1> DEFINE w == Target[o]
<1>r. Running(o) /\ Step(o) = "clone" /\ TurnTo(o, at[o] - 1)
  BY DEF Ship, ShipWithKey
<1>f. /\ w \in Workspaces /\ Kind[o] = "create"
      /\ w \in App => link[o] = "linked" /\ at[o] \in {1, 2, 3, 4} /\ LinkedWorld(o)
      /\ w \in Ssh => link[o] = "keyed" /\ at[o] \in {1, 2, 3} /\ KeyedWorld(o)
      /\ w \notin App /\ w \notin Ssh => link[o] = "plain" /\ at[o] \in {1, 2}
      /\ Done(o) = at[o] - 1
  BY <1>r, RunningFacts
<1>m. (w \in App /\ at[o] = 4) \/ (w \in Ssh /\ at[o] = 3)
  BY <1>r, <1>f, PlanFacts DEF Step
<1>d. dir[w]
  BY <1>f, <1>m DEF LinkedWorld, KeyedWorld
<1>e. Effect("clone", o) \/ UNCHANGED world
  BY DEF Ship, ShipWithKey
<1>w. row' = row /\ conn' = conn /\ dir' = dir
  <2>1. CASE UNCHANGED world
    BY <2>1 DEF world
  <2>2. CASE Effect("clone", o)
    <3>1. row' = row
      BY <2>2 DEF Effect, RowAfter, SagaInv
    <3>2. conn' = conn
      BY <2>2, <1>f DEF Effect, SagaInv
    <3>3. dir' = dir
      BY <2>2, <1>d, <1>f DEF Effect, SagaInv
    <3> QED
      BY <3>1, <3>2, <3>3
  <2> QED
    BY <1>e, <2>1, <2>2
<1> QED
  BY <1>r, <1>w, TurnKeeps

LEMMA UndoKeeps ==
    ASSUME CreatesOnly, SagaInv, NEW o \in Ops, Undo(o)
    PROVE  SagaInv'
<1> DEFINE w == Target[o]
           step == Inverse(Step(o))
<1>f. /\ w \in Workspaces /\ Kind[o] = "create" /\ Done(o) = at[o]
      /\ w \in App => link[o] = "linked" /\ at[o] \in {1, 2, 3} /\ LinkedWorld(o)
      /\ w \in Ssh => w \notin App /\ link[o] = "keyed" /\ at[o] \in {1, 2} /\ KeyedWorld(o)
      /\ w \notin App /\ w \notin Ssh => link[o] = "plain" /\ at[o] = 1 /\ PlainWorld(o)
  BY OpsAssumption, WorkspacesAssumption DEF Undo, CreatesOnly, SagaInv, CreateInv, RowOf, LinkedWorld, KeyedWorld, PlainWorld, Done
<1>m. /\ w \in App => (at[o] = 1 /\ Step(o) = "mkdir") \/ (at[o] = 2 /\ Step(o) = "addConn")
                            \/ (at[o] = 3 /\ Step(o) = "addRow")
      /\ w \in Ssh => (at[o] = 1 /\ Step(o) = "mkdir") \/ (at[o] = 2 /\ Step(o) = "addRow")
      /\ w \notin App /\ w \notin Ssh => at[o] = 1 /\ Step(o) = "mkdir"
  BY <1>f, PlanFacts DEF Step
<1>n. /\ w \in App => (at[o] = 1 /\ step = "rmdir") \/ (at[o] = 2 /\ step = "dropConn")
                            \/ (at[o] = 3 /\ step = "dropRow")
      /\ w \in Ssh => (at[o] = 1 /\ step = "rmdir") \/ (at[o] = 2 /\ step = "dropRow")
      /\ w \notin App /\ w \notin Ssh => at[o] = 1 /\ step = "rmdir"
      /\ at[o] - 1 \in Nat
  BY <1>m DEF Inverse
<1>e. Effect(step, o) /\ TurnTo(o, at[o] - 1)
  BY <1>n DEF Undo, Permitted
<1>x. /\ row' \in [Workspaces -> Rows] /\ conn' \in [Workspaces -> BOOLEAN]
      /\ dir' \in [Workspaces -> BOOLEAN]
      /\ \A v \in Workspaces : v # w => row'[v] = row[v] /\ conn'[v] = conn[v] /\ dir'[v] = dir[v]
      /\ row'[w] = RowAfter(step, o, w)
      /\ conn'[w] <=> (step = "addConn" \/ (conn[w] /\ step # "dropConn"))
      /\ dir'[w] <=> (step \in {"mkdir", "clone"} \/ (dir[w] /\ step # "rmdir"))
  BY <1>e, <1>n, EffectApart DEF CreateSteps
<1>t. /\ \A p \in Ops : p # o => phase'[p] = phase[p] /\ at'[p] = at[p] /\ link'[p] = link[p]
      /\ phase' \in [Ops -> Phases] /\ at' \in [Ops -> Nat] /\ link' \in [Ops -> Rows]
      /\ phase'[o] = (IF at[o] - 1 = 0 THEN "failed" ELSE "undoing")
      /\ at'[o] = at[o] - 1 /\ link'[o] = link[o]
  BY <1>n, <1>e, TurnApart
<1>a. Apart(o)
  BY <1>x, <1>t DEF Apart
<1>i. CreateInv(o)'
  <2>1. CASE at[o] = 1
    <3>1. phase'[o] = "failed"
      BY <1>t, <2>1
    <3>2. row'[w] = "none" /\ ~conn'[w] /\ ~dir'[w]
      BY <1>f, <1>n, <1>x, <2>1 DEF LinkedWorld, KeyedWorld, PlainWorld, RowAfter
    <3> QED
      BY <3>1, <3>2 DEF CreateInv
  <2>4. CASE at[o] = 2 /\ w \in Ssh
    <3>1. phase'[o] = "undoing" /\ at'[o] = 1 /\ w \notin App
      BY <1>f, <1>t, <2>4
    <3>2. row'[w] = "none" /\ ~conn'[w] /\ dir'[w]
      BY <1>f, <1>n, <1>x, <2>4, <3>1 DEF KeyedWorld, RowAfter
    <3> QED
      BY <1>f, <1>t, <2>4, <3>1, <3>2 DEF CreateInv, KeyedWorld, Done, RowOf
  <2>2. CASE at[o] = 2 /\ w \notin Ssh
    <3>1. phase'[o] = "undoing" /\ at'[o] = 1 /\ w \in App
      BY <1>f, <1>t, <2>2
    <3>2. row'[w] = "none" /\ ~conn'[w] /\ dir'[w]
      BY <1>f, <1>n, <1>x, <2>2, <3>1 DEF LinkedWorld, RowAfter
    <3> QED
      BY <1>f, <1>t, <2>2, <3>1, <3>2 DEF CreateInv, LinkedWorld, Done, RowOf
  <2>3. CASE at[o] = 3
    <3>1. phase'[o] = "undoing" /\ at'[o] = 2 /\ w \in App /\ w \notin Ssh
      BY <1>f, <1>t, <2>3
    <3>2. row'[w] = "none" /\ conn'[w] /\ dir'[w]
      BY <1>f, <1>n, <1>x, <2>3, <3>1 DEF LinkedWorld, RowAfter
    <3> QED
      BY <1>f, <1>t, <3>1, <3>2 DEF CreateInv, LinkedWorld, Done, RowOf
  <2> QED
    BY <1>f, <2>1, <2>2, <2>3, <2>4
<1> QED
  BY <1>a, <1>i, ApartKeeps

(* A restart cuts the creates that are in progress where they are. *)
LEMMA CrashKeeps ==
    ASSUME SagaInv, Crash
    PROVE  SagaInv'
<1>1. \A o \in Ops : phase'[o] = phase[o] \/ phase'[o] = "cut"
  BY DEF Crash, SagaInv
<1>2. phase' \in [Ops -> Phases]
  BY DEF Crash, SagaInv, Phases, Closed
<1>3. row' = row /\ conn' = conn /\ dir' = dir /\ at' = at /\ link' = link
  BY DEF Crash, world
<1>4. ASSUME NEW o \in Ops PROVE CreateInv(o)'
  <2>1. CASE phase'[o] = phase[o]
    BY <1>3, <2>1 DEF SagaInv, CreateInv, LinkedWorld, KeyedWorld, PlainWorld, Done
  <2>2. CASE phase'[o] = "cut"
    BY <1>3, <2>2 DEF SagaInv, CreateInv
  <2> QED
    BY <1>1, <2>1, <2>2
<1> QED
  BY <1>2, <1>3, <1>4 DEF SagaInv

-----------------------------------------------------------------------------
(* The invariant holds at the beginning and every step keeps it.           *)
LEMMA SagaInvInit == CreatesOnly /\ Init => SagaInv
<1> SUFFICES ASSUME CreatesOnly, Init PROVE SagaInv
  OBVIOUS
<1>1. \A o \in Ops : Target[o] \in Workspaces
  BY OpsAssumption
<1>2. /\ row = [w \in Workspaces |-> "none"]
      /\ \A w \in Workspaces : ~conn[w] /\ ~dir[w]
  BY DEF Init, CreatesOnly
<1>3. conn \in [Workspaces -> BOOLEAN] /\ dir \in [Workspaces -> BOOLEAN]
  BY DEF Init
<1> QED
  BY <1>1, <1>2, <1>3 DEF Init, SagaInv, CreateInv, Rows, Phases, Closed

LEMMA SagaInvStep == CreatesOnly /\ SagaInv /\ [Next]_vars => SagaInv'
<1> SUFFICES ASSUME CreatesOnly, SagaInv, [Next]_vars PROVE SagaInv'
  OBVIOUS
<1>1. ASSUME NEW o \in Ops, Begin(o) PROVE SagaInv'
  BY <1>1, BeginKeeps
<1>2. ASSUME NEW o \in Ops, Do(o) PROVE SagaInv'
  BY <1>2, DoKeeps
<1>3. ASSUME NEW o \in Ops, Forbidden(o) PROVE SagaInv'
  BY <1>3, TurnKeeps DEF Forbidden, world
<1>u. ASSUME NEW o \in Ops, Unreachable(o) \/ KeyNotMade(o) PROVE SagaInv'
  <2>1. Step(o) \in CreateSteps
    BY <1>u, RunningFacts, PlanFacts DEF Unreachable, KeyNotMade, Step, CreateSteps
  <2> QED
    BY <1>u, <2>1 DEF Unreachable, KeyNotMade, CreateSteps
<1>4. ASSUME NEW o \in Ops, Ship(o) \/ ShipWithKey(o) PROVE SagaInv'
  BY <1>4, ShipKeeps
<1>5. ASSUME NEW o \in Ops, Undo(o) PROVE SagaInv'
  BY <1>5, UndoKeeps
<1>6. ASSUME NEW o \in Ops, Refused(o) PROVE SagaInv'
  BY <1>6, TurnKeeps DEF Refused, world
<1>7. ASSUME NEW o \in Ops, Lost(o) \/ Silent(o) \/ Stuck(o) PROVE SagaInv'
  BY <1>7 DEF Lost, Silent, Stuck, Fault, CreatesOnly
<1>8. CASE Crash
  BY <1>8, CrashKeeps
<1>9. CASE UNCHANGED vars
  BY <1>9 DEF vars, world, SagaInv, CreateInv, LinkedWorld, KeyedWorld, PlainWorld, Done
<1> QED
  BY <1>1, <1>2, <1>3, <1>4, <1>5, <1>6, <1>7, <1>8, <1>9, <1>u DEF Next, Ledger, Failure

(* create_workspace leaves no half-created object: when it answers with an *)
(* error, the row, the connection and the directory are gone.  It rests on *)
(* a failing step having done nothing and on every step being undone.      *)
THEOREM CreateIsAllOrNothing ==
    ASSUME CreatesOnly
    PROVE  Spec => []CreateAllOrNothing
<1>1. Init => SagaInv
  BY SagaInvInit
<1>2. SagaInv /\ [Next]_vars => SagaInv'
  BY SagaInvStep
<1>3. SagaInv => CreateAllOrNothing
  BY DEF SagaInv, CreateAllOrNothing, Answered, CreateInv
<1> QED
  BY <1>1, <1>2, <1>3, PTL DEF Spec

(* The order of the plan and of its undoing keep a listed workspace usable *)
(* at every moment, restarts included: the row comes last and goes first.  *)
THEOREM ListedIsUsable ==
    ASSUME CreatesOnly
    PROVE  Spec => []RowHasDir
<1>1. Init => SagaInv
  BY SagaInvInit
<1>2. SagaInv /\ [Next]_vars => SagaInv'
  BY SagaInvStep
<1>3. SagaInv => RowHasDir
  <2> SUFFICES ASSUME SagaInv, NEW w \in Workspaces, row[w] # "none" PROVE dir[w]
    BY DEF RowHasDir
  <2>1. PICK o \in Ops : Target[o] = w
    BY DEF SagaInv
  <2> QED
    BY <2>1 DEF SagaInv, CreateInv
<1> QED
  BY <1>1, <1>2, <1>3, PTL DEF Spec

-----------------------------------------------------------------------------
(* The operations together.  Whatever of the eight operations meet, rows,  *)
(* connections and directories agree in the end when nothing has failed:   *)
(* what one of them leaves apart, another one in progress still minds.     *)

Making(o) == Kind[o] \in {"create", "prompt"}
Taking(o) == Kind[o] \in {"delete", "disconnect"}
Calm == faults = {} /\ crashes = 0

Types ==
    /\ row \in [Workspaces -> Rows] /\ conn \in [Workspaces -> BOOLEAN] /\ dir \in [Workspaces -> BOOLEAN]
    /\ server \in Lives /\ key \in Lives
    /\ phase \in [Ops -> Phases] /\ at \in [Ops -> Nat] /\ link \in [Ops -> Rows]
    /\ \A o \in Ops : phase[o] \in {"running", "undoing"} => at[o] >= 1
    /\ crashes \in Nat

(* No deletion and no disconnection has found w yet. *)
Unfound(w) ==
    \A o \in Ops : Taking(o) /\ Target[o] = w => phase[o] \in {"idle", "refused"}

(* The step of a maker that lists the workspace. *)
RowStep(o) == IF Kind[o] = "create" /\ link[o] = "linked" THEN 3 ELSE 2

(* Without failures only makers turn back, and never from behind the row. *)
InPlan(o) ==
    /\ phase[o] # "cut"
    /\ phase[o] = "running" => at[o] \in 1..Len(Plan(o))
    /\ phase[o] = "undoing" => Making(o) /\ at[o] \in 1..RowStep(o)
    /\ Kind[o] = "connect" /\ phase[o] = "running" => server = "none"
    /\ Kind[o] = "abandon" /\ phase[o] = "running" => server # "none"

(* Nobody finds a workspace before its maker has listed it. *)
MakerInv(o) ==
    LET w == Target[o] n == at[o] IN
    /\ phase[o] # "idle" => link[o] = IF Kind[o] = "create" THEN RowOf(w) ELSE "plain"
    /\ (phase[o] \in {"idle", "refused"} \/ (phase[o] = "running" /\ n <= RowStep(o))) =>
          row[w] = "none" /\ Unfound(w)
    /\ phase[o] # "idle" /\ row[w] = "linked" => link[o] = "linked"
    /\ phase[o] = "running" /\ n \in 2..RowStep(o) => dir[w]
    /\ phase[o] = "undoing" /\ n < RowStep(o) => row[w] = "none"

(* What a deletion or a disconnection has seen of the row is never less    *)
(* than what is left of it.                                                *)
TakerInv(o) ==
    LET w == Target[o] n == at[o] IN
    /\ phase[o] = "running" =>
          /\ server # "none"
          /\ row[w] = "linked" => link[o] = "linked"
          /\ n >= 2 => row[w] # "linked"
    /\ Kind[o] = "delete" =>
          ((phase[o] = "running" /\ n >= 2) \/ phase[o] = "ok" => row[w] = "none")

(* A row has everything it refers to, and its directory. *)
RowHolds(w) ==
    /\ row[w] # "none" => server = "there" /\ dir[w]
    /\ row[w] = "linked" => conn[w]
    /\ row[w] = "keyed" => key = "there"

(* A directory without a row is one that somebody is about to list or to   *)
(* remove, or that a prompt has made again.                                *)
MindsDir(o) ==
    \/ Making(o) /\ phase[o] = "running" /\ at[o] >= 2
    \/ Making(o) /\ phase[o] = "undoing"
    \/ Kind[o] = "delete" /\ phase[o] = "running" /\ at[o] = 2
    \/ Kind[o] = "prompt" /\ phase[o] = "ok"

(* So is a connection without a row that is linked to it. *)
MindsConn(o) ==
    /\ link[o] = "linked"
    /\ \/ Kind[o] = "create" /\ phase[o] = "running" /\ at[o] >= 3
       \/ Kind[o] = "create" /\ phase[o] = "undoing" /\ at[o] >= 2
       \/ Taking(o) /\ phase[o] = "running" /\ at[o] >= 2

DirIsMinded(w) ==
    server # "gone" /\ dir[w] /\ row[w] = "none" => \E o \in Ops : Target[o] = w /\ MindsDir(o)
ConnIsMinded(w) ==
    server # "gone" /\ conn[w] /\ row[w] # "linked" => \E o \in Ops : Target[o] = w /\ MindsConn(o)

OpInv(o) == InPlan(o) /\ (Making(o) => MakerInv(o)) /\ (Taking(o) => TakerInv(o))

AgreeInv ==
    /\ Types
    /\ Calm => /\ \A o \in Ops : OpInv(o)
               /\ \A w \in Workspaces : RowHolds(w) /\ DirIsMinded(w) /\ ConnIsMinded(w)

-----------------------------------------------------------------------------
(* What a step of o may do to the others.  It leaves them where they are,  *)
(* takes from rows and adds none but the one it makes, and minds what it   *)
(* leaves behind.                                                          *)

Down(w) ==
    \/ row'[w] = row[w]
    \/ row'[w] = "none"
    \/ row'[w] = "plain" /\ row[w] # "none"

OthersStill(o) ==
    \A p \in Ops : p # o => phase'[p] = phase[p] /\ at'[p] = at[p] /\ link'[p] = link[p]

ServerGoesOn(o) ==
    /\ server # "none" => server' # "none"
    /\ server' # server => Kind[o] = "connect" \/ server # "none"
    /\ server = "gone" => server' = "gone"

Considerate(o) ==
    LET w == Target[o] IN
    /\ Types' /\ OthersStill(o) /\ ServerGoesOn(o)
    /\ \A v \in Workspaces : v # w => Down(v) /\ conn'[v] = conn[v] /\ dir'[v] = dir[v]
    /\ Down(w) \/ (Making(o) /\ Unfound(w))
    /\ Making(o) \/ (Taking(o) /\ phase[o] = "running") \/ dir'[w] = dir[w]
    /\ Taking(o) /\ phase[o] = "idle" /\ phase'[o] # "refused" => row[w] # "none"
    /\ Taking(o) /\ phase[o] = "refused" => phase'[o] = "refused"

(* A stray is new and minded by o, or old and o minds it still if it did. *)
Minding(o) ==
    \A v \in Workspaces :
        /\ server' # "gone" /\ dir'[v] /\ row'[v] = "none" =>
              \/ dir[v] /\ row[v] = "none" /\ (v = Target[o] /\ MindsDir(o) => MindsDir(o)')
              \/ v = Target[o] /\ MindsDir(o)'
        /\ server' # "gone" /\ conn'[v] /\ row'[v] # "linked" =>
              \/ conn[v] /\ row[v] # "linked" /\ (v = Target[o] /\ MindsConn(o) => MindsConn(o)')
              \/ v = Target[o] /\ MindsConn(o)'

LEMMA MindedKept ==
    ASSUME NEW o \in Ops, OthersStill(o), ServerGoesOn(o), Minding(o), NEW v \in Workspaces,
           DirIsMinded(v), ConnIsMinded(v)
    PROVE  DirIsMinded(v)' /\ ConnIsMinded(v)'
<1>1. \A p \in Ops : p # o => (MindsDir(p) => MindsDir(p)') /\ (MindsConn(p) => MindsConn(p)')
  BY DEF OthersStill, MindsDir, MindsConn, Making, Taking
<1>2. server' # "gone" => server # "gone"
  BY DEF ServerGoesOn
<1>3. DirIsMinded(v)'
  <2> SUFFICES ASSUME server' # "gone", dir'[v], row'[v] = "none"
               PROVE  \E p \in Ops : Target[p] = v /\ MindsDir(p)'
    BY DEF DirIsMinded
  <2> QED BY <1>1, <1>2 DEF Minding, DirIsMinded
<1>4. ConnIsMinded(v)'
  <2> SUFFICES ASSUME server' # "gone", conn'[v], row'[v] # "linked"
               PROVE  \E p \in Ops : Target[p] = v /\ MindsConn(p)'
    BY DEF ConnIsMinded
  <2> QED BY <1>1, <1>2 DEF Minding, ConnIsMinded
<1> QED BY <1>3, <1>4

(* The operations that o meets keep their invariants. *)
LEMMA OthersAgree ==
    ASSUME Types, \A p \in Ops : OpInv(p), NEW o \in Ops, Considerate(o),
           NEW p \in Ops, p # o
    PROVE  OpInv(p)'
<1> DEFINE w == Target[p]
<1>0. w \in Workspaces /\ Target[o] \in Workspaces
  BY OpsAssumption
<1>1. /\ phase'[p] = phase[p] /\ at'[p] = at[p] /\ link'[p] = link[p]
      /\ Types' /\ ServerGoesOn(o)
  BY DEF Considerate, OthersStill
<1>2. InPlan(p)'
  <2>1. Plan(p)' = Plan(p) /\ RowStep(p)' = RowStep(p)
    BY <1>1 DEF Plan, RowStep
  <2>2. Kind[p] = "connect" => Kind[o] # "connect"
    BY FreshAssumption
  <2>3. InPlan(p)
    BY DEF OpInv
  <2> QED BY <1>1, <2>1, <2>2, <2>3 DEF InPlan, ServerGoesOn, Making
<1>3. ASSUME Making(p) PROVE MakerInv(p)'
  <2>1. MakerInv(p)
    BY <1>3 DEF OpInv
  <2>2. CASE w # Target[o]
    <3>1. Unfound(w) => Unfound(w)'
      BY <2>2 DEF Unfound, Considerate, OthersStill
    <3>2. Down(w) /\ dir'[w] = dir[w]
      BY <1>0, <2>2 DEF Considerate
    <3> QED BY <1>1, <2>1, <3>1, <3>2 DEF MakerInv, Down, RowStep
  <2>3. CASE w = Target[o]
    <3>1. ~Making(o)
      BY <1>3, <2>3, FreshAssumption DEF Making
    <3>2. Down(w)
      BY <2>3, <3>1 DEF Considerate
    <3>3. Unfound(w) /\ row[w] = "none" => Unfound(w)'
      <4> SUFFICES ASSUME Unfound(w), row[w] = "none", NEW q \in Ops, Taking(q), Target[q] = w
                   PROVE  phase'[q] \in {"idle", "refused"}
        BY DEF Unfound
      <4>1. phase[q] \in {"idle", "refused"}
        BY DEF Unfound
      <4>2. q # o => phase'[q] = phase[q]
        BY DEF Considerate, OthersStill
      <4>3. q = o /\ phase[q] = "idle" => phase'[q] = "refused"
        BY <2>3 DEF Considerate
      <4>4. q = o /\ phase[q] = "refused" => phase'[q] = "refused"
        BY DEF Considerate
      <4> QED BY <4>1, <4>2, <4>3, <4>4
    <3>4. Unfound(w) => dir'[w] = dir[w]
      BY <2>3, <3>1 DEF Unfound, Considerate
    <3> QED BY <1>1, <2>1, <3>2, <3>3, <3>4 DEF MakerInv, Down, RowStep
  <2> QED BY <2>2, <2>3
<1>4. ASSUME Taking(p) PROVE TakerInv(p)'
  <2>1. TakerInv(p)
    BY <1>4 DEF OpInv
  <2>2. CASE Down(w)
    BY <1>1, <2>1, <2>2 DEF TakerInv, Down, ServerGoesOn
  <2>3. CASE ~Down(w)
    <3>1. Unfound(w)
      BY <1>0, <2>3 DEF Considerate
    <3>2. phase[p] \in {"idle", "refused"}
      BY <1>4, <3>1 DEF Unfound
    <3> QED BY <1>1, <3>2 DEF TakerInv
  <2> QED BY <2>2, <2>3
<1> QED BY <1>2, <1>3, <1>4 DEF OpInv, Making, Taking

LEMMA AgreeKept ==
    ASSUME AgreeInv, Calm, NEW o \in Ops, Considerate(o), Minding(o), OpInv(o)',
           \A w \in Workspaces : RowHolds(w)'
    PROVE  AgreeInv'
<1>1. \A p \in Ops : OpInv(p)'
  BY OthersAgree DEF AgreeInv
<1>2. \A w \in Workspaces : DirIsMinded(w)' /\ ConnIsMinded(w)'
  BY MindedKept DEF AgreeInv, Considerate
<1> QED BY <1>1, <1>2 DEF AgreeInv, Considerate

-----------------------------------------------------------------------------
(* The plans, step by step. *)
LEMMA Plans ==
    ASSUME NEW o \in Ops
    PROVE  /\ Kind[o] = "prompt" =>
                /\ Len(Plan(o)) = 3
                /\ Plan(o)[1] = "mkdir" /\ Plan(o)[2] = "addRow" /\ Plan(o)[3] = "ensure"
           /\ Kind[o] = "delete" =>
                /\ Len(Plan(o)) = IF link[o] = "linked" THEN 4 ELSE 2
                /\ Plan(o)[1] = "dropRow" /\ Plan(o)[2] = "rmdir"
                /\ link[o] = "linked" => Plan(o)[3] = "lookRefs" /\ Plan(o)[4] = "dropConn"
           /\ Kind[o] = "disconnect" =>
                /\ Len(Plan(o)) = IF link[o] = "linked" THEN 3 ELSE 1
                /\ Plan(o)[1] = "unlink"
                /\ link[o] = "linked" => Plan(o)[2] = "lookRefs" /\ Plan(o)[3] = "dropConn"
           /\ Kind[o] = "connect" =>
                Len(Plan(o)) = 2 /\ Plan(o)[1] = "probe" /\ Plan(o)[2] = "addServer"
           /\ Kind[o] = "abandon" => Len(Plan(o)) = 1 /\ Plan(o)[1] = "dropServer"
           /\ Kind[o] = "register" =>
                Len(Plan(o)) = 2 /\ Plan(o)[1] = "makeKey" /\ Plan(o)[2] = "addKey"
           /\ Kind[o] = "forget" =>
                Len(Plan(o)) = 1 /\ Plan(o)[1] = (IF Target[o] \in App THEN "dropConn" ELSE "dropKey")
BY DEF Plan, PromptPlan, DeletePlan, DisconnectPlan, ConnectPlan, AbandonPlan, RegisterPlan, ForgetPlan

(* Where a maker is. *)
LEMMA MakerIsAt ==
    ASSUME Types, NEW o \in Ops, Making(o), OpInv(o), phase[o] \in {"running", "undoing"}
    PROVE  /\ link[o] \in {"plain", "linked", "keyed"}
           /\ Kind[o] = "prompt" => link[o] = "plain"
           /\ Target[o] \in Workspaces
           /\ Len(Plan(o)) = IF Kind[o] = "create" /\ link[o] = "plain" THEN 2 ELSE RowStep(o) + 1
           /\ at[o] = 1 => Step(o) = "mkdir"
           /\ at[o] = 2 /\ RowStep(o) = 3 => Step(o) = "addConn" /\ link[o] = "linked"
           /\ at[o] = RowStep(o) => Step(o) = "addRow"
           /\ at[o] = RowStep(o) + 1 => Step(o) = IF Kind[o] = "create" THEN "clone" ELSE "ensure"
           /\ RowStep(o) \in {2, 3} /\ at[o] \in 1..RowStep(o) + 1
           /\ RowStep(o) = 3 => Kind[o] = "create" /\ link[o] = "linked"
<1>1. MakerInv(o) /\ InPlan(o)
  BY DEF OpInv
<1>2. link[o] \in {"plain", "linked", "keyed"} /\ (Kind[o] = "prompt" => link[o] = "plain")
  BY <1>1 DEF MakerInv, RowOf
<1>3. Kind[o] = "create" \/ Kind[o] = "prompt"
  BY DEF Making
<1>4. Len(Plan(o)) = IF Kind[o] = "create" /\ link[o] = "plain" THEN 2 ELSE RowStep(o) + 1
  BY <1>2, <1>3, Plans, PlanFacts DEF RowStep
<1>5. at[o] \in 1..RowStep(o) + 1
  BY <1>1, <1>4 DEF InPlan, RowStep
<1>6. CASE Kind[o] = "create"
  <2>1. CASE link[o] = "linked"
    <3>1. RowStep(o) = 3 /\ at[o] \in {1, 2, 3, 4} /\ Len(Plan(o)) = 4
      BY <1>4, <1>5, <1>6, <2>1 DEF RowStep
    <3>2. /\ Plan(o)[1] = "mkdir" /\ Plan(o)[2] = "addConn"
          /\ Plan(o)[3] = "addRow" /\ Plan(o)[4] = "clone"
      BY <1>6, <2>1, PlanFacts
    <3> QED BY <1>5, <1>6, <2>1, <3>1, <3>2, OpsAssumption DEF Step
  <2>2. CASE link[o] = "keyed"
    <3>1. RowStep(o) = 2 /\ at[o] \in {1, 2, 3} /\ Len(Plan(o)) = 3
      BY <1>4, <1>5, <1>6, <2>2 DEF RowStep
    <3>2. Plan(o)[1] = "mkdir" /\ Plan(o)[2] = "addRow" /\ Plan(o)[3] = "clone"
      BY <1>6, <2>2, PlanFacts
    <3> QED BY <1>5, <1>6, <2>2, <3>1, <3>2, OpsAssumption DEF Step
  <2>3. CASE link[o] = "plain"
    <3>1. RowStep(o) = 2 /\ Len(Plan(o)) = 2 /\ at[o] \in {1, 2}
      BY <1>1, <1>4, <1>6, <2>3 DEF RowStep, InPlan
    <3>2. Plan(o)[1] = "mkdir" /\ Plan(o)[2] = "addRow"
      BY <1>6, <2>3, PlanFacts
    <3> QED BY <1>5, <1>6, <2>3, <3>1, <3>2, OpsAssumption DEF Step
  <2> QED BY <1>2, <2>1, <2>2, <2>3
<1>7. CASE Kind[o] = "prompt"
  BY <1>2, <1>4, <1>5, <1>7, OpsAssumption, Plans DEF RowStep, Step
<1> QED
  BY <1>3, <1>6, <1>7

(* What the steps do to the world. *)
LEMMA Effects ==
    ASSUME Types, NEW o \in Ops, NEW step, step # "relink", Effect(step, o)
    PROVE  LET w == Target[o] IN
           /\ row' \in [Workspaces -> Rows] /\ conn' \in [Workspaces -> BOOLEAN]
           /\ dir' \in [Workspaces -> BOOLEAN] /\ server' \in Lives /\ key' \in Lives
           /\ \A v \in Workspaces : v # w => conn'[v] = conn[v] /\ dir'[v] = dir[v]
           /\ conn'[w] <=> (step = "addConn" \/ (conn[w] /\ step # "dropConn"))
           /\ dir'[w] <=> (step \in {"mkdir", "ensure", "clone"} \/ (dir[w] /\ step # "rmdir"))
           /\ \A v \in Workspaces : v # w \/ step # "addRow" => Down(v)
           /\ step = "addRow" => row'[w] = link[o]
           /\ step = "dropRow" => row'[w] = "none"
           /\ step = "unlink" => row'[w] \notin {"linked", "keyed"}
           /\ step = "dropConn" => row'[w] # "linked"
           /\ step \notin {"dropServer", "dropKey"} =>
                \A v \in Workspaces : v # w => row'[v] = row[v]
           /\ step \notin {"dropRow", "dropServer", "addRow"} =>
                \A v \in Workspaces : row'[v] = "none" => row[v] = "none"
           /\ step = "dropServer" => \A v \in Workspaces : row'[v] = "none"
           /\ step = "dropKey" =>
                \A v \in Workspaces : row'[v] = IF row[v] = "keyed" THEN "plain" ELSE row[v]
           /\ step \notin {"addRow", "dropRow", "unlink", "dropConn", "dropServer", "dropKey"} => row' = row
           /\ server' = CASE step = "addServer" -> "there" [] step = "dropServer" -> "gone" [] OTHER -> server
           /\ key' = CASE step = "addKey" -> "there" [] step = "dropKey" -> "gone" [] OTHER -> key
<1> DEFINE w == Target[o]
<1>1. w \in Workspaces
  BY OpsAssumption
<1>2. \A v \in Workspaces : row'[v] = RowAfter(step, o, v) /\ RowAfter(step, o, v) \in Rows
  BY <1>1 DEF Effect, RowAfter, Types, Rows
<1>3. row' \in [Workspaces -> Rows]
  BY <1>2 DEF Effect
<1>4. server' \in Lives /\ key' \in Lives
  BY DEF Effect, Types, Lives
<1>5. /\ conn' \in [Workspaces -> BOOLEAN] /\ dir' \in [Workspaces -> BOOLEAN]
      /\ \A v \in Workspaces : v # w => conn'[v] = conn[v] /\ dir'[v] = dir[v]
      /\ conn'[w] <=> (step = "addConn" \/ (conn[w] /\ step # "dropConn"))
      /\ dir'[w] <=> (step \in {"mkdir", "ensure", "clone"} \/ (dir[w] /\ step # "rmdir"))
  BY <1>1 DEF Effect, Types
<1>6. \A v \in Workspaces : v # w \/ step # "addRow" => Down(v)
  BY <1>1, <1>2 DEF Down, RowAfter
<1>7. /\ step = "addRow" => row'[w] = link[o]
      /\ step = "dropRow" => row'[w] = "none"
      /\ step = "unlink" => row'[w] \notin {"linked", "keyed"}
      /\ step = "dropConn" => row'[w] # "linked"
  BY <1>1, <1>2 DEF RowAfter
<1>8. /\ step \notin {"dropServer", "dropKey"} =>
           \A v \in Workspaces : v # w => row'[v] = row[v]
      /\ step \notin {"dropRow", "dropServer", "addRow"} =>
           \A v \in Workspaces : row'[v] = "none" => row[v] = "none"
      /\ step = "dropServer" => \A v \in Workspaces : row'[v] = "none"
      /\ step = "dropKey" =>
           \A v \in Workspaces : row'[v] = IF row[v] = "keyed" THEN "plain" ELSE row[v]
  BY <1>2 DEF RowAfter
<1>9. step \notin {"addRow", "dropRow", "unlink", "dropConn", "dropServer", "dropKey"} => row' = row
  <2> SUFFICES ASSUME step \notin {"addRow", "dropRow", "unlink", "dropConn", "dropServer", "dropKey"}
               PROVE  row' = row
    OBVIOUS
  <2>1. \A v \in Workspaces : row'[v] = row[v]
    BY <1>2 DEF RowAfter
  <2> QED BY <1>3, <2>1 DEF Types
<1> QED BY <1>3, <1>4, <1>5, <1>6, <1>7, <1>8, <1>9 DEF Effect

(* A row keeps what it refers to: the step that lists it was permitted,    *)
(* the step that removes the directory comes after the row is gone.        *)
LEMMA RowsHold ==
    ASSUME Types, NEW o \in Ops, NEW step, step # "relink", Effect(step, o),
           \A v \in Workspaces : RowHolds(v),
           step = "addRow" => Permitted(step, o) /\ dir[Target[o]],
           step = "rmdir" => row[Target[o]] = "none",
           step = "addServer" => server = "none"
    PROVE  \A v \in Workspaces : RowHolds(v)'
<1> DEFINE w == Target[o]
<1>0. w \in Workspaces
  BY OpsAssumption
<1> SUFFICES ASSUME NEW v \in Workspaces PROVE RowHolds(v)'
  OBVIOUS
<1>1. RowHolds(v)
  OBVIOUS
<1>2. CASE step = "addRow" /\ v = w
  BY <1>0, <1>1, <1>2, Effects DEF RowHolds, Permitted
<1>3. CASE step # "addRow" \/ v # w
  <2>1. Down(v)
    BY <1>3, Effects
  <2>2. row'[v] # "none" => row[v] # "none"
    BY <2>1 DEF Down
  <2>3. row'[v] = "linked" => row[v] = "linked"
    BY <2>1 DEF Down
  <2>4. row'[v] = "keyed" => row[v] = "keyed"
    BY <2>1 DEF Down
  <2>5. row'[v] # "none" => server' = "there" /\ dir'[v]
    <3>1. row'[v] # "none" => step # "dropServer"
      BY Effects
    <3>2. server = "there" /\ step # "dropServer" => server' = "there"
      BY Effects
    <3>3. step = "rmdir" /\ v = w => row[v] = "none"
      OBVIOUS
    <3>4. step # "rmdir" \/ v # w => (dir[v] => dir'[v])
      BY <1>0, Effects
    <3> QED BY <1>1, <2>2, <3>1, <3>2, <3>3, <3>4 DEF RowHolds
  <2>6. row'[v] = "linked" => conn'[v]
    <3>1. row'[v] = "linked" => ~(step = "dropConn" /\ v = w)
      BY Effects
    <3>2. ~(step = "dropConn" /\ v = w) => (conn[v] => conn'[v])
      BY <1>0, Effects
    <3> QED BY <1>1, <2>3, <3>1, <3>2 DEF RowHolds
  <2>7. row'[v] = "keyed" => key' = "there"
    <3>1. row'[v] = "keyed" => step # "dropKey"
      BY Effects
    <3>2. key = "there" /\ step # "dropKey" => key' = "there"
      BY Effects
    <3> QED BY <1>1, <2>4, <3>1, <3>2 DEF RowHolds
  <2> QED BY <2>5, <2>6, <2>7 DEF RowHolds
<1> QED BY <1>2, <1>3

-----------------------------------------------------------------------------
(* The types hold whatever fails. *)
LEMMA MovesAreTyped ==
    ASSUME Types, NEW o \in Ops, Running(o) \/ phase[o] = "undoing",
           Continue(o) \/ TurnTo(o, 0) \/ TurnTo(o, at[o] - 1)
    PROVE  /\ phase' \in [Ops -> Phases] /\ at' \in [Ops -> Nat] /\ link' = link
           /\ \A p \in Ops : phase'[p] \in {"running", "undoing"} => at'[p] >= 1
<1>1. at[o] \in Nat /\ at[o] >= 1 /\ at[o] - 1 \in Nat
  BY DEF Types, Running
<1>2. NextStep(o) \in Nat /\ NextStep(o) >= 1
  BY <1>1 DEF NextStep
<1>3. CASE Continue(o)
  BY <1>2, <1>3 DEF Continue, Types, Phases, Closed
<1>4. CASE TurnTo(o, 0)
  BY <1>4 DEF TurnTo, Types, Phases, Closed
<1>5. CASE TurnTo(o, at[o] - 1)
  BY <1>1, <1>5 DEF TurnTo, Types, Phases, Closed
<1> QED BY <1>3, <1>4, <1>5

LEMMA EffectsAreTyped ==
    ASSUME Types, NEW o \in Ops, NEW step, Effect(step, o) \/ UNCHANGED world
    PROVE  /\ row' \in [Workspaces -> Rows] /\ conn' \in [Workspaces -> BOOLEAN]
           /\ dir' \in [Workspaces -> BOOLEAN] /\ server' \in Lives /\ key' \in Lives
<1>1. CASE UNCHANGED world
  BY <1>1 DEF world, Types
<1>2. CASE Effect(step, o)
  <2>1. Target[o] \in Workspaces /\ \A v \in Workspaces : RowAfter(step, o, v) \in Rows
    BY OpsAssumption DEF RowAfter, Types, Rows
  <2>2. row' \in [Workspaces -> Rows]
    BY <1>2, <2>1 DEF Effect
  <2>3. conn' \in [Workspaces -> BOOLEAN] /\ dir' \in [Workspaces -> BOOLEAN]
    BY <1>2, <2>1 DEF Effect, Types
  <2>4. server' \in Lives /\ key' \in Lives
    BY <1>2 DEF Effect, Types, Lives
  <2> QED BY <2>2, <2>3, <2>4
<1> QED BY <1>1, <1>2

LEMMA TypesStep ==
    ASSUME Types, [Next]_vars
    PROVE  Types'
<1>1. ASSUME NEW o \in Ops, Begin(o) PROVE Types'
  <2>1. row[Target[o]] \in Rows /\ RowOf(Target[o]) \in Rows /\ "plain" \in Rows
    BY OpsAssumption DEF Types, Rows, RowOf
  <2>2. link' \in [Ops -> Rows]
    BY <1>1, <2>1 DEF Begin, Types
  <2>3. phase' \in [Ops -> Phases] /\ at' \in [Ops -> Nat]
    BY <1>1 DEF Begin, Types, Phases, Closed
  <2>4. \A p \in Ops : phase'[p] \in {"running", "undoing"} => at'[p] >= 1
    BY <1>1 DEF Begin, Types
  <2>5. crashes' = crashes
    BY <1>1 DEF Begin
  <2> QED BY <1>1, <2>2, <2>3, <2>4, <2>5 DEF Begin, Types, world
<1>2. ASSUME NEW o \in Ops, Ledger(o) \/ Failure(o) PROVE Types'
  <2>1. Running(o) \/ phase[o] = "undoing"
    BY <1>2 DEF Ledger, Failure, Do, Forbidden, Undo, Ship, ShipWithKey, Unreachable, KeyNotMade,
       Refused, Lost, Silent, Stuck
  <2>2. Continue(o) \/ TurnTo(o, 0) \/ TurnTo(o, at[o] - 1)
    BY <1>2 DEF Ledger, Failure, Do, Forbidden, Undo, Ship, ShipWithKey, Unreachable, KeyNotMade,
       Refused, Lost, Silent, Stuck
  <2>3. \E step : Effect(step, o) \/ UNCHANGED world
    BY <1>2 DEF Ledger, Failure, Do, Forbidden, Undo, Ship, ShipWithKey, Unreachable, KeyNotMade,
       Refused, Lost, Silent, Stuck
  <2>4. /\ row' \in [Workspaces -> Rows] /\ conn' \in [Workspaces -> BOOLEAN]
        /\ dir' \in [Workspaces -> BOOLEAN] /\ server' \in Lives /\ key' \in Lives
    BY <2>3, EffectsAreTyped
  <2>5. crashes' = crashes
    BY <1>2 DEF Ledger, Failure, Do, Forbidden, Undo, Ship, ShipWithKey, Unreachable, KeyNotMade,
       Refused, Lost, Silent, Stuck, Fault
  <2> QED BY <2>1, <2>2, <2>4, <2>5, MovesAreTyped DEF Types
<1>3. CASE Crash
  <2>1. phase' \in [Ops -> Phases] /\ \A o \in Ops : phase'[o] = phase[o] \/ phase'[o] = "cut"
    BY <1>3 DEF Crash, Types, Phases, Closed
  <2>2. crashes' \in Nat
    BY <1>3 DEF Crash, Types
  <2> QED BY <1>3, <2>1, <2>2 DEF Crash, world, Types
<1>4. CASE UNCHANGED vars
  BY <1>4 DEF vars, world, Types
<1> QED BY <1>1, <1>2, <1>3, <1>4 DEF Next

-----------------------------------------------------------------------------
(* A step of an operation, one action after the other.                     *)

LEMMA GoesOn ==
    ASSUME Types, NEW o \in Ops, Continue(o)
    PROVE  /\ OthersStill(o) /\ at'[o] = NextStep(o) /\ link'[o] = link[o]
           /\ phase'[o] = IF NextStep(o) > Len(Plan(o)) THEN "ok" ELSE "running"
           /\ Plan(o)' = Plan(o) /\ RowStep(o)' = RowStep(o)
BY DEF Continue, Types, OthersStill, Plan, RowStep

LEMMA TurnsTo ==
    ASSUME Types, NEW o \in Ops, NEW n, TurnTo(o, n)
    PROVE  /\ OthersStill(o) /\ at'[o] = n /\ link'[o] = link[o]
           /\ phase'[o] = IF n = 0 THEN "failed" ELSE "undoing"
           /\ Plan(o)' = Plan(o) /\ RowStep(o)' = RowStep(o)
BY DEF TurnTo, Types, OthersStill, Plan, RowStep

LEMMA BeginAgrees ==
    ASSUME AgreeInv, Calm, NEW o \in Ops, Begin(o), Types'
    PROVE  AgreeInv'
<1> DEFINE w == Target[o]
<1>1. /\ w \in Workspaces /\ Types /\ OpInv(o) /\ phase[o] = "idle" /\ UNCHANGED world
      /\ OthersStill(o) /\ at'[o] = 1
      /\ phase'[o] = IF Valid(o) THEN "running" ELSE "refused"
      /\ link'[o] = CASE Kind[o] = "create" -> RowOf(w) [] Kind[o] = "prompt" -> "plain" [] OTHER -> row[w]
  BY OpsAssumption DEF AgreeInv, Begin, OthersStill, Types
<1>2. row' = row /\ conn' = conn /\ dir' = dir /\ server' = server /\ key' = key
  BY <1>1 DEF world
<1>3. Taking(o) /\ phase'[o] # "refused" => row[w] # "none"
  BY <1>1 DEF Taking, Valid, Listed
<1>4. Considerate(o)
  BY <1>1, <1>2, <1>3 DEF Considerate, ServerGoesOn, Down
<1>5. Minding(o)
  BY <1>1, <1>2 DEF Minding, MindsDir, MindsConn
<1>6. InPlan(o)'
  <2>1. Len(Plan(o)') \in Nat /\ Len(Plan(o)') >= 1
    BY OpsAssumption DEF Plan, CreatePlan, PromptPlan, DeletePlan, DisconnectPlan, ConnectPlan, AbandonPlan,
       RegisterPlan, ForgetPlan, Kinds
  <2>2. phase'[o] = "running" =>
          (Kind[o] = "connect" => server = "none") /\ (Kind[o] = "abandon" => server = "there")
    BY <1>1 DEF Valid, ServerFound
  <2> QED BY <1>1, <1>2, <2>1, <2>2 DEF InPlan
<1>7. ASSUME Making(o) PROVE MakerInv(o)'
  <2>1. row[w] = "none" /\ Unfound(w)
    BY <1>1, <1>7 DEF OpInv, MakerInv
  <2>2. Unfound(w)'
    BY <1>1, <1>7, <2>1 DEF Unfound, OthersStill, Making, Taking
  <2>3. RowStep(o)' \in {2, 3}
    BY DEF RowStep
  <2> QED BY <1>1, <1>2, <1>7, <2>1, <2>2, <2>3 DEF MakerInv, Making, RowOf
<1>8. ASSUME Taking(o) PROVE TakerInv(o)'
  <2>1. RowHolds(w)
    BY <1>1 DEF AgreeInv
  <2>2. phase'[o] = "running" => server # "none"
    BY <1>1, <1>3, <1>8, <2>1 DEF RowHolds
  <2>3. link'[o] = row[w]
    BY <1>1, <1>8 DEF Taking
  <2> QED BY <1>1, <1>2, <2>2, <2>3 DEF TakerInv
<1>9. \A v \in Workspaces : RowHolds(v)'
  BY <1>2 DEF AgreeInv, RowHolds
<1> QED BY <1>4, <1>5, <1>6, <1>7, <1>8, <1>9, AgreeKept DEF OpInv, Making, Taking

(* A maker goes on: it lists the workspace when all else is there. *)
LEMMA MakerDoes ==
    ASSUME AgreeInv, Calm, NEW o \in Ops, Making(o), Do(o), Types'
    PROVE  AgreeInv'
<1> DEFINE w == Target[o]
           step == Step(o)
<1>1. /\ Types /\ OpInv(o) /\ MakerInv(o) /\ phase[o] = "running" /\ Running(o)
      /\ Permitted(step, o) /\ step # "clone" /\ Continue(o)
      /\ Effect(step, o) \/ (step = "ensure" /\ UNCHANGED world)
  BY DEF AgreeInv, OpInv, Do, Running, Skips, Making
<1>2. /\ link[o] \in {"plain", "linked", "keyed"} /\ w \in Workspaces
      /\ Kind[o] = "prompt" => link[o] = "plain"
      /\ Len(Plan(o)) = IF Kind[o] = "create" /\ link[o] = "plain" THEN 2 ELSE RowStep(o) + 1
      /\ \/ at[o] = 1 /\ step = "mkdir"
         \/ at[o] = 2 /\ RowStep(o) = 3 /\ step = "addConn" /\ link[o] = "linked"
         \/ at[o] = RowStep(o) /\ step = "addRow"
         \/ at[o] = RowStep(o) + 1 /\ step = "ensure" /\ Kind[o] = "prompt"
      /\ RowStep(o) \in {2, 3}
      /\ RowStep(o) = 3 => Kind[o] = "create" /\ link[o] = "linked"
  <2>1. at[o] \in 1..RowStep(o) + 1 /\ RowStep(o) \in {2, 3}
    BY <1>1, MakerIsAt
  <2>2. at[o] = 1 \/ (at[o] = 2 /\ RowStep(o) = 3) \/ at[o] = RowStep(o) \/ at[o] = RowStep(o) + 1
    BY <2>1
  <2> QED BY <1>1, <2>1, <2>2, MakerIsAt DEF Making
<1>3. NextStep(o) = at[o] + 1
  BY <1>2 DEF NextStep
<1>4. /\ OthersStill(o) /\ at'[o] = at[o] + 1 /\ link'[o] = link[o]
      /\ phase'[o] = IF at[o] + 1 > Len(Plan(o)) THEN "ok" ELSE "running"
      /\ Plan(o)' = Plan(o) /\ RowStep(o)' = RowStep(o)
  BY <1>1, <1>3, GoesOn
<1>5. /\ at[o] = RowStep(o) + 1 => phase'[o] = "ok"
      /\ at[o] < RowStep(o) => phase'[o] = "running"
      /\ at[o] = RowStep(o) => phase'[o] = IF Kind[o] = "create" /\ link[o] = "plain" THEN "ok" ELSE "running"
  BY <1>2, <1>4
<1>6. /\ server' = server /\ key' = key
      /\ \A v \in Workspaces : v # w => row'[v] = row[v] /\ conn'[v] = conn[v] /\ dir'[v] = dir[v]
      /\ conn'[w] <=> (conn[w] \/ step = "addConn")
      /\ dir[w] \/ step = "mkdir" => dir'[w]
      /\ row'[w] = IF step = "addRow" THEN link[o] ELSE row[w]
  <2>1. CASE Effect(step, o)
    BY <1>1, <1>2, <2>1, Effects
  <2>2. CASE step = "ensure" /\ UNCHANGED world
    BY <2>2 DEF world
  <2> QED BY <1>1, <2>1, <2>2
<1>7. step \in {"mkdir", "addConn", "addRow"} => row[w] = "none" /\ Unfound(w)
  BY <1>1, <1>2 DEF MakerInv
<1>8. step \in {"addConn", "addRow"} => dir[w]
  BY <1>1, <1>2 DEF MakerInv
<1>9. \A v \in Workspaces : RowHolds(v)'
  <2>1. CASE UNCHANGED world
    BY <2>1 DEF AgreeInv, RowHolds, world
  <2>2. CASE Effect(step, o)
    BY <1>1, <1>2, <1>8, <2>2, RowsHold DEF AgreeInv
  <2> QED BY <1>1, <2>1, <2>2
<1>10. Considerate(o)
  BY <1>1, <1>2, <1>4, <1>6, <1>7 DEF Considerate, ServerGoesOn, Down, Making, Taking
<1>11. OpInv(o)'
  <2>1. InPlan(o)'
    <3>1. phase'[o] \in {"ok", "running"} /\ Kind[o] \in {"create", "prompt"}
      BY <1>4 DEF Making
    <3>2. phase'[o] = "running" => at'[o] \in 1..Len(Plan(o))
      <4>1. at[o] + 1 \in Nat /\ at[o] + 1 >= 1 /\ Len(Plan(o)) \in Nat
        BY <1>2
      <4> QED BY <1>4, <4>1
    <3> QED BY <1>4, <3>1, <3>2 DEF InPlan
  <2>2. at'[o] <= RowStep(o) => step \in {"mkdir", "addConn"}
    BY <1>2, <1>4
  <2>3. Unfound(w) => Unfound(w)'
    BY <1>4 DEF Unfound, OthersStill, Making, Taking
  <2>4. MakerInv(o)'
    BY <1>1, <1>2, <1>4, <1>5, <1>6, <1>7, <1>8, <2>2, <2>3 DEF MakerInv, RowOf, Making
  <2> QED BY <2>1, <2>4 DEF OpInv, Making, Taking
<1>12. Minding(o)
  <2>1. row'[w] # "none" \/ MindsDir(o)'
    BY <1>2, <1>4, <1>5, <1>6 DEF MindsDir, Making
  <2>2. conn'[w] /\ row'[w] # "linked" =>
          \/ conn[w] /\ row[w] # "linked" /\ (MindsConn(o) => MindsConn(o)')
          \/ MindsConn(o)'
    <3>1. CASE step = "mkdir"
      BY <1>2, <1>6, <1>7, <3>1 DEF MindsConn, Making, Taking
    <3>2. CASE step = "addConn"
      BY <1>2, <1>4, <1>5, <3>2 DEF MindsConn
    <3>3. CASE step = "addRow"
      BY <1>2, <1>6, <1>7, <3>3 DEF MindsConn
    <3>4. CASE step = "ensure"
      BY <1>2, <1>6, <3>4 DEF MindsConn
    <3> QED BY <1>2, <3>1, <3>2, <3>3, <3>4
  <2> QED BY <1>2, <1>6, <2>1, <2>2 DEF Minding
<1> QED BY <1>9, <1>10, <1>11, <1>12, AgreeKept

(* A deletion goes on: the row first, the directory, then the connection. *)
LEMMA DeleteDoes ==
    ASSUME AgreeInv, Calm, NEW o \in Ops, Kind[o] = "delete", Do(o), Types'
    PROVE  AgreeInv'
<1> DEFINE w == Target[o]
           step == Step(o)
<1>1. /\ Types /\ OpInv(o) /\ TakerInv(o) /\ phase[o] = "running" /\ Continue(o)
      /\ Effect(step, o) \/ (step = "rmdir" /\ server # "there" /\ UNCHANGED world)
      /\ w \in Workspaces /\ at[o] \in 1..Len(Plan(o)) /\ server # "none"
      /\ row[w] = "linked" => link[o] = "linked"
  <2>1. Types /\ OpInv(o) /\ Running(o) /\ w \in Workspaces
    BY OpsAssumption DEF AgreeInv, Do
  <2>2. Continue(o) /\ (Effect(step, o) \/ (Skips(step, o) /\ UNCHANGED world))
    BY DEF Do
  <2>3. at[o] \in 1..Len(Plan(o)) /\ TakerInv(o)
    BY <2>1 DEF OpInv, InPlan, Running, Taking
  <2>4. step # "ensure"
    BY <2>1, <2>3, Plans DEF Step, Running
  <2> QED BY <2>1, <2>2, <2>3, <2>4 DEF Skips, Running, TakerInv
<1>2. /\ at[o] \in {1, 2, 3, 4} /\ Len(Plan(o)) = IF link[o] = "linked" THEN 4 ELSE 2
      /\ at[o] = 1 => step = "dropRow"
      /\ at[o] = 2 => step = "rmdir"
      /\ at[o] = 3 => step = "lookRefs" /\ link[o] = "linked"
      /\ at[o] = 4 => step = "dropConn" /\ link[o] = "linked"
  BY <1>1, Plans DEF Step
<1>3. at[o] >= 2 => row[w] = "none"
  BY <1>1 DEF TakerInv
<1>4. NextStep(o) = at[o] + 1
  BY <1>2, <1>3 DEF NextStep
<1>5. /\ OthersStill(o) /\ at'[o] = at[o] + 1 /\ link'[o] = link[o]
      /\ phase'[o] = IF at[o] + 1 > Len(Plan(o)) THEN "ok" ELSE "running"
      /\ Plan(o)' = Plan(o)
  BY <1>1, <1>4, GoesOn
<1>6. /\ server' = server /\ key' = key
      /\ \A v \in Workspaces : v # w => row'[v] = row[v] /\ conn'[v] = conn[v] /\ dir'[v] = dir[v]
      /\ conn'[w] <=> (conn[w] /\ step # "dropConn")
      /\ dir'[w] => dir[w] /\ (step # "rmdir" \/ server = "gone")
      /\ Down(w) /\ row'[w] = "none"
  <2>1. CASE Effect(step, o)
    BY <1>1, <1>2, <1>3, <2>1, Effects DEF Down
  <2>2. CASE step = "rmdir" /\ server # "there" /\ UNCHANGED world
    BY <1>1, <1>2, <1>3, <2>2 DEF world, Down, Types, Lives
  <2> QED BY <1>1, <2>1, <2>2
<1>7. \A v \in Workspaces : RowHolds(v)'
  <2>1. CASE UNCHANGED world
    BY <2>1 DEF AgreeInv, RowHolds, world
  <2>2. CASE Effect(step, o)
    BY <1>1, <1>2, <1>3, <2>2, RowsHold DEF AgreeInv
  <2> QED BY <1>1, <2>1, <2>2
<1>8. Considerate(o)
  BY <1>1, <1>5, <1>6 DEF Considerate, ServerGoesOn, Down, Making, Taking
<1>9. OpInv(o)'
  <2>1. InPlan(o)'
    <3>1. phase'[o] \in {"ok", "running"}
      BY <1>5
    <3>2. phase'[o] = "running" => at'[o] \in 1..Len(Plan(o))
      <4>1. at[o] + 1 \in Nat /\ at[o] + 1 >= 1 /\ Len(Plan(o)) \in Nat
        BY <1>2
      <4> QED BY <1>5, <4>1
    <3> QED BY <1>5, <3>1, <3>2 DEF InPlan
  <2>2. TakerInv(o)'
    BY <1>1, <1>6 DEF TakerInv
  <2> QED BY <2>1, <2>2 DEF OpInv, Making, Taking
<1>10. Minding(o)
  <2>1. server' # "gone" /\ dir'[w] =>
          \/ dir[w] /\ row[w] = "none" /\ (MindsDir(o) => MindsDir(o)')
          \/ MindsDir(o)'
    <3>1. CASE at[o] = 1
      BY <1>2, <1>5, <3>1 DEF MindsDir
    <3>2. CASE at[o] # 1
      BY <1>2, <1>3, <1>6, <3>2 DEF MindsDir, Making
    <3> QED BY <3>1, <3>2
  <2>2. conn'[w] =>
          \/ conn[w] /\ row[w] # "linked" /\ (MindsConn(o) => MindsConn(o)')
          \/ MindsConn(o)'
    <3>1. CASE at[o] = 1 /\ link[o] # "linked"
      BY <1>1, <1>6, <3>1 DEF MindsConn
    <3>2. CASE at[o] \in {1, 2, 3} /\ link[o] = "linked"
      BY <1>2, <1>5, <3>2 DEF MindsConn, Taking
    <3>3. CASE at[o] = 2 /\ link[o] # "linked"
      BY <1>3, <1>6, <3>3 DEF MindsConn
    <3>4. CASE at[o] = 4
      BY <1>2, <1>6, <3>4
    <3> QED BY <1>2, <3>1, <3>2, <3>3, <3>4
  <2> QED BY <1>6, <2>1, <2>2 DEF Minding
<1> QED BY <1>7, <1>8, <1>9, <1>10, AgreeKept

(* A disconnection goes on: it takes the link from the row, then drops the *)
(* connection nothing is linked to any more.                               *)
LEMMA DisconnectDoes ==
    ASSUME AgreeInv, Calm, NEW o \in Ops, Kind[o] = "disconnect", Do(o), Types'
    PROVE  AgreeInv'
<1> DEFINE w == Target[o]
           step == Step(o)
<1>1. /\ Types /\ OpInv(o) /\ TakerInv(o) /\ phase[o] = "running" /\ Continue(o)
      /\ w \in Workspaces /\ at[o] \in 1..Len(Plan(o)) /\ server # "none"
      /\ row[w] = "linked" => link[o] = "linked"
  <2>1. Types /\ OpInv(o) /\ Running(o) /\ w \in Workspaces /\ Continue(o)
    BY OpsAssumption DEF AgreeInv, Do
  <2>2. at[o] \in 1..Len(Plan(o)) /\ TakerInv(o)
    BY <2>1 DEF OpInv, InPlan, Running, Taking
  <2> QED BY <2>1, <2>2 DEF Running, TakerInv
<1>2. /\ at[o] \in {1, 2, 3} /\ Len(Plan(o)) = IF link[o] = "linked" THEN 3 ELSE 1
      /\ at[o] = 1 => step = "unlink"
      /\ at[o] = 2 => step = "lookRefs" /\ link[o] = "linked"
      /\ at[o] = 3 => step = "dropConn" /\ link[o] = "linked"
  <2>1. CASE link[o] = "linked"
    <3>1. Len(Plan(o)) = 3
      BY <2>1, Plans
    <3>2. at[o] = 1 \/ at[o] = 2 \/ at[o] = 3
      BY <1>1, <3>1
    <3>3. Plan(o)[1] = "unlink" /\ Plan(o)[2] = "lookRefs" /\ Plan(o)[3] = "dropConn"
      BY <2>1, Plans
    <3> QED BY <2>1, <3>1, <3>2, <3>3 DEF Step
  <2>2. CASE link[o] # "linked"
    <3>1. Len(Plan(o)) = 1 /\ Plan(o)[1] = "unlink"
      BY <2>2, Plans
    <3>2. at[o] = 1
      BY <1>1, <3>1
    <3> QED BY <2>2, <3>1, <3>2 DEF Step
  <2> QED BY <2>1, <2>2
<1>3. at[o] >= 2 => row[w] # "linked"
  BY <1>1 DEF TakerInv
<1>4. NextStep(o) = at[o] + 1
  BY <1>2, <1>3 DEF NextStep
<1>5. /\ OthersStill(o) /\ at'[o] = at[o] + 1 /\ link'[o] = link[o]
      /\ phase'[o] = IF at[o] + 1 > Len(Plan(o)) THEN "ok" ELSE "running"
      /\ Plan(o)' = Plan(o)
  BY <1>1, <1>4, GoesOn
<1>e. Effect(step, o)
  BY <1>2 DEF Do, Skips
<1>6. /\ server' = server /\ key' = key
      /\ \A v \in Workspaces : v # w => row'[v] = row[v] /\ conn'[v] = conn[v] /\ dir'[v] = dir[v]
      /\ conn'[w] <=> (conn[w] /\ step # "dropConn")
      /\ dir'[w] = dir[w]
      /\ Down(w) /\ row'[w] # "linked" /\ (row'[w] = "none" => row[w] = "none")
  BY <1>1, <1>2, <1>3, <1>e, Effects DEF Down, Types
<1>7. \A v \in Workspaces : RowHolds(v)'
  BY <1>1, <1>2, <1>3, <1>e, RowsHold DEF AgreeInv
<1>8. Considerate(o)
  BY <1>1, <1>5, <1>6 DEF Considerate, ServerGoesOn, Down, Making, Taking
<1>9. OpInv(o)'
  <2>1. InPlan(o)'
    <3>1. phase'[o] \in {"ok", "running"}
      BY <1>5
    <3>2. phase'[o] = "running" => at'[o] \in 1..Len(Plan(o))
      <4>1. at[o] + 1 \in Nat /\ at[o] + 1 >= 1 /\ Len(Plan(o)) \in Nat
        BY <1>2
      <4> QED BY <1>5, <4>1
    <3> QED BY <1>5, <3>1, <3>2 DEF InPlan
  <2>2. TakerInv(o)'
    BY <1>1, <1>6 DEF TakerInv
  <2> QED BY <2>1, <2>2 DEF OpInv, Making, Taking
<1>10. Minding(o)
  <2>1. ~MindsDir(o)
    BY DEF MindsDir, Making
  <2>2. conn'[w] =>
          \/ conn[w] /\ row[w] # "linked" /\ (MindsConn(o) => MindsConn(o)')
          \/ MindsConn(o)'
    <3>1. CASE link[o] # "linked"
      BY <1>1, <1>6, <3>1 DEF MindsConn
    <3>2. CASE at[o] \in {1, 2} /\ link[o] = "linked"
      BY <1>2, <1>5, <3>2 DEF MindsConn, Taking
    <3>3. CASE at[o] = 3
      BY <1>2, <1>6, <3>3
    <3> QED BY <1>2, <3>1, <3>2, <3>3
  <2> QED BY <1>6, <2>1, <2>2 DEF Minding
<1> QED BY <1>7, <1>8, <1>9, <1>10, AgreeKept

(* The operations about the server, the key and a connection make and take *)
(* them, and what loses them is taken down with them.                      *)
LEMMA OtherDoes ==
    ASSUME AgreeInv, Calm, NEW o \in Ops, ~Making(o), ~Taking(o), Do(o), Types'
    PROVE  AgreeInv'
<1> DEFINE w == Target[o]
           step == Step(o)
<1>1. /\ Types /\ OpInv(o) /\ InPlan(o) /\ phase[o] = "running" /\ Continue(o)
      /\ w \in Workspaces /\ at[o] \in 1..Len(Plan(o))
      /\ Kind[o] \in {"connect", "abandon", "register", "forget"}
  BY OpsAssumption DEF AgreeInv, Do, Running, OpInv, InPlan, Making, Taking, Kinds
<1>2. /\ at[o] \in {1, 2} /\ Len(Plan(o)) \in {1, 2}
      /\ step \in {"probe", "addServer", "dropServer", "makeKey", "addKey", "dropConn", "dropKey"}
      /\ step = "addServer" => Kind[o] = "connect" /\ at[o] = 2
      /\ step = "dropServer" => Kind[o] = "abandon"
      /\ Kind[o] = "connect" => step \in {"probe", "addServer"} /\ Len(Plan(o)) = 2
  <2>1. /\ Kind[o] = "connect" =>
             Len(Plan(o)) = 2 /\ Plan(o)[1] = "probe" /\ Plan(o)[2] = "addServer"
        /\ Kind[o] = "abandon" => Len(Plan(o)) = 1 /\ Plan(o)[1] = "dropServer"
        /\ Kind[o] = "register" =>
             Len(Plan(o)) = 2 /\ Plan(o)[1] = "makeKey" /\ Plan(o)[2] = "addKey"
        /\ Kind[o] = "forget" => Len(Plan(o)) = 1 /\ Plan(o)[1] \in {"dropConn", "dropKey"}
    BY Plans
  <2>2. Len(Plan(o)) = 1 \/ Len(Plan(o)) = 2
    BY <1>1, <2>1
  <2>3. at[o] = 1 \/ (at[o] = 2 /\ Len(Plan(o)) = 2)
    <3>1. CASE Len(Plan(o)) = 1
      <4>1. at[o] \in 1..1
        BY <1>1, <3>1
      <4> QED BY <4>1
    <3>2. CASE Len(Plan(o)) = 2
      <4>1. at[o] \in 1..2
        BY <1>1, <3>2
      <4> QED BY <3>2, <4>1
    <3> QED BY <2>2, <3>1, <3>2
  <2> QED BY <1>1, <2>1, <2>2, <2>3 DEF Step
<1>3. step = "addServer" => server = "none"
  BY <1>1, <1>2 DEF InPlan
<1>4. step = "dropServer" => server # "none"
  BY <1>1, <1>2 DEF InPlan
<1>5. NextStep(o) = at[o] + 1
  BY <1>2 DEF NextStep
<1>6. /\ OthersStill(o) /\ at'[o] = at[o] + 1 /\ link'[o] = link[o]
      /\ phase'[o] = IF at[o] + 1 > Len(Plan(o)) THEN "ok" ELSE "running"
      /\ Plan(o)' = Plan(o)
  BY <1>1, <1>5, GoesOn
<1>e. Effect(step, o)
  BY <1>2 DEF Do, Skips
<1>7. /\ \A v \in Workspaces : Down(v)
      /\ \A v \in Workspaces : v # w => conn'[v] = conn[v] /\ dir'[v] = dir[v]
      /\ dir'[w] = dir[w]
      /\ conn'[w] <=> (conn[w] /\ step # "dropConn")
  <2>1. dir' \in [Workspaces -> BOOLEAN] /\ dir \in [Workspaces -> BOOLEAN]
    BY <1>1, <1>e, <1>2, Effects DEF Types
  <2>2. dir'[w] <=> dir[w]
    BY <1>1, <1>e, <1>2, Effects
  <2>3. dir'[w] = dir[w]
    BY <1>1, <2>1, <2>2
  <2>4. \A v \in Workspaces : Down(v)
    BY <1>1, <1>e, <1>2, Effects
  <2>5. \A v \in Workspaces : v # w => conn'[v] = conn[v] /\ dir'[v] = dir[v]
    BY <1>1, <1>e, <1>2, Effects
  <2>6. conn'[w] <=> (conn[w] /\ step # "dropConn")
    BY <1>1, <1>e, <1>2, Effects
  <2> QED BY <2>3, <2>4, <2>5, <2>6
<1>8. ServerGoesOn(o)
  BY <1>1, <1>2, <1>3, <1>4, <1>e, Effects DEF ServerGoesOn
<1>9. \A v \in Workspaces : RowHolds(v)'
  BY <1>1, <1>2, <1>3, <1>e, RowsHold DEF AgreeInv
<1>10. Considerate(o)
  BY <1>1, <1>6, <1>7, <1>8 DEF Considerate
<1>11. OpInv(o)'
  <2>1. phase'[o] \in {"ok", "running"}
    BY <1>6
  <2>2. phase'[o] = "running" => at'[o] \in 1..Len(Plan(o))
    <3>1. at[o] + 1 \in Nat /\ at[o] + 1 >= 1 /\ Len(Plan(o)) \in Nat
      BY <1>2
    <3> QED BY <1>6, <3>1
  <2>3. phase'[o] = "running" =>
          (Kind[o] = "connect" => server' = "none") /\ (Kind[o] = "abandon" => server' # "none")
    <3>1. CASE Kind[o] = "connect" /\ phase'[o] = "running"
      <4>1. at[o] = 1 /\ step = "probe"
        <5>1. Len(Plan(o)) = 2 /\ (at[o] = 1 \/ at[o] = 2) /\ phase'[o] # "ok"
          BY <1>2, <3>1
        <5>2. ~(at[o] + 1 > 2)
          BY <1>6, <5>1
        <5>3. at[o] = 1
          BY <5>1, <5>2
        <5> QED BY <1>2, <3>1, <5>3
      <4> QED BY <1>1, <1>e, <3>1, <4>1, Effects DEF InPlan
    <3>2. CASE Kind[o] = "abandon"
      <4>1. server # "none"
        BY <1>1, <3>2 DEF InPlan
      <4> QED BY <1>8, <3>2, <4>1 DEF ServerGoesOn
    <3> QED BY <3>1, <3>2
  <2> QED BY <1>6, <2>1, <2>2, <2>3 DEF OpInv, InPlan, Making, Taking
<1>12. Minding(o)
  <2>1. ~MindsDir(o) /\ ~MindsConn(o)
    BY DEF MindsDir, MindsConn, Making, Taking
  <2>2. ASSUME NEW v \in Workspaces, server' # "gone", dir'[v], row'[v] = "none"
        PROVE  dir[v] /\ row[v] = "none"
    <3>1. step # "dropServer"
      BY <1>1, <1>e, <2>2, Effects
    <3>2. row'[v] = "none" => row[v] = "none"
      BY <1>1, <1>2, <1>e, <3>1, Effects
    <3> QED BY <1>7, <2>2, <3>2
  <2>3. ASSUME NEW v \in Workspaces, server' # "gone", conn'[v], row'[v] # "linked"
        PROVE  conn[v] /\ row[v] # "linked"
    <3>1. step # "dropServer"
      BY <1>1, <1>e, <2>3, Effects
    <3>2. conn[v] /\ (v = w => step # "dropConn")
      BY <1>7, <2>3
    <3>3. row'[v] = row[v] \/ (step = "dropKey" /\ row[v] = "keyed")
      <4>1. CASE step = "dropKey"
        BY <1>1, <1>e, <4>1, Effects
      <4>2. CASE step # "dropKey" /\ v # w
        BY <1>1, <1>2, <1>e, <3>1, <4>2, Effects
      <4>3. CASE step # "dropKey" /\ v = w
        BY <1>1, <1>2, <1>e, <3>1, <3>2, <4>3, Effects
      <4> QED BY <4>1, <4>2, <4>3
    <3> QED BY <2>3, <3>2, <3>3
  <2> QED BY <2>1, <2>2, <2>3 DEF Minding
<1> QED BY <1>9, <1>10, <1>11, <1>12, AgreeKept

(* A maker turns back: what it has made it will take away again. *)
LEMMA MakerTurns ==
    ASSUME AgreeInv, Calm, NEW o \in Ops, Making(o), Running(o), at[o] >= 2,
           Step(o) \in {"addConn", "addRow", "clone"}, TurnTo(o, at[o] - 1),
           Effect("clone", o) \/ UNCHANGED world, Types'
    PROVE  AgreeInv'
<1> DEFINE w == Target[o]
<1>1. /\ Types /\ OpInv(o) /\ MakerInv(o) /\ phase[o] = "running" /\ w \in Workspaces
  BY OpsAssumption DEF AgreeInv, OpInv, Running
<1>2. /\ \/ at[o] = 2 /\ RowStep(o) = 3
         \/ at[o] = RowStep(o)
         \/ at[o] = RowStep(o) + 1
      /\ RowStep(o) \in {2, 3}
      /\ RowStep(o) = 3 => Kind[o] = "create" /\ link[o] = "linked"
  <2>1. at[o] \in 1..RowStep(o) + 1 /\ RowStep(o) \in {2, 3}
    BY <1>1, MakerIsAt
  <2>2. (at[o] = 2 /\ RowStep(o) = 3) \/ at[o] = RowStep(o) \/ at[o] = RowStep(o) + 1
    BY <2>1
  <2> QED BY <1>1, <2>1, <2>2, MakerIsAt
<1>3. /\ OthersStill(o) /\ at'[o] = at[o] - 1 /\ link'[o] = link[o] /\ phase'[o] = "undoing"
      /\ RowStep(o)' = RowStep(o)
  <2>1. at[o] - 1 # 0
    BY <1>2
  <2> QED BY <1>1, <2>1, TurnsTo
<1>4. /\ row' = row /\ server' = server /\ key' = key
      /\ \A v \in Workspaces : v # w => dir'[v] = dir[v]
      /\ \A v \in Workspaces : conn'[v] = conn[v]
      /\ dir[w] => dir'[w]
  <2>1. CASE UNCHANGED world
    BY <2>1 DEF world
  <2>2. CASE Effect("clone", o)
    <3>1. row' = row
      BY <1>1, <2>2, Effects
    <3>2. conn' = conn
      BY <1>1, <2>2 DEF Effect, Types
    <3> QED BY <1>1, <2>2, <3>1, <3>2, Effects
  <2> QED BY <2>1, <2>2
<1>5. \A v \in Workspaces : RowHolds(v)'
  BY <1>4 DEF AgreeInv, RowHolds
<1>6. Considerate(o)
  BY <1>1, <1>3, <1>4 DEF Considerate, ServerGoesOn, Down, Making, Taking
<1>7. OpInv(o)'
  <2>1. at[o] - 1 \in 1..RowStep(o)
    BY <1>2
  <2>2. at[o] - 1 < RowStep(o) => at[o] <= RowStep(o)
    BY <1>2
  <2>3. InPlan(o)'
    BY <1>3, <2>1 DEF InPlan, Making
  <2>4. MakerInv(o)'
    BY <1>1, <1>3, <1>4, <2>2 DEF MakerInv
  <2> QED BY <2>3, <2>4 DEF OpInv, Making, Taking
<1>8. Minding(o)
  <2>1. MindsDir(o)'
    BY <1>3 DEF MindsDir, Making
  <2>2. MindsConn(o) => MindsConn(o)'
    <3>1. MindsConn(o) => at[o] >= 3 /\ Kind[o] = "create" /\ link[o] = "linked"
      BY <1>1 DEF MindsConn, Making, Taking
    <3>2. at[o] >= 3 => at[o] - 1 >= 2
      BY <1>2
    <3> QED BY <1>3, <3>1, <3>2 DEF MindsConn
  <2> QED BY <1>1, <1>4, <2>1, <2>2 DEF Minding
<1> QED BY <1>5, <1>6, <1>7, <1>8, AgreeKept

(* A maker takes a step back. *)
LEMMA MakerUndoes ==
    ASSUME AgreeInv, Calm, NEW o \in Ops, Undo(o), Types'
    PROVE  AgreeInv'
<1> DEFINE w == Target[o]
           step == Inverse(Step(o))
<1>1. /\ Types /\ OpInv(o) /\ InPlan(o) /\ Making(o) /\ MakerInv(o) /\ phase[o] = "undoing"
      /\ w \in Workspaces /\ at[o] \in 1..RowStep(o) /\ TurnTo(o, at[o] - 1)
  BY OpsAssumption DEF AgreeInv, OpInv, InPlan, Undo
<1>2. /\ link[o] \in {"plain", "linked", "keyed"}
      /\ \/ at[o] = 1 /\ step = "rmdir"
         \/ at[o] = 2 /\ RowStep(o) = 3 /\ step = "dropConn"
         \/ at[o] = RowStep(o) /\ step = "dropRow"
      /\ RowStep(o) \in {2, 3}
      /\ RowStep(o) = 3 => Kind[o] = "create" /\ link[o] = "linked"
      /\ Kind[o] \in {"create", "prompt"}
      /\ RowStep(o) = 2 => link[o] # "linked"
  <2>1. /\ link[o] \in {"plain", "linked", "keyed"} /\ Kind[o] \in {"create", "prompt"}
        /\ Kind[o] = "prompt" => link[o] = "plain"
        /\ at[o] = 1 => Step(o) = "mkdir"
        /\ at[o] = 2 /\ RowStep(o) = 3 => Step(o) = "addConn"
        /\ at[o] = RowStep(o) => Step(o) = "addRow"
        /\ RowStep(o) \in {2, 3}
        /\ RowStep(o) = 3 => Kind[o] = "create" /\ link[o] = "linked"
    BY <1>1, MakerIsAt DEF Making
  <2>2. at[o] = 1 \/ (at[o] = 2 /\ RowStep(o) = 3) \/ at[o] = RowStep(o)
    BY <1>1, <2>1
  <2>3. RowStep(o) = 2 => link[o] # "linked"
    BY <2>1 DEF RowStep
  <2> QED BY <2>1, <2>2, <2>3 DEF Inverse
<1>3. /\ OthersStill(o) /\ at'[o] = at[o] - 1 /\ link'[o] = link[o]
      /\ phase'[o] = IF at[o] = 1 THEN "failed" ELSE "undoing"
      /\ RowStep(o)' = RowStep(o)
  <2>1. at[o] - 1 = 0 <=> at[o] = 1
    BY <1>1
  <2> QED BY <1>1, <2>1, TurnsTo
<1>e. Effect(step, o)
  BY <1>2 DEF Undo, Permitted
<1>4. /\ server' = server /\ key' = key
      /\ \A v \in Workspaces : v # w => row'[v] = row[v] /\ conn'[v] = conn[v] /\ dir'[v] = dir[v]
      /\ conn'[w] <=> (conn[w] /\ step # "dropConn")
      /\ dir'[w] <=> (dir[w] /\ step # "rmdir")
      /\ Down(w) /\ (step = "dropRow" => row'[w] = "none")
      /\ step # "dropRow" => (row'[w] = "none" => row[w] = "none")
      /\ step = "rmdir" => row' = row
  BY <1>1, <1>2, <1>e, Effects
<1>5. step # "dropRow" => row[w] = "none"
  BY <1>1, <1>2 DEF MakerInv
<1>6. \A v \in Workspaces : RowHolds(v)'
  BY <1>1, <1>2, <1>5, <1>e, RowsHold DEF AgreeInv
<1>7. Considerate(o)
  BY <1>1, <1>2, <1>3, <1>4 DEF Considerate, ServerGoesOn, Down, Taking
<1>8. OpInv(o)'
  <2>1. at[o] # 1 => at[o] - 1 \in 1..RowStep(o)
    BY <1>2
  <2>2. InPlan(o)'
    BY <1>1, <1>2, <1>3, <2>1 DEF InPlan, Making
  <2>3. row'[w] = "none"
    BY <1>4, <1>5 DEF Down
  <2>4. MakerInv(o)'
    BY <1>1, <1>2, <1>3, <2>3 DEF MakerInv
  <2> QED BY <1>1, <2>2, <2>4 DEF OpInv, Making, Taking
<1>9. Minding(o)
  <2>1. dir'[w] => MindsDir(o)'
    BY <1>1, <1>2, <1>3, <1>4 DEF MindsDir, Making
  <2>2. conn'[w] =>
          \/ conn[w] /\ row[w] # "linked" /\ (MindsConn(o) => MindsConn(o)')
          \/ MindsConn(o)'
    <3>1. CASE at[o] = 1
      BY <1>1, <1>2, <1>4, <1>5, <3>1 DEF MindsConn, Making, Taking
    <3>2. CASE step = "dropConn"
      BY <1>4, <3>2
    <3>3. CASE step = "dropRow" /\ RowStep(o) = 3
      BY <1>2, <1>3, <3>3 DEF MindsConn
    <3>4. CASE step = "dropRow" /\ RowStep(o) = 2
      BY <1>1, <1>2, <1>4, <3>4 DEF MindsConn, MakerInv
    <3> QED BY <1>2, <3>1, <3>2, <3>3, <3>4
  <2> QED BY <1>4, <2>1, <2>2 DEF Minding
<1> QED BY <1>6, <1>7, <1>8, <1>9, AgreeKept

(* A server that is not reached and a key that is not made change nothing. *)
LEMMA FirstStepFails ==
    ASSUME AgreeInv, Calm, NEW o \in Ops, Unreachable(o) \/ KeyNotMade(o), Types'
    PROVE  AgreeInv'
<1>1. /\ Types /\ OpInv(o) /\ Running(o) /\ TurnTo(o, 0) /\ UNCHANGED world
      /\ Step(o) \in {"probe", "makeKey"}
  BY DEF AgreeInv, Unreachable, KeyNotMade
<1>2. ~Making(o) /\ ~Taking(o)
  <2>1. Making(o) => Step(o) \in {"mkdir", "addConn", "addRow", "clone", "ensure"}
    <3>1. SUFFICES ASSUME Making(o) PROVE Step(o) \in {"mkdir", "addConn", "addRow", "clone", "ensure"}
      OBVIOUS
    <3>2. at[o] \in 1..RowStep(o) + 1 /\ RowStep(o) \in {2, 3}
      BY <1>1, <3>1, MakerIsAt DEF Running
    <3>3. at[o] = 1 \/ (at[o] = 2 /\ RowStep(o) = 3) \/ at[o] = RowStep(o) \/ at[o] = RowStep(o) + 1
      BY <3>2
    <3> QED BY <1>1, <3>1, <3>3, MakerIsAt DEF Running
  <2>2. Kind[o] # "delete"
    <3>1. SUFFICES ASSUME Kind[o] = "delete" PROVE FALSE
      OBVIOUS
    <3>2. at[o] \in 1..Len(Plan(o))
      BY <1>1 DEF OpInv, InPlan, Running
    <3> QED BY <1>1, <3>1, <3>2, Plans DEF Step
  <2>3. Kind[o] # "disconnect"
    <3>1. SUFFICES ASSUME Kind[o] = "disconnect" PROVE FALSE
      OBVIOUS
    <3>2. at[o] \in 1..Len(Plan(o))
      BY <1>1 DEF OpInv, InPlan, Running
    <3> QED BY <1>1, <3>1, <3>2, Plans DEF Step
  <2> QED BY <1>1, <2>1, <2>2, <2>3 DEF Taking
<1>3. OthersStill(o) /\ phase'[o] = "failed"
  BY <1>1, TurnsTo
<1>4. row' = row /\ conn' = conn /\ dir' = dir /\ server' = server /\ key' = key
  BY <1>1 DEF world
<1>5. Considerate(o)
  BY <1>2, <1>3, <1>4 DEF Considerate, ServerGoesOn, Down
<1>6. Minding(o)
  BY <1>2, <1>4 DEF Minding, MindsDir, MindsConn, Making, Taking
<1>7. OpInv(o)'
  BY <1>2, <1>3 DEF OpInv, InPlan, Making, Taking
<1>8. \A v \in Workspaces : RowHolds(v)'
  BY <1>4 DEF AgreeInv, RowHolds
<1> QED BY <1>5, <1>6, <1>7, <1>8, AgreeKept

LEMMA AgreeInit == Init => AgreeInv
<1> SUFFICES ASSUME Init PROVE AgreeInv
  OBVIOUS
<1>1. PICK there \in SUBSET Existing :
        /\ there # {} => server = "there" /\ (there \cap Ssh # {} => key = "there")
        /\ row = [w \in Workspaces |-> IF w \in there THEN RowOf(w) ELSE "none"]
        /\ conn = [w \in Workspaces |-> w \in there \cap App]
        /\ dir = [w \in Workspaces |-> w \in there]
  BY DEF Init
<1>2. /\ phase = [o \in Ops |-> "idle"] /\ at = [o \in Ops |-> 0] /\ link = [o \in Ops |-> "none"]
      /\ server \in {"none", "there"} /\ key \in {"none", "there"}
  BY DEF Init
<1>3. Types
  <2>1. crashes = 0
    BY DEF Init
  <2> QED BY <1>1, <1>2, <2>1 DEF Types, RowOf, Rows, Lives, Phases, Closed
<1>4. ASSUME NEW o \in Ops PROVE OpInv(o)
  <2>1. Making(o) => row[Target[o]] = "none"
    BY <1>1, OpsAssumption, FreshAssumption DEF Making
  <2> QED BY <1>2, <2>1 DEF OpInv, InPlan, MakerInv, TakerInv, Unfound
<1>5. ASSUME NEW w \in Workspaces PROVE RowHolds(w) /\ DirIsMinded(w) /\ ConnIsMinded(w)
  BY <1>1, WorkspacesAssumption DEF RowHolds, DirIsMinded, ConnIsMinded, RowOf
<1> QED BY <1>3, <1>4, <1>5 DEF AgreeInv

LEMMA AgreeStep ==
    ASSUME AgreeInv, [Next]_vars
    PROVE  AgreeInv'
<1>0. Types /\ Types'
  BY TypesStep DEF AgreeInv
<1>1. CASE ~Calm'
  BY <1>0, <1>1 DEF AgreeInv
<1>2. CASE Calm' /\ UNCHANGED vars
  <2>1. Calm
    BY <1>2 DEF vars, Calm
  <2>2. /\ \A o \in Ops : OpInv(o)
        /\ \A w \in Workspaces : RowHolds(w) /\ DirIsMinded(w) /\ ConnIsMinded(w)
    BY <2>1 DEF AgreeInv
  <2>u. /\ phase' = phase /\ at' = at /\ link' = link
        /\ row' = row /\ conn' = conn /\ dir' = dir /\ server' = server /\ key' = key
    BY <1>2 DEF vars, world
  <2>3. ASSUME NEW o \in Ops PROVE OpInv(o)'
    <3>1. InPlan(o) /\ (Making(o) => MakerInv(o)) /\ (Taking(o) => TakerInv(o))
      BY <2>2 DEF OpInv
    <3>2. RowStep(o)' = RowStep(o) /\ (Unfound(Target[o]) => Unfound(Target[o])')
      BY <2>u DEF RowStep, Unfound
    <3>3. InPlan(o)'
      BY <3>1, <3>2, <2>u DEF InPlan, Making, Plan
    <3>4. Making(o) => MakerInv(o)'
      BY <3>1, <3>2, <2>u DEF MakerInv
    <3>5. Taking(o) => TakerInv(o)'
      BY <3>1, <2>u DEF TakerInv
    <3> QED BY <3>3, <3>4, <3>5 DEF OpInv, Making, Taking
  <2>4. \A w \in Workspaces : RowHolds(w)' /\ DirIsMinded(w)' /\ ConnIsMinded(w)'
    BY <2>2, <2>u DEF RowHolds, DirIsMinded, ConnIsMinded, MindsDir, MindsConn, Making, Taking
  <2> QED BY <1>0, <2>3, <2>4 DEF AgreeInv
<1>3. CASE Calm' /\ Next
  <2>1. ~Crash
    <3>1. Crash => crashes' = crashes + 1 /\ crashes < MaxCrashes
      BY DEF Crash
    <3>2. crashes \in Nat /\ crashes' = 0
      BY <1>0, <1>3 DEF Types, Calm
    <3> QED BY <3>1, <3>2
  <2>2. \A o \in Ops : ~Failure(o)
    BY <1>3 DEF Failure, Refused, Lost, Silent, Stuck, Fault, Calm
  <2>3. PICK o \in Ops : Begin(o) \/ Ledger(o)
    BY <1>3, <2>1, <2>2 DEF Next
  <2>4. Calm
    BY <1>3, <2>3 DEF Begin, Ledger, Do, Forbidden, Undo, Ship, ShipWithKey, Unreachable, KeyNotMade, Calm
  <2>5. OpInv(o) /\ InPlan(o)
    BY <2>4 DEF AgreeInv, OpInv
  <2>6. CASE Do(o)
    <3>1. Making(o) \/ Kind[o] = "delete" \/ Kind[o] = "disconnect" \/ (~Making(o) /\ ~Taking(o))
      BY DEF Taking
    <3> QED BY <1>0, <2>4, <2>6, <3>1, MakerDoes, DeleteDoes, DisconnectDoes, OtherDoes
  <2>7. CASE Forbidden(o)
    <3>1. Running(o) /\ Step(o) \in {"addConn", "addRow", "relink"} /\ TurnTo(o, at[o] - 1) /\ UNCHANGED world
      BY <2>7 DEF Forbidden, Permitted
    <3>2. Making(o) /\ at[o] >= 2 /\ Step(o) # "relink"
      <4>1. at[o] \in 1..Len(Plan(o))
        BY <2>5, <3>1 DEF InPlan, Running
      <4>2. Kind[o] # "delete" /\ Kind[o] # "disconnect"
        BY <3>1, <4>1, Plans DEF Step
      <4>3. Kind[o] # "connect" /\ Kind[o] # "abandon" /\ Kind[o] # "register" /\ Kind[o] # "forget"
        BY <3>1, <4>1, Plans DEF Step
      <4>4. Making(o)
        BY <4>2, <4>3, OpsAssumption DEF Making, Kinds
      <4>5. at[o] \in 1..RowStep(o) + 1 /\ RowStep(o) \in {2, 3} /\ (at[o] = 1 => Step(o) = "mkdir")
        BY <1>0, <2>5, <3>1, <4>4, MakerIsAt DEF Running
      <4>6. at[o] = 1 \/ (at[o] = 2 /\ RowStep(o) = 3) \/ at[o] = RowStep(o) \/ at[o] = RowStep(o) + 1
        BY <4>5
      <4>7. Step(o) # "relink"
        BY <1>0, <2>5, <3>1, <4>4, <4>6, MakerIsAt DEF Running
      <4> QED BY <3>1, <4>4, <4>5, <4>7
    <3> QED BY <1>0, <2>4, <3>1, <3>2, MakerTurns
  <2>8. CASE Ship(o) \/ ShipWithKey(o)
    <3>1. /\ Running(o) /\ Step(o) = "clone" /\ TurnTo(o, at[o] - 1)
          /\ Effect("clone", o) \/ UNCHANGED world
      BY <2>8 DEF Ship, ShipWithKey
    <3>2. at[o] \in 1..Len(Plan(o))
      BY <2>5, <3>1 DEF InPlan, Running
    <3>3. Kind[o] # "delete" /\ Kind[o] # "disconnect"
      BY <3>1, <3>2, Plans DEF Step
    <3>4. Kind[o] # "connect" /\ Kind[o] # "abandon" /\ Kind[o] # "register" /\ Kind[o] # "forget"
      BY <3>1, <3>2, Plans DEF Step
    <3>5. Making(o)
      BY <3>3, <3>4, OpsAssumption DEF Making, Kinds
    <3>6. at[o] >= 2
      BY <1>0, <2>5, <3>1, <3>2, <3>5, MakerIsAt DEF Running
    <3> QED BY <1>0, <2>4, <3>1, <3>5, <3>6, MakerTurns
  <2>9. CASE Undo(o)
    BY <1>0, <2>4, <2>9, MakerUndoes
  <2>10. CASE Unreachable(o) \/ KeyNotMade(o)
    BY <1>0, <2>4, <2>10, FirstStepFails
  <2>11. CASE Begin(o)
    BY <1>0, <2>4, <2>11, BeginAgrees
  <2> QED BY <2>3, <2>6, <2>7, <2>8, <2>9, <2>10, <2>11 DEF Ledger
<1> QED BY <1>1, <1>2, <1>3

(* Whatever operations meet, in any number and on any workspaces, when     *)
(* nothing has failed the rows, the connections, the server, the key and   *)
(* the directories agree as soon as no operation is in progress.  It rests *)
(* on nobody finding a workspace before its row is there, and on whoever   *)
(* takes the row minding what the row referred to.                         *)
THEOREM RowsAndDirectoriesAgree == Spec => []Consistent
<1>1. AgreeInv => Consistent
  <2> SUFFICES ASSUME AgreeInv, Open = {}, faults = {}, crashes = 0, NEW w \in Workspaces
               PROVE  /\ row[w] # "none" => server = "there" /\ dir[w]
                      /\ server # "gone" /\ dir[w] => row[w] # "none" \/ Answered("prompt", "ok", w)
                      /\ row[w] = "linked" => conn[w]
                      /\ server # "gone" /\ conn[w] => row[w] = "linked"
                      /\ row[w] = "keyed" => key = "there"
                      /\ Answered("delete", "ok", w) => row[w] = "none"
    BY DEF Consistent
  <2>1. \A o \in Ops : phase[o] \notin {"running", "undoing"}
    BY DEF Open
  <2>2. /\ \A o \in Ops : OpInv(o)
        /\ RowHolds(w) /\ DirIsMinded(w) /\ ConnIsMinded(w)
    BY DEF AgreeInv, Calm
  <2>3. server # "gone" /\ dir[w] /\ row[w] = "none" => Answered("prompt", "ok", w)
    BY <2>1, <2>2 DEF DirIsMinded, MindsDir, Answered
  <2>4. server # "gone" /\ conn[w] => row[w] = "linked"
    BY <2>1, <2>2 DEF ConnIsMinded, MindsConn
  <2>5. Answered("delete", "ok", w) => row[w] = "none"
    BY <2>2 DEF Answered, OpInv, TakerInv, Taking
  <2> QED BY <2>2, <2>3, <2>4, <2>5 DEF RowHolds
<1>2. AgreeInv /\ [Next]_vars => AgreeInv'
  BY AgreeStep
<1> QED BY AgreeInit, <1>1, <1>2, PTL DEF Spec
=============================================================================
