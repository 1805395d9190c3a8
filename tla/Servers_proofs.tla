--------------------------- MODULE Servers_proofs ---------------------------
(* Proofs about what runs on the servers of the users.                     *)
(*                                                                         *)
(* The pool of ports and the gateway (Gateway): no port is given to two    *)
(* workspaces, none is lost but in an allocation that fails, and a request *)
(* is answered by the program it is for.                                   *)
(*                                                                         *)
(* The tools of the agents (Toolbox): as long as the calls do not meet,    *)
(* the workspace is what their answers say, and a program that is reported *)
(* as running is the one that was sent.                                    *)
EXTENDS Toolbox, Gateway, FiniteSetTheorems, TLAPS

-----------------------------------------------------------------------------
(* Ports and the gateway.                                                  *)

(* A port some workspace has, for good or on the way there. *)
Kept == {port[w] : w \in Workspaces} \cup {hand[w] : w \in Workspaces}

(* How a creation stands: its process is busy with it alone, it holds the  *)
(* port in a local variable before and after it has stored it.             *)
CreationInv ==
    /\ \A w \in Workspaces : step[w] \in Creating => by[w] # None
    /\ \A w, v \in Workspaces : by[w] # None /\ by[w] = by[v] => w = v
    /\ \A w \in Workspaces : step[w] \in {"saga", "over"} => by[w] = None
    /\ \A w \in Workspaces : hand[w] # None <=> step[w] \in {"set", "clear"}
    /\ \A w \in Workspaces : step[w] = "clear" => port[w] = hand[w]
    /\ \A w \in Workspaces : step[w] \in {"saga", "check", "fill", "pop", "set"} => port[w] = None

(* A program that answers has a port to answer on. *)
UpInv == \A w \in Workspaces : up[w] => port[w] # None

(* One process fills the pool, and nothing has left it before. *)
PoolInv ==
    /\ \A w \in Workspaces : step[w] = "fill" => ~PoolExists
    /\ \A w, v \in Workspaces : step[w] = "fill" /\ step[v] = "fill" => w = v
    /\ free \cap used = {}
    /\ PoolExists => free \cup used = Ports

(* What a workspace has is used, and is its own. *)
OwnInv ==
    /\ \A w \in Workspaces : port[w] \in used \cup {None} /\ hand[w] \in used \cup {None}
    /\ \A w, v \in Workspaces : w # v =>
          /\ port[w] # None => port[w] # port[v] /\ port[w] # hand[v]
          /\ hand[w] # None => hand[w] # hand[v]

(* One failure loses one port. *)
LossInv ==
    /\ IsFiniteSet(used)
    /\ Cardinality(used \ Kept) <= trouble

GatewayInv ==
    /\ TypeOK
    /\ CreationInv
    /\ UpInv
    /\ ~overlapped => PoolInv /\ OwnInv /\ LossInv /\ ~strayed

-----------------------------------------------------------------------------
(* The steps that have nothing to do with the pool and the creations. *)
Quiet == UNCHANGED <<free, used, port>> /\ UNCHANGED <<step, by, hand>>

(* What a step is, with the workspace or the process that takes it. *)
LEMMA StepCases ==
    ASSUME [Next]_vars
    PROVE  \/ \E w \in Workspaces, p \in Procs : Begin(w, p)
           \/ \E w \in Workspaces : CheckPool(w) \/ FillPool(w) \/ AllocatePort(w)
                 \/ SetPort(w) \/ ClearPending(w) \/ AssignDomain(w) \/ RedisFails(w)
           \/ \E p \in Procs : Crash(p)
           \/ Quiet /\ UNCHANGED overlapped
<1>1. ASSUME NEW w \in Workspaces,
             PendingExpires(w) \/ MarkExpires(w) \/ AppStarts(w) \/ AppStops(w)
      PROVE  Quiet /\ UNCHANGED overlapped
  BY <1>1 DEF PendingExpires, MarkExpires, AppStarts, AppStops, Quiet, redis, creation
<1>2. ASSUME NEW c \in Clients, Serve(c) \/ TurnAway(c) \/ RequestFails(c)
      PROVE  Quiet /\ UNCHANGED overlapped
  BY <1>2 DEF Serve, Route, Enter, TurnAway, Answer, Miss, RequestFails, Quiet, redis, creation
<1>3. CASE UNCHANGED vars
  BY <1>3 DEF vars, redis, creation, Quiet
<1>4. CASE Next
  BY <1>1, <1>2, <1>4 DEF Next, Create
<1> QED
  BY <1>3, <1>4

(* Two processes that once found the pool missing at the same time have    *)
(* done so for ever.                                                       *)
LEMMA OverlapStays == [Next]_vars /\ overlapped => overlapped'
<1> SUFFICES ASSUME [Next]_vars, overlapped PROVE overlapped'
  OBVIOUS
<1> QED
  BY StepCases DEF Begin, CheckPool, FillPool, AllocatePort, SetPort, ClearPending, AssignDomain,
     RedisFails, Crash, Quiet

-----------------------------------------------------------------------------
(* Types.                                                                  *)

LEMMA TypeHolds == Init => TypeOK
<1> SUFFICES ASSUME Init PROVE TypeOK
  OBVIOUS
<1>1. 0 \in 0..MaxTrouble /\ "saga" \in {"saga", "over"} \cup Creating
  BY GatewayAssumption
<1>2. /\ free \subseteq Ports /\ used \subseteq Ports
      /\ trouble \in 0..MaxTrouble
      /\ strayed \in BOOLEAN /\ overlapped \in BOOLEAN
  BY <1>1 DEF Init
<1>3. /\ pending \in [Workspaces -> Ports \cup {None}]
      /\ port \in [Workspaces -> Ports \cup {None}]
      /\ hand \in [Workspaces -> Ports \cup {None}]
      /\ by \in [Workspaces -> Procs \cup {None}]
      /\ step \in [Workspaces -> {"saga", "over"} \cup Creating]
  BY <1>1 DEF Init
<1>4. /\ named \in [Workspaces -> BOOLEAN]
      /\ closed \in [Workspaces -> BOOLEAN]
      /\ up \in [Workspaces -> BOOLEAN]
      /\ at \in [Clients -> {"away", "waiting", "sending"}]
  BY DEF Init
<1> QED
  BY <1>2, <1>3, <1>4 DEF TypeOK

(* Every step keeps the types. *)
LEMMA TypeStep == TypeOK /\ [Next]_vars => TypeOK'
<1> SUFFICES ASSUME TypeOK, [Next]_vars PROVE TypeOK'
  OBVIOUS
<1> USE GatewayAssumption
<1> USE DEF TypeOK, redis, creation, requests
<1>1. ASSUME NEW w \in Workspaces, NEW p \in Procs, Begin(w, p) PROVE TypeOK'
  BY <1>1 DEF Begin, Creating
<1>2. ASSUME NEW w \in Workspaces, Create(w) PROVE TypeOK'
  <2>1. CASE CheckPool(w)
    BY <2>1 DEF CheckPool, Go, Creating
  <2>2. CASE FillPool(w) \/ AllocatePort(w)
    BY <2>2 DEF FillPool, AllocatePort, Pop, Go, Creating
  <2>3. CASE SetPort(w) \/ ClearPending(w) \/ AssignDomain(w)
    <3>1. CASE SetPort(w)
      BY <3>1 DEF SetPort, Go, Creating
    <3>2. CASE ClearPending(w)
      BY <3>2 DEF ClearPending, Go, Creating
    <3>3. CASE AssignDomain(w)
      BY <3>3 DEF AssignDomain, Go, Creating
    <3> QED
      BY <2>3, <3>1, <3>2, <3>3
  <2> QED
    BY <1>2, <2>1, <2>2, <2>3 DEF Create
<1>3. ASSUME NEW w \in Workspaces, RedisFails(w) PROVE TypeOK'
  <2>1. /\ trouble' \in 0..MaxTrouble
        /\ hand' \in [Workspaces -> Ports \cup {None}]
        /\ UNCHANGED <<closed, at, up>> /\ strayed' = strayed /\ overlapped' = overlapped
    BY <1>3 DEF RedisFails, Trouble
  <2>2. /\ step' \in [Workspaces -> {"saga", "over"} \cup Creating]
        /\ by' \in [Workspaces -> Procs \cup {None}]
    BY <1>3 DEF RedisFails, Go, Creating
  <2>3. /\ free' \subseteq Ports /\ used' \subseteq Ports
        /\ pending' \in [Workspaces -> Ports \cup {None}]
        /\ port' \in [Workspaces -> Ports \cup {None}]
    BY <1>3 DEF RedisFails, Pop
  <2>4. named' \in [Workspaces -> BOOLEAN]
    BY <1>3 DEF RedisFails, Pop
  <2> QED
    BY <2>1, <2>2, <2>3, <2>4
<1>4. ASSUME NEW w \in Workspaces,
             PendingExpires(w) \/ MarkExpires(w) \/ AppStarts(w) \/ AppStops(w)
      PROVE  TypeOK'
  BY <1>4 DEF PendingExpires, MarkExpires, AppStarts, AppStops, Mark
<1>5. ASSUME NEW c \in Clients, Serve(c) \/ TurnAway(c) \/ RequestFails(c) PROVE TypeOK'
  <2>1. CASE Route(c) \/ Enter(c) \/ TurnAway(c)
    BY <2>1 DEF Route, Enter, TurnAway, Move
  <2>2. CASE Answer(c) \/ Miss(c)
    BY <2>2 DEF Answer, Miss, Move, Mark, Strays
  <2>3. CASE RequestFails(c)
    BY <2>3 DEF RequestFails, Trouble, Move, Strays
  <2> QED
    BY <1>5, <2>1, <2>2, <2>3 DEF Serve
<1>6. ASSUME NEW p \in Procs, Crash(p) PROVE TypeOK'
  BY <1>6 DEF Crash, Trouble, Creating
<1>7. CASE UNCHANGED vars
  BY <1>7 DEF vars
<1> QED
  BY <1>1, <1>2, <1>3, <1>4, <1>5, <1>6, <1>7 DEF Next

-----------------------------------------------------------------------------
(* The creations.                                                          *)

(* Every step keeps what is known of a creation. *)
LEMMA CreationStep == TypeOK /\ CreationInv /\ [Next]_vars => CreationInv'
<1> SUFFICES ASSUME TypeOK, CreationInv, [Next]_vars PROVE CreationInv'
  OBVIOUS
<1> USE GatewayAssumption
<1> USE DEF TypeOK, CreationInv, redis, creation
<1>1. ASSUME NEW w \in Workspaces, NEW p \in Procs, Begin(w, p) PROVE CreationInv'
  BY <1>1 DEF Begin, Idle, Creating
<1>2. ASSUME NEW w \in Workspaces, CheckPool(w) PROVE CreationInv'
  BY <1>2 DEF CheckPool, Go, Creating
<1>3. ASSUME NEW w \in Workspaces, FillPool(w) PROVE CreationInv'
  BY <1>3 DEF FillPool, Go, Creating
<1>4. ASSUME NEW w \in Workspaces, AllocatePort(w) PROVE CreationInv'
  BY <1>4 DEF AllocatePort, Pop, Go, Creating
<1>5. ASSUME NEW w \in Workspaces, SetPort(w) PROVE CreationInv'
  BY <1>5 DEF SetPort, Go, Creating
<1>6. ASSUME NEW w \in Workspaces, ClearPending(w) PROVE CreationInv'
  BY <1>6 DEF ClearPending, Go, Creating
<1>7. ASSUME NEW w \in Workspaces, AssignDomain(w) PROVE CreationInv'
  BY <1>7 DEF AssignDomain, Go, Creating
<1>8. ASSUME NEW w \in Workspaces, RedisFails(w) PROVE CreationInv'
  <2>1. /\ step' = [step EXCEPT ![w] = IF step[w] = "name" THEN "over" ELSE "name"]
        /\ by' = IF step[w] = "name" THEN [by EXCEPT ![w] = None] ELSE by
        /\ hand' = [hand EXCEPT ![w] = None]
        /\ step[w] \in Creating
    BY <1>8 DEF RedisFails, Go
  <2>2. \A v \in Workspaces : v # w => port'[v] = port[v]
    BY <1>8 DEF RedisFails, Pop
  <2> QED
    BY <2>1, <2>2 DEF Creating
<1>9. ASSUME NEW p \in Procs, Crash(p) PROVE CreationInv'
  BY <1>9 DEF Crash, Creating
<1>10. CASE Quiet
  BY <1>10 DEF Quiet, Creating
<1> QED
  BY <1>1, <1>2, <1>3, <1>4, <1>5, <1>6, <1>7, <1>8, <1>9, <1>10, StepCases

(* No port is taken from a workspace. *)
LEMMA PortStays ==
    ASSUME TypeOK, CreationInv, [Next]_vars, NEW w \in Workspaces, port[w] # None
    PROVE  port'[w] = port[w]
<1> USE DEF TypeOK, CreationInv, redis, Creating
<1>1. ASSUME NEW v \in Workspaces, AllocatePort(v) \/ SetPort(v) \/ RedisFails(v)
      PROVE  port'[w] = port[w]
  BY <1>1 DEF AllocatePort, SetPort, RedisFails, Pop
<1> QED
  BY <1>1, StepCases DEF Begin, CheckPool, FillPool, ClearPending, AssignDomain, Crash, Quiet

(* A program starts on the port its workspace has. *)
LEMMA UpStep == TypeOK /\ CreationInv /\ UpInv /\ [Next]_vars => UpInv'
<1> SUFFICES ASSUME TypeOK, CreationInv, UpInv, [Next]_vars,
                    NEW w \in Workspaces, up'[w]
             PROVE  port'[w] # None
  BY DEF UpInv
<1>1. up[w] \/ AppStarts(w)
  <2>1. ASSUME NEW v \in Workspaces, AppStarts(v) \/ AppStops(v) PROVE up[w] \/ AppStarts(w)
    BY <2>1 DEF AppStarts, AppStops, TypeOK
  <2>2. CASE UNCHANGED up
    BY <2>2
  <2>3. UNCHANGED up \/ \E v \in Workspaces : AppStarts(v) \/ AppStops(v)
    BY DEF Next, vars, Begin, Create, CheckPool, FillPool, AllocatePort, SetPort, ClearPending,
       AssignDomain, RedisFails, PendingExpires, MarkExpires, Serve, Route, Enter, TurnAway,
       Answer, Miss, RequestFails, Crash
  <2> QED
    BY <2>1, <2>2, <2>3
<1>2. port[w] # None
  BY <1>1 DEF UpInv, AppStarts
<1> QED
  BY <1>2, PortStays

-----------------------------------------------------------------------------
(* The pool, as long as no two processes find it missing at once.          *)

(* Every step keeps the pool in order. *)
LEMMA PoolStep == TypeOK /\ PoolInv /\ [Next]_vars /\ ~overlapped' => PoolInv'
<1> SUFFICES ASSUME TypeOK, PoolInv, [Next]_vars, ~overlapped' PROVE PoolInv'
  OBVIOUS
<1> USE DEF TypeOK, PoolInv, PoolExists, redis
<1>1. ASSUME NEW w \in Workspaces, NEW p \in Procs, Begin(w, p) PROVE PoolInv'
  BY <1>1 DEF Begin
<1>2. ASSUME NEW w \in Workspaces, CheckPool(w) PROVE PoolInv'
  BY <1>2 DEF CheckPool, Go
<1>3. ASSUME NEW w \in Workspaces, FillPool(w) PROVE PoolInv'
  BY <1>3 DEF FillPool, Go
<1>4. ASSUME NEW w \in Workspaces, AllocatePort(w) PROVE PoolInv'
  BY <1>4 DEF AllocatePort, Pop, Go
<1>5. ASSUME NEW w \in Workspaces, SetPort(w) \/ ClearPending(w) \/ AssignDomain(w) PROVE PoolInv'
  BY <1>5 DEF SetPort, ClearPending, AssignDomain, Go
<1>6. ASSUME NEW w \in Workspaces, RedisFails(w) PROVE PoolInv'
  <2>1. step' = [step EXCEPT ![w] = IF step[w] = "name" THEN "over" ELSE "name"]
    BY <1>6 DEF RedisFails, Go
  <2>2. \/ UNCHANGED <<free, used>>
        \/ step[w] = "fill" /\ free' = Ports /\ UNCHANGED used
        \/ \E q \in free : free' = free \ {q} /\ used' = used \cup {q}
    BY <1>6 DEF RedisFails, Pop
  <2>3. \A v \in Workspaces : step'[v] = "fill" => step[v] = "fill" /\ v # w
    BY <2>1
  <2> QED
    BY <2>2, <2>3
<1>7. ASSUME NEW p \in Procs, Crash(p) PROVE PoolInv'
  BY <1>7 DEF Crash
<1>8. CASE Quiet
  BY <1>8 DEF Quiet
<1> QED
  BY <1>1, <1>2, <1>3, <1>4, <1>5, <1>6, <1>7, <1>8, StepCases

(* A step gives a port that was free to one workspace, or lets a workspace *)
(* store, keep or drop the port it has in hand.                            *)
LEMMA HandsOf ==
    ASSUME TypeOK, CreationInv, [Next]_vars
    PROVE  \/ /\ UNCHANGED <<port, used>>
              /\ \A w \in Workspaces : hand'[w] \in {hand[w], None}
           \/ \E w \in Workspaces, q \in free :
                 /\ hand[w] = None /\ port[w] = None
                 /\ hand' = [hand EXCEPT ![w] = q] \/ hand' = hand
                 /\ used' = used \cup {q} /\ UNCHANGED port
           \/ \E w \in Workspaces :
                 /\ hand[w] # None /\ port[w] = None
                 /\ port' = [port EXCEPT ![w] = hand[w]]
                 /\ hand' = hand \/ hand' = [hand EXCEPT ![w] = None]
                 /\ UNCHANGED used
<1> USE DEF TypeOK, CreationInv, redis, creation, Creating
<1>1. ASSUME NEW w \in Workspaces, NEW p \in Procs, Begin(w, p)
      PROVE  UNCHANGED <<port, used, hand>>
  BY <1>1 DEF Begin
<1>2. ASSUME NEW w \in Workspaces, CheckPool(w) \/ FillPool(w) \/ AssignDomain(w)
      PROVE  UNCHANGED <<port, used, hand>>
  BY <1>2 DEF CheckPool, FillPool, AssignDomain
<1>3. ASSUME NEW w \in Workspaces, AllocatePort(w)
      PROVE  \/ UNCHANGED <<port, used, hand>>
             \/ \E q \in free :
                 /\ hand[w] = None /\ port[w] = None
                 /\ hand' = [hand EXCEPT ![w] = q]
                 /\ used' = used \cup {q} /\ UNCHANGED port
  BY <1>3 DEF AllocatePort, Pop
<1>4. ASSUME NEW w \in Workspaces, SetPort(w)
      PROVE  /\ hand[w] # None /\ port[w] = None
             /\ port' = [port EXCEPT ![w] = hand[w]]
             /\ UNCHANGED <<hand, used>>
  BY <1>4 DEF SetPort
<1>5. ASSUME NEW w \in Workspaces, ClearPending(w)
      PROVE  /\ UNCHANGED <<port, used>>
             /\ \A v \in Workspaces : hand'[v] \in {hand[v], None}
  BY <1>5 DEF ClearPending
<1>6. ASSUME NEW w \in Workspaces, RedisFails(w)
      PROVE  \/ /\ UNCHANGED <<port, used>>
                /\ \A v \in Workspaces : hand'[v] \in {hand[v], None}
             \/ \E q \in free :
                 /\ hand[w] = None /\ port[w] = None
                 /\ hand' = hand
                 /\ used' = used \cup {q} /\ UNCHANGED port
             \/ /\ hand[w] # None /\ port[w] = None
                /\ port' = [port EXCEPT ![w] = hand[w]]
                /\ hand' = [hand EXCEPT ![w] = None]
                /\ UNCHANGED used
  <2>1. hand' = [hand EXCEPT ![w] = None]
    BY <1>6 DEF RedisFails
  <2>2. \A v \in Workspaces : hand'[v] \in {hand[v], None}
    BY <2>1
  <2>3. hand[w] = None => hand' = hand
    BY <2>1
  <2>4. CASE UNCHANGED <<port, used>>
    BY <2>2, <2>4
  <2>5. CASE step[w] = "pop" /\ (\E q \in Ports : Pop(w, q)) /\ UNCHANGED port
    BY <2>3, <2>5 DEF Pop
  <2>6. CASE step[w] = "set" /\ port' = [port EXCEPT ![w] = hand[w]] /\ UNCHANGED used
    BY <2>1, <2>6
  <2> QED
    BY <1>6, <2>4, <2>5, <2>6 DEF RedisFails
<1>7. ASSUME NEW p \in Procs, Crash(p)
      PROVE  /\ UNCHANGED <<port, used>>
             /\ \A w \in Workspaces : hand'[w] \in {hand[w], None}
  BY <1>7 DEF Crash
<1>8. CASE Quiet
  BY <1>8 DEF Quiet
<1>9. UNCHANGED <<port, used, hand>> =>
          UNCHANGED <<port, used>> /\ \A w \in Workspaces : hand'[w] \in {hand[w], None}
  OBVIOUS
<1> QED
  BY <1>1, <1>2, <1>3, <1>4, <1>5, <1>6, <1>7, <1>8, <1>9, StepCases DEF Quiet

(* No port comes to a second workspace. *)
LEMMA OwnStep == TypeOK /\ CreationInv /\ PoolInv /\ OwnInv /\ [Next]_vars => OwnInv'
<1> SUFFICES ASSUME TypeOK, CreationInv, PoolInv, OwnInv, [Next]_vars PROVE OwnInv'
  OBVIOUS
<1> USE GatewayAssumption
<1> USE DEF TypeOK, OwnInv
<1>1. CASE /\ UNCHANGED <<port, used>>
           /\ \A w \in Workspaces : hand'[w] \in {hand[w], None}
  BY <1>1
<1>2. ASSUME NEW w \in Workspaces, NEW q \in free,
             hand[w] = None, port[w] = None,
             hand' = [hand EXCEPT ![w] = q] \/ hand' = hand,
             used' = used \cup {q}, UNCHANGED port
      PROVE  OwnInv'
  <2>1. q \notin used /\ q # None
    BY DEF PoolInv
  <2> QED
    BY <1>2, <2>1
<1>3. ASSUME NEW w \in Workspaces, hand[w] # None, port[w] = None,
             port' = [port EXCEPT ![w] = hand[w]],
             hand' = hand \/ hand' = [hand EXCEPT ![w] = None],
             UNCHANGED used
      PROVE  OwnInv'
  BY <1>3
<1> QED
  BY <1>1, <1>2, <1>3, HandsOf

-----------------------------------------------------------------------------
(* What is lost.                                                           *)

(* Failures are counted. *)
LEMMA TroubleGrows == TypeOK /\ [Next]_vars => trouble' \in {trouble, trouble + 1}
<1> SUFFICES ASSUME TypeOK, [Next]_vars PROVE trouble' \in {trouble, trouble + 1}
  OBVIOUS
<1>1. UNCHANGED trouble \/ Trouble
  BY DEF Next, vars, Begin, Create, CheckPool, FillPool, AllocatePort, SetPort, ClearPending,
     AssignDomain, RedisFails, PendingExpires, MarkExpires, AppStarts, AppStops, Serve, Route,
     Enter, TurnAway, Answer, Miss, RequestFails, Crash
<1> QED
  BY <1>1 DEF Trouble

(* A step loses no port, unless it is a failure: then it loses one. *)
LEMMA LostByStep ==
    ASSUME TypeOK, CreationInv, OwnInv, [Next]_vars
    PROVE  \/ used' \ Kept' \subseteq used \ Kept
           \/ /\ trouble' = trouble + 1
              /\ \E q \in Ports : used' \ Kept' \subseteq (used \ Kept) \cup {q}
<1> USE GatewayAssumption
<1> USE DEF TypeOK, Kept, redis, creation
<1>1. ASSUME NEW w \in Workspaces, NEW p \in Procs, Begin(w, p)
      PROVE  used' \ Kept' \subseteq used \ Kept
  BY <1>1 DEF Begin
<1>2. ASSUME NEW w \in Workspaces, CheckPool(w) \/ FillPool(w) \/ AssignDomain(w)
      PROVE  used' \ Kept' \subseteq used \ Kept
  BY <1>2 DEF CheckPool, FillPool, AssignDomain
<1>3. ASSUME NEW w \in Workspaces, AllocatePort(w)
      PROVE  used' \ Kept' \subseteq used \ Kept
  <2>1. hand[w] = None
    BY <1>3 DEF AllocatePort, CreationInv
  <2>2. CASE UNCHANGED <<used, hand, port>>
    BY <2>2
  <2>3. ASSUME NEW q \in Ports, used' = used \cup {q}, hand' = [hand EXCEPT ![w] = q],
               UNCHANGED port
        PROVE  used' \ Kept' \subseteq used \ Kept
    <3>1. hand'[w] = q /\ \A v \in Workspaces : v # w => hand'[v] = hand[v]
      BY <2>3
    <3>2. q \in Kept'
      BY <3>1
    <3>3. ASSUME NEW r \in used, r \notin Kept' PROVE r \notin Kept
      BY <2>1, <2>3, <3>1, <3>3
    <3> QED
      BY <2>3, <3>2, <3>3
  <2> QED
    BY <1>3, <2>2, <2>3 DEF AllocatePort, Pop
<1>4. ASSUME NEW w \in Workspaces, port[w] = None, port' = [port EXCEPT ![w] = hand[w]],
             hand' = hand \/ hand' = [hand EXCEPT ![w] = None], UNCHANGED used
      PROVE  used' \ Kept' \subseteq used \ Kept
  <2>1. port'[w] = hand[w] /\ \A v \in Workspaces : v # w => port'[v] = port[v]
    BY <1>4
  <2>2. \A v \in Workspaces : v # w => hand'[v] = hand[v]
    BY <1>4
  <2>3. ASSUME NEW r \in used, r \notin Kept' PROVE r \notin Kept
    BY <1>4, <2>1, <2>2, <2>3
  <2> QED
    BY <1>4, <2>3
<1>5. ASSUME NEW w \in Workspaces, hand[w] \in {port[w], None},
             hand' = [hand EXCEPT ![w] = None], UNCHANGED <<port, used>>
      PROVE  used' \ Kept' \subseteq used \ Kept
  <2>1. \A v \in Workspaces : v # w => hand'[v] = hand[v]
    BY <1>5
  <2>2. ASSUME NEW r \in used, r \notin Kept' PROVE r \notin Kept
    BY <1>5, <2>1, <2>2
  <2> QED
    BY <1>5, <2>2
<1>6. ASSUME NEW w \in Workspaces, SetPort(w) \/ ClearPending(w)
      PROVE  used' \ Kept' \subseteq used \ Kept
  <2>1. CASE SetPort(w)
    BY <1>4, <2>1 DEF SetPort, CreationInv
  <2>2. CASE ClearPending(w)
    BY <1>5, <2>2 DEF ClearPending, CreationInv
  <2> QED
    BY <1>6, <2>1, <2>2
<1>7. ASSUME NEW w \in Workspaces, NEW q \in Ports,
             \A v \in Workspaces : v # w => hand'[v] = hand[v],
             used' \subseteq used \cup {q}, q = hand[w] \/ hand[w] = None, UNCHANGED port
      PROVE  used' \ Kept' \subseteq (used \ Kept) \cup {q}
  <2>1. ASSUME NEW r \in used, r # q, r \notin Kept' PROVE r \notin Kept
    BY <1>7, <2>1
  <2> QED
    BY <1>7, <2>1
<1>8. ASSUME NEW w \in Workspaces, RedisFails(w)
      PROVE  \/ used' \ Kept' \subseteq used \ Kept
             \/ \E q \in Ports : used' \ Kept' \subseteq (used \ Kept) \cup {q}
  <2>1. /\ hand' = [hand EXCEPT ![w] = None]
        /\ \A v \in Workspaces : v # w => hand'[v] = hand[v]
    BY <1>8 DEF RedisFails
  <2>2. CASE UNCHANGED <<port, used>>
    <3>1. CASE hand[w] = None
      BY <1>5, <2>1, <2>2, <3>1
    <3>2. CASE hand[w] \in Ports
      BY <1>7, <2>1, <2>2, <3>2
    <3> QED
      BY <3>1, <3>2
  <2>3. CASE step[w] = "pop" /\ (\E q \in Ports : Pop(w, q)) /\ UNCHANGED port
    <3>1. hand[w] = None
      BY <2>3 DEF CreationInv
    <3>2. PICK q \in Ports : used' = used \cup {q}
      BY <2>3 DEF Pop
    <3> QED
      BY <1>7, <2>1, <2>3, <3>1, <3>2
  <2>4. CASE step[w] = "set" /\ port' = [port EXCEPT ![w] = hand[w]] /\ UNCHANGED used
    BY <1>4, <2>1, <2>4 DEF CreationInv
  <2> QED
    BY <1>8, <2>2, <2>3, <2>4 DEF RedisFails
<1>9. ASSUME NEW p \in Procs, Crash(p)
      PROVE  \/ used' \ Kept' \subseteq used \ Kept
             \/ \E q \in Ports : used' \ Kept' \subseteq (used \ Kept) \cup {q}
  <2>1. UNCHANGED <<port, used>> /\ \A v \in Workspaces : by[v] # p => hand'[v] = hand[v]
    BY <1>9 DEF Crash
  <2>2. CASE \A v \in Workspaces : by[v] = p => hand[v] = None
    <3>1. hand' = hand
      BY <1>9, <2>2 DEF Crash
    <3> QED
      BY <2>1, <3>1
  <2>3. ASSUME NEW w \in Workspaces, by[w] = p, hand[w] # None
        PROVE  \E q \in Ports : used' \ Kept' \subseteq (used \ Kept) \cup {q}
    <3>1. \A v \in Workspaces : v # w => by[v] # p
      BY <2>3 DEF CreationInv
    <3> QED
      BY <1>7, <2>1, <2>3, <3>1
  <2> QED
    BY <2>2, <2>3
<1>10. CASE Quiet
  BY <1>10 DEF Quiet
<1>11. ASSUME NEW w \in Workspaces, RedisFails(w) PROVE trouble' = trouble + 1
  BY <1>11 DEF RedisFails, Trouble
<1>12. ASSUME NEW p \in Procs, Crash(p) PROVE trouble' = trouble + 1
  BY <1>12 DEF Crash, Trouble
<1> QED
  BY <1>1, <1>2, <1>3, <1>6, <1>8, <1>9, <1>10, <1>11, <1>12, StepCases

(* One failure loses one port. *)
LEMMA LossStep == TypeOK /\ CreationInv /\ OwnInv /\ LossInv /\ [Next]_vars => LossInv'
<1> SUFFICES ASSUME TypeOK, CreationInv, OwnInv, LossInv, [Next]_vars PROVE LossInv'
  OBVIOUS
<1>1. IsFiniteSet(used')
  <2>1. used' = used \/ \E q : used' = used \cup {q}
    BY HandsOf
  <2> QED
    BY <2>1, FS_AddElement DEF LossInv
<1>2. IsFiniteSet(used \ Kept) /\ Cardinality(used \ Kept) \in Nat
  BY FS_Subset, FS_CardinalityType DEF LossInv
<1>3. trouble \in Nat /\ trouble' \in Nat /\ trouble' >= trouble
  BY TroubleGrows, GatewayAssumption DEF TypeOK
<1>4. CASE used' \ Kept' \subseteq used \ Kept
  <2>1. Cardinality(used' \ Kept') \in Nat /\ Cardinality(used' \ Kept') <= Cardinality(used \ Kept)
    BY <1>2, <1>4, FS_Subset, FS_CardinalityType
  <2> QED
    BY <1>1, <1>2, <1>3, <2>1 DEF LossInv
<1>5. ASSUME trouble' = trouble + 1,
             NEW q \in Ports, used' \ Kept' \subseteq (used \ Kept) \cup {q}
      PROVE  Cardinality(used' \ Kept') <= trouble'
  <2>1. /\ IsFiniteSet((used \ Kept) \cup {q})
        /\ Cardinality((used \ Kept) \cup {q}) <= Cardinality(used \ Kept) + 1
        /\ Cardinality((used \ Kept) \cup {q}) \in Nat
    <3> DEFINE lost == used \ Kept
    <3>1. IsFiniteSet(lost) /\ Cardinality(lost) \in Nat
      BY <1>2
    <3> HIDE DEF lost
    <3>2. IsFiniteSet(lost \cup {q})
          /\ (Cardinality(lost \cup {q}) = Cardinality(lost)
                \/ Cardinality(lost \cup {q}) = Cardinality(lost) + 1)
      BY <3>1, FS_AddElement
    <3>3. Cardinality(lost \cup {q}) <= Cardinality(lost) + 1
          /\ Cardinality(lost \cup {q}) \in Nat
      BY <3>1, <3>2
    <3> QED
      BY <3>2, <3>3 DEF lost
  <2>2. /\ Cardinality(used' \ Kept') \in Nat
        /\ Cardinality(used' \ Kept') <= Cardinality((used \ Kept) \cup {q})
    BY <1>5, <2>1, FS_Subset, FS_CardinalityType
  <2> QED
    BY <1>2, <1>3, <1>5, <2>1, <2>2 DEF LossInv
<1>6. ~(used' \ Kept' \subseteq used \ Kept) => Cardinality(used' \ Kept') <= trouble'
  BY <1>5, LostByStep
<1> QED
  BY <1>1, <1>4, <1>6 DEF LossInv

-----------------------------------------------------------------------------
(* Who answers.                                                            *)

(* Whoever listens on the port of a workspace is the workspace. *)
LEMMA ListenerIsTheSite ==
    ASSUME TypeOK, UpInv, OwnInv, NEW c \in Clients
    PROVE  ~Strays(c)
<1> SUFFICES ASSUME NEW w \in Listener(port[Site[c]]), w # Site[c] PROVE FALSE
  BY DEF Strays
<1>1. Site[c] \in Workspaces /\ w \in Workspaces /\ up[w] /\ port[w] = port[Site[c]]
  BY GatewayAssumption DEF Listener
<1> QED
  BY <1>1 DEF UpInv, OwnInv

(* As long as every workspace has its own port, no request strays. *)
LEMMA StrayStep ==
    ASSUME TypeOK, UpInv, OwnInv, ~strayed, [Next]_vars
    PROVE  ~strayed'
<1>1. \/ strayed' = strayed
      \/ \E c \in Clients : strayed' = (strayed \/ Strays(c))
      \/ \E c \in Clients : strayed' = (strayed \/ (at[c] = "sending" /\ Strays(c)))
  <2>1. ASSUME NEW c \in Clients, Serve(c) \/ TurnAway(c) \/ RequestFails(c)
        PROVE  \/ strayed' = strayed
               \/ strayed' = (strayed \/ Strays(c))
               \/ strayed' = (strayed \/ (at[c] = "sending" /\ Strays(c)))
    BY <2>1 DEF Serve, Route, Enter, TurnAway, Answer, Miss, RequestFails
  <2>2. ASSUME NEW w \in Workspaces,
               Create(w) \/ RedisFails(w) \/ PendingExpires(w) \/ MarkExpires(w)
                 \/ AppStarts(w) \/ AppStops(w)
        PROVE  strayed' = strayed
    BY <2>2 DEF Create, CheckPool, FillPool, AllocatePort, SetPort, ClearPending, AssignDomain,
       RedisFails, PendingExpires, MarkExpires, AppStarts, AppStops, requests
  <2>3. ASSUME NEW w \in Workspaces, NEW p \in Procs, Begin(w, p) PROVE strayed' = strayed
    BY <2>3 DEF Begin, requests
  <2>4. ASSUME NEW p \in Procs, Crash(p) PROVE strayed' = strayed
    BY <2>4 DEF Crash
  <2>5. CASE UNCHANGED vars
    BY <2>5 DEF vars, requests
  <2> QED
    BY <2>1, <2>2, <2>3, <2>4, <2>5 DEF Next
<1> QED
  BY <1>1, ListenerIsTheSite

-----------------------------------------------------------------------------
(* The invariant and what it says.                                         *)

LEMMA GatewayInit == Init => GatewayInv
<1> SUFFICES ASSUME Init PROVE GatewayInv
  OBVIOUS
<1>1. TypeOK
  BY TypeHolds
<1>2. CreationInv /\ UpInv
  BY DEF Init, CreationInv, UpInv, Creating
<1>3. PoolInv /\ OwnInv /\ ~strayed
  BY DEF Init, PoolInv, PoolExists, OwnInv
<1>4. LossInv
  <2>1. used = {} /\ used \ Kept = {} /\ trouble = 0
    BY DEF Init
  <2> QED
    BY <2>1, FS_EmptySet DEF LossInv
<1> QED
  BY <1>1, <1>2, <1>3, <1>4 DEF GatewayInv

LEMMA GatewayStep == GatewayInv /\ [Next]_vars => GatewayInv'
<1> SUFFICES ASSUME GatewayInv, [Next]_vars PROVE GatewayInv'
  OBVIOUS
<1>1. TypeOK' /\ CreationInv' /\ UpInv'
  BY TypeStep, CreationStep, UpStep DEF GatewayInv
<1>2. ASSUME ~overlapped' PROVE PoolInv' /\ OwnInv' /\ LossInv' /\ ~strayed'
  BY <1>2, OverlapStays, PoolStep, OwnStep, LossStep, StrayStep DEF GatewayInv
<1> QED
  BY <1>1, <1>2 DEF GatewayInv

LEMMA GatewayHolds == Spec => []GatewayInv
BY GatewayInit, GatewayStep, PTL DEF Spec

(* Every value of the pool, the creations and the requests is one of those *)
(* the code keeps in Redis and in its variables.                           *)
THEOREM GatewayTypes == Spec => []TypeOK
<1>1. GatewayInv => TypeOK
  BY DEF GatewayInv
<1> QED
  BY <1>1, GatewayHolds, PTL

(* The port of a workspace is never taken back or changed: what a request  *)
(* looked up before an await is still true after it.                       *)
THEOREM PortIsForGood ==
    Spec => [][\A w \in Workspaces : port[w] # None => port'[w] = port[w]]_vars
<1>1. ASSUME GatewayInv, [Next]_vars
      PROVE  [\A w \in Workspaces : port[w] # None => port'[w] = port[w]]_vars
  BY <1>1, PortStays DEF GatewayInv
<1> QED
  BY <1>1, GatewayHolds, PTL DEF Spec

(* In the gateway with any number of processes, workspaces, ports and      *)
(* clients: a request is answered by the program of the workspace it is    *)
(* for, whatever Redis calls failed and whichever processes ended on the   *)
(* way, unless two processes have found the pool missing at once.          *)
THEOREM NoStrangerEverAnswers == Spec => []NoStrangerAnswers
<1>1. GatewayInv => NoStrangerAnswers
  BY DEF GatewayInv, NoStrangerAnswers
<1> QED
  BY <1>1, GatewayHolds, PTL

(* A port is free or used and never both, none disappears from the pool,   *)
(* and a port that is used by nobody was lost in a failure: at most one    *)
(* for each.                                                               *)
THEOREM PoolStaysSound == Spec => []PoolIsSound
<1>1. ASSUME GatewayInv, ~overlapped PROVE Cardinality(used \ Held) <= trouble
  <2>1. IsFiniteSet(used \ Kept) /\ used \ Held \subseteq used \ Kept
    BY <1>1, FS_Subset DEF GatewayInv, LossInv, Held, Kept
  <2>2. /\ Cardinality(used \ Held) <= Cardinality(used \ Kept)
        /\ Cardinality(used \ Held) \in Nat /\ Cardinality(used \ Kept) \in Nat
    BY <2>1, FS_Subset, FS_CardinalityType
  <2>3. Cardinality(used \ Kept) <= trouble /\ trouble \in Nat
    BY <1>1, GatewayAssumption DEF GatewayInv, LossInv, TypeOK
  <2> QED
    BY <2>2, <2>3
<1>2. GatewayInv => PoolIsSound
  <2>1. CASE overlapped
    BY <2>1 DEF PoolIsSound
  <2>2. CASE ~overlapped
    <3>1. GatewayInv => PoolInv
      BY <2>2 DEF GatewayInv
    <3>2. GatewayInv => Cardinality(used \ Held) <= trouble
      BY <1>1, <2>2
    <3> QED
      BY <3>1, <3>2 DEF PoolIsSound, PoolInv
  <2> QED
    BY <2>1, <2>2
<1> QED
  BY <1>2, GatewayHolds, PTL

-----------------------------------------------------------------------------
(* The tools.                                                              *)

IsDisk(d) ==
    /\ d = [file |-> d.file, env |-> d.env, head |-> d.head]
    /\ \A b, c \in d.file : b = c
    /\ \A b, c \in d.head : b = c

(* What the workspace may be after an order that succeeds. *)
Promised(o) == UNION {Promise(o, d) : d \in owed}

(* What the workspace may be when a script of an order is sent. *)
Before(o, name) == IF o.tool = Program /\ name \notin {"mkdir", "write"} THEN Promised(o) ELSE owed

(* The scripts an order may come to. *)
Fits(name, o) ==
    \/ o.tool = Program /\ name \in ProgramScripts /\ (name = "write" => ~o.large)
    \/ o.tool \in ToolNames \ Disabled /\ name \in {o.tool, "test_repo"}

(* The program of an order has its code in the workspace when it starts. *)
Own(o) == o.tool = Program /\ ~o.large /\ o.path = "inside"

(* What the workspace will be when a script that is about to write ends. *)
Final(does) ==
    IF does.on = "untracked" THEN Opened(does) ELSE [disk EXCEPT ![does.on] = does.value]

Writes(does) ==
    /\ does.on \in {"file", "env", "head", "untracked"}
    /\ does.on = "untracked" => does.value = {}
    /\ does.code = 0
    /\ IsDisk(Final(does))

IsScript(s) ==
    /\ s = [by |-> s.by, name |-> s.name, order |-> s.order, awaited |-> s.awaited,
            stage |-> s.stage, does |-> s.does]
    /\ s.by \in Jobs /\ s.awaited \in BOOLEAN /\ s.stage \in Stages
    /\ s.stage = "cut" => s.does.on # "untracked"

(* One call at a time, and one script, which is the call's; an order that  *)
(* only plans gets no script.                                              *)
CallInv ==
    /\ doing \in [Jobs -> {"idle"} \cup ScriptNames]
    /\ order = [j \in Jobs |-> order[j]] /\ run = [j \in Jobs |-> run[j]]
    /\ last = [j \in Jobs |-> last[j]]
    /\ \A j, k \in Jobs : doing[j] # "idle" /\ doing[k] # "idle" => j = k
    /\ \A j \in Jobs : doing[j] # "idle" =>
          /\ Fits(doing[j], order[j])
          /\ order[j].mode \in {"launch", "run"}
          /\ order[j].plans /\ order[j].tool = Program => doing[j] = FirstScript
    /\ \A s, t \in scripts : s = t
    /\ \A s \in scripts :
          /\ IsScript(s) /\ Fits(s.name, s.order) /\ ~s.order.plans
          /\ s.awaited => s.order = order[s.by] /\ s.name = doing[s.by] /\ doing[s.by] # "idle"
          /\ ~s.awaited => s.stage # "done" /\ \A j \in Jobs : doing[j] = "idle"

(* The workspace between two scripts. *)
RestInv ==
    scripts = {} =>
        /\ (\A j \in Jobs : doing[j] = "idle") => disk \in owed
        /\ \A j \in Jobs : doing[j] # "idle" => disk \in Before(order[j], doing[j])

(* What has come, or will come, of a script that is awaited. *)
Came(s) ==
    /\ IF s.order.tool = Program
         THEN disk \in IF s.name = "mkdir" THEN owed ELSE Promised(s.order)
       ELSE IF s.name # "test_repo" /\ CommandSuccess(CommandType(s.order), s.does.code)
         THEN disk \in Promised(s.order)
         ELSE disk \in owed
    /\ s.name \in {"launch", "run"} /\ Own(s.order) => s.does.value = {s.order.content}

AwaitedInv ==
    \A s \in scripts : s.awaited =>
        /\ s.stage = "sent" => disk \in Before(s.order, s.name)
        /\ s.stage \in {"ready", "cut"} =>
              s.name \in {"write", s.order.tool} /\ Writes(s.does) /\ Final(s.does) \in Promised(s.order)
        /\ s.stage = "done" => Came(s)

(* What will come of one that was given up. *)
GivenUpInv ==
    \A s \in scripts : ~s.awaited =>
        /\ s.stage = "sent" => disk \in owed /\
              (s.name \in {"write", s.order.tool} => Promise(s.order, disk) \subseteq owed)
        /\ s.stage \in {"ready", "cut"} => Writes(s.does) /\ Final(s.does) \in owed

(* The program a job has started in its call is its own. *)
RunInv ==
    \A j \in Jobs : doing[j] = "tail" /\ Own(order[j]) /\ run[j].success
        => run[j].ran = {order[j].content}

WorkInv == IsDisk(disk) /\ CallInv /\ RestInv /\ AwaitedInv /\ GivenUpInv /\ RunInv /\ RunsItsOwnCode

ToolInv == Truthful => WorkInv
(* What a check promises, which succeeds with code 1 as well, is nothing. *)
LEMMA CheckPromises ==
  ASSUME NEW o, CommandType(o) = "CHECK"
  PROVE  \A d : Promise(o, d) = {d}
  BY DEF CommandType, Promise, CommandTools, Program

LEMMA CheckOwes ==
  ASSUME NEW o, CommandType(o) = "CHECK"
  PROVE  Promised(o) = owed
  BY CheckPromises DEF Promised

LEMMA ProgramPromises ==
  ASSUME NEW o, o.tool = Program
  PROVE  \A d : Promise(o, d) = IF o.large \/ o.path = "link" THEN {d}
                               ELSE {[d EXCEPT !.file = {o.content}]}
  BY DEF Promise, CommandTools, Program

(* A success of code 1 is a check. *)
LEMMA OnlyChecks ==
  ASSUME NEW o, CommandSuccess(CommandType(o), 1)
  PROVE  CommandType(o) = "CHECK"
  BY DEF CommandSuccess

(* A script of a tool does what its order promises, or nothing.            *)
Keeps(does, o) ==
    /\ does = [code |-> does.code, on |-> does.on, value |-> does.value]
    /\ does.on # "nothing" => Writes(does) /\ Final(does) \in Promise(o, disk)
    /\ does.on = "nothing" /\ CommandSuccess(CommandType(o), does.code) => disk \in Promise(o, disk)

LEMMA FileIsWritten ==
  ASSUME NEW o, NEW value, IsDisk(disk), \A b, c \in value : b = c,
         [disk EXCEPT !.file = value] \in Promise(o, disk)
  PROVE  Keeps(Write("file", value), o)
  <1> DEFINE does == Write("file", value)
  <1>1. /\ does.on = "file" /\ does.code = 0
        /\ does = [code |-> does.code, on |-> does.on, value |-> does.value]
        /\ Final(does) = [disk EXCEPT !.file = value]
    BY DEF Write, Final
  <1>2. IsDisk(Final(does))
    BY <1>1 DEF IsDisk
  <1> HIDE DEF does
  <1>3. Keeps(does, o)
    BY <1>1, <1>2 DEF Keeps, Writes
  <1> QED
    BY <1>3 DEF does

(* What does nothing fails, unless nothing was to be done.                 *)
LEMMA NothingIsDone ==
  ASSUME NEW o, NEW code,
         CommandSuccess(CommandType(o), code) => disk \in Promise(o, disk)
  PROVE  Keeps(Nothing(code), o)
  BY DEF Nothing, Keeps

LEMMA CommandDoes ==
  ASSUME NEW o, NEW does \in CommandScript(o), IsDisk(disk), o.tool \in CommandTools
  PROVE  Keeps(does, o)
  <1>1. CASE o.kind = "redirect"
    <2>1. does = Write("file", {o.content})
      BY <1>1 DEF CommandScript
    <2>2. Promise(o, disk) = {[disk EXCEPT !.file = {o.content}]}
      BY <1>1 DEF Promise, CommandTools, Program
    <2> QED
      BY <2>1, <2>2, FileIsWritten
  <1>2. CASE o.kind = "remove"
    <2>1. does = Nothing(1) \/ does = Write("file", {})
      BY <1>2 DEF CommandScript
    <2>2. Promise(o, disk) = {[disk EXCEPT !.file = {}]}
      BY <1>2 DEF Promise, CommandTools, Program
    <2>3. CommandType(o) = "ACTION"
      BY <1>2 DEF CommandType, CommandTools
    <2>4. ~CommandSuccess(CommandType(o), 1)
      BY <2>3 DEF CommandSuccess
    <2> QED
      BY <2>1, <2>2, <2>4, FileIsWritten, NothingIsDone
  <1>3. CASE o.kind \notin {"redirect", "remove"}
    <2>1. PICK code \in 0..2 : does = Nothing(code)
      BY <1>3 DEF CommandScript
    <2>2. Promise(o, disk) = {disk}
      BY <1>3 DEF Promise, CommandTools, Program
    <2> QED
      BY <2>1, <2>2, NothingIsDone
  <1> QED
    BY <1>1, <1>2, <1>3

LEMMA PatchDoes ==
  ASSUME NEW o, NEW does \in PatchScript(o), IsDisk(disk), o.tool = "patch_file"
  PROVE  Keeps(does, o)
  <1>1. Promise(o, disk) = {[disk EXCEPT !.file = {Patched(c, o.patch)}] :
                              c \in {x \in disk.file : Count(x, o.patch.target) = 1}}
    BY DEF Promise, CommandTools, Program
  <1>2. CASE \E c \in disk.file : Count(c, o.patch.target) = 1
    <2>1. PICK c \in disk.file : Count(c, o.patch.target) = 1
      BY <1>2
    <2>2. disk.file = {c}
      BY <2>1 DEF IsDisk
    <2>3. {Patched(b, o.patch) : b \in disk.file} = {Patched(c, o.patch)}
      BY <2>2
    <2>4. does = Write("file", {Patched(c, o.patch)})
      BY <1>2, <2>3 DEF PatchScript
    <2>5. [disk EXCEPT !.file = {Patched(c, o.patch)}] \in Promise(o, disk)
      BY <1>1, <2>1
    <2> QED
      BY <2>4, <2>5, FileIsWritten
  <1>3. CASE ~\E c \in disk.file : Count(c, o.patch.target) = 1
    <2>1. does = Nothing(1)
      BY <1>3 DEF PatchScript
    <2>2. CommandType(o) = "ACTION"
      BY DEF CommandType
    <2> QED
      BY <2>1, <2>2, NothingIsDone DEF CommandSuccess
  <1> QED
    BY <1>2, <1>3

LEMMA EnvDoes ==
  ASSUME NEW o, NEW does \in EnvScript(o), IsDisk(disk), o.tool \in EnvTools
  PROVE  Keeps(does, o)
  <1>1. Promise(o, disk) = {[disk EXCEPT !.env = disk.env \cup {o.key}]}
    BY DEF Promise, CommandTools, Program, EnvTools
  <1>2. CASE disk.env \subseteq {o.key}
    <2>1. does = Write("env", {o.key})
      BY <1>2 DEF EnvScript
    <2>2. disk.env \cup {o.key} = {o.key}
      BY <1>2
    <2>3. /\ does.on = "env" /\ does.code = 0
          /\ does = [code |-> does.code, on |-> does.on, value |-> does.value]
          /\ Final(does) = [disk EXCEPT !.env = {o.key}]
      BY <2>1 DEF Write, Final
    <2>4. IsDisk(Final(does))
      BY <2>3 DEF IsDisk
    <2>5. Final(does) \in Promise(o, disk)
      BY <1>1, <2>2, <2>3
    <2> QED
      BY <2>3, <2>4, <2>5 DEF Keeps, Writes
  <1>3. CASE ~(disk.env \subseteq {o.key})
    <2>1. does = Nothing(1)
      BY <1>3 DEF EnvScript
    <2>2. CommandType(o) = "ACTION"
      BY DEF CommandType, EnvTools
    <2> QED
      BY <2>1, <2>2, NothingIsDone DEF CommandSuccess
  <1> QED
    BY <1>2, <1>3

LEMMA CommitDoes ==
  ASSUME NEW o, NEW does \in CommitScript, IsDisk(disk), o.tool = "git_commit"
  PROVE  Keeps(does, o)
  <1>1. Promise(o, disk) = {[disk EXCEPT !.head = disk.file]}
    BY DEF Promise, CommandTools, Program
  <1>2. CASE disk.file = disk.head
    <2>1. does = Nothing(1)
      BY <1>2 DEF CommitScript
    <2>2. CommandType(o) = "ACTION"
      BY DEF CommandType
    <2> QED
      BY <2>1, <2>2, NothingIsDone DEF CommandSuccess
  <1>3. CASE disk.file # disk.head
    <2>1. does = Write("head", disk.file)
      BY <1>3 DEF CommitScript
    <2>2. /\ does.on = "head" /\ does.code = 0
          /\ does = [code |-> does.code, on |-> does.on, value |-> does.value]
          /\ Final(does) = [disk EXCEPT !.head = disk.file]
      BY <2>1 DEF Write, Final
    <2>3. IsDisk(Final(does))
      BY <2>2 DEF IsDisk
    <2> QED
      BY <1>1, <2>2, <2>3 DEF Keeps, Writes
  <1> QED
    BY <1>2, <1>3

LEMMA CheckoutDoes ==
  ASSUME NEW o, NEW does \in CheckoutScript(o), IsDisk(disk),
         o.tool = "git_restore" \/ (o.tool = "git_reset" /\ o.kind = "hard")
  PROVE  Keeps(does, o)
  <1>1. CASE disk.head # {}
    <2>1. Promise(o, disk) = {[disk EXCEPT !.file = disk.head]}
      BY <1>1 DEF Promise, CommandTools, Program
    <2>2. CASE disk.file = disk.head
      <3>1. does = Nothing(0)
        BY <1>1, <2>2 DEF CheckoutScript
      <3>2. [disk EXCEPT !.file = disk.head] = disk
        BY <2>2 DEF IsDisk
      <3> QED
        BY <2>1, <3>1, <3>2, NothingIsDone
    <2>3. CASE disk.file # disk.head
      <3>1. does = Write("file", disk.head)
        BY <1>1, <2>3 DEF CheckoutScript
      <3> QED
        BY <2>1, <3>1, FileIsWritten DEF IsDisk
    <2> QED
      BY <2>2, <2>3
  <1>2. CASE disk.head = {}
    <2>1. Promise(o, disk) = {disk}
      BY <1>2 DEF Promise, CommandTools, Program
    <2>2. PICK code \in {0, 1} : does = Nothing(code)
      BY <1>2 DEF CheckoutScript
    <2> QED
      BY <2>1, <2>2, NothingIsDone
  <1> QED
    BY <1>1, <1>2

LEMMA CleanDoes ==
  ASSUME NEW o, NEW does \in CleanScript(o), IsDisk(disk), o.tool = "git_clean"
  PROVE  Keeps(does, o)
  <1>1. CASE o.kind = "force"
    <2>1. Promise(o, disk) = {Cleaned(disk)}
      BY <1>1 DEF Promise, CommandTools, Program
    <2>2. does = Write("untracked", {})
      BY <1>1 DEF CleanScript
    <2>3. /\ does.on = "untracked" /\ does.code = 0 /\ does.value = {}
          /\ does = [code |-> does.code, on |-> does.on, value |-> does.value]
      BY <2>2 DEF Write
    <2>4. Final(does) = Cleaned(disk)
      BY <2>3 DEF Final, Opened
    <2>5. IsDisk(Cleaned(disk))
      BY DEF IsDisk, Cleaned
    <2> QED
      BY <2>1, <2>3, <2>4, <2>5 DEF Keeps, Writes
  <1>2. CASE o.kind # "force"
    <2>1. does = Nothing(0) /\ Promise(o, disk) = {disk}
      BY <1>2 DEF Promise, CommandTools, Program, CleanScript
    <2> QED
      BY <2>1, NothingIsDone
  <1> QED
    BY <1>1, <1>2

(* What the order of a tool does when it is executed. *)
LEMMA ToolDoes ==
  ASSUME NEW o, NEW does \in InPlace(o.tool, o), IsDisk(disk), o.tool \in ToolNames \ Disabled
  PROVE  Keeps(does, o)
  <1>1. CASE o.tool \in CommandTools
    BY <1>1, CommandDoes DEF InPlace, CommandTools, EnvTools, GithubTools
  <1>2. CASE o.tool = "write_file"
    <2>1. does = Write("file", {o.content}) /\ Promise(o, disk) = {[disk EXCEPT !.file = {o.content}]}
      BY <1>2 DEF InPlace, CommandTools, EnvTools, GithubTools, Promise, Program
    <2> QED
      BY <2>1, FileIsWritten
  <1>3. CASE o.tool = "patch_file"
    BY <1>3, PatchDoes DEF InPlace, CommandTools, EnvTools, GithubTools
  <1>4. CASE o.tool \in EnvTools
    BY <1>4, EnvDoes DEF InPlace, CommandTools, EnvTools, GithubTools
  <1>5. CASE o.tool = "git_commit"
    BY <1>5, CommitDoes DEF InPlace, CommandTools, EnvTools, GithubTools
  <1>6. CASE o.tool = "git_restore" \/ (o.tool = "git_reset" /\ o.kind = "hard")
    BY <1>6, CheckoutDoes DEF InPlace, CommandTools, EnvTools, GithubTools
  <1>7. CASE o.tool = "git_clean"
    BY <1>7, CleanDoes DEF InPlace, CommandTools, EnvTools, GithubTools
  <1>8. CASE /\ o.tool \notin CommandTools \cup WriteTools
             /\ o.tool \notin {"git_commit", "git_restore", "git_clean"}
             /\ ~(o.tool = "git_reset" /\ o.kind = "hard")
    <2>1. Promise(o, disk) = {disk}
      BY <1>8 DEF Promise, CommandTools, WriteTools, EnvTools, Program, ToolNames,
                  PlainTools, GitTools, GithubTools, Disabled
    <2>2. PICK code : does = Nothing(code)
      BY <1>8 DEF InPlace, ReadScript, ListScript, ProcessScript, DiagnosticScript, TokenScript,
                  CommandTools, WriteTools, EnvTools, ToolNames, PlainTools, GitTools,
                  GithubTools, Disabled
    <2> QED
      BY <2>1, <2>2, NothingIsDone
  <1> QED
    BY <1>1, <1>2, <1>3, <1>4, <1>5, <1>6, <1>7, <1>8 DEF WriteTools

(* The scripts of a program: only "write" writes, and those that start it  *)
(* start what is in the file.                                              *)
LEMMA ProgramDoes ==
  ASSUME NEW o, NEW name \in ProgramScripts, NEW does \in Script(name, o), IsDisk(disk),
         o.tool = Program, name = "write" => ~o.large
  PROVE  /\ does = [code |-> does.code, on |-> does.on, value |-> does.value]
         /\ does.on # "nothing" => /\ name = "write"
                                   /\ Writes(does) /\ Final(does) \in Promise(o, disk)
         /\ does.on = "nothing" => /\ name = "write" => disk \in Promise(o, disk)
                                   /\ name \in {"launch", "run"} /\ o.path = "inside"
                                        => does.value = disk.file
  <1>1. CASE o.path = "link" /\ name # FirstScript
    <2>1. does = Nothing(13) /\ Promise(o, disk) = {disk}
      BY <1>1, ProgramPromises DEF Script
    <2> QED
      BY <1>1, <2>1 DEF Nothing
  <1>2. CASE name = "write" /\ o.path # "link"
    <2>1. does = Write("file", {o.content})
      BY <1>2 DEF Script, InPlace, CommandTools, EnvTools, GithubTools
    <2>2. Promise(o, disk) = {[disk EXCEPT !.file = {o.content}]}
      BY <1>2, ProgramPromises
    <2>3. Keeps(does, o) /\ does.on = "file"
      BY <2>1, <2>2, FileIsWritten DEF Write
    <2> QED
      BY <1>2, <2>3 DEF Keeps
  <1>3. CASE name \in {"launch", "run"} /\ o.path # "link"
    <2>1. does \in LaunchScript \cup RunScript
      BY <1>3 DEF Script, InPlace, CommandTools, EnvTools, GithubTools
    <2>2. PICK code : does = Started(code)
      BY <2>1 DEF LaunchScript, RunScript
    <2> QED
      BY <1>3, <2>2 DEF Started
  <1>4. CASE name \notin {"write", "launch", "run"} /\ (name = FirstScript \/ o.path # "link")
    <2>1. does \in ImportScript \cup DiagnosticScript
      BY <1>4 DEF Script, InPlace, ProgramScripts, CommandTools, EnvTools, GithubTools, FirstScript
    <2>2. PICK code : does = Nothing(code)
      BY <2>1 DEF ImportScript, DiagnosticScript
    <2> QED
      BY <1>4, <2>2 DEF Nothing
  <1> QED
    BY <1>1, <1>2, <1>3, <1>4 DEF FirstScript

(* What any script does in its place. *)
LEMMA ScriptDoes ==
  ASSUME NEW o, NEW name, NEW does \in Script(name, o), IsDisk(disk), Fits(name, o)
  PROVE  /\ does = [code |-> does.code, on |-> does.on, value |-> does.value]
         /\ does.on # "nothing" => /\ name \in {"write", o.tool}
                                   /\ Writes(does) /\ Final(does) \in Promise(o, disk)
         /\ does.on = "nothing" =>
              /\ o.tool # Program /\ name # "test_repo" /\ CommandSuccess(CommandType(o), does.code)
                   => disk \in Promise(o, disk)
              /\ o.tool = Program /\ name = "write" => disk \in Promise(o, disk)
              /\ name \in {"launch", "run"} /\ Own(o) => does.value = disk.file
  <1>1. CASE o.tool = Program
    <2>1. name \in ProgramScripts /\ (name = "write" => ~o.large)
      BY <1>1 DEF Fits, Program, ToolNames, CommandTools, WriteTools, EnvTools, PlainTools,
                  GitTools, GithubTools
    <2> QED
      BY <1>1, <2>1, ProgramDoes DEF Own
  <1>2. CASE o.tool # Program
    <2>1. o.tool \in ToolNames \ Disabled /\ name \in {o.tool, "test_repo"}
      BY <1>2 DEF Fits
    <2>2. name \notin {"launch", "run"}
      BY <2>1 DEF ToolNames, CommandTools, WriteTools, EnvTools, PlainTools, GitTools, GithubTools
    <2>3. CASE o.path = "link"
      <3>1. does = Nothing(13)
        BY <2>1, <2>3 DEF Script, FirstScript, ToolNames, CommandTools, WriteTools, EnvTools,
                          PlainTools, GitTools, GithubTools
      <3>2. ~CommandSuccess(CommandType(o), 13)
        BY DEF CommandSuccess
      <3> QED
        BY <1>2, <2>2, <3>1, <3>2 DEF Nothing
    <2>4. CASE o.path # "link" /\ name = "test_repo"
      <3>1. does \in RepoScript
        BY <2>4 DEF Script, InPlace, CommandTools, EnvTools, GithubTools
      <3>2. PICK code : does = Nothing(code)
        BY <3>1 DEF RepoScript
      <3> QED
        BY <1>2, <2>4, <3>2 DEF Nothing
    <2>5. CASE o.path # "link" /\ name = o.tool
      <3>1. Keeps(does, o)
        BY <2>1, <2>5, ToolDoes DEF Script
      <3> QED
        BY <1>2, <2>2, <2>5, <3>1 DEF Keeps
    <2> QED
      BY <2>1, <2>3, <2>4, <2>5
  <1> QED
    BY <1>1, <1>2

(* Truth is not regained, and it is lost with a lost status or a death.    *)
LEMMA TruthWas ==
  ASSUME ToolNext, Truthful'
  PROVE  /\ Truthful /\ ~met'
         /\ \A j \in Jobs : ~LoseStatus(j)
         /\ \A s \in scripts : ~Die(s)
  <1>1. faults \subseteq faults'
    BY DEF ToolNext, ClientStep, Reject, Refuse, BeginCall, Called, Send, Receive, TimeOut,
           BlockedByMode, ConnectFails, LoseStatus, OuterTimeOut, ScriptStep, ScriptFails, Die,
           Hang, Fault, client
  <1>2. ~met
    BY DEF ToolNext, ClientStep, Reject, Refuse, BeginCall, Called, Send, Receive, TimeOut,
           BlockedByMode, ConnectFails, LoseStatus, OuterTimeOut, ScriptStep, ScriptFails,
           client, Truthful
  <1>3. \A j \in Jobs : ~LoseStatus(j)
    BY DEF LoseStatus, Fault, Truthful
  <1>4. \A s \in scripts : ~Die(s)
    BY DEF Die, Fault, Truthful
  <1> QED
    BY <1>1, <1>2, <1>3, <1>4 DEF Truthful

(* A call that does not meet anything finds nothing on the server. *)
LEMMA CalledAlone ==
  ASSUME CallInv, NEW j \in Jobs, Called(j), ~met'
  PROVE  scripts = {} /\ \A k \in Jobs : doing[k] = "idle"
  <1>1. Unfinished = {} /\ \A k \in Jobs : doing[k] = "idle"
    BY DEF Called
  <1>2. ASSUME NEW s \in scripts PROVE FALSE
    <2>1. s.stage = "done"
      BY <1>1 DEF Unfinished
    <2>2. s.awaited /\ s.by \in Jobs /\ doing[s.by] # "idle"
      BY <2>1 DEF CallInv, IsScript
    <2> QED
      BY <1>1, <2>2
  <1> QED
    BY <1>1, <1>2

(* While a call is busy all scripts, that is at most one, are its own. *)
LEMMA BusyAlone ==
  ASSUME CallInv, NEW j \in Jobs, doing[j] # "idle"
  PROVE  /\ \A k \in Jobs \ {j} : doing[k] = "idle"
         /\ scripts = Awaited(j)
         /\ \A s \in scripts : /\ s.awaited /\ s.by = j /\ s.order = order[j] /\ s.name = doing[j]
                               /\ ~order[j].plans
  <1>1. \A k \in Jobs \ {j} : doing[k] = "idle"
    BY DEF CallInv
  <1>2. \A s \in scripts : s.awaited
    BY DEF CallInv, IsScript
  <1>3. \A s \in scripts : /\ s.by \in Jobs /\ doing[s.by] # "idle"
                           /\ s.order = order[s.by] /\ s.name = doing[s.by] /\ ~s.order.plans
    BY <1>2 DEF CallInv, IsScript
  <1>4. \A s \in scripts : s.by = j
    BY <1>1, <1>3
  <1> QED
    BY <1>1, <1>2, <1>3, <1>4 DEF Awaited

(* A call comes to its end: what is left on the server is given up.        *)
LEMMA CallEnds ==
  ASSUME WorkInv, Truthful, NEW j \in Jobs, NEW o, NEW success, NEW sure, NEW ran,
         Return(j, o, success, sure, ran), disk' = disk, run' = run,
         \A k \in Jobs \ {j} : doing[k] = "idle",
         \A s, t \in scripts' : s = t,
         \A s \in scripts' : /\ IsScript(s) /\ Fits(s.name, s.order) /\ ~s.order.plans
                             /\ ~s.awaited /\ s.stage # "done",
         scripts' = {} => disk \in owed',
         GivenUpInv',
         o.tool = Program /\ success /\ Own(o) => ran = {o.content}
  PROVE  WorkInv'
  <1>1. \A k \in Jobs : doing'[k] = "idle"
    BY DEF Return, WorkInv, CallInv
  <1>2. IsDisk(disk)'
    BY DEF WorkInv, IsDisk
  <1>3. CallInv'
    <2>1. doing' \in [Jobs -> {"idle"} \cup ScriptNames]
      BY DEF Return, WorkInv, CallInv
    <2>2. /\ order' = [k \in Jobs |-> order'[k]] /\ run' = [k \in Jobs |-> run'[k]]
          /\ last' = [k \in Jobs |-> last'[k]]
      BY DEF Return, WorkInv, CallInv
    <2>3. \A s \in scripts' : s.awaited => FALSE
      OBVIOUS
    <2> QED
      BY <1>1, <2>1, <2>2, <2>3 DEF CallInv, IsScript, Fits
  <1>4. RestInv'
    BY <1>1 DEF RestInv
  <1>5. AwaitedInv'
    BY DEF AwaitedInv
  <1>6. RunInv'
    BY <1>1 DEF RunInv
  <1>7. RunsItsOwnCode'
    <2>1. ASSUME NEW k \in Jobs, k # j PROVE last'[k] = last[k]
      BY <2>1 DEF Return, WorkInv, CallInv
    <2>2. last'[j] = IF o.tool = Program
                       THEN [order |-> o, success |-> success, ran |-> ran] ELSE NoResult
      BY DEF Return, WorkInv, CallInv
    <2>3. CASE o.tool = Program
      BY <2>1, <2>2, <2>3 DEF WorkInv, RunsItsOwnCode, Own
    <2>4. CASE o.tool # Program
      BY <2>1, <2>2, <2>4 DEF WorkInv, RunsItsOwnCode, NoResult
    <2> QED
      BY <2>3, <2>4
  <1> QED
    BY <1>2, <1>3, <1>4, <1>5, <1>6, <1>7 DEF WorkInv

LEMMA CallEndsAlone ==
  ASSUME WorkInv, Truthful, NEW j \in Jobs, NEW o, NEW success, NEW sure, NEW ran,
         Return(j, o, success, sure, ran), disk' = disk, run' = run,
         \A k \in Jobs \ {j} : doing[k] = "idle",
         scripts' = {}, disk \in owed',
         o.tool = Program /\ success /\ Own(o) => ran = {o.content}
  PROVE  WorkInv'
  BY CallEnds DEF GivenUpInv

LEMMA RejectKeeps ==
  ASSUME WorkInv, Truthful, ~met', NEW j \in Jobs, Reject(j) \/ Refuse(j)
  PROVE  WorkInv'
  <1>1. Called(j)
    BY DEF Reject, Refuse
  <1>2. /\ scripts = {} /\ \A k \in Jobs : doing[k] = "idle"
        /\ disk \in owed /\ disk' = disk /\ run' = run /\ scripts' = {}
    BY <1>1, CalledAlone DEF WorkInv, RestInv, Called
  <1>3. PICK o : \/ Return(j, o, FALSE, TRUE, {})
                 \/ /\ o.tool # Program
                    /\ Return(j, o, CommandSuccess(CommandType(o), 1), TRUE, {})
    BY DEF Reject, Refuse
  <1>4. owed' = owed
    <2>1. CASE CommandSuccess(CommandType(o), 1)
      BY <1>3, <2>1, OnlyChecks, CheckOwes DEF Return, Promised
    <2>2. CASE ~CommandSuccess(CommandType(o), 1)
      BY <1>3, <2>2 DEF Return
    <2> QED
      BY <2>1, <2>2
  <1>5. CASE Return(j, o, FALSE, TRUE, {})
    BY <1>2, <1>4, <1>5, CallEndsAlone
  <1>6. CASE o.tool # Program /\ Return(j, o, CommandSuccess(CommandType(o), 1), TRUE, {})
    BY <1>2, <1>4, <1>6, CallEndsAlone
  <1> QED
    BY <1>3, <1>5, <1>6

LEMMA BeginKeeps ==
  ASSUME WorkInv, Truthful, ~met', NEW j \in Jobs, BeginCall(j)
  PROVE  WorkInv'
  <1>1. Called(j)
    BY DEF BeginCall
  <1>2. /\ scripts = {} /\ \A k \in Jobs : doing[k] = "idle"
        /\ disk \in owed /\ disk' = disk /\ run' = run /\ scripts' = {} /\ last' = last
        /\ owed' = owed
    BY <1>1, CalledAlone DEF WorkInv, RestInv, Called, BeginCall
  <1>3. PICK o \in Orders[j] :
          /\ o.tool = Program \/ o.tool \in ToolNames \ Disabled
          /\ order' = [order EXCEPT ![j] = o]
          /\ doing' = [doing EXCEPT ![j] = IF o.tool = Program THEN FirstScript
                                           ELSE IF InRepo(o) THEN "test_repo" ELSE o.tool]
    BY DEF BeginCall, Accepts
  <1> DEFINE name == IF o.tool = Program THEN FirstScript
                     ELSE IF InRepo(o) THEN "test_repo" ELSE o.tool
  <1>4. /\ Fits(name, o) /\ name \in ScriptNames
        /\ o.tool = Program => name = FirstScript
        /\ name \notin {"idle", "tail"}
    BY <1>3 DEF Fits, Program, FirstScript, ProgramScripts, ScriptNames, ToolNames, CommandTools,
                WriteTools, EnvTools, PlainTools, GitTools, GithubTools
  <1>5. Before(o, name) = owed
    BY <1>3 DEF Before, FirstScript
  <1>6. o.mode \in {"launch", "run"}
    BY <1>3, ToolboxAssumption
  <1>7. /\ doing'[j] = name /\ order'[j] = o
        /\ \A k \in Jobs \ {j} : doing'[k] = "idle"
    BY <1>2, <1>3 DEF WorkInv, CallInv
  <1>8. /\ doing' \in [Jobs -> {"idle"} \cup ScriptNames] /\ order' = [k \in Jobs |-> order'[k]]
    BY <1>3, <1>4 DEF WorkInv, CallInv
  <1> HIDE DEF name
  <1>9. CallInv'
    BY <1>2, <1>4, <1>6, <1>7, <1>8 DEF WorkInv, CallInv, Fits
  <1>10. RestInv'
    BY <1>2, <1>4, <1>5, <1>7 DEF RestInv, Before, Promised
  <1>11. AwaitedInv' /\ GivenUpInv' /\ IsDisk(disk)'
    BY <1>2 DEF AwaitedInv, GivenUpInv, WorkInv, IsDisk
  <1>12. RunInv'
    BY <1>4, <1>7 DEF RunInv
  <1>13. RunsItsOwnCode'
    BY <1>2 DEF WorkInv, RunsItsOwnCode
  <1> QED
    BY <1>9, <1>10, <1>11, <1>12, <1>13 DEF WorkInv

LEMMA SendKeeps ==
  ASSUME WorkInv, Truthful, NEW j \in Jobs, Send(j)
  PROVE  WorkInv'
  <1> DEFINE new == [by |-> j, name |-> doing[j], order |-> order[j], awaited |-> TRUE,
                     stage |-> "sent", does |-> Nothing(1)]
  <1>1. doing[j] # "idle"
    BY DEF Send, ScriptNames, ProgramScripts, ToolNames, CommandTools, WriteTools, EnvTools,
           PlainTools, GitTools, GithubTools
  <1>2. scripts = {} /\ \A k \in Jobs \ {j} : doing[k] = "idle"
    BY <1>1, BusyAlone DEF Send, WorkInv
  <1>3. /\ scripts' = {new}
        /\ doing' = doing /\ order' = order /\ run' = run /\ last' = last
        /\ disk' = disk /\ owed' = owed
    BY <1>2 DEF Send, client
  <1>4. /\ new.by = j /\ new.name = doing[j] /\ new.order = order[j] /\ new.awaited
        /\ new.stage = "sent" /\ IsScript(new)
    BY DEF IsScript, Stages
  <1>5. disk \in Before(order[j], doing[j])
    BY <1>1, <1>2 DEF WorkInv, RestInv
  <1> HIDE DEF new
  <1>6. CallInv'
    <2>1. Fits(doing[j], order[j])' /\ ~order[j].plans
      BY <1>1, <1>3 DEF WorkInv, CallInv, Fits, Send
    <2>2. /\ doing' \in [Jobs -> {"idle"} \cup ScriptNames]
          /\ order' = [k \in Jobs |-> order'[k]] /\ run' = [k \in Jobs |-> run'[k]]
          /\ last' = [k \in Jobs |-> last'[k]]
      BY <1>3 DEF WorkInv, CallInv
    <2>3. /\ \A k, l \in Jobs : doing'[k] # "idle" /\ doing'[l] # "idle" => k = l
          /\ \A k \in Jobs : doing'[k] # "idle" =>
                /\ Fits(doing[k], order[k])'
                /\ order'[k].mode \in {"launch", "run"}
                /\ order'[k].plans /\ order'[k].tool = Program => doing'[k] = FirstScript
      BY <1>3 DEF WorkInv, CallInv, Fits
    <2>4. \A s \in scripts' :
            /\ IsScript(s)' /\ Fits(s.name, s.order)' /\ ~s.order.plans
            /\ s.awaited /\ s.order = order'[s.by] /\ s.name = doing'[s.by] /\ doing'[s.by] # "idle"
      BY <1>1, <1>3, <1>4, <2>1 DEF IsScript, Fits
    <2> QED
      BY <1>3, <2>2, <2>3, <2>4 DEF CallInv
  <1>7. RestInv'
    BY <1>3 DEF RestInv
  <1>8. AwaitedInv'
    BY <1>3, <1>4, <1>5 DEF AwaitedInv, Before, Promised
  <1>9. GivenUpInv' /\ IsDisk(disk)'
    BY <1>3, <1>4 DEF GivenUpInv, IsDisk, WorkInv
  <1>10. RunInv' /\ RunsItsOwnCode'
    BY <1>3 DEF RunInv, RunsItsOwnCode, WorkInv
  <1> QED
    BY <1>6, <1>7, <1>8, <1>9, <1>10 DEF WorkInv

(* An exception leaves what was owed, and what it may have made of it.     *)
LEMMA GiveUpOwes ==
  ASSUME NEW j \in Jobs, NEW sure, GiveUp(j, sure)
  PROVE  /\ ~sure => owed' = owed \cup Promised(order[j])
         /\ order[j].tool # Program /\ sure => owed' = owed
         /\ sure => owed' = owed
  <1> DEFINE o == order[j]
             success == o.tool # Program /\ CommandSuccess(CommandType(o), 1)
  <1>1. owed' = IF success THEN Promised(o) ELSE IF sure THEN owed ELSE owed \cup Promised(o)
    BY DEF GiveUp, Return, Promised
  <1>2. success => Promised(o) = owed
    BY OnlyChecks, CheckOwes
  <1> QED
    BY <1>1, <1>2

LEMMA GiveUpEnds ==
  ASSUME WorkInv, Truthful, NEW j \in Jobs, doing[j] # "idle", NEW sure, GiveUp(j, sure),
         disk' = disk, run' = run,
         \A s, t \in scripts' : s = t,
         \A s \in scripts' : /\ IsScript(s) /\ Fits(s.name, s.order) /\ ~s.order.plans
                             /\ ~s.awaited /\ s.stage # "done",
         scripts' = {} => disk \in owed', GivenUpInv'
  PROVE  WorkInv'
  <1> DEFINE o == order[j]
  <1>1. \A k \in Jobs \ {j} : doing[k] = "idle"
    BY BusyAlone DEF WorkInv
  <1>2. Return(j, o, o.tool # Program /\ CommandSuccess(CommandType(o), 1), sure, {})
    BY DEF GiveUp
  <1> HIDE DEF o
  <1> QED
    BY <1>1, <1>2, CallEnds

LEMMA BlockedKeeps ==
  ASSUME WorkInv, Truthful, NEW j \in Jobs, BlockedByMode(j)
  PROVE  WorkInv'
  <1>1. doing[j] # "idle" /\ order[j].plans /\ GiveUp(j, TRUE)
    BY DEF BlockedByMode, ScriptNames, ProgramScripts, ToolNames, CommandTools, WriteTools,
           EnvTools, PlainTools, GitTools, GithubTools
  <1>2. scripts = {}
    BY <1>1, BusyAlone DEF WorkInv
  <1>3. disk' = disk /\ run' = run /\ scripts' = {}
    BY <1>2 DEF BlockedByMode
  <1>4. order[j].tool = Program => doing[j] = "mkdir"
    BY <1>1 DEF WorkInv, CallInv, FirstScript
  <1>5. disk \in owed
    BY <1>1, <1>2, <1>4 DEF WorkInv, RestInv, Before
  <1>6. disk \in owed'
    BY <1>1, <1>5, GiveUpOwes
  <1> QED
    BY <1>1, <1>3, <1>6, GiveUpEnds DEF GivenUpInv

LEMMA ConnectFailsKeeps ==
  ASSUME WorkInv, Truthful, NEW j \in Jobs, ConnectFails(j)
  PROVE  WorkInv'
  <1> DEFINE sure == doing[j] \notin ProgramScripts
  <1>1. doing[j] # "idle" /\ GiveUp(j, sure)
    BY DEF ConnectFails, ScriptNames, ProgramScripts, ToolNames, CommandTools, WriteTools,
           EnvTools, PlainTools, GitTools, GithubTools
  <1>2. scripts = {}
    BY <1>1, BusyAlone DEF WorkInv, ConnectFails
  <1>3. disk' = disk /\ run' = run /\ scripts' = {}
    BY <1>2 DEF ConnectFails
  <1>4. disk \in Before(order[j], doing[j]) /\ Fits(doing[j], order[j])
    BY <1>1, <1>2 DEF WorkInv, RestInv, CallInv
  <1>5. disk \in owed'
    <2>1. CASE doing[j] \in ProgramScripts
      BY <1>1, <1>4, <2>1, GiveUpOwes DEF Before
    <2>2. CASE doing[j] \notin ProgramScripts
      BY <1>1, <1>4, <2>2, GiveUpOwes DEF Before, Fits, Program, ToolNames,
             CommandTools, WriteTools, EnvTools, PlainTools, GitTools, GithubTools
    <2> QED
      BY <2>1, <2>2
  <1> HIDE DEF sure
  <1> QED
    BY <1>1, <1>3, <1>5, GiveUpEnds DEF GivenUpInv

(* What is awaited may be a truth value, which a solver keeps apart.       *)
LEMMA ScriptIsLeft ==
  ASSUME NEW s, IsScript(s), NEW value
  PROVE  [s EXCEPT !.awaited = value] =
           [by |-> s.by, name |-> s.name, order |-> s.order, awaited |-> value,
            stage |-> s.stage, does |-> s.does]
  <1>1. PICK who, name, p, awaited, stage, does :
          s = [by |-> who, name |-> name, order |-> p, awaited |-> awaited,
               stage |-> stage, does |-> does]
    BY DEF IsScript
  <1>2. [s EXCEPT !.awaited = value] =
          [by |-> who, name |-> name, order |-> p, awaited |-> value,
           stage |-> stage, does |-> does]
    BY <1>1
  <1>3. s.by = who /\ s.name = name /\ s.order = p /\ s.stage = stage /\ s.does = does
    BY <1>1
  <1> QED
    BY <1>2, <1>3

(* A script that is given up keeps the promise of a call that failed.      *)
LEMMA AbandonedKeeps ==
  ASSUME WorkInv, Truthful, NEW j \in Jobs, NEW s \in Awaited(j), GiveUp(j, FALSE),
         disk' = disk, run' = run,
         scripts' = IF s.stage = "done" THEN {} ELSE {[s EXCEPT !.awaited = FALSE]}
  PROVE  WorkInv'
  <1> DEFINE left == [s EXCEPT !.awaited = FALSE]
             o == order[j]
  <1>1. /\ s \in scripts /\ s.by = j /\ s.awaited /\ s.order = o /\ s.name = doing[j]
        /\ doing[j] # "idle" /\ IsScript(s) /\ Fits(s.name, s.order) /\ ~s.order.plans
    BY DEF Awaited, WorkInv, CallInv
  <1>2. owed' = owed \cup Promised(o)
    BY GiveUpOwes
  <1>3. /\ IsScript(left) /\ left.name = s.name /\ left.order = s.order /\ left.stage = s.stage
        /\ left.does = s.does /\ ~left.awaited
        /\ scripts' = IF s.stage = "done" THEN {} ELSE {left}
    <2>1. /\ s = [by |-> s.by, name |-> s.name, order |-> s.order, awaited |-> s.awaited,
                  stage |-> s.stage, does |-> s.does]
          /\ s.by \in Jobs /\ s.stage \in Stages
          /\ s.stage = "cut" => s.does.on # "untracked"
      BY <1>1 DEF IsScript
    <2>2. left = [by |-> s.by, name |-> s.name, order |-> s.order, awaited |-> FALSE,
                  stage |-> s.stage, does |-> s.does]
      BY <1>1, ScriptIsLeft, Zenon
    <2>3. scripts' = IF s.stage = "done" THEN {} ELSE {left}
      OBVIOUS
    <2> HIDE DEF left
    <2> QED
      BY <2>1, <2>2, <2>3 DEF IsScript
  <1>4. s.stage = "done" => disk \in owed'
    BY <1>1, <1>2 DEF WorkInv, AwaitedInv, Came
  <1>5. s.stage = "sent" => disk \in owed' /\
              (s.name \in {"write", s.order.tool} => Promise(s.order, disk) \subseteq owed')
    <2>1. s.stage = "sent" => disk \in Before(o, s.name)
      BY <1>1 DEF WorkInv, AwaitedInv
    <2>2. s.stage = "sent" => disk \in owed'
      BY <1>2, <2>1 DEF Before
    <2>3. s.name \in {"write", o.tool} => Before(o, s.name) = owed
      BY <1>1 DEF Before, Fits, Program, ProgramScripts, ToolNames, CommandTools, WriteTools,
                  EnvTools, PlainTools, GitTools, GithubTools
    <2> QED
      BY <1>1, <1>2, <2>1, <2>2, <2>3 DEF Promised
  <1>6. s.stage \in {"ready", "cut"} => Writes(s.does)' /\ Final(s.does)' \in owed'
    <2>1. Final(s.does)' = Final(s.does) /\ (Writes(s.does) <=> Writes(s.does)')
      BY DEF Final, Opened, Writes, IsDisk
    <2> QED
      BY <1>1, <1>2, <2>1 DEF WorkInv, AwaitedInv
  <1> HIDE DEF left, o
  <1>7. GivenUpInv'
    BY <1>3, <1>5, <1>6 DEF GivenUpInv
  <1>8. \A t \in scripts' : /\ IsScript(t) /\ Fits(t.name, t.order) /\ ~t.order.plans
                            /\ ~t.awaited /\ t.stage # "done"
    BY <1>1, <1>3
  <1>9. /\ \A t, u \in scripts' : t = u
        /\ scripts' = {} => disk \in owed'
    BY <1>4
  <1> QED
    BY <1>1, <1>7, <1>8, <1>9, GiveUpEnds

LEMMA TimeOutKeeps ==
  ASSUME WorkInv, Truthful, NEW j \in Jobs, TimeOut(j)
  PROVE  WorkInv'
  <1>1. PICK s \in Awaited(j) : scripts' = Abandon(s)
    BY DEF TimeOut
  <1>2. scripts = {s}
    BY DEF Awaited, WorkInv, CallInv
  <1>3. GiveUp(j, FALSE) /\ disk' = disk /\ run' = run
    BY DEF TimeOut
  <1>4. scripts' = IF s.stage = "done" THEN {} ELSE {[s EXCEPT !.awaited = FALSE]}
    BY <1>1, <1>2 DEF Abandon
  <1> QED
    BY <1>1, <1>3, <1>4, AbandonedKeeps

LEMMA OuterTimeOutKeeps ==
  ASSUME WorkInv, Truthful, NEW j \in Jobs, OuterTimeOut(j)
  PROVE  WorkInv'
  <1>1. /\ doing[j] # "idle" /\ doing[j] # "mkdir" /\ GiveUp(j, FALSE) /\ disk' = disk /\ run' = run
        /\ order[j].tool # Program
    BY DEF OuterTimeOut, GitTools, GithubTools, InRepo, Program
  <1>2. scripts' = {s \in scripts : s \notin Awaited(j)} \cup
                    {[s EXCEPT !.awaited = FALSE] : s \in {x \in Awaited(j) : x.stage # "done"}}
    BY DEF OuterTimeOut
  <1>3. scripts = Awaited(j)
    BY <1>1, BusyAlone DEF WorkInv
  <1>4. CASE scripts = {}
    <2>1. scripts' = {} /\ disk \in owed
      BY <1>1, <1>2, <1>3, <1>4 DEF WorkInv, RestInv, Before
    <2>2. disk \in owed'
      BY <1>1, <2>1, GiveUpOwes
    <2> QED
      BY <1>1, <2>1, <2>2, GiveUpEnds DEF GivenUpInv
  <1>5. ASSUME NEW s \in scripts PROVE WorkInv'
    <2>1. scripts = {s} /\ Awaited(j) = {s}
      BY <1>3 DEF WorkInv, CallInv
    <2>2. scripts' = IF s.stage = "done" THEN {} ELSE {[s EXCEPT !.awaited = FALSE]}
      BY <1>2, <2>1
    <2> QED
      BY <1>1, <2>1, <2>2, AbandonedKeeps
  <1> QED
    BY <1>4, <1>5

(* A call of several scripts goes on with the next one. *)
LEMMA CallGoesOn ==
  ASSUME WorkInv, Truthful, NEW j \in Jobs, doing[j] # "idle", NEW next \in ScriptNames,
         doing' = [doing EXCEPT ![j] = next], Stay, disk' = disk, scripts' = {},
         run' = [k \in Jobs |-> run'[k]],
         Fits(next, order[j]), ~order[j].plans, disk \in Before(order[j], next),
         next = "tail" /\ Own(order[j]) /\ run'[j].success => run'[j].ran = {order[j].content}
  PROVE  WorkInv'
  <1>1. \A k \in Jobs \ {j} : doing[k] = "idle"
    BY BusyAlone DEF WorkInv
  <1>2. /\ last' = last /\ owed' = owed /\ order' = order
        /\ doing'[j] = next /\ \A k \in Jobs \ {j} : doing'[k] = "idle"
    BY <1>1 DEF Stay, WorkInv, CallInv
  <1>3. CallInv'
    <2>1. /\ doing' \in [Jobs -> {"idle"} \cup ScriptNames]
          /\ order' = [k \in Jobs |-> order'[k]] /\ last' = [k \in Jobs |-> last'[k]]
      BY <1>2 DEF WorkInv, CallInv
    <2>2. \A k \in Jobs : doing'[k] # "idle" =>
                /\ Fits(doing[k], order[k])'
                /\ order'[k].mode \in {"launch", "run"}
                /\ order'[k].plans /\ order'[k].tool = Program => doing'[k] = FirstScript
      BY <1>2 DEF WorkInv, CallInv, Fits
    <2>3. \A k, l \in Jobs : doing'[k] # "idle" /\ doing'[l] # "idle" => k = l
      BY <1>2
    <2> QED
      BY <2>1, <2>2, <2>3 DEF CallInv
  <1>4. RestInv'
    <2>1. ASSUME NEW k \in Jobs, doing'[k] # "idle" PROVE disk' \in Before(order[k], doing[k])'
      BY <1>2, <2>1 DEF Before, Promised
    <2>2. doing'[j] # "idle"
      BY <1>2 DEF ScriptNames, ProgramScripts, ToolNames, CommandTools, WriteTools, EnvTools,
                  PlainTools, GitTools, GithubTools
    <2> QED
      BY <2>1, <2>2 DEF RestInv
  <1>5. AwaitedInv' /\ GivenUpInv' /\ IsDisk(disk)'
    BY DEF AwaitedInv, GivenUpInv, WorkInv, IsDisk
  <1>6. RunInv'
    BY <1>2 DEF RunInv
  <1>7. RunsItsOwnCode'
    BY <1>2 DEF WorkInv, RunsItsOwnCode
  <1> QED
    BY <1>3, <1>4, <1>5, <1>6, <1>7 DEF WorkInv

(* The script after one of a program. *)
LEMMA NextFits ==
  ASSUME NEW o, o.tool = Program, o.mode \in {"launch", "run"}, NEW code,
         NEW name \in ProgramScripts \ {"tail"}
  PROVE  /\ NextScript(name, code, o) \in ProgramScripts
         /\ NextScript(name, code, o) = "write" => name = "mkdir" /\ ~o.large
         /\ NextScript(name, code, o) = "tail" => name \in {"launch", "run"}
         /\ NextScript(name, code, o) # "mkdir"
         /\ name = "mkdir" /\ o.large => NextScript(name, code, o) # "write"
  BY DEF NextScript, ProgramScripts, AfterWrite

LEMMA ReceiveKeeps ==
  ASSUME WorkInv, Truthful, NEW j \in Jobs, Receive(j)
  PROVE  WorkInv'
  <1> DEFINE o == order[j]
  <1>1. PICK s \in Awaited(j) : /\ s.stage = "done" /\ Answered(j, s, s.does.code)
                                /\ scripts' = scripts \ {s}
    BY DEF Receive
  <1>2. /\ s \in scripts /\ s.by = j /\ s.awaited /\ s.order = o /\ s.name = doing[j]
        /\ doing[j] # "idle" /\ Fits(s.name, o) /\ ~o.plans /\ o.mode \in {"launch", "run"}
    BY <1>1 DEF Awaited, WorkInv, CallInv
  <1>3. /\ disk' = disk /\ scripts' = {} /\ Came(s)
        /\ \A k \in Jobs \ {j} : doing[k] = "idle"
    BY <1>1, <1>2, BusyAlone DEF Receive, WorkInv, CallInv, AwaitedInv
  <1>4. CASE s.name = "test_repo"
    <2>1. o.tool \in ToolNames \ Disabled /\ o.tool # Program
      BY <1>2, <1>4 DEF Fits, Program, ProgramScripts, ToolNames, CommandTools, WriteTools,
                        EnvTools, PlainTools, GitTools, GithubTools
    <2>2. disk \in owed
      BY <1>2, <1>3, <1>4, <2>1 DEF Came
    <2>3. run' = run
      BY <1>1, <1>4 DEF Answered
    <2>4. CASE doing' = [doing EXCEPT ![j] = o.tool] /\ Stay
      <3>1. o.tool \in ScriptNames /\ Fits(o.tool, o) /\ o.tool # "tail"
        BY <2>1 DEF ScriptNames, Fits, ToolNames, CommandTools, WriteTools,
                    EnvTools, PlainTools, GitTools, GithubTools
      <3>2. disk \in Before(o, o.tool)
        BY <2>1, <2>2 DEF Before
      <3>3. run' = [k \in Jobs |-> run'[k]]
        BY <2>3 DEF WorkInv, CallInv
      <3> QED
        BY <1>2, <1>3, <2>4, <3>1, <3>2, <3>3, CallGoesOn
    <2>5. CASE Return(j, o, FALSE, TRUE, {})
      <3>1. disk \in owed'
        BY <2>2, <2>5 DEF Return
      <3> QED
        BY <1>3, <2>3, <2>5, <3>1, CallEndsAlone
    <2> QED
      BY <1>1, <1>4, <2>4, <2>5 DEF Answered
  <1>5. CASE s.name # "test_repo" /\ o.tool # Program
    <2> DEFINE success == CommandSuccess(CommandType(o), s.does.code)
    <2>1. Return(j, o, success, TRUE, {}) /\ run' = run
      BY <1>1, <1>5 DEF Answered
    <2>2. disk \in owed'
      <3>1. CASE success
        BY <1>2, <1>3, <1>5, <2>1, <3>1 DEF Return, Came, Promised
      <3>2. CASE ~success
        BY <1>2, <1>3, <1>5, <2>1, <3>2 DEF Return, Came
      <3> QED
        BY <3>1, <3>2
    <2> HIDE DEF success
    <2> QED
      BY <1>3, <1>5, <2>1, <2>2, CallEndsAlone
  <1>6. CASE o.tool = Program /\ s.name = "tail"
    <2>1. Return(j, o, run[j].success, FALSE, run[j].ran) /\ run' = run
      BY <1>1, <1>6 DEF Answered
    <2>2. disk \in owed'
      <3>1. disk \in Promised(o)
        BY <1>2, <1>3, <1>6 DEF Came
      <3> QED
        BY <2>1, <3>1 DEF Return, Promised
    <2>3. run[j].success /\ Own(o) => run[j].ran = {o.content}
      BY <1>2, <1>6 DEF WorkInv, RunInv
    <2> QED
      BY <1>3, <2>1, <2>2, <2>3, CallEndsAlone
  <1>7. CASE o.tool = Program /\ s.name \notin {"test_repo", "tail"}
    <2> DEFINE next == NextScript(s.name, s.does.code, o)
    <2>1. /\ run' = IF s.name \in {"launch", "run"}
                       THEN [run EXCEPT ![j] = [ran |-> s.does.value,
                               success |-> s.name = "launch" \/ s.does.code = 0]]
                       ELSE run
          /\ doing' = [doing EXCEPT ![j] = next] /\ Stay
      BY <1>1, <1>7 DEF Answered
    <2>2. s.name \in ProgramScripts \ {"tail"}
      BY <1>2, <1>7 DEF Fits, Program, ToolNames, CommandTools, WriteTools,
                        EnvTools, PlainTools, GitTools, GithubTools
    <2>3. /\ next \in ProgramScripts /\ next # "mkdir"
          /\ next = "write" => s.name = "mkdir" /\ ~o.large
          /\ next = "tail" => s.name \in {"launch", "run"}
          /\ s.name = "mkdir" /\ o.large => next # "write"
      BY <1>2, <1>7, <2>2, NextFits
    <2> HIDE DEF next
    <2>4. next \in ScriptNames /\ Fits(next, o)
      BY <1>7, <2>3 DEF ScriptNames, Fits
    <2>5. disk \in Before(o, next)
      <3>1. CASE s.name # "mkdir"
        BY <1>2, <1>3, <1>7, <2>3, <3>1 DEF Came, Before
      <3>2. CASE s.name = "mkdir" /\ next = "write"
        BY <1>2, <1>3, <1>7, <3>2 DEF Came, Before
      <3>3. CASE s.name = "mkdir" /\ next # "write"
        <4>1. o.large
          BY <1>7, <2>1, <3>3 DEF NextScript, next
        <4>2. Promised(o) = owed
          BY <1>7, <4>1, ProgramPromises DEF Promised
        <4> QED
          BY <1>2, <1>3, <1>7, <3>3, <4>2 DEF Came, Before
      <3> QED
        BY <3>1, <3>2, <3>3
    <2>6. run' = [k \in Jobs |-> run'[k]]
      BY <2>1 DEF WorkInv, CallInv
    <2>7. next = "tail" /\ Own(o) => run'[j].ran = {o.content}
      <3>1. SUFFICES ASSUME next = "tail", Own(o) PROVE run'[j].ran = {o.content}
        OBVIOUS
      <3>2. s.name \in {"launch", "run"}
        BY <2>3, <3>1
      <3>3. run'[j].ran = s.does.value
        BY <2>1, <3>2 DEF WorkInv, CallInv
      <3> QED
        BY <1>2, <1>3, <3>1, <3>2, <3>3 DEF Came
    <2> QED
      BY <1>2, <1>3, <2>1, <2>4, <2>5, <2>6, <2>7, CallGoesOn
  <1> QED
    BY <1>4, <1>5, <1>6, <1>7

(* A script goes on: what it will leave behind has to be what was owed.    *)
LEMMA ScriptGoesOn ==
  ASSUME WorkInv, Truthful, NEW s \in scripts, NEW next, UNCHANGED <<client, owed>>,
         IsDisk(disk'), IsScript(next),
         next.by = s.by, next.name = s.name, next.order = s.order, next.awaited = s.awaited,
         next.stage # "sent", Becomes(s, next),
         s.awaited /\ next.stage \in {"ready", "cut"} =>
            /\ s.name \in {"write", s.order.tool}
            /\ Writes(next.does)' /\ Final(next.does)' \in Promised(s.order),
         s.awaited /\ next.stage = "done" => Came(next)',
         ~s.awaited /\ next.stage \in {"ready", "cut"} => Writes(next.does)' /\ Final(next.does)' \in owed,
         ~s.awaited /\ next.stage = "done" => disk' \in owed
  PROVE  WorkInv'
  <1>1. /\ doing' = doing /\ order' = order /\ run' = run /\ last' = last /\ owed' = owed
        /\ scripts = {s}
    BY DEF client, WorkInv, CallInv
  <1>2. scripts' = IF next.stage = "done" /\ ~s.awaited THEN {} ELSE {next}
    BY <1>1 DEF Becomes
  <1>3. CallInv'
    <2>1. \A t \in scripts' :
            /\ IsScript(t)' /\ Fits(t.name, t.order)' /\ ~t.order.plans
            /\ t.awaited => t.order = order[t.by] /\ t.name = doing[t.by] /\ doing[t.by] # "idle"
            /\ ~t.awaited => t.stage # "done" /\ \A j \in Jobs : doing[j] = "idle"
      BY <1>1, <1>2 DEF WorkInv, CallInv, IsScript, Fits
    <2>2. \A t, u \in scripts' : t = u
      BY <1>2
    <2>3. \A j \in Jobs : doing'[j] # "idle" =>
                /\ Fits(doing[j], order[j])'
                /\ order'[j].mode \in {"launch", "run"}
                /\ order'[j].plans /\ order'[j].tool = Program => doing'[j] = FirstScript
      BY <1>1 DEF WorkInv, CallInv, Fits
    <2>4. /\ doing' \in [Jobs -> {"idle"} \cup ScriptNames]
          /\ order' = [j \in Jobs |-> order'[j]] /\ run' = [j \in Jobs |-> run'[j]]
          /\ last' = [j \in Jobs |-> last'[j]]
          /\ \A j, k \in Jobs : doing'[j] # "idle" /\ doing'[k] # "idle" => j = k
      BY <1>1 DEF WorkInv, CallInv
    <2> QED
      BY <1>1, <2>1, <2>2, <2>3, <2>4 DEF CallInv
  <1>4. RestInv'
    <2>1. ASSUME scripts' = {}
          PROVE  disk' \in owed' /\ \A j \in Jobs : doing'[j] = "idle"
      BY <1>1, <1>2, <2>1 DEF WorkInv, CallInv
    <2> QED
      BY <2>1 DEF RestInv
  <1>5. AwaitedInv'
    BY <1>1, <1>2 DEF AwaitedInv, Promised
  <1>6. GivenUpInv'
    BY <1>1, <1>2 DEF GivenUpInv
  <1>7. RunInv' /\ RunsItsOwnCode'
    BY <1>1 DEF RunInv, RunsItsOwnCode, WorkInv
  <1> QED
    BY <1>3, <1>4, <1>5, <1>6, <1>7 DEF WorkInv

LEMMA ScriptChanges ==
  ASSUME NEW s, IsScript(s), NEW does, NEW stage
  PROVE  /\ [s EXCEPT !.stage = stage] =
              [by |-> s.by, name |-> s.name, order |-> s.order, awaited |-> s.awaited,
               stage |-> stage, does |-> s.does]
         /\ [s EXCEPT !.does = does, !.stage = stage] =
              [by |-> s.by, name |-> s.name, order |-> s.order, awaited |-> s.awaited,
               stage |-> stage, does |-> does]
  <1>1. PICK who, name, p, awaited, was, did :
          s = [by |-> who, name |-> name, order |-> p, awaited |-> awaited,
               stage |-> was, does |-> did]
    BY DEF IsScript
  <1>2. [s EXCEPT !.stage = stage] =
          [by |-> who, name |-> name, order |-> p, awaited |-> awaited,
           stage |-> stage, does |-> did]
    BY <1>1
  <1> DEFINE half == [s EXCEPT !.does = does]
  <1>3. [half EXCEPT !.stage = stage] =
          [by |-> who, name |-> name, order |-> p, awaited |-> awaited,
           stage |-> stage, does |-> does]
    <2>1. half = [by |-> who, name |-> name, order |-> p, awaited |-> awaited,
                  stage |-> was, does |-> does]
      BY <1>1
    <2> HIDE DEF half
    <2> QED
      BY <2>1
  <1>4. s.by = who /\ s.name = name /\ s.order = p /\ s.awaited = awaited /\ s.does = did
    BY <1>1
  <1> QED
    BY <1>2, <1>3, <1>4

(* The code of an order is in the workspace after its script "write". *)
LEMMA OwnCode ==
  ASSUME NEW o, Own(o), IsDisk(disk), disk \in Promised(o)
  PROVE  disk.file = {o.content}
  <1>1. PICK d : disk = [d EXCEPT !.file = {o.content}]
    BY ProgramPromises DEF Promised, Own
  <1>2. DOMAIN disk = {"file", "env", "head"}
    BY DEF IsDisk
  <1> QED
    BY <1>1, <1>2

LEMMA LookKeeps ==
  ASSUME WorkInv, Truthful, NEW s \in scripts, Look(s), UNCHANGED <<client, owed>>
  PROVE  WorkInv'
  <1> DEFINE o == s.order
  <1>1. /\ IsScript(s) /\ Fits(s.name, o) /\ s.stage = "sent" /\ disk' = disk /\ IsDisk(disk)
        /\ s.awaited \in BOOLEAN
    BY DEF WorkInv, CallInv, Look, IsScript
  <1>2. PICK does \in Script(s.name, o) :
          Becomes(s, [s EXCEPT !.does = does,
                               !.stage = IF does.on = "nothing" THEN "done" ELSE "ready"])
    BY DEF Look
  <1> DEFINE stage == IF does.on = "nothing" THEN "done" ELSE "ready"
             next == [s EXCEPT !.does = does, !.stage = stage]
  <1>3. /\ does.on # "nothing" => /\ s.name \in {"write", o.tool}
                                  /\ Writes(does) /\ Final(does) \in Promise(o, disk)
        /\ does.on = "nothing" =>
              /\ o.tool # Program /\ s.name # "test_repo" /\ CommandSuccess(CommandType(o), does.code)
                   => disk \in Promise(o, disk)
              /\ o.tool = Program /\ s.name = "write" => disk \in Promise(o, disk)
              /\ s.name \in {"launch", "run"} /\ Own(o) => does.value = disk.file
    BY <1>1, ScriptDoes
  <1>4. next = [by |-> s.by, name |-> s.name, order |-> s.order, awaited |-> s.awaited,
                stage |-> stage, does |-> does]
    <2> HIDE DEF stage
    <2> QED BY <1>1, ScriptChanges, Zenon
  <1>5. Becomes(s, next)
    BY <1>2
  <1> HIDE DEF next
  <1>6. /\ next.by = s.by /\ next.name = s.name /\ next.order = o /\ next.awaited = s.awaited
        /\ next.stage = stage /\ next.does = does /\ IsScript(next)
    BY <1>1, <1>4 DEF IsScript, Stages
  <1>7. s.awaited => disk \in Before(o, s.name)
    BY <1>1 DEF WorkInv, AwaitedInv
  <1>8. ~s.awaited => /\ disk \in owed
                      /\ s.name \in {"write", o.tool} => Promise(o, disk) \subseteq owed
    BY <1>1 DEF WorkInv, GivenUpInv
  <1>9. Before(o, s.name) = owed \/ Before(o, s.name) = Promised(o)
    BY DEF Before
  <1>10. s.name \in {"write", o.tool} => Before(o, s.name) = owed
    BY <1>1 DEF Before, Fits, Program, ProgramScripts, ToolNames, CommandTools, WriteTools,
                EnvTools, PlainTools, GitTools, GithubTools
  <1>11. Final(does)' = Final(does) /\ (Writes(does) <=> Writes(does)')
    BY <1>1 DEF Final, Opened, Writes, IsDisk
  <1>12. CASE does.on # "nothing"
    <2>1. next.stage = "ready" /\ s.name \in {"write", o.tool}
      BY <1>3, <1>6, <1>12
    <2>2. s.awaited => Writes(does)' /\ Final(does)' \in Promised(o)
      BY <1>3, <1>7, <1>10, <1>11, <1>12 DEF Promised
    <2>3. ~s.awaited => Writes(does)' /\ Final(does)' \in owed
      BY <1>3, <1>8, <1>11, <1>12
    <2> QED
      BY <1>1, <1>5, <1>6, <2>1, <2>2, <2>3, ScriptGoesOn
  <1>13. CASE does.on = "nothing"
    <2>1. next.stage = "done"
      BY <1>6, <1>13
    <2>2. ASSUME s.awaited PROVE Came(next)'
      <3>1. CASE o.tool = Program
        <4>1. s.name = "mkdir" => disk \in owed
          BY <1>7, <2>2, <3>1 DEF Before
        <4>2. s.name = "write" => disk \in Promised(o)
          BY <1>3, <1>7, <1>13, <2>2, <3>1 DEF Before, Promised
        <4>3. s.name \notin {"mkdir", "write"} => disk \in Promised(o)
          BY <1>7, <2>2, <3>1 DEF Before
        <4>4. s.name \in {"launch", "run"} /\ Own(o) => does.value = {o.content}
          BY <1>1, <1>3, <1>13, <4>3, OwnCode
        <4> QED
          BY <1>1, <1>6, <3>1, <4>1, <4>2, <4>3, <4>4 DEF Came, Promised
      <3>2. CASE o.tool # Program
        <4>1. disk \in owed
          BY <1>7, <2>2, <3>2 DEF Before
        <4>2. s.name # "test_repo" /\ CommandSuccess(CommandType(o), does.code) => disk \in Promised(o)
          BY <1>3, <1>13, <3>2, <4>1 DEF Promised
        <4> QED
          BY <1>1, <1>6, <3>2, <4>1, <4>2 DEF Came, Promised, Own
      <3> QED
        BY <3>1, <3>2
    <2>3. ~s.awaited => disk \in owed
      BY <1>8
    <2> QED
      BY <1>1, <1>5, <1>6, <2>1, <2>2, <2>3, ScriptGoesOn
  <1> QED
    BY <1>12, <1>13

(* What a write leaves when it is through, and on the way there. *)
LEMMA OpenFacts ==
  ASSUME NEW does, IsDisk(disk), Writes(does), disk' = Opened(does)
  PROVE  /\ IsDisk(disk')
         /\ does.on \in {"file", "untracked"} /\ does.value = {} => disk' = Final(does)
         /\ ~(does.on \in {"file", "untracked"} /\ does.value = {}) =>
               does.on # "untracked" /\ Final(does)' = Final(does) /\ Writes(does)'
  <1>1. CASE does.on = "untracked"
    <2>1. does.value = {} /\ disk' = Final(does) /\ IsDisk(Final(does))
      BY <1>1 DEF Writes, Final
    <2> QED
      BY <1>1, <2>1
  <1>2. CASE does.on = "head"
    <2>1. disk' = disk
      BY <1>2 DEF Opened
    <2> QED
      BY <1>2, <2>1 DEF Final, Writes, IsDisk
  <1>3. CASE does.on = "env"
    <2>1. disk' = [file |-> disk.file, env |-> {}, head |-> disk.head]
      BY <1>3 DEF Opened, IsDisk
    <2>2. Final(does) = [file |-> disk.file, env |-> does.value, head |-> disk.head]
      BY <1>3 DEF Final, IsDisk
    <2>3. Final(does)' = [file |-> disk.file, env |-> does.value, head |-> disk.head]
      BY <1>3, <2>1 DEF Final
    <2>4. IsDisk(disk') /\ IsDisk(Final(does))'
      BY <2>1, <2>3 DEF IsDisk
    <2> QED
      BY <1>3, <2>2, <2>3, <2>4 DEF Writes
  <1>4. CASE does.on = "file"
    <2> DEFINE opened == IF does.value = {} THEN {} ELSE {<<>>}
    <2>1. disk' = [disk EXCEPT !.file = opened]
      BY <1>4 DEF Opened
    <2>2. \A b, c \in opened : b = c
      OBVIOUS
    <2>3. does.value = {} => opened = does.value
      OBVIOUS
    <2> HIDE DEF opened
    <2>4. disk' = [file |-> opened, env |-> disk.env, head |-> disk.head]
      BY <2>1 DEF IsDisk
    <2>5. Final(does) = [file |-> does.value, env |-> disk.env, head |-> disk.head]
      BY <1>4 DEF Final, IsDisk
    <2>6. Final(does)' = [file |-> does.value, env |-> disk.env, head |-> disk.head]
      BY <1>4, <2>4 DEF Final
    <2>7. IsDisk(disk')
      BY <2>2, <2>4 DEF IsDisk
    <2>8. IsDisk(Final(does))'
      BY <2>5, <2>6 DEF Writes, IsDisk
    <2> QED
      BY <1>4, <2>3, <2>4, <2>5, <2>6, <2>7, <2>8 DEF Writes
  <1> QED
    BY <1>1, <1>2, <1>3, <1>4 DEF Writes

(* A write that is through has done what its order promises. *)
LEMMA WriteCame ==
  ASSUME NEW s, Fits(s.name, s.order), s.name \in {"write", s.order.tool}, s.does.code = 0,
         disk' \in Promised(s.order)'
  PROVE  Came(s)'
  <1>1. CASE s.order.tool = Program
    <2>1. s.name = "write"
      BY <1>1 DEF Fits, Program, ProgramScripts, ToolNames, CommandTools, WriteTools, EnvTools,
                  PlainTools, GitTools, GithubTools
    <2> QED
      BY <1>1, <2>1 DEF Came
  <1>2. CASE s.order.tool # Program
    <2>1. s.name = s.order.tool /\ s.name \notin {"test_repo", "launch", "run"}
      BY <1>2 DEF Fits, ToolNames, CommandTools, WriteTools, EnvTools, PlainTools, GitTools,
                  GithubTools
    <2>2. CommandSuccess(CommandType(s.order), s.does.code)
      BY DEF CommandSuccess
    <2> QED
      BY <1>2, <2>1, <2>2 DEF Came
  <1> QED
    BY <1>1, <1>2

LEMMA OpenKeeps ==
  ASSUME WorkInv, Truthful, NEW s \in scripts, Open(s), UNCHANGED <<client, owed>>
  PROVE  WorkInv'
  <1> DEFINE gone == s.does.on \in {"file", "untracked"} /\ s.does.value = {}
             stage == IF gone THEN "done" ELSE "cut"
             next == [s EXCEPT !.stage = stage]
  <1>1. /\ IsScript(s) /\ Fits(s.name, s.order) /\ s.stage = "ready" /\ disk' = Opened(s.does)
        /\ s.awaited \in BOOLEAN /\ IsDisk(disk) /\ Becomes(s, next)
    BY DEF WorkInv, CallInv, Open, IsScript
  <1>2. /\ Writes(s.does)
        /\ s.awaited => /\ s.name \in {"write", s.order.tool}
                        /\ Final(s.does) \in Promised(s.order)
        /\ ~s.awaited => Final(s.does) \in owed
    BY <1>1 DEF WorkInv, AwaitedInv, GivenUpInv
  <1>3. /\ IsDisk(disk')
        /\ gone => disk' = Final(s.does)
        /\ ~gone => /\ s.does.on # "untracked"
                    /\ Final(s.does)' = Final(s.does) /\ Writes(s.does)'
    BY <1>1, <1>2, OpenFacts
  <1>4. next = [by |-> s.by, name |-> s.name, order |-> s.order, awaited |-> s.awaited,
                stage |-> stage, does |-> s.does]
    BY <1>1, ScriptChanges, Zenon
  <1> HIDE DEF next
  <1>5. /\ next.by = s.by /\ next.name = s.name /\ next.order = s.order
        /\ next.awaited = s.awaited /\ next.stage = stage /\ next.does = s.does
    BY <1>4
  <1>6. CASE gone
    <2>1. next.stage = "done"
      BY <1>5, <1>6
    <2>2. IsScript(next)
      BY <1>1, <1>4, <1>5, <2>1 DEF IsScript, Stages
    <2>3. ASSUME s.awaited PROVE Came(next)'
      <3>1. disk' \in Promised(next.order)' /\ next.does.code = 0
        BY <1>2, <1>3, <1>5, <1>6, <2>3 DEF Promised, Writes
      <3>2. Fits(next.name, next.order) /\ next.name \in {"write", next.order.tool}
        BY <1>1, <1>2, <1>5, <2>3
      <3> QED
        BY <3>1, <3>2, WriteCame
    <2> QED
      BY <1>1, <1>2, <1>3, <1>5, <1>6, <2>1, <2>2, <2>3, ScriptGoesOn
  <1>7. CASE ~gone
    <2>1. next.stage = "cut"
      BY <1>5, <1>7
    <2>2. IsScript(next)
      BY <1>1, <1>3, <1>4, <1>5, <1>7, <2>1 DEF IsScript, Stages
    <2> QED
      BY <1>1, <1>2, <1>3, <1>5, <1>7, <2>1, <2>2, ScriptGoesOn
  <1> QED
    BY <1>6, <1>7

LEMMA FillKeeps ==
  ASSUME WorkInv, Truthful, NEW s \in scripts, Fill(s), UNCHANGED <<client, owed>>
  PROVE  WorkInv'
  <1> DEFINE stage == "done"
             next == [s EXCEPT !.stage = stage]
  <1>1. /\ IsScript(s) /\ Fits(s.name, s.order) /\ s.stage = "cut" /\ s.awaited \in BOOLEAN
        /\ disk' = [disk EXCEPT ![s.does.on] = s.does.value] /\ Becomes(s, next)
    BY DEF WorkInv, CallInv, Fill, IsScript
  <1>2. /\ Writes(s.does)
        /\ s.awaited => /\ s.name \in {"write", s.order.tool}
                        /\ Final(s.does) \in Promised(s.order)
        /\ ~s.awaited => Final(s.does) \in owed
    BY <1>1 DEF WorkInv, AwaitedInv, GivenUpInv
  <1>3. disk' = Final(s.does) /\ IsDisk(disk') /\ s.does.code = 0
    <2>1. s.does.on # "untracked"
      BY <1>1 DEF IsScript
    <2>2. disk' = Final(s.does)
      BY <1>1, <2>1 DEF Final
    <2> QED
      BY <1>2, <2>2 DEF Writes
  <1>4. next = [by |-> s.by, name |-> s.name, order |-> s.order, awaited |-> s.awaited,
                stage |-> stage, does |-> s.does]
    BY <1>1, ScriptChanges, Zenon
  <1> HIDE DEF next
  <1>5. /\ next.by = s.by /\ next.name = s.name /\ next.order = s.order
        /\ next.awaited = s.awaited /\ next.stage = "done" /\ next.does = s.does
    BY <1>4
  <1>6. IsScript(next)
    BY <1>1, <1>4, <1>5 DEF IsScript, Stages
  <1>7. ASSUME s.awaited PROVE Came(next)'
    <2>1. disk' \in Promised(next.order)' /\ next.does.code = 0
      BY <1>2, <1>3, <1>5, <1>7 DEF Promised
    <2>2. Fits(next.name, next.order) /\ next.name \in {"write", next.order.tool}
      BY <1>1, <1>2, <1>5, <1>7
    <2> QED
      BY <2>1, <2>2, WriteCame
  <1> QED
    BY <1>1, <1>2, <1>3, <1>5, <1>6, <1>7, ScriptGoesOn

LEMMA HangKeeps ==
  ASSUME WorkInv, Truthful, NEW s \in scripts, Hang(s), UNCHANGED <<disk, client, owed>>
  PROVE  WorkInv'
  <1> DEFINE stage == "hung"
             next == [s EXCEPT !.stage = stage]
  <1>1. IsScript(s) /\ Becomes(s, next) /\ IsDisk(disk') /\ s.awaited \in BOOLEAN
    BY DEF WorkInv, CallInv, Hang, IsScript
  <1>2. next = [by |-> s.by, name |-> s.name, order |-> s.order, awaited |-> s.awaited,
                stage |-> stage, does |-> s.does]
    BY <1>1, ScriptChanges, Zenon
  <1> HIDE DEF next
  <1>3. /\ next.by = s.by /\ next.name = s.name /\ next.order = s.order
        /\ next.awaited = s.awaited /\ next.stage = "hung"
    BY <1>2
  <1>4. IsScript(next)
    BY <1>1, <1>2, <1>3 DEF IsScript, Stages
  <1> QED
    BY <1>1, <1>3, <1>4, ScriptGoesOn

LEMMA ToolInitially ==
  ASSUME ToolInit
  PROVE  ToolInv
  <1>1. IsDisk(disk)
    BY ToolboxAssumption DEF ToolInit, IsDisk
  <1>2. CallInv
    BY DEF ToolInit, CallInv
  <1>3. RestInv /\ AwaitedInv /\ GivenUpInv /\ RunInv
    BY DEF ToolInit, RestInv, AwaitedInv, GivenUpInv, RunInv
  <1>4. RunsItsOwnCode
    BY DEF ToolInit, RunsItsOwnCode, NoResult
  <1> QED
    BY <1>1, <1>2, <1>3, <1>4 DEF ToolInv, WorkInv

LEMMA ToolStep ==
  ASSUME ToolInv, [ToolNext]_toolVars
  PROVE  ToolInv'
  <1>1. CASE UNCHANGED toolVars
    <2>1. /\ disk' = disk /\ doing' = doing /\ order' = order /\ run' = run /\ last' = last
          /\ scripts' = scripts /\ owed' = owed /\ Truthful' = Truthful
      BY <1>1 DEF toolVars, client, Truthful
    <2>2. IsDisk(disk)' = IsDisk(disk)
      BY <2>1 DEF IsDisk
    <2>3. CallInv' = CallInv
      BY <2>1 DEF CallInv, IsScript, Fits
    <2>4. RestInv' = RestInv
      BY <2>1 DEF RestInv, Before, Promised
    <2>5. AwaitedInv' = AwaitedInv
      BY <2>1 DEF AwaitedInv, Came, Before, Promised, Writes, Final, Opened, IsDisk
    <2>6. GivenUpInv' = GivenUpInv
      BY <2>1 DEF GivenUpInv, Writes, Final, Opened, IsDisk
    <2>7. RunInv' = RunInv /\ RunsItsOwnCode' = RunsItsOwnCode
      BY <2>1 DEF RunInv, RunsItsOwnCode, Truthful
    <2> QED
      BY <2>1, <2>2, <2>3, <2>4, <2>5, <2>6, <2>7 DEF ToolInv, WorkInv
  <1>2. CASE ToolNext
    <2>1. SUFFICES ASSUME Truthful' PROVE WorkInv'
      BY DEF ToolInv
    <2>2. /\ Truthful /\ ~met' /\ WorkInv
          /\ \A j \in Jobs : ~LoseStatus(j)
          /\ \A s \in scripts : ~Die(s)
      BY <1>2, <2>1, TruthWas DEF ToolInv
    <2>3. ASSUME NEW j \in Jobs, Reject(j) \/ Refuse(j) PROVE WorkInv'
      BY <2>2, <2>3, RejectKeeps
    <2>4. ASSUME NEW j \in Jobs, BeginCall(j) PROVE WorkInv'
      BY <2>2, <2>4, BeginKeeps
    <2>5. ASSUME NEW j \in Jobs, ClientStep(j) PROVE WorkInv'
      BY <2>2, <2>5, SendKeeps, ReceiveKeeps, TimeOutKeeps, BlockedKeeps DEF ClientStep
    <2>6. ASSUME NEW j \in Jobs, ConnectFails(j) PROVE WorkInv'
      BY <2>2, <2>6, ConnectFailsKeeps
    <2>7. ASSUME NEW j \in Jobs, OuterTimeOut(j) PROVE WorkInv'
      BY <2>2, <2>7, OuterTimeOutKeeps
    <2>8. CASE ScriptStep
      <3>1. UNCHANGED <<client, owed>>
        BY <2>8 DEF ScriptStep
      <3> QED
        BY <2>2, <2>8, <3>1, LookKeeps, OpenKeeps, FillKeeps DEF ScriptStep
    <2>9. CASE ScriptFails
      <3>1. PICK s \in scripts : Hang(s)
        BY <2>2, <2>9 DEF ScriptFails
      <3>2. UNCHANGED <<disk, client, owed>>
        BY <2>9 DEF ScriptFails
      <3> QED
        BY <2>2, <3>1, <3>2, HangKeeps
    <2> QED
      BY <1>2, <2>2, <2>3, <2>4, <2>5, <2>6, <2>7, <2>8, <2>9 DEF ToolNext
  <1> QED
    BY <1>1, <1>2

LEMMA ToolsHold == ToolSpec => []ToolInv
  <1>1. ToolInit => ToolInv
    BY ToolInitially
  <1>2. ToolInv /\ [ToolNext]_toolVars => ToolInv'
    BY ToolStep
  <1> QED
    BY <1>1, <1>2, PTL DEF ToolSpec

(* When no call has met another one or a script it had been given up on,   *)
(* and no script died and no exit status was lost, the workspace is what   *)
(* the answers of the tools say, however many calls there are and wherever *)
(* a connection fails, a command runs out of time or a script hangs.       *)
THEOREM AnswersAreTrue == ToolSpec => []WorkIsKept
  <1>1. ASSUME ToolInv PROVE WorkIsKept
    <2>1. SUFFICES ASSUME Truthful, Unfinished = {}, \A j \in Jobs : doing[j] = "idle"
                   PROVE  disk \in owed
      BY DEF WorkIsKept
    <2>2. WorkInv
      BY <1>1, <2>1 DEF ToolInv
    <2>3. ASSUME NEW s \in scripts PROVE FALSE
      BY <2>1, <2>2 DEF WorkInv, CallInv, IsScript, Unfinished
    <2>4. scripts = {}
      BY <2>3
    <2> QED
      BY <2>1, <2>2, <2>4 DEF WorkInv, RestInv
  <1> QED
    BY <1>1, ToolsHold, PTL

(* Under the same premise, a program that is reported as started or as     *)
(* successful is the code the job was about.                               *)
THEOREM ProgramsAreTheirOwn == ToolSpec => []RunsItsOwnCode
  <1>1. ASSUME ToolInv PROVE RunsItsOwnCode
    <2>1. CASE Truthful
      BY <1>1, <2>1 DEF ToolInv, WorkInv
    <2>2. CASE ~Truthful
      BY <2>2 DEF RunsItsOwnCode
    <2> QED
      BY <2>1, <2>2
  <1> QED
    BY <1>1, ToolsHold, PTL
=============================================================================
