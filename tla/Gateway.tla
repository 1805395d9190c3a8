------------------------------ MODULE Gateway ------------------------------
(***************************************************************************)
(* How a workspace gets its port and its subdomain, and how the gateway    *)
(* sends the requests for that subdomain to that port.  Every process of   *)
(* the API allocates and routes; what they know of each other is in Redis. *)
(*                                                                         *)
(* The last steps of create_workspace take a port from the pool and assign *)
(* the subdomain.  They call Redis synchronously: nothing else happens in  *)
(* that process until they are done, but other processes go on between two *)
(* calls.  What fails there is logged and leaves the workspace without.    *)
(* No caller gives a port back, and none asks a second time.               *)
(*                                                                         *)
(* A subdomain names one workspace (the row has a unique index), so the    *)
(* two keys of a domain are one flag.                                      *)
(***************************************************************************)
EXTENDS Naturals, FiniteSets

CONSTANTS
    Procs, Workspaces, Ports,
    Clients,
    Site, Gate,        \* the workspace a client asks for, and through which process
    Concurrency,       \* _PER_WS_CONCURRENCY
    None,
    MaxTrouble         \* bound on failures of Redis and ends of processes

ASSUME GatewayAssumption ==
    /\ Concurrency \in Nat \ {0}
    /\ MaxTrouble \in Nat
    /\ Site \in [Clients -> Workspaces] /\ Gate \in [Clients -> Procs]
    /\ None \notin Procs \cup Ports

VARIABLES
    free, used,        \* ports:free and ports:used
    pending, port,     \* ws:<id>:pending_port and ws:<id>:port
    named,             \* ws_domain:<subdomain> is set
    closed,            \* ws:<id>:health says "unhealthy"; the key expires
    step, by,          \* how far a creation is, and in which process
    hand,              \* the port allocate_port has in a local variable
    at,                \* how far the request of a client is
    up,                \* the program of a workspace answers on its port
    strayed,           \* a program has got a request for another workspace
    overlapped,        \* two processes have found the pool missing at once
    trouble            \* failures and ends so far

redis == <<free, used, pending, port, named>>
creation == <<step, by, hand, overlapped>>
requests == <<at, strayed>>
vars == <<redis, closed, creation, requests, up, trouble>>

-----------------------------------------------------------------------------
Creating == {"check", "fill", "pop", "set", "clear", "name"}

TypeOK ==
    /\ free \subseteq Ports /\ used \subseteq Ports
    /\ pending \in [Workspaces -> Ports \cup {None}]
    /\ port \in [Workspaces -> Ports \cup {None}]
    /\ named \in [Workspaces -> BOOLEAN]
    /\ closed \in [Workspaces -> BOOLEAN]
    /\ step \in [Workspaces -> {"saga", "over"} \cup Creating]
    /\ by \in [Workspaces -> Procs \cup {None}]
    /\ hand \in [Workspaces -> Ports \cup {None}]
    /\ at \in [Clients -> {"away", "waiting", "sending"}]
    /\ up \in [Workspaces -> BOOLEAN]
    /\ strayed \in BOOLEAN /\ overlapped \in BOOLEAN
    /\ trouble \in 0..MaxTrouble

(* An empty Redis, and workspaces whose saga has still to commit. *)
Init ==
    /\ free = {} /\ used = {}
    /\ pending = [w \in Workspaces |-> None]
    /\ port = [w \in Workspaces |-> None]
    /\ named = [w \in Workspaces |-> FALSE]
    /\ closed = [w \in Workspaces |-> FALSE]
    /\ step = [w \in Workspaces |-> "saga"]
    /\ by = [w \in Workspaces |-> None]
    /\ hand = [w \in Workspaces |-> None]
    /\ at = [c \in Clients |-> "away"]
    /\ up = [w \in Workspaces |-> FALSE]
    /\ strayed = FALSE /\ overlapped = FALSE
    /\ trouble = 0

-----------------------------------------------------------------------------
(* The pool and the port of a new workspace.                               *)

Trouble == trouble < MaxTrouble /\ trouble' = trouble + 1

Idle(p) == \A w \in Workspaces : by[w] # p

(* A creation goes on; one that is over has no process. *)
Go(w, next) ==
    /\ step' = [step EXCEPT ![w] = next]
    /\ by' = IF next = "over" THEN [by EXCEPT ![w] = None] ELSE by

(* The saga has committed; the event loop of p gets to what is left. *)
Begin(w, p) ==
    /\ step[w] = "saga" /\ Idle(p)
    /\ step' = [step EXCEPT ![w] = "check"]
    /\ by' = [by EXCEPT ![w] = p]
    /\ UNCHANGED <<redis, closed, hand, overlapped, requests, up, trouble>>

(* Mutant: a pool that is used up looks like one that was never filled. *)
PoolExistsWhileFree == free # {}

(* Redis has no empty sets: a key exists while the set has a member. *)
PoolExists == free # {} \/ used # {}

(* _initialize_pool_if_needed: the look ... *)
CheckPool(w) ==
    /\ step[w] = "check"
    /\ Go(w, IF PoolExists THEN "pop" ELSE "fill")
    /\ overlapped' = (overlapped \/ (~PoolExists /\ \E v \in Workspaces : step[v] = "fill"))
    /\ UNCHANGED <<redis, closed, hand, requests, up, trouble>>

(* ... and the filling. *)
FillPool(w) ==
    /\ step[w] = "fill"
    /\ free' = Ports
    /\ Go(w, "pop")
    /\ UNCHANGED <<used, pending, port, named, closed, hand, overlapped, requests, up, trouble>>

(* Mutant: the port is not moved to the used set. *)
PopUnmarked(w, q) ==
    /\ q \in free
    /\ free' = free \ {q} /\ UNCHANGED used
    /\ pending' = [pending EXCEPT ![w] = q]

(* What _ALLOC_SCRIPT does when the workspace has no port: a port leaves   *)
(* the free set and is kept for ten minutes under the workspace.           *)
Pop(w, q) ==
    /\ q \in free
    /\ free' = free \ {q} /\ used' = used \cup {q}
    /\ pending' = [pending EXCEPT ![w] = q]

(* Without a free port the caller gets an error, which is logged. *)
AllocatePort(w) ==
    /\ step[w] = "pop"
    /\ \/ \E q \in Ports : Pop(w, q) /\ hand' = [hand EXCEPT ![w] = q] /\ Go(w, "set")
       \/ free = {} /\ Go(w, "name") /\ UNCHANGED <<free, used, pending, hand>>
    /\ UNCHANGED <<port, named, closed, overlapped, requests, up, trouble>>

SetPort(w) ==
    /\ step[w] = "set"
    /\ port' = [port EXCEPT ![w] = hand[w]]
    /\ Go(w, "clear")
    /\ UNCHANGED <<free, used, pending, named, closed, hand, overlapped, requests, up, trouble>>

ClearPending(w) ==
    /\ step[w] = "clear"
    /\ pending' = [pending EXCEPT ![w] = None]
    /\ hand' = [hand EXCEPT ![w] = None]
    /\ Go(w, "name")
    /\ UNCHANGED <<free, used, port, named, closed, overlapped, requests, up, trouble>>

AssignDomain(w) ==
    /\ step[w] = "name"
    /\ named' = [named EXCEPT ![w] = TRUE]
    /\ Go(w, "over")
    /\ UNCHANGED <<free, used, pending, port, closed, hand, overlapped, requests, up, trouble>>

(* The call to Redis fails before or after Redis has done it.  A port that *)
(* was not allocated does not keep the workspace from its domain.          *)
RedisFails(w) ==
    /\ step[w] \in Creating
    /\ Trouble
    /\ Go(w, IF step[w] = "name" THEN "over" ELSE "name")
    /\ hand' = [hand EXCEPT ![w] = None]
    /\ \/ UNCHANGED redis
       \/ /\ step[w] = "fill" /\ free' = Ports
          /\ UNCHANGED <<used, pending, port, named>>
       \/ /\ step[w] = "pop" /\ \E q \in Ports : Pop(w, q)
          /\ UNCHANGED <<port, named>>
       \/ /\ step[w] = "set" /\ port' = [port EXCEPT ![w] = hand[w]]
          /\ UNCHANGED <<free, used, pending, named>>
       \/ /\ step[w] = "clear" /\ pending' = [pending EXCEPT ![w] = None]
          /\ UNCHANGED <<free, used, port, named>>
       \/ /\ step[w] = "name" /\ named' = [named EXCEPT ![w] = TRUE]
          /\ UNCHANGED <<free, used, pending, port>>
    /\ UNCHANGED <<closed, overlapped, requests, up>>

(* Ten minutes. *)
PendingExpires(w) ==
    /\ pending[w] # None
    /\ pending' = [pending EXCEPT ![w] = None]
    /\ UNCHANGED <<free, used, port, named, closed, creation, requests, up, trouble>>

-----------------------------------------------------------------------------
(* The programs of the workspaces.                                         *)

(* A job starts one in a workspace that is there; a port belongs to the    *)
(* program that binds it first.                                            *)
AppStarts(w) ==
    /\ step[w] = "over"
    /\ ~up[w] /\ port[w] # None
    /\ \A v \in Workspaces : up[v] => port[v] # port[w]
    /\ up' = [up EXCEPT ![w] = TRUE]
    /\ UNCHANGED <<redis, closed, creation, requests, trouble>>

(* It ends, or hangs. *)
AppStops(w) ==
    /\ up[w]
    /\ up' = [up EXCEPT ![w] = FALSE]
    /\ UNCHANGED <<redis, closed, creation, requests, trouble>>

-----------------------------------------------------------------------------
(* proxy_request.                                                          *)

InFlight(p, w) == {c \in Clients : Gate[c] = p /\ Site[c] = w /\ at[c] = "sending"}

Listener(q) == {w \in Workspaces : up[w] /\ port[w] = q}

Move(c, next) == at' = [at EXCEPT ![c] = next]

Mark(w, healthy) == closed' = [closed EXCEPT ![w] = ~healthy]

(* The subdomain, the health and the port are looked up in one go; what is *)
(* missing is an error.  A workspace keeps its port, so the port need not  *)
(* be remembered.                                                          *)
Route(c) ==
    /\ at[c] = "away" /\ Idle(Gate[c])
    /\ named[Site[c]] /\ ~closed[Site[c]] /\ port[Site[c]] # None
    /\ Move(c, "waiting")
    /\ UNCHANGED <<redis, closed, creation, strayed, up, trouble>>

(* The limiter lets the request through and its body is here.  The         *)
(* semaphore is looked at and taken without an await between, so nobody    *)
(* waits for it: a request too many is refused.                            *)
Enter(c) ==
    /\ at[c] = "waiting" /\ Idle(Gate[c])
    /\ Move(c, IF Cardinality(InFlight(Gate[c], Site[c])) < Concurrency THEN "sending" ELSE "away")
    /\ UNCHANGED <<redis, closed, creation, strayed, up, trouble>>

(* Any client may have sent too much lately. *)
TurnAway(c) ==
    /\ at[c] = "waiting" /\ Idle(Gate[c])
    /\ Move(c, "away")
    /\ UNCHANGED <<redis, closed, creation, strayed, up, trouble>>

(* Somebody listens on the port, but not the workspace. *)
Strays(c) == LET there == Listener(port[Site[c]]) IN there # {} /\ Site[c] \notin there

(* Whoever listens on the port answers; any status counts as healthy. *)
Answer(c) ==
    /\ at[c] = "sending" /\ Idle(Gate[c])
    /\ Listener(port[Site[c]]) # {}
    /\ strayed' = (strayed \/ Strays(c))
    /\ Mark(Site[c], TRUE)
    /\ Move(c, "away")
    /\ UNCHANGED <<redis, creation, up, trouble>>

(* The connection is refused, or there is no answer in time. *)
Miss(c) ==
    /\ at[c] = "sending" /\ Idle(Gate[c])
    /\ Listener(port[Site[c]]) = {}
    /\ Mark(Site[c], FALSE)
    /\ Move(c, "away")
    /\ UNCHANGED <<redis, creation, strayed, up, trouble>>

(* Redis fails when the request is counted or marked: nothing is marked.   *)
RequestFails(c) ==
    /\ at[c] # "away" /\ Idle(Gate[c])
    /\ Trouble
    /\ strayed' = (strayed \/ (at[c] = "sending" /\ Strays(c)))
    /\ Move(c, "away")
    /\ UNCHANGED <<redis, closed, creation, up>>

(* Mutant: the mark has no expiry. *)
MarkStays(w) == FALSE /\ UNCHANGED vars

(* Five minutes after the last mark. *)
MarkExpires(w) ==
    /\ closed[w] /\ Mark(w, TRUE)
    /\ UNCHANGED <<redis, creation, requests, up, trouble>>

(* A process ends, and what it was doing with it. *)
Crash(p) ==
    /\ Trouble
    /\ step' = [w \in Workspaces |-> IF by[w] = p THEN "over" ELSE step[w]]
    /\ by' = [w \in Workspaces |-> IF by[w] = p THEN None ELSE by[w]]
    /\ hand' = [w \in Workspaces |-> IF by[w] = p THEN None ELSE hand[w]]
    /\ at' = [c \in Clients |-> IF Gate[c] = p THEN "away" ELSE at[c]]
    /\ UNCHANGED <<redis, closed, overlapped, strayed, up>>

-----------------------------------------------------------------------------
Create(w) ==
    \/ CheckPool(w) \/ FillPool(w) \/ AllocatePort(w) \/ SetPort(w)
    \/ ClearPending(w) \/ AssignDomain(w)

Serve(c) == Route(c) \/ Enter(c) \/ Answer(c) \/ Miss(c)

Next ==
    \/ \E w \in Workspaces : \E p \in Procs : Begin(w, p)
    \/ \E w \in Workspaces :
          Create(w) \/ RedisFails(w) \/ PendingExpires(w) \/ MarkExpires(w)
              \/ AppStarts(w) \/ AppStops(w)
    \/ \E c \in Clients : Serve(c) \/ TurnAway(c) \/ RequestFails(c)
    \/ \E p \in Procs : Crash(p)

Spec == Init /\ [][Next]_vars

(* Requests are served, marks expire, and the clients keep asking. *)
FairSpec ==
    /\ Spec
    /\ \A w \in Workspaces : WF_vars(Create(w)) /\ WF_vars(MarkExpires(w))
    /\ \A c \in Clients : WF_vars(Serve(c))

-----------------------------------------------------------------------------
(* What the gateway promises.                                              *)

(* A request reaches the program of the workspace it is for and no other,  *)
(* whatever failed and whoever came and went, unless two processes filled  *)
(* the pool at the same time.                                              *)
NoStrangerAnswers == ~overlapped => ~strayed

Held == {port[w] : w \in Workspaces} \cup {pending[w] : w \in Workspaces}
            \cup {hand[w] : w \in Workspaces}

(* A port is free or used and not both; a used port that no workspace has  *)
(* was lost in an allocation that failed or was cut off, one for each.     *)
PoolIsSound ==
    ~overlapped =>
        /\ free \cap used = {}
        /\ PoolExists => free \cup used = Ports
        /\ Cardinality(used \ Held) <= trouble

(* A workspace whose program has come up for good is answered again and    *)
(* again, although one failure closes it for every client and nothing but  *)
(* the expiry of the mark opens it, unless the limiter turns clients away  *)
(* for ever.                                                               *)
AnsweredAgain ==
    \A c \in Clients :
        /\ <>[](up[Site[c]] /\ named[Site[c]])
        /\ <>[][\A d \in Clients : ~TurnAway(d)]_vars
        => []<><<\E d \in Clients : Site[d] = Site[c] /\ Answer(d)>>_vars
=============================================================================
