---------------------------- MODULE EventStream ----------------------------
(***************************************************************************)
(* The events of one job on their way to those who watch it.  A publisher  *)
(* (_publish of the pipeline, which goes through its events one by one, or *)
(* a task of its own for one event of ExecutionEventService.emit) numbers  *)
(* an event, pushes it to the history in Redis, trims the history and      *)
(* announces the event on a channel.  A websocket reads the history, sends *)
(* it, subscribes to the channel and sends what it receives until an event *)
(* says "completed".  Each of these is a query of its own.                 *)
(*                                                                         *)
(* There is always a Redis client, the module that makes it raises without *)
(* a URL: the queues of AgentService.subscribe are never used.  What ends  *)
(* up in the table job_events, pings and the expiry of the keys after      *)
(* hours are left out.                                                     *)
(***************************************************************************)
EXTENDS Naturals, Sequences, FiniteSets, Functions

CONSTANTS
    Pubs, Viewers,
    Plan,       \* the kinds of the events of each publisher
    Here,       \* publishers that keep a copy in the process of the websockets
    MaxItems,   \* the history holds so many events
    MaxFaults   \* bound on queries that fail

ASSUME StreamAssumption ==
    /\ Here \subseteq Pubs /\ Plan \in [Pubs -> Seq(STRING)]
    /\ MaxItems \in Nat \ {0} /\ MaxFaults \in Nat

VARIABLES
    counter,    \* the last number given by Redis
    history,    \* the list in Redis
    copy,       \* the copy in the process, and the last number given by _publish
                \* and by emit while Redis failed
    at, event, left,  \* of a publisher: its query, its event, what is to come
    socket, inbox, got,  \* of a websocket: where it is, what waits, what it sent
    faults,
    pushed,     \* all events that were ever pushed, in order
    told,       \* all events that were ever announced
    start, gap  \* of a websocket: Len(pushed) when it read the history, and
                \* what was announced after that and before it subscribed

redis == <<counter, history>>
publisher == <<at, event, left>>
viewer == <<socket, inbox, got, start>>
ghosts == <<pushed, told, gap>>
streamVars == <<redis, copy, publisher, viewer, faults, ghosts>>

NoEvent == [by |-> "nobody", n |-> 0, kind |-> "none"]

StreamInit ==
    /\ counter = 0 /\ history = <<>>
    /\ copy = [items |-> <<>>, last |-> [kept \in BOOLEAN |-> 0]]
    /\ at = [p \in Pubs |-> "ready"]
    /\ event = [p \in Pubs |-> NoEvent]
    /\ left = Plan
    /\ socket = [v \in Viewers |-> "new"]
    /\ inbox = [v \in Viewers |-> <<>>]
    /\ got = [v \in Viewers |-> <<>>]
    /\ start = [v \in Viewers |-> 0]
    /\ faults = 0
    /\ pushed = <<>> /\ told = {} /\ gap = [v \in Viewers |-> {}]

-----------------------------------------------------------------------------
(* Publishing.                                                             *)

Fault == faults < MaxFaults /\ faults' = faults + 1

Newest(items, n) == SubSeq(items, IF Len(items) > n THEN Len(items) - n + 1 ELSE 1, Len(items))

Go(p, query) == at' = [at EXCEPT ![p] = query]

(* INCR; when it fails, the number is one of the process. *)
Number(p) ==
    LET next(n) == [by |-> p, n |-> n, kind |-> Head(left[p])]
    IN /\ at[p] = "ready" /\ left[p] # <<>>
       /\ \/ /\ counter' = counter + 1
             /\ event' = [event EXCEPT ![p] = next(counter + 1)]
             /\ UNCHANGED <<copy, faults>>
          \/ /\ Fault
             /\ copy' = [copy EXCEPT !.last[(p \in Here)] = @ + 1]
             /\ event' = [event EXCEPT ![p] = next(copy.last[(p \in Here)] + 1)]
             /\ UNCHANGED counter
       /\ left' = [left EXCEPT ![p] = Tail(@)]
       /\ Go(p, "pushing")
       /\ UNCHANGED <<history, viewer, ghosts>>

(* A query that fails is the last one for this event. *)
Push(p) ==
    /\ at[p] = "pushing"
    /\ \/ /\ history' = Append(history, event[p])
          /\ pushed' = Append(pushed, event[p])
          /\ Go(p, "trimming")
          /\ UNCHANGED faults
       \/ Fault /\ Go(p, "noting") /\ UNCHANGED <<history, pushed>>
    /\ UNCHANGED <<counter, copy, event, left, viewer, told, gap>>

(* Mutant: LTRIM 0 MaxItems-1. *)
TrimNewest(p) ==
    /\ at[p] = "trimming"
    /\ history' = SubSeq(history, 1, IF Len(history) > MaxItems THEN MaxItems ELSE Len(history))
    /\ Go(p, "announcing")
    /\ UNCHANGED <<counter, copy, event, left, viewer, faults, ghosts>>

Trim(p) ==
    /\ at[p] = "trimming"
    /\ \/ /\ history' = Newest(history, MaxItems)
          /\ Go(p, "announcing")
          /\ UNCHANGED faults
       \/ Fault /\ Go(p, "noting") /\ UNCHANGED history
    /\ UNCHANGED <<counter, copy, event, left, viewer, ghosts>>

(* Mutant: a websocket that has something to send misses the next event. *)
ListeningWhenIdle == {v \in Viewers : socket[v] = "live" /\ inbox[v] = <<>>}
(* Mutant: subscribed first, then the history is read. *)
ListeningAtOnce == {v \in Viewers : socket[v] # "closed"}
Listening == {v \in Viewers : socket[v] = "live"}

Announce(p) ==
    /\ at[p] = "announcing"
    /\ \/ /\ inbox' = [v \in Viewers |-> IF v \in Listening THEN Append(inbox[v], event[p]) ELSE inbox[v]]
          /\ told' = told \cup {event[p]}
          /\ gap' = [v \in Viewers |-> IF socket[v] = "between" THEN gap[v] \cup {event[p]} ELSE gap[v]]
          /\ UNCHANGED faults
       \/ Fault /\ UNCHANGED <<inbox, told, gap>>
    /\ Go(p, "noting")
    /\ UNCHANGED <<redis, copy, event, left, socket, got, start, pushed>>

(* The copy in the process. *)
Note(p) ==
    /\ at[p] = "noting"
    /\ copy' = IF p \in Here THEN [copy EXCEPT !.items = Newest(Append(@, event[p]), MaxItems)] ELSE copy
    /\ event' = [event EXCEPT ![p] = NoEvent]
    /\ Go(p, "ready")
    /\ UNCHANGED <<redis, left, viewer, faults, ghosts>>

-----------------------------------------------------------------------------
(* Watching.                                                               *)

Completed(e) == e.kind = "completed"
Ends(items) == \E i \in DOMAIN items : Completed(items[i])

(* All of a list up to the first event that says "completed": the events   *)
(* that come after none.                                                   *)
UntilEnd(items) ==
    SubSeq(items, 1, Cardinality({i \in DOMAIN items :
        \A k \in 1..(i - 1) : ~Completed(items[k])}))

(* _send_history; when LRANGE fails, the copy of the process. *)
ReadHistory(v) ==
    /\ socket[v] = "new"
    /\ \E items \in {history, copy.items} :
        /\ IF items = history THEN UNCHANGED faults ELSE Fault
        /\ got' = [got EXCEPT ![v] = UntilEnd(items)]
        /\ socket' = [socket EXCEPT ![v] = IF Ends(items) THEN "closed" ELSE "between"]
    /\ start' = [start EXCEPT ![v] = Len(pushed)]
    /\ UNCHANGED <<redis, copy, publisher, inbox, ghosts>>

Subscribe(v) ==
    /\ socket[v] = "between"
    /\ socket' = [socket EXCEPT ![v] = "live"]
    /\ UNCHANGED <<redis, copy, publisher, inbox, got, start, faults, ghosts>>

(* A turn of the loop in _stream_live_events. *)
Receive(v) ==
    /\ socket[v] = "live" /\ inbox[v] # <<>>
    /\ got' = [got EXCEPT ![v] = Append(@, Head(inbox[v]))]
    /\ inbox' = [inbox EXCEPT ![v] = Tail(@)]
    /\ socket' = [socket EXCEPT ![v] = IF Completed(Head(inbox[v])) THEN "closed" ELSE "live"]
    /\ UNCHANGED <<redis, copy, publisher, start, faults, ghosts>>

(* The client goes away, or the connection with Redis is lost. *)
Drop(v) ==
    /\ socket[v] \in {"between", "live"}
    /\ socket' = [socket EXCEPT ![v] = "closed"]
    /\ UNCHANGED <<redis, copy, publisher, inbox, got, start, faults, ghosts>>

-----------------------------------------------------------------------------
Publish(p) == Number(p) \/ Push(p) \/ Trim(p) \/ Announce(p) \/ Note(p)
Watch(v) == ReadHistory(v) \/ Subscribe(v) \/ Receive(v)

StreamNext ==
    \/ \E p \in Pubs : Publish(p)
    \/ \E v \in Viewers : Watch(v) \/ Drop(v)

StreamSpec == StreamInit /\ [][StreamNext]_streamVars

(* The event loops give every task its turn. *)
FairStreamSpec == StreamSpec /\ (\A p \in Pubs : WF_streamVars(Publish(p))) /\ (\A v \in Viewers : WF_streamVars(Watch(v)))

-----------------------------------------------------------------------------
(* Safety.                                                                 *)

(* What a websocket has sent of a publisher. *)
Sent(v, p) == {i \in DOMAIN got[v] : got[v][i].by = p}

(* What a websocket sends of one publisher comes in the order of its       *)
(* numbers, and at most one event comes twice: the one that was in the     *)
(* history and not yet announced when the websocket subscribed.  (Events   *)
(* of different publishers come in any order.)                             *)
OrderKept ==
    faults = 0 => \A v \in Viewers, p \in Pubs :
        /\ \A i, k \in Sent(v, p) : i < k => got[v][i].n <= got[v][k].n
        /\ Cardinality({k \in Sent(v, p) :
               \E i \in Sent(v, p) : i < k /\ got[v][i].n = got[v][k].n}) <= 1

(* A websocket that watches misses nothing but what had left the history   *)
(* before it came and what was announced between its reading the history   *)
(* and its subscription.                                                   *)
OnlyTheGapIsMissed ==
    faults = 0 => \A v \in Viewers : socket[v] = "live" =>
        \A i \in 1..Len(pushed) :
            pushed[i] \in told /\ i + MaxItems > start[v] =>
                pushed[i] \in Range(got[v]) \cup Range(inbox[v]) \cup gap[v]

-----------------------------------------------------------------------------
(* Liveness.                                                               *)

(* A websocket that watches before the job is completed is closed in the   *)
(* end.  (One that reads the history before that and subscribes after it   *)
(* waits for ever, and so does one that watches a job that fails.)         *)
StreamsEnd ==
    \A v \in Viewers :
        socket[v] = "live" /\ (\A e \in told : ~Completed(e)) ~> socket[v] = "closed" \/ faults > 0
=============================================================================
