---------------------------- MODULE EvalInvariant ----------------------------
(***************************************************************************)
(* The inductive invariant of Eval: why, when a task gets to the front of    *)
(* its stream, everything it reads has been computed.  Each conjunct is      *)
(* stated for a part of the state; EvalProofs proves that they hold together.*)
(***************************************************************************)
EXTENDS Eval

(* Where the client is: inside a call, and inside a node of its tape.        *)
InNode == pc \in {"inputs", "dispatch", "release", "throttle",
                  "waitOne", "blocked", "relieved", "publish"}
InCall == InNode \/ pc \in {"next", "signal", "wait"}

Dispatched(p) == Positions(p) # {}

(* The computation of p comes before every update that takes fence f to n or *)
(* more; before every signal of event e.                                     *)
FenceAfter(p, f, n) ==
  \E k \in Positions(p) :
    \A l \in 1..k :
      LET t == log[StreamOf[p]][l]
      IN  t.op = "fenceUpdate" /\ t.arg = f => t.n < n

SignalAfter(p, e) ==
  \E k \in Positions(p) :
    \A l \in 1..k :
      LET t == log[StreamOf[p]][l]
      IN  ~(t.op = "signal" /\ t.arg = e)

(* Stream s cannot finish its first i - 1 tasks before p has run.            *)
Holds(t, p) ==
  \/ /\ t.op = "fenceWait"
     /\ t.n > 0
     /\ t.arg[2] = StreamOf[p]
     /\ FenceAfter(p, t.arg, t.n)
  \/ /\ t.op = "eventWait"
     /\ t.arg[2] = StreamOf[p]
     /\ SignalAfter(p, t.arg)

Guarded(p, s, i) ==
  \/ Ran(p)
  \/ StreamOf[p] = s /\ \E k \in Positions(p) : k < i
  \/ \E j \in 1..Len(log[s]) : j < i /\ Holds(log[s][j], p)

-----------------------------------------------------------------------------
(* Tasks sit on the stream they belong to; fences and events are reached     *)
(* only by tasks that have run; a wait that is past was satisfied.           *)
Placed ==
  \A s \in Stream : \A i \in 1..Len(log[s]) :
    LET t == log[s][i]
    IN  /\ t.op = "compute" => t.arg \in Prim /\ StreamOf[t.arg] = s
        /\ t.op \in {"fenceUpdate", "signal"} => t.arg \in Ticket /\ t.arg[2] = s
        /\ t.op \in {"fenceWait", "eventWait"} => t.arg \in Ticket

Updated(f, n) ==
  \E l \in 1..done[f[2]] :
    log[f[2]][l].op = "fenceUpdate" /\ log[f[2]][l].arg = f /\ log[f[2]][l].n >= n

SignalRan(e) ==
  \E l \in 1..done[e[2]] : log[e[2]][l].op = "signal" /\ log[e[2]][l].arg = e

History ==
  /\ \A f \in Ticket : value[f] > 0 => Updated(f, value[f])
  /\ \A e \in signaled : SignalRan(e)
  /\ \A s \in Stream : \A j \in 1..done[s] :
       LET t == log[s][j]
       IN  /\ t.op = "fenceWait" /\ t.n > 0 => Updated(t.arg, t.n)
           /\ t.op = "eventWait" => SignalRan(t.arg)

(* A fence has issued every number its updates carry; the signals in the     *)
(* streams are those of earlier calls until this one gets to its end.        *)
Issued ==
  \A s \in Stream : \A i \in 1..Len(log[s]) :
    LET t == log[s][i]
    IN  /\ t.op = "fenceUpdate" => t.n <= count[t.arg]
        /\ t.op = "signal" =>
             t.arg[1] < call \/ (t.arg[1] = call /\ ~InNode /\ pc # "next")

(* Every computation in a stream is guarded against all that it reads.       *)
Ordered ==
  \A s \in Stream : \A i \in 1..Len(log[s]) :
    log[s][i].op = "compute" =>
      \A b \in Ins[log[s][i].arg] : Guarded(Maker(b), s, i)

-----------------------------------------------------------------------------
(* The plan of a call: closed under what is unscheduled, and nothing more    *)
(* than what the outputs need.                                               *)
Closed ==
  InCall =>
    \A n \in plan \cup {Sync} : \A b \in NodeIns(n) :
      status[b] = "unscheduled" => Maker(b) \in plan

Needed ==
  InCall =>
    \A P \in SUBSET Prim :
      (\A b \in targets \cup UNION {Ins[p] : p \in P} :
         Maker(b) \in plan => Maker(b) \in P)
      => plan \subseteq P

(* A call has a number.                                                      *)
Called == InCall => call > 0

(* How far the walk has come.                                                *)
Progress ==
  /\ InNode => cur \in (plan \ pending) \cup {Sync}
  /\ InNode => \A b \in NodeIns(cur) : status[b] # "unscheduled"
  /\ InNode /\ cur = Sync => pending = {}
  /\ pc \in {"inputs"} => todo \subseteq NodeIns(cur)
  /\ pc = "publish" => todo \subseteq NodeOuts(cur)
  /\ pc \in {"signal", "wait"} => cur = Sync /\ pending = {}
  /\ pc = "ready" => \A b \in todo : status[b] # "unscheduled"
  /\ InCall => \A p \in plan \ pending : \A b \in Outs[p] :
       \/ status[b] # "unscheduled"
       \/ InNode /\ p = cur /\ (pc = "publish" => b \in todo)

(* What is scheduled is what has been dispatched, once published.            *)
Scheduled ==
  /\ \A b \in Array : status[b] # "unscheduled" => Dispatched(Maker(b))
  /\ \A b \in Array : status[b] = "unscheduled" /\ Dispatched(Maker(b)) =>
       InNode /\ Maker(b) = cur /\ pc \notin {"inputs", "dispatch"}
  /\ InCall => \A p \in pending : ~Dispatched(p)
  /\ pc \in {"inputs", "dispatch"} /\ cur # Sync => ~Dispatched(cur)
  /\ InNode /\ cur # Sync /\ pc \notin {"inputs", "dispatch"} => Dispatched(cur)

(* The event of an array comes after its computation; an array without one   *)
(* has been computed, or is this synchronous call's own.                     *)
Events ==
  /\ \A b \in Array : event[b] # None =>
       /\ event[b] \in Ticket
       /\ event[b][2] = StreamOf[Maker(b)]
       /\ Dispatched(Maker(b)) => SignalAfter(Maker(b), event[b])
  /\ \A b \in Array : status[b] = "unscheduled" =>
       event[b] = IF async /\ InNode /\ cur = Maker(b)
                  THEN Of(StreamOf[Maker(b)]) ELSE None
  /\ \A b \in Array : status[b] = "available" => Ran(Maker(b))
  /\ \A b \in Array : status[b] # "unscheduled" /\ event[b] = None =>
       \/ Ran(Maker(b))
       \/ InCall /\ ~async /\ Maker(b) \in plan \ pending

(* The fence of an array that needs one will be updated after it.            *)
Fences ==
  InCall =>
    \A b \in NeedsFence : status[b] # "unscheduled" =>
      LET f == Of(StreamOf[Maker(b)])
      IN  count[f] > 0 /\ FenceAfter(Maker(b), f, count[f])

(* The inputs visited so far guard whatever the node's stream runs next; the *)
(* synchronizer's guard its signal.                                          *)
Visited == IF pc = "inputs" THEN NodeIns(cur) \ todo ELSE NodeIns(cur)

Waited ==
  /\ InNode \/ pc \in {"signal", "wait"} =>
       \A b \in Visited :
         Guarded(Maker(b), NodeStream(cur), Len(log[NodeStream(cur)]) + 1)
  /\ pc \in {"signal", "wait"} =>
       \A i \in 1..Len(log[home]) :
         log[home][i].op = "signal" /\ log[home][i].arg = Of(home) =>
           \A b \in targets : Guarded(Maker(b), home, i)

(* A node's outputs are unscheduled until it publishes them, one by one.      *)
Unpublished ==
  InNode => \A b \in NodeOuts(cur) :
              status[b] = "unscheduled" \/ (pc = "publish" /\ b \notin todo)

IInv ==
  /\ TypeOK /\ Called
  /\ Placed /\ History /\ Issued /\ Ordered /\ Once
  /\ Closed /\ Needed /\ Progress
  /\ Scheduled /\ Events /\ Fences /\ Waited /\ Unpublished

=============================================================================
