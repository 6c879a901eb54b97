--------------------------------- MODULE Ring ---------------------------------
(***************************************************************************)
(* The ring back end at work (mlx/distributed/ring/ring.cpp).  On each rank  *)
(* the stream thread runs one call after another; the parts of a call run on *)
(* the threads of a pool, each keeping a send and a receive in flight.  A    *)
(* thread per socket moves the data of the tasks queued on it, as much at a  *)
(* time as the socket takes: what is sent is read when it goes out.          *)
(*                                                                         *)
(* Sockets neither fail nor close, and the group is not destroyed.           *)
(***************************************************************************)
EXTENDS RingPlan, Bags, Functions

CONSTANTS
  Calls,    \* the calls every rank makes, as in Collective
  Capacity  \* how many elements the two buffers of a connection hold

Rank == 0..(Size - 1)
Socket == Rank \X {"left", "right"} \X (0..(Links - 1))

ASSUME RingAssumption ==
  /\ Capacity \in Nat \ {0}
  /\ Calls \in Seq([kind : {"all_reduce", "all_gather", "send"},
                    n : Nat \ {0}, src : Rank, dst : Rank])
  /\ \A c \in DOMAIN Calls : Calls[c].kind = "send" =>
       Calls[c].dst \in {Left(Calls[c].src), Right(Calls[c].src)}

VARIABLES
  call,      \* how many calls the rank has begun
  data,      \* the output of the rank's call, or the buffer that becomes it
  received,  \* per part and parity the packets that are not reduced yet
  plan,      \* the parts of the rank's call (see RingPlan)
  part,      \* per part of the call: [i, phase], its progress along the plan
  sends,     \* per socket the queue sends_
  recvs,     \* per socket the queue recvs_
  wire       \* per socket what has been sent to it and not been received

threads == <<call, data, received, plan, part>>
vars == <<threads, sends, recvs, wire>>

Peer(s) ==
  IF s[2] = "right" THEN <<Right(s[1]), "left", s[3]>>
                    ELSE <<Left(s[1]), "right", s[3]>>

Takes(c, r) == Calls[c].kind # "send" \/ r \in {Calls[c].src, Calls[c].dst}

Parts(c, r) ==
  LET it == Calls[c] IN
  CASE ~Takes(c, r) -> <<>>
    [] it.kind = "all_reduce" -> ReduceParts(r, it.n)
    [] it.kind = "all_gather" -> GatherParts(r, it.n)
    [] it.kind = "send" /\ r = it.src -> SendParts(r, it.dst, it.n)
    [] OTHER -> RecvParts(r, it.src, it.n)

(* The side a part sends on; it receives on the other one.                   *)
SendSocket(r, p) == <<r, plan[r][p].side, plan[r][p].link>>
RecvSocketSame(r, p) == <<r, plan[r][p].side, plan[r][p].link>>  \* wrong, for a mutant
RecvSocket(r, p) == <<r, Other(plan[r][p].side), plan[r][p].link>>

Returned(r) == \A p \in DOMAIN part[r] : part[r][p].phase = "done"

-------------------------------------------------------------------------------

Input(c, r) == [e \in 1..Calls[c].n |-> SetToBag({<<c, r, e>>})]
Blank(n) == [e \in 1..n |-> EmptyBag]

(* The buffer a call works on, as the dispatched task fills it: a copy of    *)
(* the input, padded with zeros to one element a rank; with all gather the   *)
(* rank's own segment; nothing yet with a receive.                           *)
Prepared(c, r) ==
  LET n == Calls[c].n IN
  CASE Calls[c].kind = "all_reduce" -> Input(c, r) \o Blank(Larger(0, Size - n))
    [] Calls[c].kind = "all_gather" -> Blank(r * n) \o Input(c, r) \o Blank((Size - 1 - r) * n)
    [] Calls[c].kind = "send" /\ r = Calls[c].src -> Input(c, r)
    [] OTHER -> Blank(n)

Init ==
  /\ call = [r \in Rank |-> 0]
  /\ data = [r \in Rank |-> <<>>]
  /\ received = [r \in Rank |-> [b \in (1..(2 * Links)) \X {0, 1} |-> Blank(MaxBuffer)]]
  /\ plan = [r \in Rank |-> <<>>]
  /\ part = [r \in Rank |-> <<>>]
  /\ sends = [s \in Socket |-> <<>>]
  /\ recvs = [s \in Socket |-> <<>>]
  /\ wire = [s \in Socket |-> <<>>]

(* The stream thread begins the next call once the last one has returned.    *)
Begin(r) ==
  /\ call[r] < Len(Calls) /\ Returned(r)
  /\ call' = [call EXCEPT ![r] = @ + 1]
  /\ data' = [data EXCEPT ![r] =
       IF Takes(call'[r], r) THEN Prepared(call'[r], r) ELSE <<>>]
  /\ plan' = [plan EXCEPT ![r] = Parts(call'[r], r)]
  /\ part' = [part EXCEPT ![r] =
       [p \in DOMAIN plan'[r] |-> [i |-> 1, phase |-> "post"]]]
  /\ UNCHANGED <<received, sends, recvs, wire>>

-------------------------------------------------------------------------------
(* A task of a socket thread: the range that is left of it, counted from 0,  *)
(* where it lies, and the part and step that hold its future.  Nothing is    *)
(* queued for an empty range: its future is ready at once.                   *)
InPlace == 2  \* a place other than the receive buffers

(* The receive buffer of packet i, one of ALL_SUM_BUFFERS; and a wrong       *)
(* variant, for the mutants of PROJECT.json.                                 *)
PlaceSame(i) == 0
Place(i) == i % 2

Queued(queue, p, i, place, range) ==
  IF range[1] = range[2] THEN queue
  ELSE Append(queue, [part |-> p, step |-> i, place |-> place,
                      lo |-> range[1], hi |-> range[2]])

Ready(queue, p, i) ==
  \A k \in DOMAIN queue : <<queue[k].part, queue[k].step>> # <<p, i>>

(* A packet of the first round arrives in one of two buffers, later ones     *)
(* where they belong.                                                        *)
Post(r, p) ==
  LET mine == plan[r][p]
      i == part[r][p].i
      range == mine.recvs[i]
  IN  /\ part[r][p].phase = "post"
      /\ sends' = [sends EXCEPT ![SendSocket(r, p)] =
           Queued(@, p, i, InPlace, mine.sends[i])]
      /\ recvs' = [recvs EXCEPT ![RecvSocket(r, p)] =
           IF i <= mine.reduced
           THEN Queued(@, p, i, Place(i), <<0, range[2] - range[1]>>)
           ELSE Queued(@, p, i, InPlace, range)]
      /\ part' = [part EXCEPT ![r][p] =
           IF i > mine.lag THEN [i |-> i, phase |-> "await"]
           ELSE [i |-> i + 1, phase |-> "post"]]
      /\ UNCHANGED <<call, data, received, plan, wire>>

(* A wrong variant: takes the packet from the buffer that is filled next.    *)
ReducedNext(r, p, j) ==
  LET range == plan[r][p].recvs[j]
      packet == received[r][<<p, Place(j + 1)>>]
  IN  [e \in DOMAIN data[r] |->
         IF e \in (range[1] + 1)..range[2]
         THEN data[r][e] (+) packet[e - range[1]]
         ELSE data[r][e]]

(* reduce_op on packet j and the range of the data it belongs to.            *)
Reduced(r, p, j) ==
  LET range == plan[r][p].recvs[j]
      packet == received[r][<<p, Place(j)>>]
  IN  [e \in DOMAIN data[r] |->
         IF e \in (range[1] + 1)..range[2]
         THEN data[r][e] (+) packet[e - range[1]]
         ELSE data[r][e]]

(* The packet before the last one posted (the last one itself when segments  *)
(* are a packet long) is there and has been sent: it is reduced.             *)
Await(r, p) ==
  LET mine == plan[r][p]
      i == part[r][p].i
      j == i - mine.lag
  IN  /\ part[r][p].phase = "await"
      /\ Ready(sends[SendSocket(r, p)], p, j)
      /\ Ready(recvs[RecvSocket(r, p)], p, j)
      /\ data' = [data EXCEPT ![r] = IF j <= mine.reduced THEN Reduced(r, p, j) ELSE @]
      /\ part' = [part EXCEPT ![r][p] =
           IF i = Len(mine.sends) THEN [i |-> i, phase |-> "last"]
           ELSE [i |-> i + 1, phase |-> "post"]]
      /\ UNCHANGED <<call, received, plan, sends, recvs, wire>>

(* The last packet of all is in the second round: nothing is left to reduce. *)
Last(r, p) ==
  LET i == part[r][p].i IN
  /\ part[r][p].phase = "last"
  /\ Ready(sends[SendSocket(r, p)], p, i)
  /\ Ready(recvs[RecvSocket(r, p)], p, i)
  /\ part' = [part EXCEPT ![r][p].phase = "done"]
  /\ UNCHANGED <<call, data, received, plan, sends, recvs, wire>>

-------------------------------------------------------------------------------
(* The thread of socket s.  A task with nothing left leaves the queue, and   *)
(* its future is ready; the code does so when it holds the lock again.       *)
Rest(queue, n) ==
  IF Head(queue).lo + n = Head(queue).hi THEN Tail(queue)
  ELSE [queue EXCEPT ![1].lo = @ + n]

Send(s) ==
  /\ sends[s] # <<>>
  /\ LET task == Head(sends[s]) IN
     \E n \in 1..(task.hi - task.lo) :
       /\ Len(wire[Peer(s)]) + n <= Capacity
       /\ wire' = [wire EXCEPT ![Peer(s)] =
            @ \o SubSeq(data[s[1]], task.lo + 1, task.lo + n)]
       /\ sends' = [sends EXCEPT ![s] = Rest(@, n)]
  /\ UNCHANGED <<threads, recvs>>

Recv(s) ==
  /\ recvs[s] # <<>>
  /\ LET task == Head(recvs[s])
         Filled(buffer, n) == [e \in DOMAIN buffer |->
           IF e \in (task.lo + 1)..(task.lo + n) THEN wire[s][e - task.lo] ELSE buffer[e]]
     IN  \E n \in 1..Smaller(task.hi - task.lo, Len(wire[s])) :
           /\ wire' = [wire EXCEPT ![s] = SubSeq(@, n + 1, Len(@))]
           /\ recvs' = [recvs EXCEPT ![s] = Rest(@, n)]
           /\ IF task.place = InPlace
              THEN /\ data' = [data EXCEPT ![s[1]] = Filled(@, n)]
                   /\ UNCHANGED received
              ELSE /\ received' = [received EXCEPT
                        ![s[1]][<<task.part, task.place>>] = Filled(@, n)]
                   /\ UNCHANGED data
  /\ UNCHANGED <<call, plan, part, sends>>

Next ==
  \/ \E r \in Rank :
       \/ Begin(r)
       \/ \E p \in DOMAIN part[r] : Post(r, p) \/ Await(r, p) \/ Last(r, p)
  \/ \E s \in Socket : Send(s) \/ Recv(s)

(* Threads run and sockets deliver: while a step can be taken, one is.       *)
Spec == Init /\ [][Next]_vars /\ WF_vars(Next)

-------------------------------------------------------------------------------
(* Properties.                                                               *)

(* The ring keeps the promise of a group: what a call leaves in its output   *)
(* when its last part returns is what the call is defined to return, every   *)
(* contribution counted once and in its place, and no rank returns from an   *)
(* all reduce or all gather that another has not entered (all_reduce_impl,   *)
(* all_gather_impl, send, recv).                                             *)
Group == INSTANCE Collective WITH
  entered <- call,
  result <- [r \in Rank |->
    IF part[r] = <<>> \/ ~Returned(r) THEN <<>>
    ELSE SubSeq(data[r], 1,
      Calls[call[r]].n * (IF Calls[call[r]].kind = "all_gather" THEN Size ELSE 1))]
CollectiveSpec == Group!Spec

(* What a queued send has still to read does not change under it: not by a   *)
(* reduction, not by data that arrives in place, not by the next call        *)
(* (SocketThread::worker reads the caller's buffer when the socket accepts   *)
(* it, while all_reduce_impl goes on).                                       *)
SendsStable ==
  [][\A s \in Socket : \A k \in DOMAIN sends[s] :
       \A e \in (sends[s][k].lo + 1)..sends[s][k].hi :
         data'[s[1]][e] = data[s[1]][e]]_vars

(* A packet does not overwrite one that waits to be reduced, and is not      *)
(* reduced before it is complete: the buffer of a pending receive of the     *)
(* first round is not the buffer of a packet that has arrived and is still   *)
(* to be reduced (recv_buffers of all_reduce_impl, of which there are two).  *)
TwoBuffersSuffice ==
  \A s \in Socket : \A k \in DOMAIN recvs[s] :
    LET task == recvs[s][k]
        r == s[1]
        mine == plan[r][task.part]
        now == part[r][task.part]
    IN  task.place # InPlace =>
          \A j \in Larger(1, now.i - mine.lag)..(task.step - 1) :
            j <= mine.reduced => Place(j) # task.place

(* Every call returns on every rank: the ranks cannot end up waiting for one *)
(* another, whichever way the parts of a call walk around the ring and       *)
(* however little the sockets hold.                                          *)
Terminates == <>(\A r \in Rank : call[r] = Len(Calls) /\ Returned(r))

===============================================================================
