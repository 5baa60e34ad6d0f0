-------------------------- MODULE UDPDispatchProofs --------------------------
(***************************************************************************)
(* Proofs about UDPDispatch, for any set of clients, any channel           *)
(* capacities, any bound on arrivals, both modes and both kinds of wrap.   *)
(***************************************************************************)
EXTENDS UDPDispatch, SequenceTheorems, TLAPS

(* What a goroutine pair may look like: the c -> tunnel goroutine exists *)
(* only beside a tunnel -> c loop, running or returned.                  *)
PairOK == \A s \in Sess : up[s] # "off" => hs[s] \in {"relay", "write", "gone"}

(* Nothing has happened yet to the sessions not created. *)
UnbornOK ==
  \A s \in Sess : s > Len(owner) => hs[s] = "none" /\ up[s] = "off"

(* The dispatcher's locals. *)
HandOK ==
  /\ dpc \in {"lookup", "insert", "announce", "deliver"} => dgram \in Frames
  /\ dpc \in {"lookup", "insert"} => Len(owner) < arrived
  /\ dpc = "insert" => sessions[dgram.peer] = Nil
  /\ dpc \in {"announce", "deliver"} => ds \in 1 .. Len(owner)
  /\ dpc = "announce" => hs[ds] = "none" /\ \A i \in 1 .. Len(newq) : newq[i] # ds

(* A session waits for Accept at most once, and untouched. *)
QueueOK ==
  /\ \A i \in 1 .. Len(newq) : newq[i] \in 1 .. Len(owner) /\ hs[newq[i]] = "none"
  /\ \A i, j \in 1 .. Len(newq) : newq[i] = newq[j] => i = j

(* The table sends an address to a session created for it. *)
TableOK ==
  \A p \in Peers : sessions[p] # Nil =>
    sessions[p] \in 1 .. Len(owner) /\ owner[sessions[p]] = p

IInv ==
  /\ TypeOK /\ PairOK /\ UnbornOK /\ HandOK /\ QueueOK /\ TableOK /\ OwnEntry

USE DEF Nil, Sess

LEMMA TypeInit == Init => TypeOK
BY PeersAssumption, CapAssumption, BoundAssumption
   DEF Init, TypeOK, NoDgram, HandlerPC, UpPC, Frames

(* Taking a frame from the in channel keeps its type, and only a session *)
(* that was created has one to take.                                     *)
LEMMA PopType ==
  ASSUME IInv, NEW s \in Sess, hs[s] \in Reading, Pop(s)
  PROVE  /\ s \in 1 .. Len(owner) /\ owner[s] \in Peers
         /\ Head(in[s]) \in Frames
         /\ in' \in [Sess -> Seq(Frames)]
         /\ \A t \in Sess : Len(in'[t]) <= InCap
         /\ last' \in [Peers -> 0 .. MaxDgrams]
         /\ sent' \in [Sess -> BOOLEAN]
<1> USE BoundAssumption, CapAssumption
<1>1. s \in 1 .. Len(owner) /\ owner[s] \in Peers
  <2>1. Len(owner) \in Nat
    BY LenProperties DEF IInv, TypeOK
  <2>2. s <= Len(owner)
    BY <2>1 DEF IInv, UnbornOK, Reading
  <2> QED BY <2>1, <2>2, ElementOfSeq DEF IInv, TypeOK
<1>2. in[s] \in Seq(Frames) /\ in[s] # << >> /\ Len(in[s]) <= InCap
  BY DEF IInv, TypeOK, Pop
<1>3. /\ Head(in[s]) \in Frames
      /\ Tail(in[s]) \in Seq(Frames)
      /\ Len(Tail(in[s])) <= InCap
  BY <1>2, HeadTailProperties, LenProperties
<1>4. /\ in' \in [Sess -> Seq(Frames)]
      /\ \A t \in Sess : Len(in'[t]) <= InCap
  BY <1>3 DEF IInv, TypeOK, Pop
<1>5. last' \in [Peers -> 0 .. MaxDgrams]
  <2>1. Head(in[s]).n \in 0 .. MaxDgrams
    BY <1>3 DEF Frames
  <2> QED BY <2>1, <1>1 DEF IInv, TypeOK, Pop
<1>6. sent' \in [Sess -> BOOLEAN]
  BY DEF IInv, TypeOK, Pop
<1> QED BY <1>1, <1>3, <1>4, <1>5, <1>6

LEMMA RemoveType ==
  ASSUME IInv, NEW s \in Sess, hs[s] # "none" \/ up[s] # "off", Remove(s)
  PROVE  /\ s \in 1 .. Len(owner) /\ owner[s] \in Peers
         /\ sessions' \in [Peers -> 0 .. MaxDgrams]
<1> USE BoundAssumption
<1>1. s <= Len(owner) /\ Len(owner) \in Nat
  BY LenProperties DEF IInv, UnbornOK, TypeOK
<1>2. owner[s] \in Peers
  BY <1>1, ElementOfSeq DEF IInv, TypeOK
<1> QED BY <1>1, <1>2 DEF IInv, TypeOK, Remove

LEMMA TypeStep == IInv /\ [Next]_vars => TypeOK'
<1> SUFFICES ASSUME IInv, [Next]_vars PROVE TypeOK'
  OBVIOUS
<1> USE CapAssumption, BoundAssumption DEF dispVars, hostVars
<1>0. TypeOK
  BY DEF IInv
<1>1. ASSUME NEW p \in Peers, NEW k \in Kinds, ReadFromUDP(p, k) PROVE TypeOK'
  <2>1. arrived' \in 0 .. MaxDgrams /\ Len(owner) <= arrived'
    BY <1>0, <1>1 DEF TypeOK, ReadFromUDP
  <2>2. dgram' \in Frames
    BY <1>0, <1>1 DEF TypeOK, ReadFromUDP, Frames
  <2> QED BY <1>0, <1>1, <2>1, <2>2 DEF TypeOK, ReadFromUDP
<1>2. CASE ReadClosed
  BY <1>0, <1>2 DEF TypeOK, ReadClosed
<1>3. CASE Lookup
  BY <1>0, <1>3 DEF IInv, TypeOK, Lookup, HandOK, Frames
<1>4. CASE Insert
  <2>1. dgram.peer \in Peers /\ Len(owner) < arrived
    BY <1>4 DEF IInv, HandOK, Insert, Frames
  <2>2. owner' \in Seq(Peers) /\ Len(owner') = Len(owner) + 1
    BY <1>0, <1>4, <2>1, AppendProperties DEF TypeOK, Insert
  <2>3. ds' \in 0 .. MaxDgrams
    BY <1>0, <1>4, <2>1, LenProperties DEF TypeOK, Insert
  <2>4. sessions' \in [Peers -> 0 .. MaxDgrams]
    BY <1>0, <1>4, <2>1, <2>3 DEF TypeOK, Insert
  <2>5. Len(owner') <= arrived'
    BY <1>0, <1>4, <2>1, <2>2, LenProperties DEF TypeOK, Insert
  <2> QED BY <1>0, <1>4, <2>2, <2>3, <2>4, <2>5 DEF TypeOK, Insert
<1>5. CASE Announce
  <2>1. ds \in Sess
    BY <1>0, <1>5, LenProperties DEF IInv, HandOK, Announce, TypeOK
  <2>2. newq' \in Seq(Sess) /\ Len(newq') <= NewCap
    BY <1>0, <1>5, <2>1, AppendProperties, LenProperties DEF TypeOK, Announce
  <2> QED BY <1>0, <1>5, <2>2 DEF TypeOK, Announce
<1>6. CASE AnnounceDone
  BY <1>0, <1>6 DEF TypeOK, AnnounceDone
<1>7. CASE Deliver
  <2>1. ds \in Sess /\ dgram \in Frames
    BY <1>0, <1>7, LenProperties DEF IInv, HandOK, Deliver, TypeOK
  <2>2. Append(in[ds], dgram) \in Seq(Frames) /\ Len(Append(in[ds], dgram)) = Len(in[ds]) + 1
    BY <1>0, <2>1, AppendProperties DEF TypeOK
  <2>3. /\ in' \in [Sess -> Seq(Frames)]
        /\ \A t \in Sess : Len(in'[t]) <= InCap
    <3>1. Len(in[ds]) \in Nat
      BY <1>0, <2>1, LenProperties DEF TypeOK
    <3> QED BY <1>0, <1>7, <2>1, <2>2, <3>1 DEF TypeOK, Deliver
  <2>4. dpc' = "read" /\ dgram' = NoDgram /\ ds' \in 0 .. MaxDgrams
    BY <1>7 DEF Deliver
  <2> QED BY <1>0, <1>7, <2>3, <2>4 DEF TypeOK, Deliver
<1>8. CASE Accept
  <2>1. newq' \in Seq(Sess) /\ Len(newq') <= NewCap /\ Head(newq) \in Sess
    <3>1. newq \in Seq(Sess) /\ newq # << >> /\ newq' = Tail(newq) /\ Len(newq) <= NewCap
      BY <1>0, <1>8 DEF TypeOK, Accept
    <3>2. Len(newq) \in Nat /\ Head(newq) \in Sess /\ Tail(newq) \in Seq(Sess) /\ Len(Tail(newq)) = Len(newq) - 1
      BY <3>1, HeadTailProperties, LenProperties
    <3> QED BY <3>1, <3>2, CapAssumption
  <2>2. hs' \in [Sess -> HandlerPC]
    BY <1>0, <1>8, <2>1 DEF TypeOK, Accept, HandlerPC
  <2> QED BY <1>0, <1>8, <2>1, <2>2 DEF TypeOK, Accept
<1>9. CASE AcceptDone \/ CloseDone \/ CloseConn
  BY <1>0, <1>9 DEF TypeOK, AcceptDone, CloseDone, CloseConn
<1>10. ASSUME NEW s \in Sess, Handler(s) PROVE TypeOK'
  <2>1. CASE Skip(s) \/ EchoRead(s) \/ Peek(s) \/ RelayDown(s)
    <3>1. hs[s] \in Reading /\ Pop(s)
      BY <2>1 DEF Skip, EchoRead, Peek, RelayDown, Reading
    <3>2. hs' \in [Sess -> HandlerPC]
      BY <1>0, <2>1 DEF TypeOK, Skip, EchoRead, Peek, RelayDown, HandlerPC
    <3>3. UNCHANGED <<sessions, owner, newq, dpc, dgram, ds, arrived, srv, acc, up>>
      BY <2>1 DEF Skip, EchoRead, Peek, RelayDown
    <3> QED BY <1>0, <3>1, <3>2, <3>3, PopType DEF TypeOK
  <2>2. CASE CloseTunnel(s)
    <3>1. sessions' \in [Peers -> 0 .. MaxDgrams]
      BY <2>2, RemoveType DEF CloseTunnel
    <3>2. hs' \in [Sess -> HandlerPC]
      BY <1>0, <2>2 DEF TypeOK, CloseTunnel, HandlerPC
    <3> QED BY <1>0, <2>2, <3>1, <3>2 DEF TypeOK, CloseTunnel
  <2>3. CASE IdleTimeout(s) \/ WokenByDone(s) \/ EchoWrite(s) \/ FirstEcho(s) \/ DialFail(s)
    <3>1. hs' \in [Sess -> HandlerPC]
      BY <1>0, <2>3 DEF TypeOK, IdleTimeout, WokenByDone, AfterReadError, EchoWrite,
         FirstEcho, DialFail, HandlerPC
    <3>2. UNCHANGED <<sessions, owner, in, newq, dpc, dgram, ds, arrived, srv, acc, up, sent, last>>
      BY <2>3 DEF IdleTimeout, WokenByDone, EchoWrite, FirstEcho, DialFail
    <3> QED BY <1>0, <3>1, <3>2 DEF TypeOK
  <2>4. CASE DialOk(s)
    BY <1>0, <2>4 DEF TypeOK, DialOk, HandlerPC, UpPC
  <2> QED BY <1>10, <2>1, <2>2, <2>3, <2>4 DEF Handler
<1>11. ASSUME NEW s \in Sess, Relay(s) PROVE TypeOK'
  <2>0. CASE RelayWrite(s)
    BY <1>0, <2>0 DEF TypeOK, RelayWrite, HandlerPC
  <2>1. CASE RelayUp(s)
    BY <1>0, <2>1 DEF TypeOK, RelayUp
  <2>2. CASE RelayUpEnd(s)
    BY <1>0, <2>2 DEF TypeOK, RelayUpEnd, UpPC
  <2>3. CASE RelayUpClose(s)
    <3>1. sessions' \in [Peers -> 0 .. MaxDgrams]
      BY <2>3, RemoveType DEF RelayUpClose
    <3> QED BY <1>0, <2>3, <3>1 DEF TypeOK, RelayUpClose, UpPC
  <2> QED BY <1>11, <2>0, <2>1, <2>2, <2>3 DEF Relay
<1>12. CASE UNCHANGED vars
  BY <1>0, <1>12 DEF TypeOK, vars
<1> QED
  BY <1>1, <1>2, <1>3, <1>4, <1>5, <1>6, <1>7, <1>8, <1>9, <1>10, <1>11, <1>12 DEF Next, Dispatch
(* The locals of the dispatcher are all a step of its own changes, but for *)
(* what Insert, Announce and Deliver add to the table and the channels.    *)
LEMMA DispatchStep ==
  ASSUME IInv, TypeOK', \/ Dispatch
                        \/ \E p \in Peers, k \in Kinds : ReadFromUDP(p, k)
  PROVE  IInv'
<1> USE BoundAssumption DEF dispVars, hostVars
<1>0. /\ Len(owner) \in Nat /\ Len(newq) \in Nat /\ arrived \in Nat
      /\ Len(owner) <= arrived /\ Len(owner) <= MaxDgrams
  BY LenProperties DEF IInv, TypeOK
<1>1. ASSUME NEW p \in Peers, NEW k \in Kinds, ReadFromUDP(p, k) PROVE IInv'
  <2>1. dgram' \in Frames /\ Len(owner) < arrived'
    BY <1>0, <1>1 DEF ReadFromUDP, Frames, IInv, TypeOK
  <2>2. HandOK'
    BY <1>1, <2>1 DEF ReadFromUDP, HandOK
  <2> QED BY <1>1, <2>2 DEF ReadFromUDP, IInv, PairOK, UnbornOK, QueueOK, TableOK, OwnEntry, Owes
<1>2. CASE ReadClosed \/ AnnounceDone
  <2>1. HandOK'
    BY <1>2 DEF ReadClosed, AnnounceDone, HandOK
  <2> QED BY <1>2, <2>1 DEF ReadClosed, AnnounceDone, IInv, PairOK, UnbornOK, QueueOK, TableOK,
          OwnEntry, Owes
<1>3. CASE Lookup
  <2>1. dgram \in Frames /\ dgram.peer \in Peers
    BY <1>3 DEF Lookup, IInv, HandOK, Frames
  <2>2. HandOK'
    BY <1>3, <2>1 DEF Lookup, IInv, HandOK, TableOK
  <2> QED BY <1>3, <2>2 DEF Lookup, IInv, PairOK, UnbornOK, QueueOK, TableOK, OwnEntry, Owes
<1>4. CASE Insert
  <2> DEFINE p == dgram.peer
             n == Len(owner) + 1
  <2>1. p \in Peers /\ sessions[p] = Nil /\ n \in Sess
    BY <1>0, <1>4 DEF Insert, IInv, HandOK, Frames, TypeOK
  <2>2. /\ Len(owner') = n
        /\ owner'[n] = p
        /\ \A s \in 1 .. Len(owner) : owner'[s] = owner[s]
    BY <1>4, <2>1, AppendProperties DEF Insert, IInv, TypeOK
  <2>3. /\ sessions'[p] = n
        /\ \A q \in Peers \ {p} : sessions'[q] = sessions[q]
    BY <1>4, <2>1 DEF Insert, IInv, TypeOK
  <2>4. hs[n] = "none" /\ up[n] = "off"
    BY <1>0, <2>1 DEF IInv, UnbornOK
  <2>5. UNCHANGED <<hs, up, newq, arrived, dgram>> /\ dpc' = "announce" /\ ds' = n
    BY <1>4 DEF Insert
  <2>6. UnbornOK'
    BY <1>0, <2>1, <2>2, <2>5 DEF IInv, UnbornOK
  <2>7. QueueOK'
    BY <1>0, <2>2, <2>5 DEF IInv, QueueOK
  <2>8. TableOK'
    BY <1>0, <2>1, <2>2, <2>3 DEF IInv, TableOK
  <2>9. OwnEntry'
    <3> SUFFICES ASSUME NEW s \in 1 .. n, Owes(s)' PROVE sessions'[owner'[s]] = s
      BY <2>2 DEF OwnEntry
    <3>1. CASE s = n
      BY <3>1, <2>2, <2>3
    <3>2. CASE s # n
      <4>1. s \in 1 .. Len(owner) /\ Owes(s)
        BY <1>0, <2>5, <3>2 DEF Owes
      <4>2. sessions[owner[s]] = s /\ owner'[s] = owner[s]
        BY <2>2, <4>1 DEF IInv, OwnEntry
      <4>3. owner[s] \in Peers
        BY <4>1, ElementOfSeq DEF IInv, TypeOK
      <4>4. owner[s] # p
        BY <1>0, <2>1, <4>1, <4>2
      <4> QED BY <2>3, <4>2, <4>3, <4>4
    <3> QED BY <3>1, <3>2
  <2>10. HandOK'
    <3>1. dgram' \in Frames
      BY <1>4, <2>5 DEF Insert, IInv, HandOK
    <3>2. \A i \in 1 .. Len(newq) : newq[i] # n
      BY <1>0 DEF IInv, QueueOK
    <3> QED BY <1>0, <2>1, <2>2, <2>4, <2>5, <3>1, <3>2 DEF HandOK
  <2> QED BY <2>5, <2>6, <2>7, <2>8, <2>9, <2>10 DEF IInv, PairOK
<1>5. CASE Announce
  <2>1. ds \in Sess /\ ds \in 1 .. Len(owner) /\ hs[ds] = "none" /\ dgram \in Frames
    BY <1>0, <1>5 DEF Announce, IInv, HandOK
  <2>2. /\ Len(newq') = Len(newq) + 1
        /\ newq'[Len(newq) + 1] = ds
        /\ \A i \in 1 .. Len(newq) : newq'[i] = newq[i] /\ newq[i] # ds
    BY <1>5, <2>1, AppendProperties DEF Announce, IInv, TypeOK, HandOK
  <2>3. QueueOK'
    BY <1>0, <1>5, <2>1, <2>2 DEF Announce, IInv, QueueOK
  <2>4. HandOK'
    BY <1>5, <2>1 DEF Announce, HandOK
  <2> QED BY <1>5, <2>3, <2>4 DEF Announce, IInv, PairOK, UnbornOK, TableOK, OwnEntry, Owes
<1>6. CASE Deliver
  <2>1. HandOK'
    BY <1>6 DEF Deliver, HandOK
  <2> QED BY <1>6, <2>1 DEF Deliver, IInv, PairOK, UnbornOK, QueueOK, TableOK, OwnEntry, Owes
<1> QED BY <1>1, <1>2, <1>3, <1>4, <1>5, <1>6 DEF Dispatch

(* A goroutine that is not queued moves: no session comes to owe a Close *)
(* that it did not owe before.                                           *)
LEMMA MoveStep ==
  ASSUME IInv, TypeOK', NEW s \in Sess,
         UNCHANGED <<sessions, owner, newq, dispVars>>,
         hs[s] # "none" \/ up[s] # "off" \/ UNCHANGED <<hs, up>>,
         \A t \in Sess \ {s} : hs'[t] = hs[t] /\ up'[t] = up[t],
         up'[s] # "off" => hs'[s] \in {"relay", "write", "gone"},
         hs[s] # "none" => hs'[s] # "none",
         hs[s] = "none" => hs'[s] = "none",
         Owes(s)' => Owes(s)
  PROVE  IInv'
<1> USE BoundAssumption DEF dispVars
<1>1. Len(owner) \in Nat /\ Len(newq) \in Nat /\ Len(owner) <= MaxDgrams
  BY LenProperties DEF IInv, TypeOK
<1>2. PairOK'
  BY DEF IInv, PairOK
<1>3. UnbornOK'
  BY <1>1 DEF IInv, UnbornOK
<1>4. HandOK'
  BY <1>1 DEF IInv, HandOK
<1>5. QueueOK'
  BY <1>1 DEF IInv, QueueOK
<1>6. TableOK'
  BY DEF IInv, TableOK
<1>7. OwnEntry'
  <2>1. \A t \in Sess : Owes(t)' => Owes(t)
    BY DEF Owes
  <2> QED BY <1>1, <2>1 DEF IInv, OwnEntry
<1> QED BY <1>2, <1>3, <1>4, <1>5, <1>6, <1>7 DEF IInv

(* A goroutine closes its tunnel, and owes nothing after it: the entry it *)
(* deletes is its own.                                                    *)
LEMMA CloseStep ==
  ASSUME IInv, TypeOK', NEW s \in Sess, Remove(s),
         UNCHANGED <<owner, newq, dispVars>>,
         hs[s] # "none", Owes(s), ~Owes(s)', hs'[s] # "none",
         \A t \in Sess \ {s} : hs'[t] = hs[t] /\ up'[t] = up[t],
         up'[s] # "off" => hs'[s] \in {"relay", "write", "gone"}
  PROVE  IInv' /\ sessions[owner[s]] = s
<1> USE BoundAssumption DEF dispVars
<1>1. Len(owner) \in Nat /\ Len(newq) \in Nat /\ Len(owner) <= MaxDgrams
  BY LenProperties DEF IInv, TypeOK
<1>2. s \in 1 .. Len(owner)
  BY <1>1 DEF IInv, UnbornOK
<1>3. owner[s] \in Peers /\ sessions[owner[s]] = s
  BY <1>2, ElementOfSeq DEF IInv, TypeOK, OwnEntry
<1>4. /\ sessions'[owner[s]] = Nil
      /\ \A q \in Peers \ {owner[s]} : sessions'[q] = sessions[q]
  BY <1>3 DEF IInv, TypeOK, Remove
<1>5. PairOK'
  BY DEF IInv, PairOK
<1>6. UnbornOK'
  BY <1>1, <1>2 DEF IInv, UnbornOK
<1>7. HandOK'
  <2>1. dpc = "insert" => sessions'[dgram.peer] = Nil
    BY <1>4 DEF IInv, HandOK, Frames
  <2> QED BY <1>1, <2>1 DEF IInv, HandOK
<1>8. QueueOK'
  BY <1>1 DEF IInv, QueueOK
<1>9. TableOK'
  BY <1>4 DEF IInv, TableOK
<1>10. OwnEntry'
  <2> SUFFICES ASSUME NEW t \in 1 .. Len(owner), Owes(t)' PROVE sessions'[owner[t]] = t
    BY DEF OwnEntry
  <2>1. t # s /\ t \in Sess /\ Owes(t)
    BY <1>1 DEF Owes
  <2>2. sessions[owner[t]] = t /\ owner[t] \in Peers
    BY <2>1, ElementOfSeq DEF IInv, TypeOK, OwnEntry
  <2> QED BY <1>3, <1>4, <2>1, <2>2
<1> QED BY <1>3, <1>5, <1>6, <1>7, <1>8, <1>9, <1>10 DEF IInv

LEMMA AcceptStep ==
  ASSUME IInv, TypeOK', Accept
  PROVE  IInv'
<1> USE BoundAssumption DEF dispVars, hostVars
<1> DEFINE h == Head(newq)
<1>1. Len(owner) \in Nat /\ Len(newq) \in Nat /\ Len(owner) <= MaxDgrams /\ newq # << >>
  BY LenProperties DEF IInv, TypeOK, Accept
<1>2. h = newq[1] /\ 1 \in 1 .. Len(newq) /\ h \in Sess
  <2>1. newq \in Seq(Sess) /\ newq # << >>
    BY <1>1 DEF IInv, TypeOK
  <2>2. Len(newq) \in Nat \ {0}
    BY <2>1, EmptySeq
  <2>3. h = newq[1]
    BY <2>1, <2>2
  <2>4. h \in Sess
    BY <2>1, HeadTailProperties
  <2> QED BY <2>2, <2>3, <2>4
<1>3. h \in 1 .. Len(owner) /\ hs[h] = "none" /\ up[h] = "off"
  <2>1. h \in 1 .. Len(owner) /\ hs[h] = "none"
    BY <1>2 DEF IInv, QueueOK
  <2> QED BY <1>2, <2>1 DEF IInv, PairOK
<1>4. /\ Len(newq') = Len(newq) - 1
      /\ \A i \in 1 .. Len(newq') : newq'[i] = newq[i + 1]
  BY <1>1, HeadTailProperties DEF IInv, TypeOK, Accept
<1>5. /\ hs'[h] \in {"peek", "read"}
      /\ \A t \in Sess \ {h} : hs'[t] = hs[t]
      /\ UNCHANGED <<sessions, owner, up, dpc, dgram, ds, arrived>>
  BY <1>2 DEF Accept, IInv, TypeOK
<1>6. PairOK'
  BY <1>3, <1>5 DEF IInv, PairOK
<1>7. UnbornOK'
  BY <1>1, <1>3, <1>5 DEF IInv, UnbornOK
<1>8. QueueOK'
  <2>1. \A i \in 1 .. Len(newq') : i + 1 \in 1 .. Len(newq) /\ i + 1 # 1
    BY <1>1, <1>4
  <2>2. \A i \in 1 .. Len(newq') : newq'[i] \in 1 .. Len(owner) /\ newq'[i] # h
    BY <1>2, <1>4, <2>1 DEF IInv, QueueOK
  <2>3. \A i \in 1 .. Len(newq') : hs'[newq'[i]] = "none"
    <3>1. \A i \in 1 .. Len(newq) : hs[newq[i]] = "none"
      BY DEF IInv, QueueOK
    <3> QED BY <1>1, <1>4, <1>5, <2>1, <2>2, <3>1
  <2>4. \A i, j \in 1 .. Len(newq') : newq'[i] = newq'[j] => i = j
    BY <1>1, <1>4, <2>1 DEF IInv, QueueOK
  <2> QED BY <1>5, <2>2, <2>3, <2>4 DEF QueueOK
<1>9. HandOK'
  <2>1. dpc = "announce" => ds # h /\ ds \in Sess
    BY <1>1, <1>2 DEF IInv, HandOK
  <2>2. dpc = "announce" => \A i \in 1 .. Len(newq') : newq'[i] # ds
    BY <1>1, <1>4 DEF IInv, HandOK
  <2> QED BY <1>5, <2>1, <2>2 DEF IInv, HandOK
<1>10. TableOK'
  BY <1>5 DEF IInv, TableOK
<1>11. OwnEntry'
  <2>1. \A t \in Sess : Owes(t)' => Owes(t)
    BY <1>3, <1>5 DEF Owes
  <2> QED BY <1>1, <1>5, <2>1 DEF IInv, OwnEntry
<1> QED BY <1>6, <1>7, <1>8, <1>9, <1>10, <1>11 DEF IInv

LEMMA InvInit == Init => IInv
<1> SUFFICES ASSUME Init PROVE IInv
  OBVIOUS
<1>1. TypeOK
  BY TypeInit
<1>2. Len(owner) = 0 /\ Len(newq) = 0
  BY DEF Init
<1> QED BY <1>1, <1>2 DEF Init, IInv, PairOK, UnbornOK, HandOK, QueueOK, TableOK, OwnEntry

LEMMA InvStep == IInv /\ [Next]_vars => IInv'
<1> SUFFICES ASSUME IInv, [Next]_vars PROVE IInv'
  OBVIOUS
<1>0. TypeOK' /\ TypeOK
  BY TypeStep DEF IInv
<1>1. CASE Dispatch \/ \E p \in Peers, k \in Kinds : ReadFromUDP(p, k)
  BY <1>0, <1>1, DispatchStep
<1>2. CASE Accept
  BY <1>0, <1>2, AcceptStep
<1>3. CASE AcceptDone \/ CloseDone \/ CloseConn \/ UNCHANGED vars
  <2>1. UNCHANGED <<sessions, owner, newq, dpc, dgram, ds, arrived, hs, up>>
    BY <1>3 DEF AcceptDone, CloseDone, CloseConn, vars, dispVars, hostVars
  <2> QED BY <1>0, <2>1 DEF IInv, PairOK, UnbornOK, HandOK, QueueOK, TableOK, OwnEntry, Owes
<1>4. ASSUME NEW s \in Sess, CloseTunnel(s) PROVE IInv'
  <2>1. hs[s] = "close" /\ hs' = [hs EXCEPT ![s] = "gone"] /\ up[s] = "off" /\ up' = up
    BY <1>0, <1>4 DEF CloseTunnel, IInv, PairOK, TypeOK, UpPC
  <2>2. hs'[s] = "gone" /\ \A t \in Sess \ {s} : hs'[t] = hs[t]
    BY <1>0, <2>1 DEF TypeOK
  <2> QED BY <1>0, <1>4, <2>1, <2>2, CloseStep DEF CloseTunnel, Owes
<1>5. ASSUME NEW s \in Sess, RelayUpClose(s) PROVE IInv'
  <2>1. up[s] = "close" /\ up' = [up EXCEPT ![s] = "done"] /\ hs' = hs /\ hs[s] \in {"relay", "write", "gone"}
    BY <1>5 DEF RelayUpClose, IInv, PairOK
  <2>2. up'[s] = "done" /\ \A t \in Sess \ {s} : up'[t] = up[t]
    BY <1>0, <2>1 DEF TypeOK
  <2> QED BY <1>0, <1>5, <2>1, <2>2, CloseStep DEF RelayUpClose, Owes
<1>6. ASSUME NEW s \in Sess, Handler(s) \/ RelayWrite(s) \/ RelayUp(s) \/ RelayUpEnd(s), ~CloseTunnel(s)
      PROVE  IInv'
  <2>1. /\ UNCHANGED <<sessions, owner, newq, dispVars>>
        /\ hs[s] # "none" \/ up[s] # "off"
    BY <1>6 DEF Handler, Skip, IdleTimeout, WokenByDone, EchoRead, EchoWrite, Peek, FirstEcho,
       DialOk, DialFail, RelayDown, RelayWrite, RelayUp, RelayUpEnd, Reading
  <2>2. \A t \in Sess \ {s} : hs'[t] = hs[t] /\ up'[t] = up[t]
    BY <1>0, <1>6 DEF Handler, Skip, IdleTimeout, WokenByDone, EchoRead, EchoWrite, Peek, FirstEcho,
       DialOk, DialFail, RelayDown, RelayWrite, RelayUp, RelayUpEnd, TypeOK
  <2>3. /\ up'[s] # "off" => hs'[s] \in {"relay", "write", "gone"}
        /\ hs[s] # "none" => hs'[s] # "none"
        /\ hs[s] = "none" => hs'[s] = "none"
        /\ Owes(s)' => Owes(s)
    BY <1>0, <1>6 DEF Handler, Skip, IdleTimeout, WokenByDone, AfterReadError, EchoRead, EchoWrite,
       Peek, FirstEcho, DialOk, DialFail, RelayDown, RelayWrite, RelayUp, RelayUpEnd, TypeOK, Reading,
       Owes, IInv, PairOK
  <2> QED BY <1>0, <2>1, <2>2, <2>3, MoveStep
<1> QED BY <1>1, <1>2, <1>3, <1>4, <1>5, <1>6 DEF Next, Relay

(* In every run the variables keep their types, and the channels their *)
(* capacities.                                                         *)
THEOREM TypeCorrect == Spec => []TypeOK
<1>1. IInv => TypeOK
  BY DEF IInv
<1> QED BY <1>1, InvInit, InvStep, PTL DEF Spec

(* A session that may still close is the one its address maps to, so that *)
(* deleting by address never evicts a successor.                          *)
THEOREM OwnEntryAlways == Spec => []OwnEntry
<1>1. IInv => OwnEntry
  BY DEF IInv
<1> QED BY <1>1, InvInit, InvStep, PTL DEF Spec

-----------------------------------------------------------------------------
(* Without --forward. *)

(* Every accepted session is in EchoLoop, and has no goroutine beside it. *)
EchoOnly == \A s \in Sess : hs[s] \in {"none", "read", "echo", "close", "gone"} /\ up[s] = "off"

(* A handler without --forward ends by closing its tunnel only. *)
LEMMA EchoStep ==
  ASSUME IInv, EchoOnly, NEW s \in Sess, Handler(s) \/ Relay(s), ~CloseTunnel(s)
  PROVE  EchoOnly' /\ sessions' = sessions /\ hs'[s] # "gone" /\ \A t \in Sess \ {s} : hs'[t] = hs[t]
<1>0. hs \in [Sess -> HandlerPC]
  BY DEF IInv, TypeOK
<1>1. hs[s] \in {"none", "read", "echo", "close", "gone"} /\ up[s] = "off"
  BY DEF EchoOnly
<1>2. Skip(s) \/ IdleTimeout(s) \/ WokenByDone(s) \/ EchoRead(s) \/ EchoWrite(s)
  BY <1>1, Zenon DEF Handler, Relay, Peek, FirstEcho, DialOk, DialFail, RelayDown, RelayWrite, RelayUp,
                     RelayUpEnd, RelayUpClose
<1>3. sessions' = sessions /\ up' = up
  BY <1>2 DEF Skip, IdleTimeout, WokenByDone, EchoRead, EchoWrite
<1>4. /\ hs'[s] \in {"read", "echo", "close"}
      /\ \A t \in Sess \ {s} : hs'[t] = hs[t]
  BY <1>0, <1>1, <1>2 DEF Skip, IdleTimeout, WokenByDone, EchoRead, EchoWrite, AfterReadError, Reading
<1> QED BY <1>3, <1>4 DEF EchoOnly

LEMMA ServedStep ==
  ASSUME ~Forward, IInv, EchoOnly, TableServed, [Next]_vars
  PROVE  EchoOnly' /\ TableServed'
<1> USE BoundAssumption DEF dispVars, hostVars
<1>0. /\ Len(owner) \in Nat /\ Len(owner) <= MaxDgrams
      /\ sessions \in [Peers -> 0 .. MaxDgrams] /\ hs \in [Sess -> HandlerPC]
      /\ \A p \in Peers : sessions[p] # Nil => sessions[p] \in Sess
  BY LenProperties DEF IInv, TypeOK
<1>1. ASSUME UNCHANGED <<sessions, hs, up>> PROVE EchoOnly' /\ TableServed'
  BY <1>1 DEF EchoOnly, TableServed
<1>2. CASE \/ \E p \in Peers, k \in Kinds : ReadFromUDP(p, k)
           \/ ReadClosed \/ Lookup \/ Announce \/ AnnounceDone \/ Deliver
           \/ AcceptDone \/ CloseDone \/ CloseConn \/ UNCHANGED vars
  BY <1>1, <1>2 DEF ReadFromUDP, ReadClosed, Lookup, Announce, AnnounceDone, Deliver, AcceptDone,
                    CloseDone, CloseConn, vars
<1>3. CASE Insert
  <2>1. Len(owner) + 1 \in Sess /\ hs[Len(owner) + 1] = "none"
    <3>1. Len(owner) < arrived /\ arrived \in 0 .. MaxDgrams
      BY <1>3 DEF Insert, IInv, HandOK, TypeOK
    <3> QED BY <1>0, <3>1 DEF IInv, UnbornOK
  <2>2. UNCHANGED <<hs, up>>
    BY <1>3 DEF Insert
  <2>3. ASSUME NEW p \in Peers PROVE sessions'[p] = sessions[p] \/ sessions'[p] = Len(owner) + 1
    BY <1>0, <1>3 DEF Insert
  <2>4. TableServed'
    BY <2>1, <2>2, <2>3 DEF TableServed
  <2> QED BY <2>2, <2>4 DEF EchoOnly
<1>4. CASE Accept
  <2>1. \A t \in Sess : hs'[t] = hs[t] \/ hs'[t] = "read"
    BY <1>0, <1>4 DEF Accept
  <2>2. UNCHANGED <<sessions, up>>
    BY <1>4 DEF Accept
  <2>3. EchoOnly'
    BY <2>1, <2>2 DEF EchoOnly
  <2>4. TableServed'
    BY <1>0, <2>1, <2>2 DEF TableServed
  <2> QED BY <2>3, <2>4
<1>5. ASSUME NEW s \in Sess, CloseTunnel(s) PROVE EchoOnly' /\ TableServed'
  <2>1. /\ hs'[s] = "gone" /\ (\A t \in Sess \ {s} : hs'[t] = hs[t]) /\ up' = up
        /\ sessions' = [sessions EXCEPT ![owner[s]] = Nil]
    BY <1>0, <1>5 DEF CloseTunnel, Remove
  <2>2. EchoOnly'
    BY <2>1 DEF EchoOnly
  <2>3. ASSUME NEW p \in Peers, sessions'[p] # Nil PROVE hs'[sessions'[p]] # "gone"
    <3>1. p # owner[s] /\ sessions'[p] = sessions[p]
      BY <1>0, <2>1, <2>3
    <3>2. sessions[p] # s /\ sessions[p] \in Sess /\ hs[sessions[p]] # "gone"
      BY <1>0, <2>3, <3>1 DEF IInv, TableOK, TableServed
    <3> QED BY <2>1, <3>1, <3>2
  <2> QED BY <2>2, <2>3 DEF TableServed
<1>6. ASSUME NEW s \in Sess, Handler(s) \/ Relay(s), ~CloseTunnel(s)
      PROVE  EchoOnly' /\ TableServed'
  <2>1. /\ EchoOnly' /\ sessions' = sessions /\ hs'[s] # "gone"
        /\ \A t \in Sess \ {s} : hs'[t] = hs[t]
    BY <1>6, EchoStep
  <2> QED BY <1>0, <2>1 DEF TableServed
<1> QED BY <1>2, <1>3, <1>4, <1>5, <1>6 DEF Next, Dispatch

(* The server without --forward (udpDispatcher, EchoLoop): no address is    *)
(* ever mapped to a session whose goroutine has returned, so none is muted. *)
THEOREM TableAlwaysServed ==
  ASSUME ~Forward
  PROVE  Spec => []TableServed
<1>1. Init => EchoOnly /\ TableServed
  BY DEF Init, EchoOnly, TableServed
<1>2. IInv /\ EchoOnly /\ TableServed /\ [Next]_vars => (EchoOnly /\ TableServed)'
  BY ServedStep
<1> QED BY <1>1, <1>2, InvInit, InvStep, PTL DEF Spec

-----------------------------------------------------------------------------
(* Without --forward the dispatcher implements PeerService. *)

(* The dispatcher has the newest datagram in hand. *)
Holding == dpc \in {"lookup", "insert", "announce", "deliver"}
Before(n) == IF Holding THEN n < arrived ELSE n <= arrived

(* Every channel holds datagrams in arrival order, all older than the one  *)
(* in hand, and the channel of a client's session only such as are newer   *)
(* than what was handled for that client.                                  *)
OrderOK ==
  /\ Holding => dgram.n = arrived
  /\ \A s \in Sess : s > Len(owner) => in[s] = << >>
  /\ \A s \in Sess : \A i \in 1 .. Len(in[s]) : Before(in[s][i].n)
  /\ \A s \in Sess : \A i, j \in 1 .. Len(in[s]) : i < j => in[s][i].n < in[s][j].n
  /\ \A p \in Peers : Before(last[p])
  /\ \A p \in Peers : sessions[p] # Nil =>
       \A i \in 1 .. Len(in[sessions[p]]) : in[sessions[p]][i].n > last[p]

(* A session reads only while the table sends its address to it. *)
LEMMA ReaderIsCurrent ==
  ASSUME IInv, EchoOnly, NEW s \in Sess, hs[s] \in Reading, Pop(s)
  PROVE  /\ s \in 1 .. Len(owner) /\ owner[s] \in Peers /\ sessions[owner[s]] = s
         /\ \A p \in Peers \ {owner[s]} : sessions[p] # s
<1>1. hs[s] = "read" /\ Owes(s)
  BY DEF EchoOnly, Reading, Owes
<1>2. s \in 1 .. Len(owner) /\ owner[s] \in Peers
  BY PopType
<1> QED BY <1>1, <1>2 DEF IInv, OwnEntry, TableOK

(* Taking a frame keeps the order, and handles a newer datagram. *)
LEMMA PopOrder ==
  ASSUME IInv, EchoOnly, OrderOK, NEW s \in Sess, hs[s] \in Reading, Pop(s),
         UNCHANGED <<sessions, owner, dispVars>>
  PROVE  OrderOK' /\ Head(in[s]).n > last[owner[s]] /\ Head(in[s]).n \in 1 .. MaxDgrams
<1> USE BoundAssumption DEF dispVars
<1>0. /\ in \in [Sess -> Seq(Frames)] /\ last \in [Peers -> 0 .. MaxDgrams]
      /\ sessions \in [Peers -> 0 .. MaxDgrams]
  BY DEF IInv, TypeOK
<1>1. /\ s \in 1 .. Len(owner) /\ owner[s] \in Peers /\ sessions[owner[s]] = s
      /\ \A p \in Peers \ {owner[s]} : sessions[p] # s
  BY ReaderIsCurrent
<1> DEFINE q == in[s]
           r == Tail(in[s])
<1>2. /\ q \in Seq(Frames) /\ q # << >> /\ Head(q) = q[1] /\ Head(q) \in Frames
      /\ Len(q) \in Nat \ {0} /\ Len(r) = Len(q) - 1
      /\ \A i \in 1 .. Len(r) : r[i] = q[i + 1]
  BY <1>0, HeadTailProperties, EmptySeq, LenProperties DEF Pop
<1>3. /\ in'[s] = r /\ \A t \in Sess \ {s} : in'[t] = in[t]
      /\ last'[owner[s]] = q[1].n /\ \A p \in Peers \ {owner[s]} : last'[p] = last[p]
  BY <1>0, <1>1, <1>2 DEF Pop
<1>4. 1 \in 1 .. Len(q) /\ \A i \in 1 .. Len(r) : i + 1 \in 1 .. Len(q) /\ 1 < i + 1
  BY <1>2
<1> HIDE DEF q, r
<1>5. q[1].n > last[owner[s]] /\ q[1].n \in 1 .. MaxDgrams
  <2>1. s # Nil /\ q[1] \in Frames
    BY <1>1, <1>2
  <2> QED BY <1>1, <1>4, <2>1 DEF OrderOK, Frames, q
<1>6. \A t \in Sess : t > Len(owner) => in'[t] = << >>
  <2>1. Len(owner) \in Nat
    BY LenProperties DEF IInv, TypeOK
  <2> QED BY <1>1, <1>3, <2>1 DEF OrderOK
<1>7. \A t \in Sess : \A i \in 1 .. Len(in'[t]) : Before(in'[t][i].n)
  <2>1. \A i \in 1 .. Len(r) : Before(r[i].n)
    BY <1>2, <1>4 DEF OrderOK, q
  <2> QED BY <1>3, <2>1 DEF OrderOK
<1>8. \A t \in Sess : \A i, j \in 1 .. Len(in'[t]) : i < j => in'[t][i].n < in'[t][j].n
  <2>1. \A i, j \in 1 .. Len(r) : i < j => i + 1 < j + 1
    BY <1>2
  <2>2. \A i, j \in 1 .. Len(r) : i < j => r[i].n < r[j].n
    BY <1>2, <1>4, <2>1 DEF OrderOK, q
  <2> QED BY <1>3, <2>2 DEF OrderOK
<1>9. \A p \in Peers : Before(last'[p])
  BY <1>3, <1>4 DEF OrderOK, q
<1>10. \A p \in Peers : sessions[p] # Nil =>
         \A i \in 1 .. Len(in'[sessions[p]]) : in'[sessions[p]][i].n > last'[p]
  <2>1. \A i \in 1 .. Len(r) : q[1].n < r[i].n
    BY <1>2, <1>4 DEF OrderOK, q
  <2>2. \A i \in 1 .. Len(r) : r[i].n > last'[owner[s]]
    <3>1. \A i \in 1 .. Len(r) : r[i] \in Frames
      BY <1>2, <1>4, ElementOfSeq
    <3> QED BY <1>3, <1>5, <2>1, <3>1 DEF Frames
  <2>3. ASSUME NEW p \in Peers \ {owner[s]}, sessions[p] # Nil
        PROVE  \A i \in 1 .. Len(in'[sessions[p]]) : in'[sessions[p]][i].n > last'[p]
    <3>1. sessions[p] \in Sess \ {s}
      BY <1>0, <1>1, <2>3
    <3> QED BY <1>3, <2>3, <3>1 DEF OrderOK
  <2> QED BY <1>1, <1>3, <2>2, <2>3
<1>11. (Holding => dgram.n = arrived)' /\ (\A n : Before(n)' <=> Before(n))
  BY DEF OrderOK, Holding, Before
<1>12. OrderOK'
  BY <1>6, <1>7, <1>8, <1>9, <1>10, <1>11 DEF OrderOK, Before, Holding
<1> QED BY <1>2, <1>5, <1>12 DEF q

(* Steps of the dispatcher, but for Insert: nothing that clients see. *)
LEMMA DispatchOrder ==
  ASSUME IInv, OrderOK,
         \/ \E p \in Peers, k \in Kinds : ReadFromUDP(p, k)
         \/ ReadClosed \/ Lookup \/ Announce \/ AnnounceDone \/ Deliver
  PROVE  OrderOK' /\ UNCHANGED <<sessions, owner, last>>
<1> USE BoundAssumption DEF dispVars, hostVars
<1>0. /\ in \in [Sess -> Seq(Frames)] /\ last \in [Peers -> 0 .. MaxDgrams]
      /\ sessions \in [Peers -> 0 .. MaxDgrams] /\ arrived \in Nat
      /\ \A s \in Sess : \A i \in 1 .. Len(in[s]) : in[s][i].n \in Nat
  <2>1. /\ in \in [Sess -> Seq(Frames)] /\ last \in [Peers -> 0 .. MaxDgrams]
        /\ sessions \in [Peers -> 0 .. MaxDgrams] /\ arrived \in Nat
    BY DEF IInv, TypeOK
  <2>2. \A s \in Sess : \A i \in 1 .. Len(in[s]) : in[s][i] \in Frames
    BY <2>1, ElementOfSeq
  <2>3. \A f \in Frames : f.n \in Nat
    BY DEF Frames
  <2> QED BY <2>1, <2>2, <2>3
<1>1. ASSUME NEW p \in Peers, NEW k \in Kinds, ReadFromUDP(p, k)
      PROVE  OrderOK' /\ UNCHANGED <<sessions, owner, last>>
  <2>1. /\ ~Holding /\ Holding' /\ dgram'.n = arrived' /\ arrived' = arrived + 1
        /\ UNCHANGED <<sessions, owner, in, last>>
    BY <1>1 DEF ReadFromUDP, Holding
  <2>2. \A n \in Nat : Before(n) => Before(n)'
    BY <1>0, <2>1 DEF Before
  <2>3. \A q \in Peers : Before(last[q])'
    BY <1>0, <2>1, <2>2 DEF OrderOK
  <2> QED BY <1>0, <2>1, <2>2, <2>3 DEF OrderOK, Before
<1>2. CASE ReadClosed \/ Lookup \/ Announce \/ AnnounceDone
  <2>1. /\ Holding' => Holding
        /\ UNCHANGED <<sessions, owner, in, last, arrived, dgram>>
    BY <1>2 DEF ReadClosed, Lookup, Announce, AnnounceDone, Holding
  <2>2. \A n \in Nat : Before(n) => Before(n)'
    BY <1>0, <2>1 DEF Before
  <2>3. \A q \in Peers : Before(last[q])'
    BY <1>0, <2>1, <2>2 DEF OrderOK
  <2> QED BY <1>0, <2>1, <2>2, <2>3 DEF OrderOK, Before
<1>3. CASE Deliver
  <2>1. /\ Holding /\ ~Holding' /\ UNCHANGED <<sessions, owner, last, arrived>>
        /\ ds \in Sess /\ ds <= Len(owner) /\ dgram \in Frames /\ dgram.n = arrived
    <3>1. Len(owner) \in Nat /\ Len(owner) <= MaxDgrams
      BY LenProperties DEF IInv, TypeOK
    <3> QED BY <1>3, <3>1 DEF Deliver, IInv, HandOK, Holding, OrderOK
  <2> DEFINE new == Append(in[ds], dgram)
  <2>2. /\ Len(in[ds]) \in Nat /\ Len(new) = Len(in[ds]) + 1 /\ new[Len(new)] = dgram
        /\ \A i \in 1 .. Len(in[ds]) : new[i] = in[ds][i]
    BY <1>0, <2>1, AppendProperties, LenProperties
  <2>3. /\ in'[ds] \in {in[ds], new}
        /\ \A t \in Sess \ {ds} : in'[t] = in[t]
    BY <1>0, <1>3, <2>1 DEF Deliver
  <2> HIDE DEF new
  <2>4. \A n : (Before(n) <=> n < arrived) /\ (Before(n)' <=> n <= arrived)
    BY <2>1 DEF Before
  <2>5. \A i \in 1 .. Len(new) : IF i \in 1 .. Len(in[ds]) THEN new[i] = in[ds][i] ELSE new[i] = dgram
    BY <2>2
  <2>6. \A i \in 1 .. Len(in[ds]) : in[ds][i].n < arrived /\ in[ds][i].n \in Nat
    BY <1>0, <2>1, <2>4 DEF OrderOK
  <2>7. /\ \A i \in 1 .. Len(new) : new[i].n <= arrived
        /\ \A i, j \in 1 .. Len(new) : i < j => new[i].n < new[j].n
        /\ \A p \in Peers : sessions[p] = ds => \A i \in 1 .. Len(new) : new[i].n > last[p]
    <3>1. \A i \in 1 .. Len(new) : new[i].n <= arrived
      <4>1. ASSUME NEW i \in 1 .. Len(new) PROVE new[i].n <= arrived
        <5>1. CASE i \in 1 .. Len(in[ds])
          <6>1. new[i] = in[ds][i] /\ in[ds][i].n < arrived /\ in[ds][i].n \in Nat
            BY <2>5, <2>6, <5>1
          <6> QED BY <1>0, <6>1
        <5>2. CASE i \notin 1 .. Len(in[ds])
          BY <1>0, <2>1, <2>5, <5>2
        <5> QED BY <5>1, <5>2
      <4> QED BY <4>1
    <3>2. ASSUME NEW i \in 1 .. Len(new), NEW j \in 1 .. Len(new), i < j
          PROVE  new[i].n < new[j].n
      <4>1. i \in 1 .. Len(in[ds]) /\ new[i] = in[ds][i] /\ new[i].n < arrived
        BY <2>2, <2>5, <2>6, <3>2
      <4>2. CASE j \in 1 .. Len(in[ds])
        BY <2>1, <2>5, <3>2, <4>1, <4>2 DEF OrderOK
      <4>3. CASE j \notin 1 .. Len(in[ds])
        BY <2>1, <2>5, <4>1, <4>3
      <4> QED BY <4>2, <4>3
    <3>3. ASSUME NEW p \in Peers, sessions[p] = ds, NEW i \in 1 .. Len(new)
          PROVE  new[i].n > last[p]
      <4>1. CASE i \in 1 .. Len(in[ds])
        BY <2>1, <2>5, <3>3, <4>1 DEF OrderOK
      <4>2. CASE i \notin 1 .. Len(in[ds])
        BY <1>0, <2>1, <2>4, <2>5, <4>2 DEF OrderOK
      <4> QED BY <4>1, <4>2
    <3> QED BY <3>1, <3>2, <3>3
  <2>8. \A s \in Sess : s > Len(owner) => in'[s] = << >>
    BY <2>1, <2>3 DEF OrderOK
  <2>9. \A s \in Sess : \A i \in 1 .. Len(in'[s]) : in'[s][i].n <= arrived
    <3>1. ASSUME NEW s \in Sess, NEW i \in 1 .. Len(in'[s]) PROVE in'[s][i].n <= arrived
      <4>1. CASE in'[s] = in[s]
        BY <1>0, <2>4, <4>1 DEF OrderOK
      <4>2. CASE s = ds /\ in'[s] = new
        BY <2>7, <4>2
      <4> QED BY <2>3, <4>1, <4>2
    <3> QED BY <3>1
  <2>10. \A s \in Sess : \A i, j \in 1 .. Len(in'[s]) : i < j => in'[s][i].n < in'[s][j].n
    BY <2>3, <2>7 DEF OrderOK
  <2>11. \A p \in Peers : last[p] <= arrived
    BY <1>0, <2>4 DEF OrderOK
  <2>12. \A p \in Peers : sessions[p] # Nil =>
           \A i \in 1 .. Len(in'[sessions[p]]) : in'[sessions[p]][i].n > last[p]
    <3>1. ASSUME NEW p \in Peers, sessions[p] # Nil
          PROVE  \A i \in 1 .. Len(in'[sessions[p]]) : in'[sessions[p]][i].n > last[p]
      <4>1. sessions[p] \in Sess
        BY <1>0, <3>1
      <4>2. CASE in'[sessions[p]] = in[sessions[p]]
        BY <3>1, <4>2 DEF OrderOK
      <4>3. CASE sessions[p] = ds /\ in'[ds] = new
        BY <4>3, <2>7
      <4> QED BY <2>3, <4>1, <4>2, <4>3
    <3> QED BY <3>1
  <2> QED BY <2>1, <2>4, <2>8, <2>9, <2>10, <2>11, <2>12 DEF OrderOK, Before
<1> QED BY <1>1, <1>2, <1>3

LEMMA ServiceInit == Init => OrderOK /\ PS!PSInit
BY BoundAssumption DEF Init, OrderOK, Holding, Before, PS!PSInit, PS!Nil

(* Every step is one of PeerService, or none. *)
LEMMA ServiceStep ==
  ASSUME IInv, EchoOnly, OrderOK, [Next]_vars
  PROVE  OrderOK' /\ [PS!PSNext]_(PS!psVars)
<1> USE BoundAssumption DEF dispVars, hostVars, PS!psVars, PS!Nil
<1>0. /\ in \in [Sess -> Seq(Frames)] /\ sessions \in [Peers -> 0 .. MaxDgrams]
      /\ last \in [Peers -> 0 .. MaxDgrams]
      /\ Len(owner) \in Nat /\ Len(owner) <= arrived /\ arrived \in 0 .. MaxDgrams
  BY LenProperties DEF IInv, TypeOK
<1>1. CASE \/ \E p \in Peers, k \in Kinds : ReadFromUDP(p, k)
           \/ ReadClosed \/ Lookup \/ Announce \/ AnnounceDone \/ Deliver
  BY <1>1, DispatchOrder
<1>2. CASE Insert
  <2> DEFINE p == dgram.peer
             n == Len(owner) + 1
  <2>1. p \in Peers /\ sessions[p] = Nil /\ n \in Sess /\ Len(owner) < arrived /\ Len(owner) < MaxDgrams
    BY <1>0, <1>2 DEF Insert, IInv, HandOK, Frames
  <2>2. Len(owner') = n /\ sessions' = [sessions EXCEPT ![p] = n]
    BY <1>2, <2>1, AppendProperties DEF Insert, IInv, TypeOK
  <2>3. UNCHANGED <<in, last, arrived, dgram>> /\ Holding /\ Holding'
    BY <1>2 DEF Insert, Holding
  <2>4. in[n] = << >>
    BY <1>0, <2>1 DEF OrderOK
  <2>5. PS!Open(p)
    BY <2>1, <2>2, <2>3 DEF PS!Open
  <2>6. \A s \in Sess : s > n => in[s] = << >>
    BY <1>0 DEF OrderOK
  <2>7. \A q \in Peers : sessions'[q] # Nil =>
          \A i \in 1 .. Len(in[sessions'[q]]) : in[sessions'[q]][i].n > last[q]
    <3>1. \A q \in Peers : IF q = p THEN sessions'[q] = n ELSE sessions'[q] = sessions[q]
      BY <1>0, <2>1, <2>2
    <3>2. 1 .. Len(in[n]) = {}
      BY <2>4
    <3> QED BY <3>1, <3>2 DEF OrderOK
  <2>8. OrderOK'
    BY <2>2, <2>3, <2>6, <2>7 DEF OrderOK, Before
  <2> QED BY <2>1, <2>5, <2>8 DEF PS!PSNext
<1>3. CASE Accept \/ AcceptDone \/ CloseDone \/ CloseConn \/ UNCHANGED vars
  <2>1. UNCHANGED <<sessions, owner, in, last, arrived, dgram, dpc>>
    BY <1>3 DEF Accept, AcceptDone, CloseDone, CloseConn, vars
  <2> QED BY <2>1 DEF OrderOK, Before, Holding
<1>4. ASSUME NEW s \in Sess, CloseTunnel(s)
      PROVE  OrderOK' /\ [PS!PSNext]_(PS!psVars)
  <2>1. hs[s] = "close" /\ hs[s] # "none" /\ Owes(s)
    BY <1>4 DEF CloseTunnel, Owes
  <2>2. s \in 1 .. Len(owner)
    <3>1. ~(s > Len(owner))
      BY <2>1 DEF IInv, UnbornOK
    <3> QED BY <1>0, <3>1
  <2>3. owner[s] \in Peers /\ sessions[owner[s]] = s
    BY <2>1, <2>2, ElementOfSeq DEF IInv, TypeOK, OwnEntry
  <2>4. /\ sessions' = [sessions EXCEPT ![owner[s]] = Nil]
        /\ UNCHANGED <<owner, in, last, arrived, dgram, dpc>>
    BY <1>4 DEF CloseTunnel, Remove
  <2>5. PS!End(owner[s])
    BY <2>3, <2>4 DEF PS!End
  <2>6. \A q \in Peers : sessions'[q] # Nil => sessions'[q] = sessions[q]
    BY <1>0, <2>4
  <2>7. OrderOK'
    BY <2>4, <2>6 DEF OrderOK, Before, Holding
  <2> QED BY <2>3, <2>5, <2>7 DEF PS!PSNext
<1>5. ASSUME NEW s \in Sess, Handler(s) \/ Relay(s), ~CloseTunnel(s)
      PROVE  OrderOK' /\ [PS!PSNext]_(PS!psVars)
  <2>1. hs[s] \in {"none", "read", "echo", "close", "gone"} /\ up[s] = "off"
    BY DEF EchoOnly
  <2>2. Skip(s) \/ IdleTimeout(s) \/ WokenByDone(s) \/ EchoRead(s) \/ EchoWrite(s)
    BY <1>5, <2>1, Zenon DEF Handler, Relay, Peek, FirstEcho, DialOk, DialFail, RelayDown,
                       RelayWrite, RelayUp, RelayUpEnd, RelayUpClose
  <2>3. CASE IdleTimeout(s) \/ WokenByDone(s) \/ EchoWrite(s)
    <3>1. UNCHANGED <<sessions, owner, in, last, arrived, dgram, dpc>>
      BY <2>3 DEF IdleTimeout, WokenByDone, EchoWrite
    <3> QED BY <3>1 DEF OrderOK, Before, Holding
  <2>4. CASE Skip(s) \/ EchoRead(s)
    <3>1. hs[s] \in Reading /\ Pop(s) /\ UNCHANGED <<sessions, owner, dispVars>>
      BY <2>4 DEF Skip, EchoRead, Reading
    <3>2. /\ OrderOK'
          /\ Head(in[s]).n > last[owner[s]] /\ Head(in[s]).n \in 1 .. MaxDgrams
      BY <3>1, PopOrder
    <3>3. owner[s] \in Peers /\ sessions[owner[s]] # Nil
      BY <3>1, ReaderIsCurrent
    <3>4. PS!Handle(owner[s], Head(in[s]).n)
      BY <3>1, <3>2, <3>3 DEF Pop, PS!Handle
    <3> QED BY <3>2, <3>3, <3>4 DEF PS!PSNext
  <2> QED BY <2>2, <2>3, <2>4
<1> QED BY <1>1, <1>2, <1>3, <1>4, <1>5 DEF Next, Dispatch

(* The server without --forward (dispatchLoop, udpSession, EchoLoop) keeps  *)
(* the promise of PeerService: one session per client at a time, none       *)
(* opened twice, and the datagrams of a client handled in arrival order,    *)
(* each at most once, by its current session.                               *)
THEOREM DispatcherServesPeers ==
  ASSUME ~Forward
  PROVE  Spec => ServesPeers
<1>1. Init => EchoOnly /\ TableServed
  BY DEF Init, EchoOnly, TableServed
<1>2. IInv /\ EchoOnly /\ TableServed /\ [Next]_vars => (EchoOnly /\ TableServed)'
  BY ServedStep
<1>3. IInv /\ EchoOnly /\ OrderOK /\ [Next]_vars => OrderOK' /\ [PS!PSNext]_(PS!psVars)
  BY ServiceStep
<1> QED BY <1>1, <1>2, <1>3, ServiceInit, InvInit, InvStep, PTL DEF Spec, ServesPeers, PS!PSSpec
=============================================================================
