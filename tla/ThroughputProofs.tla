-------------------------- MODULE ThroughputProofs --------------------------
(***************************************************************************)
(* Proofs about Throughput, for every kind of tunnel, any lengths of the   *)
(* warm-up, the blast and the grace, and any bound on the frames sent and  *)
(* on the surplus of the network.                                          *)
(***************************************************************************)
EXTENDS Throughput, TLAPS

NumbersOK ==
  /\ now \in Nat /\ rdl \in Nat /\ start \in Int /\ stop \in Int
  /\ up \in Nat /\ down \in Nat /\ extra \in Nat /\ sent \in Nat /\ recv \in Nat
  /\ Stream => extra = 0

(* Where the caller and the reader stand, and the deadline that is set:    *)
(* the warm-up's until the reader sets its own.                            *)
PhaseOK ==
  /\ wpc \in {"dial", "warm", "echo", "blast", "write", "drain", "done"}
  /\ rpc \in {"off", "set", "read", "done"}
  /\ wpc \in {"dial", "warm", "echo"} => start = -1 /\ stop = -1 /\ rpc = "off" /\ status = "unset"
  /\ wpc \in {"dial", "warm"} => rdl = 0
  /\ wpc = "echo" => rdl >= Warm
  /\ wpc \in {"blast", "write", "drain"} => rpc # "off" /\ start >= 0
  /\ rpc = "set" => now = start /\ rdl >= Warm
  /\ rpc = "read" \/ (rpc = "done" /\ open) => rdl = Deadline + Grace
  /\ rpc # "off" => start >= 0

(* Why a tunnel is closed that nobody broke. *)
ClosedOK ==
  ~open /\ ~broken =>
    \/ wpc = "done"
    \/ Deadlines = "teardown" /\ wpc = "echo" /\ now >= Warm
    \/ Deadlines = "teardown" /\ start >= 0 /\ (WarmTimedOut \/ now >= Deadline)

(* The warm-up is still under way while the blast can be counted: its read *)
(* returned a surplus answer, or ran out of its time.                      *)
WarmPending == start >= 0 /\ open /\ warm \in {"up", "down"}

(* Every frame blasted or in surplus is on its way, counted, lost, or was *)
(* read in the place of the warm-up's echo.                               *)
FramesOK ==
  \/ WarmTimedOut
  \/ /\ up + down + recv <= sent + extra
     /\ WarmPending => up + down + recv + 1 <= sent + extra

TInv ==
  NumbersOK /\ PhaseOK /\ ClosedOK /\ FramesOK /\ NoFalseFailure /\ BlastsToDeadline

LEMMA Constants ==
  /\ Warm \in Nat /\ Warm > 0 /\ Dur \in Nat /\ Dur > 0 /\ Grace \in Nat /\ Grace > 0
BY ThroughputAssumption

LEMMA TInit == Init => TInv
<1> USE Constants
<1>1. Init => NumbersOK /\ PhaseOK /\ FramesOK
  BY DEF Init, NumbersOK, PhaseOK, FramesOK, WarmPending
<1>2. Init => ClosedOK /\ NoFalseFailure /\ BlastsToDeadline
  BY DEF Init, ClosedOK, NoFalseFailure, BlastsToDeadline
<1> QED BY <1>1, <1>2 DEF TInv

LEMMA NetworkStep ==
  ASSUME TInv, UNCHANGED kind, Tick \/ EchoWarm \/ EchoBlast \/ Lose \/ Surplus \/ Break \/ Teardown
  PROVE  TInv'
<1> USE Constants DEF Deadline, WarmTimedOut, tunnel, net, blast, Deadlines, Stream
<1>1. CASE Tick
  <2>1. NumbersOK'
    BY <1>1 DEF Tick, TInv, NumbersOK
  <2>2. PhaseOK'
    BY <1>1 DEF Tick, TInv, NumbersOK, PhaseOK
  <2>3. (ClosedOK /\ FramesOK)'
    BY <1>1 DEF Tick, TInv, NumbersOK, ClosedOK, FramesOK, WarmPending
  <2>4. (NoFalseFailure /\ BlastsToDeadline)'
    BY <1>1 DEF Tick, TInv, NoFalseFailure, BlastsToDeadline
  <2> QED BY <2>1, <2>2, <2>3, <2>4 DEF TInv
<1>2. CASE EchoWarm \/ EchoBlast \/ Lose \/ Surplus
  <2>1. UNCHANGED <<now, wpc, rpc, rdl, open, broken, start, stop, sent, recv, status>>
    BY <1>2 DEF EchoWarm, EchoBlast, Lose, Surplus
  <2>2. /\ \/ up' = up /\ down' = down /\ extra' = extra
           \/ up > 0 /\ up' = up - 1 /\ down' = down + 1 /\ extra' = extra
           \/ up > 0 /\ up' = up - 1 /\ down' = down /\ extra' = extra
           \/ down > 0 /\ up' = up /\ down' = down - 1 /\ extra' = extra
           \/ ~Stream /\ up' = up + 1 /\ down' = down /\ extra' = extra + 1
           \/ ~Stream /\ up' = up /\ down' = down + 1 /\ extra' = extra + 1
        /\ warm' \in {"up", "down"} => warm \in {"up", "down"}
    BY <1>2 DEF EchoWarm, EchoBlast, Lose, Surplus
  <2>3. NumbersOK'
    BY <2>1, <2>2 DEF TInv, NumbersOK, Stream
  <2>4. PhaseOK' /\ ClosedOK'
    BY <2>1 DEF TInv, PhaseOK, ClosedOK
  <2>6. FramesOK'
    <3>1. WarmPending' => WarmPending
      BY <2>1, <2>2, Zenon DEF WarmPending
    <3>2. WarmTimedOut' <=> WarmTimedOut
      BY <2>1
    <3> QED BY <2>1, <2>2, <3>1, <3>2 DEF TInv, NumbersOK, FramesOK
  <2>5. (NoFalseFailure /\ BlastsToDeadline)'
    BY <2>1 DEF TInv, NoFalseFailure, BlastsToDeadline
  <2> QED BY <2>3, <2>4, <2>5, <2>6 DEF TInv
<1>3. CASE Break \/ Teardown
  <2>1. /\ open /\ open' = FALSE
        /\ UNCHANGED <<now, wpc, rpc, rdl, warm, up, down, extra, start, stop, sent, recv, status>>
    BY <1>3 DEF Break, Teardown
  <2>2. (NumbersOK /\ PhaseOK /\ FramesOK)'
    BY <2>1 DEF TInv, NumbersOK, PhaseOK, FramesOK, WarmPending
  <2>3. CASE Break
    <3>1. broken' = TRUE
      BY <2>3 DEF Break
    <3>2. (ClosedOK /\ NoFalseFailure /\ BlastsToDeadline)'
      BY <3>1 DEF ClosedOK, NoFalseFailure, BlastsToDeadline
    <3> QED BY <2>2, <3>2 DEF TInv
  <2>4. CASE Teardown
    <3>1. /\ Deadlines = "teardown" /\ rdl # 0 /\ now >= rdl /\ broken' = broken
      BY <2>4 DEF Teardown, Expired
    <3>2. ClosedOK'
      <4>1. wpc = "echo" => now >= Warm
        BY <3>1 DEF TInv, PhaseOK, NumbersOK
      <4>2. wpc \in {"blast", "write", "drain"} => start >= 0 /\ (WarmTimedOut \/ now >= Deadline)
        BY <2>1, <3>1 DEF TInv, PhaseOK, NumbersOK
      <4>3. wpc \in {"echo", "blast", "write", "drain", "done"}
        BY <3>1 DEF TInv, PhaseOK
      <4>4. UNCHANGED <<wpc, now, start>> /\ Deadlines' = "teardown"
        BY <2>1, <3>1
      <4>5. CASE wpc = "echo"
        BY <4>1, <4>4, <4>5 DEF ClosedOK
      <4>6. CASE wpc \in {"blast", "write", "drain"}
        BY <4>2, <4>4, <4>6 DEF ClosedOK
      <4>7. CASE wpc = "done"
        BY <4>4, <4>7 DEF ClosedOK
      <4> QED BY <4>3, <4>5, <4>6, <4>7
    <3>3. (NoFalseFailure /\ BlastsToDeadline)'
      BY <2>1, <3>1 DEF TInv, NoFalseFailure, BlastsToDeadline
    <3> QED BY <2>2, <3>2, <3>3 DEF TInv
  <2> QED BY <1>3, <2>3, <2>4
<1> QED BY <1>1, <1>2, <1>3

LEMMA CallerStep ==
  ASSUME TInv, UNCHANGED kind, Caller
  PROVE  TInv'
<1> USE Constants DEF Deadline, WarmTimedOut, tunnel, net, blast, Deadlines, Stream
<1>1. CASE Dial
  <2>1. /\ wpc = "dial" /\ wpc' \in {"warm", "done"} /\ status' \in {status, "skipped", "failed"}
        /\ status' = "failed" => status = "failed" \/ ~kind.fits
        /\ wpc' = "warm" => status' = status
        /\ UNCHANGED <<now, rpc, rdl, broken, warm, up, down, extra, start, stop, sent, recv>>
        /\ open' = open \/ (wpc' = "done" /\ open' = FALSE)
    BY <1>1 DEF Dial
  <2>2. (NumbersOK /\ PhaseOK)'
    BY <2>1 DEF TInv, NumbersOK, PhaseOK
  <2>3. ClosedOK'
    BY <2>1 DEF TInv, PhaseOK, ClosedOK
  <2>4. FramesOK' /\ NoFalseFailure' /\ BlastsToDeadline'
    BY <2>1 DEF TInv, FramesOK, WarmPending, NoFalseFailure, BlastsToDeadline
  <2> QED BY <2>2, <2>3, <2>4 DEF TInv
<1>2. CASE WarmWrite
  <2>1. /\ wpc = "warm" /\ start = -1 /\ stop = -1
        /\ UNCHANGED <<now, rpc, open, broken, up, down, extra, start, stop, sent, recv>>
    BY <1>2 DEF WarmWrite, TInv, PhaseOK
  <2>2. \/ open /\ wpc' = "echo" /\ rdl' = now + Warm /\ status' = status
        \/ ~open /\ wpc' = "done" /\ status' = "failed" /\ rdl' = rdl
    BY <1>2 DEF WarmWrite
  <2>3. ~open => broken
    BY <2>1 DEF TInv, ClosedOK
  <2>4. (NumbersOK /\ PhaseOK)'
    BY <2>1, <2>2 DEF TInv, NumbersOK, PhaseOK
  <2>5. ClosedOK' /\ FramesOK'
    BY <2>1, <2>2, <2>3 DEF TInv, ClosedOK, FramesOK, WarmPending
  <2>6. NoFalseFailure' /\ BlastsToDeadline'
    BY <2>1, <2>2, <2>3 DEF TInv, NoFalseFailure, BlastsToDeadline
  <2> QED BY <2>4, <2>5, <2>6 DEF TInv
<1>3. CASE WarmRead
  <2>1. /\ wpc = "echo" /\ wpc' = "blast" /\ rpc' = "set" /\ start' = now
        /\ UNCHANGED <<now, rdl, open, broken, up, extra, stop, sent, recv, status>>
        /\ start = -1 /\ stop = -1 /\ status = "unset" /\ rdl >= Warm
    BY <1>3 DEF WarmRead, StartBlast, TInv, PhaseOK
  <2>2. \/ warm' = "read" /\ down' = down
        \/ down > 0 /\ down' = down - 1 /\ warm' = warm
        \/ (~open \/ now >= Warm) /\ down' = down /\ warm' = warm
    BY <1>3, <2>1 DEF WarmRead, Expired, TInv, NumbersOK
  <2>3. NumbersOK'
    BY <2>1, <2>2 DEF TInv, NumbersOK, Stream
  <2>4. PhaseOK'
    BY <2>1 DEF TInv, NumbersOK, PhaseOK
  <2>5. ClosedOK'
    BY <2>1 DEF TInv, NumbersOK, ClosedOK
  <2>6. FramesOK'
    <3>1. ~WarmTimedOut
      BY <2>1
    <3>2. up + down + recv <= sent + extra
      BY <3>1 DEF TInv, FramesOK
    <3>3. \/ WarmTimedOut'
          \/ ~WarmPending' /\ down' = down
          \/ down > 0 /\ down' = down - 1
      BY <2>1, <2>2 DEF WarmPending, TInv, NumbersOK
    <3> QED BY <2>1, <3>2, <3>3 DEF TInv, NumbersOK, FramesOK
  <2>7. NoFalseFailure' /\ BlastsToDeadline'
    BY <2>1 DEF TInv, NoFalseFailure, BlastsToDeadline
  <2> QED BY <2>3, <2>4, <2>5, <2>6, <2>7 DEF TInv
<1>4. CASE BlastWrite \/ (BlastCheck /\ now < Deadline)
  <2>1. /\ wpc \in {"blast", "write"} /\ wpc' \in {"blast", "write"}
        /\ UNCHANGED <<now, rpc, rdl, open, broken, warm, down, extra, start, stop, recv, status>>
    BY <1>4 DEF BlastWrite, BlastCheck
  <2>2. (up' = up + 1 /\ sent' = sent + 1) \/ (up' = up /\ sent' = sent)
    BY <1>4 DEF BlastWrite, BlastCheck
  <2>3. (NumbersOK /\ FramesOK)'
    BY <2>1, <2>2 DEF TInv, NumbersOK, FramesOK, WarmPending, Stream
  <2>4. PhaseOK'
    BY <2>1 DEF TInv, PhaseOK
  <2>5. ClosedOK'
    BY <2>1 DEF TInv, ClosedOK
  <2>6. NoFalseFailure' /\ BlastsToDeadline'
    BY <2>1 DEF TInv, NoFalseFailure, BlastsToDeadline
  <2> QED BY <2>3, <2>4, <2>5, <2>6 DEF TInv
<1>5. CASE BlastWriteFails \/ (BlastCheck /\ ~(now < Deadline))
  <2>1. /\ wpc \in {"blast", "write"} /\ wpc' = "drain" /\ stop' = now /\ start >= 0
        /\ UNCHANGED <<now, rpc, rdl, open, broken, warm, up, down, extra, start, sent, recv>>
    BY <1>5 DEF BlastWriteFails, BlastCheck, Stops, TInv, PhaseOK
  <2>2. ~open => broken \/ (Deadlines = "teardown" /\ (WarmTimedOut \/ now >= Deadline))
    BY <2>1 DEF TInv, ClosedOK
  <2>3. Expired /\ open => WarmTimedOut \/ now >= Deadline
    <3>1. CASE rpc = "set"
      BY <3>1 DEF TInv, PhaseOK, NumbersOK, Expired
    <3>2. CASE rpc \in {"read", "done"}
      BY <3>2 DEF TInv, PhaseOK, NumbersOK, Expired
    <3> QED BY <2>1, <3>1, <3>2 DEF TInv, PhaseOK
  <2>4. now >= Deadline \/ broken \/ (WarmTimedOut /\ Deadlines # "read")
    <3>1. now >= Deadline \/ ~open \/ (Deadlines = "combined" /\ Expired)
      BY <1>5 DEF BlastWriteFails, BlastCheck, TInv, NumbersOK
    <3> QED BY <2>2, <2>3, <3>1
  <2>5. status' = status \/ (~open /\ ~(now >= Deadline) /\ status' = "failed")
    BY <1>5 DEF BlastWriteFails, BlastCheck, NormalEnd
  <2>6. NumbersOK' /\ PhaseOK'
    BY <2>1 DEF TInv, NumbersOK, PhaseOK
  <2>7. ClosedOK' /\ FramesOK'
    BY <2>1 DEF TInv, ClosedOK, FramesOK, WarmPending
  <2>8. NoFalseFailure'
    BY <2>1, <2>2, <2>5 DEF TInv, NoFalseFailure
  <2>9. BlastsToDeadline'
    BY <2>1, <2>4 DEF BlastsToDeadline
  <2> QED BY <2>6, <2>7, <2>8, <2>9 DEF TInv
<1>6. CASE Result
  <2>1. /\ wpc = "drain" /\ rpc = "done" /\ wpc' = "done" /\ open' = FALSE
        /\ status' \in {status, "ok"}
        /\ UNCHANGED <<now, rpc, rdl, broken, warm, up, down, extra, start, stop, sent, recv>>
    BY <1>6 DEF Result
  <2>2. NumbersOK' /\ PhaseOK'
    BY <2>1 DEF TInv, NumbersOK, PhaseOK
  <2>3. ClosedOK' /\ FramesOK'
    BY <2>1 DEF TInv, ClosedOK, FramesOK, WarmPending
  <2>4. NoFalseFailure' /\ BlastsToDeadline'
    BY <2>1 DEF TInv, NoFalseFailure, BlastsToDeadline
  <2> QED BY <2>2, <2>3, <2>4 DEF TInv
<1> QED BY <1>1, <1>2, <1>3, <1>4, <1>5, <1>6 DEF Caller

LEMMA ReaderStep ==
  ASSUME TInv, UNCHANGED kind, Reader
  PROVE  TInv'
<1> USE Constants DEF Deadline, WarmTimedOut, tunnel, net, blast, Deadlines, Stream
<1>1. CASE ReaderSet \/ ReaderEnds
  <2>1. /\ rpc \in {"set", "read"} /\ rpc' \in {"read", "done"} /\ start >= 0
        /\ UNCHANGED <<now, wpc, open, broken, warm, up, down, extra, start, stop, sent, recv, status>>
    BY <1>1 DEF ReaderSet, ReaderEnds, TInv, PhaseOK
  <2>2. \/ rdl' = Deadline + Grace
        \/ rdl' = rdl /\ rpc' = "done" /\ (open => rpc = "read")
    BY <1>1 DEF ReaderSet, ReaderEnds
  <2>3. wpc \notin {"dial", "warm", "echo"}
    BY <2>1 DEF TInv, PhaseOK
  <2>4. NumbersOK'
    BY <2>1, <2>2 DEF TInv, NumbersOK
  <2>5. PhaseOK'
    BY <2>1, <2>2, <2>3 DEF TInv, NumbersOK, PhaseOK
  <2>6. ClosedOK' /\ FramesOK'
    BY <2>1 DEF TInv, ClosedOK, FramesOK, WarmPending
  <2>7. NoFalseFailure' /\ BlastsToDeadline'
    BY <2>1 DEF TInv, NoFalseFailure, BlastsToDeadline
  <2> QED BY <2>4, <2>5, <2>6, <2>7 DEF TInv
<1>2. CASE ReaderCounts
  <2>1. /\ rpc = "read" /\ open /\ start >= 0 /\ recv' = recv + 1
        /\ UNCHANGED <<now, wpc, rpc, rdl, open, broken, up, extra, start, stop, sent, status>>
    BY <1>2 DEF ReaderCounts, TInv, PhaseOK
  <2>2. \/ warm = "down" /\ warm' = "read" /\ down' = down
        \/ down > 0 /\ down' = down - 1 /\ warm' = warm
    BY <1>2 DEF ReaderCounts
  <2>3. (NumbersOK /\ PhaseOK)'
    BY <2>1, <2>2 DEF TInv, NumbersOK, PhaseOK
  <2>4. ClosedOK'
    BY <2>1 DEF TInv, ClosedOK
  <2>5. FramesOK'
    <3>1. CASE warm = "down" /\ warm' = "read" /\ down' = down
      <4>1. WarmPending /\ ~WarmPending'
        BY <2>1, <3>1 DEF WarmPending
      <4> QED BY <2>1, <3>1, <4>1 DEF TInv, NumbersOK, FramesOK
    <3>2. CASE down > 0 /\ down' = down - 1 /\ warm' = warm
      <4>1. WarmPending' <=> WarmPending
        BY <2>1, <3>2 DEF WarmPending
      <4> QED BY <2>1, <3>2, <4>1 DEF TInv, NumbersOK, FramesOK
    <3> QED BY <2>2, <3>1, <3>2
  <2>6. NoFalseFailure' /\ BlastsToDeadline'
    BY <2>1 DEF TInv, NoFalseFailure, BlastsToDeadline
  <2> QED BY <2>3, <2>4, <2>5, <2>6 DEF TInv
<1> QED BY <1>1, <1>2 DEF Reader

LEMMA TNext == TInv /\ [Next]_vars => TInv'
<1> SUFFICES ASSUME TInv, [Next]_vars PROVE TInv'
  OBVIOUS
<1>1. CASE Next
  BY <1>1, NetworkStep, CallerStep, ReaderStep DEF Next
<1>2. CASE UNCHANGED vars
  <2>1. /\ UNCHANGED <<kind, now, wpc, rpc, rdl, open, broken, warm, up, down, extra>>
        /\ UNCHANGED <<start, stop, sent, recv, status>>
    BY <1>2 DEF vars, state, tunnel, net, blast
  <2> USE DEF Deadline, WarmTimedOut, Deadlines, Stream
  <2>2. NumbersOK' /\ PhaseOK' /\ ClosedOK'
    BY <2>1 DEF TInv, NumbersOK, PhaseOK, ClosedOK
  <2>3. FramesOK' /\ NoFalseFailure' /\ BlastsToDeadline'
    BY <2>1 DEF TInv, FramesOK, WarmPending, NoFalseFailure, BlastsToDeadline
  <2> QED BY <2>2, <2>3 DEF TInv
<1> QED BY <1>1, <1>2

(* Over a stream benchmark.RunThroughput counts no more echoes than it sent  *)
(* frames; over a datagram tunnel the surplus is no more than the frames the *)
(* network doubled and the answers meant for others.  Both unless its        *)
(* warm-up ran out of time.                                                  *)
THEOREM CountsAlwaysMatch == Spec => []CountsMatch
<1>1. TInv => CountsMatch
  BY DEF TInv, NumbersOK, FramesOK, WarmPending, CountsMatch
<1> QED BY <1>1, TInit, TNext, PTL DEF Spec

(* The reader's deadlines never make the writer's blast fail, unless the   *)
(* warm-up ran out of time.                                                *)
THEOREM FailuresAreReal == Spec => []NoFalseFailure
<1>1. TInv => NoFalseFailure
  BY DEF TInv
<1> QED BY <1>1, TInit, TNext, PTL DEF Spec

(* Nor do they cut it short. *)
THEOREM BlastsAreFull == Spec => []BlastsToDeadline
<1>1. TInv => BlastsToDeadline
  BY DEF TInv
<1> QED BY <1>1, TInit, TNext, PTL DEF Spec
=============================================================================
