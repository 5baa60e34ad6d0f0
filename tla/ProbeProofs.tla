----------------------------- MODULE ProbeProofs -----------------------------
(***************************************************************************)
(* Proofs about Probe, for streams and datagrams and any number of pings.  *)
(***************************************************************************)
EXTENDS Probe, SequenceTheorems, TLAPS

(* Where the loop stands against its counters. *)
LoopOK ==
  /\ pc = "dial" => ph = "latency"
  /\ pc \in {"read", "gap"} => i < Pings
  /\ ph = "latency" => sent = 0 /\ recv = 0
  /\ ph = "loss" /\ pc = "next" => sent = i
  /\ ph = "loss" /\ pc \in {"read", "gap"} => sent = i + 1
  /\ ph = "loss" /\ pc = "read" => recv < sent

(* The samples so far: each is of an earlier latency probe, in order. *)
SamplesOK ==
  /\ \A j \in 1 .. Len(rtts) :
       /\ rtts[j].pong = rtts[j].probe /\ rtts[j].probe.ph = "latency"
       /\ ph = "latency" /\ pc \in {"dial", "next", "read"} => rtts[j].probe.i < i
       /\ ph = "latency" /\ pc = "gap" => rtts[j].probe.i <= i
  /\ \A j, k \in 1 .. Len(rtts) : j < k => rtts[j].probe.i < rtts[k].probe.i

IInv == TypeOK /\ LoopOK /\ SamplesOK

USE ProbeAssumption

LEMMA InvInit == Init => IInv
<1> SUFFICES ASSUME Init PROVE IInv
  OBVIOUS
<1>1. TypeOK
  <2>1. rtts \in Seq([probe : Seqs, pong : Seqs]) /\ net \subseteq Frames
    BY DEF Init
  <2>2. 0 \in 0 .. 0 /\ 0 \in 0 .. Pings /\ 0 \in Nat
    OBVIOUS
  <2>3. recv \in 0 .. sent /\ sent \in 0 .. Pings /\ missed \in Nat /\ i \in 0 .. Pings
    BY <2>2 DEF Init
  <2>4. spent \in BOOLEAN /\ broken \in BOOLEAN /\ oversize \subseteq Phases
    BY DEF Init
  <2> QED BY <2>1, <2>3, <2>4 DEF Init, TypeOK, Phases
<1>2. LoopOK
  BY DEF Init, LoopOK
<1>3. SamplesOK
  BY DEF Init, SamplesOK
<1> QED BY <1>1, <1>2, <1>3 DEF IInv

LEMMA SeqType == IInv => Seq0 \in Seqs
BY DEF IInv, TypeOK, Seq0, Seqs

LEMMA SampleType ==
  ASSUME TypeOK
  PROVE  \A j \in 1 .. Len(rtts) : rtts[j].probe \in Seqs /\ rtts[j].probe.i \in Nat
<1> SUFFICES ASSUME NEW j \in 1 .. Len(rtts)
             PROVE  rtts[j].probe \in Seqs /\ rtts[j].probe.i \in Nat
  OBVIOUS
<1>1. rtts \in Seq([probe : Seqs, pong : Seqs])
  BY DEF TypeOK
<1>2. rtts[j] \in [probe : Seqs, pong : Seqs]
  BY <1>1, ElementOfSeq
<1>3. rtts[j].probe \in Seqs
  BY <1>2
<1> QED BY <1>3 DEF Seqs

(* The probe in hand is answered in the latency phase: a new sample. *)
LEMMA SampleStep ==
  ASSUME IInv, pc = "read", ph = "latency",
         rtts' = Append(rtts, [probe |-> Seq0, pong |-> Seq0]), pc' = "gap",
         UNCHANGED <<ph, i>>
  PROVE  SamplesOK' /\ rtts' \in Seq([probe : Seqs, pong : Seqs])
<1> DEFINE r == [probe |-> Seq0, pong |-> Seq0]
<1>1. r \in [probe : Seqs, pong : Seqs] /\ rtts \in Seq([probe : Seqs, pong : Seqs])
  BY SeqType DEF IInv, TypeOK
<1>2. /\ rtts' \in Seq([probe : Seqs, pong : Seqs])
      /\ Len(rtts') = Len(rtts) + 1 /\ Len(rtts) \in Nat
      /\ \A j \in 1 .. Len(rtts) : rtts'[j] = rtts[j]
      /\ rtts'[Len(rtts) + 1] = r
  BY <1>1, AppendProperties, LenProperties
<1>3. ASSUME NEW j \in 1 .. Len(rtts')
      PROVE  rtts'[j].pong = rtts'[j].probe /\ rtts'[j].probe.ph = "latency" /\ rtts'[j].probe.i <= i
  <2>1. CASE j = Len(rtts) + 1
    BY <1>2, <2>1 DEF Seq0, IInv, TypeOK
  <2>2. CASE j \in 1 .. Len(rtts)
    <3>1. rtts[j].probe.i < i /\ rtts[j].pong = rtts[j].probe /\ rtts[j].probe.ph = "latency"
      BY <2>2 DEF IInv, SamplesOK
    <3>2. rtts[j].probe \in Seqs
      BY <2>2, SampleType DEF IInv
    <3> QED BY <1>2, <2>2, <3>1, <3>2 DEF Seqs, IInv, TypeOK
  <2> QED BY <1>2, <1>3, <2>1, <2>2
<1>4. ASSUME NEW j \in 1 .. Len(rtts'), NEW k \in 1 .. Len(rtts'), j < k
      PROVE  rtts'[j].probe.i < rtts'[k].probe.i
  <2>1. j \in 1 .. Len(rtts)
    BY <1>2, <1>4
  <2>2. rtts'[j] = rtts[j] /\ rtts[j].probe.i < i
    BY <1>2, <2>1 DEF IInv, SamplesOK
  <2>3. CASE k = Len(rtts) + 1
    BY <1>2, <2>2, <2>3 DEF Seq0
  <2>4. CASE k \in 1 .. Len(rtts)
    BY <1>2, <1>4, <2>1, <2>2, <2>4 DEF IInv, SamplesOK
  <2> QED BY <1>2, <2>3, <2>4
<1> QED BY <1>2, <1>3, <1>4 DEF SamplesOK

LEMMA ReadStep ==
  ASSUME IInv, NEW f \in net, ReadFrame(f), UNCHANGED <<kind, oversize>>
  PROVE  IInv'
<1>1. /\ net' \subseteq Frames /\ f.t = "pong" /\ pc = "read"
      /\ UNCHANGED <<ph, i, spent, broken, missed, sent, status>>
  BY DEF ReadFrame, IInv, TypeOK
<1>2. CASE ~Matches(f)
  BY <1>1, <1>2 DEF ReadFrame, IInv, TypeOK, LoopOK, SamplesOK
<1>3. CASE Matches(f) /\ ph = "latency"
  <2>1. /\ rtts' = Append(rtts, [probe |-> Seq0, pong |-> Seq0]) /\ pc' = "gap"
        /\ recv' = recv
    BY <1>3 DEF ReadFrame, Answered, Matches
  <2>2. SamplesOK' /\ rtts' \in Seq([probe : Seqs, pong : Seqs])
    BY <1>1, <1>3, <2>1, SampleStep
  <2> QED BY <1>1, <1>3, <2>1, <2>2 DEF IInv, TypeOK, LoopOK
<1>4. CASE Matches(f) /\ ph = "loss"
  BY <1>1, <1>4 DEF ReadFrame, Answered, IInv, TypeOK, LoopOK, SamplesOK
<1> QED BY <1>2, <1>3, <1>4 DEF IInv, TypeOK, Phases

LEMMA InvStep == IInv /\ [Next]_vars => IInv'
<1> SUFFICES ASSUME IInv, [Next]_vars PROVE IInv'
  OBVIOUS
<1> USE DEF result
<1>0. UNCHANGED <<kind, oversize>>
  BY DEF Next, vars
<1>1. ASSUME NEW f \in net, Echo(f) PROVE IInv'
  <2>1. f \in Frames /\ [f EXCEPT !.t = "pong"] \in Frames
    BY DEF IInv, TypeOK, Frames
  <2>2. net' \subseteq Frames
    BY <1>1, <2>1 DEF Echo, IInv, TypeOK
  <2> QED BY <1>0, <1>1, <2>2 DEF Echo, IInv, TypeOK, LoopOK, SamplesOK
<1>2. ASSUME NEW f \in net, Lose(f) PROVE IInv'
  <2>1. f.seq \in Seqs
    BY DEF IInv, TypeOK, Frames
  <2> QED BY <1>0, <1>2, <2>1 DEF Lose, IInv, TypeOK, LoopOK, SamplesOK
<1>3. CASE Break
  BY <1>0, <1>3 DEF Break, IInv, TypeOK, LoopOK, SamplesOK
<1>4. CASE SpendBudget
  BY <1>0, <1>4 DEF SpendBudget, IInv, TypeOK, LoopOK, SamplesOK
<1>5. CASE Dial
  <2>1. /\ pc = "dial" /\ pc' \in {"next", "done"} /\ status' \in {"unset", "ok", "failed", "skipped"}
        /\ UNCHANGED <<ph, i, net, spent, broken, rtts, missed, sent, recv>>
    BY <1>5 DEF Dial, Finish, IInv, TypeOK
  <2>2. TypeOK'
    <3>1. (spent \in BOOLEAN /\ broken \in BOOLEAN)'
      BY <2>1 DEF IInv, TypeOK
    <3>2. /\ (pc \in {"dial", "next", "read", "gap", "done"})'
          /\ (status \in {"unset", "ok", "failed", "skipped"})'
      BY <2>1
    <3>3. /\ (ph \in Phases /\ i \in 0 .. Pings /\ net \subseteq Frames)'
          /\ (kind \in Kinds /\ oversize \subseteq Phases /\ rtts \in Seq([probe : Seqs, pong : Seqs]))'
          /\ (missed \in Nat /\ recv \in 0 .. sent /\ sent \in 0 .. Pings)'
      BY <1>0, <2>1 DEF IInv, TypeOK
    <3> QED BY <3>1, <3>2, <3>3 DEF TypeOK
  <2>3. LoopOK'
    BY <2>1 DEF IInv, TypeOK, LoopOK
  <2>4. SamplesOK'
    BY <2>1 DEF IInv, TypeOK, SamplesOK
  <2> QED BY <2>2, <2>3, <2>4 DEF IInv
<1>6. CASE SendProbe
  <2>1. [seq |-> Seq0, t |-> "ping"] \in Frames
    BY SeqType DEF Frames
  <2>2. net' \subseteq Frames
    BY <1>6, <2>1 DEF SendProbe, IInv, TypeOK
  <2>3. /\ pc = "next" /\ pc' = "read" /\ i < Pings
        /\ sent' = IF ph = "loss" THEN sent + 1 ELSE sent
        /\ UNCHANGED <<ph, i, spent, broken, rtts, missed, recv, status>>
    BY <1>6 DEF SendProbe, Probing
  <2> QED BY <1>0, <2>2, <2>3 DEF IInv, TypeOK, LoopOK, SamplesOK, Phases
<1>7. CASE SendFails
  BY <1>0, <1>7 DEF SendFails, Probing, Finish, IInv, TypeOK, LoopOK, SamplesOK
<1>8. CASE ReadFails
  <2>1. missed' \in Nat
    BY <1>8 DEF ReadFails, IInv, TypeOK
  <2>2. /\ pc = "read" /\ pc' \in {"gap", "done"} /\ status' \in {"unset", "ok", "failed", "skipped"}
        /\ UNCHANGED <<ph, i, net, spent, broken, rtts, sent, recv>>
    <3>1. CASE Stream
      BY <1>8, <3>1 DEF ReadFails, Finish, IInv, TypeOK
    <3>2. CASE ~Stream
      <4>1. pc = "read" /\ pc' = "gap" /\ status' = status
        BY <1>8, <3>2 DEF ReadFails
      <4> QED BY <1>8, <4>1 DEF ReadFails, IInv, TypeOK
    <3> QED BY <3>1, <3>2
  <2>3. \A j \in 1 .. Len(rtts) : rtts[j].probe.i \in Nat
    BY SampleType DEF IInv
  <2>4. TypeOK'
    <3>1. (spent \in BOOLEAN /\ broken \in BOOLEAN)'
      BY <2>2 DEF IInv, TypeOK
    <3>2. /\ (pc \in {"dial", "next", "read", "gap", "done"})'
          /\ (status \in {"unset", "ok", "failed", "skipped"})'
      BY <2>2
    <3>3. /\ (ph \in Phases /\ i \in 0 .. Pings /\ net \subseteq Frames)'
          /\ (kind \in Kinds /\ oversize \subseteq Phases /\ rtts \in Seq([probe : Seqs, pong : Seqs]))'
          /\ (recv \in 0 .. sent /\ sent \in 0 .. Pings)'
      BY <1>0, <2>2 DEF IInv, TypeOK
    <3> QED BY <1>0, <2>1, <3>1, <3>2, <3>3 DEF TypeOK
  <2>5. LoopOK'
    BY <2>2 DEF IInv, TypeOK, LoopOK
  <2>6. SamplesOK'
    BY <2>2, <2>3 DEF IInv, TypeOK, SamplesOK
  <2> QED BY <2>4, <2>5, <2>6 DEF IInv
<1>9. CASE Gap
  <2>1. \A j \in 1 .. Len(rtts) : rtts[j].probe.i \in Nat
    BY SampleType DEF IInv
  <2> QED BY <1>0, <1>9, <2>1 DEF Gap, IInv, TypeOK, LoopOK, SamplesOK
<1>10. CASE EndPhase
  BY <1>0, <1>10 DEF EndPhase, Finish, IInv, TypeOK, LoopOK, SamplesOK, Phases
<1>11. ASSUME NEW f \in net, ReadFrame(f) PROVE IInv'
  BY <1>0, <1>11, ReadStep
<1>12. CASE UNCHANGED vars
  BY <1>0, <1>12 DEF vars, state, IInv, TypeOK, LoopOK, SamplesOK
<1> QED BY <1>0, <1>1, <1>2, <1>3, <1>4, <1>5, <1>6, <1>7, <1>8, <1>9, <1>10, <1>11, <1>12
        DEF Next, Run, vars

(* The type invariant, with the counters of the report in their bounds. *)
THEOREM TypeCorrect == Spec => []TypeOK
<1>1. IInv => TypeOK
  BY DEF IInv
<1> QED BY <1>1, InvInit, InvStep, PTL DEF Spec

(* Every round trip is timed against the echo of its own probe, and no     *)
(* echo is used twice, for any number of stale and duplicated pongs.       *)
THEOREM RTTsAreHonest == Spec => []HonestRTT
<1>1. IInv => HonestRTT
  <2> SUFFICES ASSUME IInv, NEW j \in DOMAIN rtts
               PROVE  /\ rtts[j].pong = rtts[j].probe
                      /\ \A k \in DOMAIN rtts : rtts[k].pong = rtts[j].pong => k = j
    BY DEF HonestRTT
  <2>1. DOMAIN rtts = 1 .. Len(rtts) /\ Len(rtts) \in Nat
    BY LenProperties DEF IInv, TypeOK
  <2>2. \A k \in 1 .. Len(rtts) : rtts[k].pong = rtts[k].probe /\ rtts[k].probe.i \in Nat
    BY <2>1, SampleType DEF IInv, SamplesOK
  <2>3. ASSUME NEW k \in 1 .. Len(rtts), rtts[k].pong = rtts[j].pong PROVE k = j
    <3>1. rtts[k].probe.i = rtts[j].probe.i /\ rtts[j].probe.i \in Nat
      BY <2>1, <2>2, <2>3
    <3>2. ~(k < j) /\ ~(j < k)
      BY <2>1, <3>1 DEF IInv, SamplesOK
    <3> QED BY <2>1, <3>2
  <2> QED BY <2>1, <2>2, <2>3
<1> QED BY <1>1, InvInit, InvStep, PTL DEF Spec

-----------------------------------------------------------------------------
(* Streams. *)

(* While a stream has not failed, the one frame in flight is the probe in *)
(* hand or its pong, and nothing is in flight between two probes.         *)
StreamOK ==
  /\ kind \in Kinds /\ (pc # "done" => status = "unset")
  /\ Stream /\ status # "failed" =>
       /\ missed = 0
       /\ IF pc = "read" THEN \E t \in {"ping", "pong"} : net = {[seq |-> Seq0, t |-> t]} ELSE net = {}

LEMMA StreamInit == Init => StreamOK
BY DEF Init, StreamOK

LEMMA StreamStep == StreamOK /\ [Next]_vars => StreamOK'
<1> SUFFICES ASSUME StreamOK, [Next]_vars PROVE StreamOK'
  OBVIOUS
<1> USE DEF StreamOK, Stream, result
<1>0. kind' = kind
  BY DEF Next, vars
<1>1. ASSUME NEW f \in net, Echo(f) PROVE StreamOK'
  <2>1. UNCHANGED <<pc, ph, i, missed, status>>
    BY <1>1 DEF Echo
  <2>2. CASE Stream /\ status # "failed" /\ pc = "read"
    <3>1. f = [seq |-> Seq0, t |-> "ping"] /\ net = {f}
      BY <1>1, <2>2 DEF Echo
    <3>2. net' = {[seq |-> Seq0, t |-> "pong"]}
      BY <1>1, <2>2, <3>1 DEF Echo
    <3> QED BY <1>0, <2>1, <3>2 DEF Seq0
  <2> QED BY <1>0, <2>1, <2>2
<1>2. ASSUME NEW f \in net, Lose(f) PROVE StreamOK'
  BY <1>0, <1>2 DEF Lose
<1>3. CASE Break \/ SpendBudget \/ UNCHANGED vars
  BY <1>0, <1>3 DEF Break, SpendBudget, vars, state, Seq0
<1>4. CASE Dial
  BY <1>0, <1>4 DEF Dial, Finish
<1>5. CASE SendProbe
  <2>1. /\ pc = "next" /\ pc' = "read" /\ net' = net \cup {[seq |-> Seq0, t |-> "ping"]}
        /\ UNCHANGED <<ph, i, missed, status>>
    BY <1>5 DEF SendProbe, Probing
  <2> QED BY <1>0, <2>1 DEF Seq0
<1>6. CASE SendFails \/ EndPhase \/ Gap
  BY <1>0, <1>6 DEF SendFails, EndPhase, Gap, Probing, Finish
<1>7. CASE ReadFails
  BY <1>0, <1>7 DEF ReadFails, Finish
<1>8. ASSUME NEW f \in net, ReadFrame(f) PROVE StreamOK'
  <2>1. pc = "read" /\ status = "unset" /\ f.t = "pong" /\ UNCHANGED <<ph, i, missed, status>>
    BY <1>8 DEF ReadFrame
  <2>2. CASE ~Stream
    <3>1. pc' # "done"
      BY <1>8, <2>1 DEF ReadFrame, Answered
    <3> QED BY <1>0, <2>1, <2>2, <3>1
  <2>3. CASE Stream
    <3>1. net = {[seq |-> Seq0, t |-> "pong"]} /\ f = [seq |-> Seq0, t |-> "pong"]
      BY <2>1, <2>3
    <3>2. Matches(f) /\ net' = {} /\ pc' = "gap"
      BY <1>8, <2>3, <3>1 DEF ReadFrame, Matches, Answered
    <3> QED BY <1>0, <2>1, <3>2
  <2> QED BY <2>2, <2>3
<1> QED BY <1>1, <1>2, <1>3, <1>4, <1>5, <1>6, <1>7, <1>8 DEF Next, Run

(* A stream protocol that is reported OK (benchmark.Run) got the echo of    *)
(* every probe it sent, for any number of pings.                           *)
THEOREM StreamsAnswered == Spec => []StreamOkMeansAnswered
<1>1. StreamOK => StreamOkMeansAnswered
  <2> SUFFICES ASSUME StreamOK, Stream, status = "ok" PROVE missed = 0 /\ net = {}
    BY DEF StreamOkMeansAnswered
  <2>1. pc = "done"
    BY DEF StreamOK
  <2> QED BY <2>1 DEF StreamOK
<1> QED BY <1>1, StreamInit, StreamStep, PTL DEF Spec
-----------------------------------------------------------------------------
(* The loss phase. *)

(* A probe is owed while it is in hand, and the one a spent budget cut off. *)
Owed == IF spent \/ (ph = "loss" /\ pc = "read") THEN 1 ELSE 0
LossOK == broken \/ sent <= recv + Owed

LEMMA LossInit == Init => LossOK
BY DEF Init, LossOK, Owed

LEMMA LossStep == TypeOK /\ LoopOK /\ LossOK /\ [Next]_vars => LossOK'
<1> SUFFICES ASSUME TypeOK, LoopOK, LossOK, [Next]_vars PROVE LossOK'
  OBVIOUS
<1> USE DEF result, LossOK, Owed
<1>0. sent \in Nat /\ recv \in Nat
  BY DEF TypeOK
<1>1. ASSUME NEW f \in net, Echo(f) \/ Lose(f) PROVE LossOK'
  BY <1>1 DEF Echo, Lose
<1>2. CASE Break \/ SpendBudget \/ UNCHANGED vars
  BY <1>0, <1>2 DEF Break, SpendBudget, vars, state
<1>3. CASE Dial
  BY <1>0, <1>3 DEF Dial, Finish, LoopOK
<1>4. CASE SendProbe
  BY <1>0, <1>4 DEF SendProbe, Probing
<1>5. CASE SendFails
  BY <1>0, <1>5 DEF SendFails, Probing, Finish
<1>6. CASE ReadFails
  <2>1. UNCHANGED <<ph, spent, broken, sent, recv>> /\ (spent \/ broken)
    BY <1>6 DEF ReadFails
  <2> QED BY <1>0, <2>1
<1>7. CASE Gap \/ EndPhase
  BY <1>0, <1>7 DEF Gap, EndPhase, Finish
<1>8. ASSUME NEW f \in net, ReadFrame(f) PROVE LossOK'
  <2>1. pc = "read" /\ UNCHANGED <<ph, spent, broken, sent>>
    BY <1>8 DEF ReadFrame
  <2>2. CASE ~Matches(f)
    BY <1>8, <2>1, <2>2 DEF ReadFrame
  <2>3. CASE Matches(f) /\ ph = "latency"
    BY <1>0, <2>1, <2>3, <1>8 DEF ReadFrame, Answered, LoopOK
  <2>4. CASE Matches(f) /\ ph = "loss"
    BY <1>0, <2>1, <2>4, <1>8 DEF ReadFrame, Answered
  <2> QED BY <2>2, <2>3, <2>4 DEF TypeOK, Phases
<1> QED BY <1>1, <1>2, <1>3, <1>4, <1>5, <1>6, <1>7, <1>8 DEF Next, Run

(* Over a tunnel that does not break the loss phase reports at most the    *)
(* one probe the budget cut off, for any number of pings and whatever is   *)
(* lost, late or doubled.                                                  *)
THEOREM LossIsHonest == Spec => []NoMisreportedLoss
<1>1. IInv => TypeOK /\ LoopOK
  BY DEF IInv
<1>2. TypeOK /\ LossOK => NoMisreportedLoss
  <2> SUFFICES ASSUME TypeOK, LossOK, pc = "done", ~broken
               PROVE  sent <= recv + (IF spent THEN 1 ELSE 0)
    BY DEF NoMisreportedLoss
  <2>1. Owed = IF spent THEN 1 ELSE 0
    BY DEF Owed
  <2> QED BY <2>1 DEF LossOK
<1> QED BY <1>1, <1>2, InvInit, InvStep, LossInit, LossStep, PTL DEF Spec
=============================================================================
