-------------------------------- MODULE Probe --------------------------------
(***************************************************************************)
(* benchmark.Run: the latency and loss probes of one protocol.  The client *)
(* sends one ping at a time and waits for its pong; the server echoes.     *)
(* Time is one bit: the overall budget (cfg.Timeout) is spent or not, for  *)
(* every read waits for what remains of it.                                *)
(*                                                                         *)
(* A datagram tunnel may lose, delay and duplicate frames; a stream does   *)
(* none of it.  Either may break (reset, port unreachable).                *)
(***************************************************************************)
EXTENDS Naturals, Sequences, FiniteSets

CONSTANT Pings  \* cfg.Pings

ASSUME ProbeAssumption == Pings \in Nat

Kinds == {"stream", "datagram"}
Phases == {"latency", "loss"}

(* A probe is named by its phase and its number: the two phases use *)
(* distinct sequence spaces (0 and 1 << 30).                        *)
Seqs == [ph : Phases, i : 0 .. Pings]
Frames == [seq : Seqs, t : {"ping", "pong"}]

VARIABLES
  kind,         \* p.Kind()
  oversize,     \* the phases whose frames no WriteFrame takes: larger than MaxFrame or the MTU
  pc,           \* dial, next (loop head), read (readSeq), gap (Sleep), done
  ph, i,        \* the phase and its loop counter
  net,          \* frames in flight
  spent,        \* the budget is spent
  broken,       \* the tunnel broke
  rtts,         \* latency samples: the probe, and the pong taken for its echo
  missed,       \* history: latency probes that got no echo
  sent, recv,   \* res.Sent, res.Received
  status        \* res.Status

result == <<rtts, missed, sent, recv, status>>
state == <<pc, ph, i, net, spent, broken, result>>
vars == <<kind, oversize, state>>

Stream == kind = "stream"

Init ==
  /\ kind \in Kinds /\ oversize \in SUBSET Phases
  /\ pc = "dial" /\ ph = "latency" /\ i = 0
  /\ net = {} /\ spent = FALSE /\ broken = FALSE
  /\ rtts = << >> /\ missed = 0 /\ sent = 0 /\ recv = 0 /\ status = "unset"

-----------------------------------------------------------------------------
(* The tunnel and the server's EchoLoop. *)

(* EchoLoop marks a ping as a pong and sends it back; the network may *)
(* deliver a datagram twice.                                          *)
Echo(f) ==
  /\ f.t = "ping" /\ ~broken
  /\ \E keep \in {{}} \cup (IF Stream THEN {} ELSE {{f}}) :
       net' = (net \ {f}) \cup keep \cup {[f EXCEPT !.t = "pong"]}
  /\ UNCHANGED <<pc, ph, i, spent, broken, result>>

Lose(f) ==
  /\ ~Stream
  /\ net' = net \ {f}
  /\ UNCHANGED <<pc, ph, i, spent, broken, result>>

Break ==
  /\ ~broken /\ broken' = TRUE
  /\ UNCHANGED <<pc, ph, i, net, spent, result>>

SpendBudget ==
  /\ pc # "dial" /\ ~spent /\ spent' = TRUE
  /\ UNCHANGED <<pc, ph, i, net, broken, result>>

-----------------------------------------------------------------------------
(* Run. *)

(* The end of Run: a result without error is OK if anything was measured. *)
Finish(s) ==
  /\ pc' = "done"
  /\ status' = IF s = "unset" THEN (IF rtts = << >> THEN "failed" ELSE "ok") ELSE s

Dial ==
  /\ pc = "dial"
  /\ \/ pc' = "next" /\ UNCHANGED status
     \/ Finish("skipped")
  /\ UNCHANGED <<ph, i, net, spent, broken, rtts, missed, sent, recv>>

Probing == pc = "next" /\ i < Pings /\ ~spent
Seq0 == [ph |-> ph, i |-> i]

(* EncodeFrame and WriteFrame, then readSeq. *)
SendProbe ==
  /\ Probing /\ ~broken /\ ph \notin oversize
  /\ net' = net \cup {[seq |-> Seq0, t |-> "ping"]}
  /\ pc' = "read"
  /\ sent' = IF ph = "loss" THEN sent + 1 ELSE sent
  /\ UNCHANGED <<ph, i, spent, broken, rtts, missed, recv, status>>

(* EncodeFrame or WriteFrame fails: fatal to the latency phase, the end of *)
(* the loss phase.                                                         *)
SendFails ==
  /\ Probing /\ (broken \/ ph \in oversize)
  /\ Finish(IF ph = "latency" THEN "failed" ELSE "unset")
  /\ UNCHANGED <<ph, i, net, spent, broken, rtts, missed, sent, recv>>

(* The probe in hand is answered. *)
Answered(f) ==
  /\ pc' = "gap"
  /\ IF ph = "latency"
     THEN rtts' = Append(rtts, [probe |-> Seq0, pong |-> f.seq]) /\ UNCHANGED recv
     ELSE recv' = recv + 1 /\ UNCHANGED rtts

(* Mutant of Matches: any pong will do. *)
MatchesAny(f) == f.t = "pong"

(* readSeq's test on a decoded frame. *)
Matches(f) == f.t = "pong" /\ f.seq = Seq0

(* Mutant of ReadFrame: a stale pong ends readSeq with an error. *)
StaleEnds(f) ==
  /\ pc = "read" /\ ~spent /\ f.t = "pong"
  /\ net' = net \ {f}
  /\ IF Matches(f) THEN Answered(f) ELSE pc' = "gap" /\ UNCHANGED <<rtts, recv>>
  /\ UNCHANGED <<ph, i, spent, broken, missed, sent, status>>

(* readSeq takes a frame: the pong it waits for, or a stale one it ignores. *)
ReadFrame(f) ==
  /\ pc = "read" /\ ~spent /\ f.t = "pong"
  /\ \E keep \in {{}} \cup (IF Stream THEN {} ELSE {{f}}) : net' = (net \ {f}) \cup keep
  /\ IF Matches(f) THEN Answered(f) ELSE UNCHANGED <<pc, rtts, recv>>
  /\ UNCHANGED <<ph, i, spent, broken, missed, sent, status>>

(* Mutants of ReadFails: no deadline is set; a stream's failure is ignored. *)
ReadNeverTimesOut ==
  /\ pc = "read" /\ broken
  /\ pc' = "gap" /\ missed' = missed + 1
  /\ UNCHANGED <<ph, i, net, spent, broken, rtts, sent, recv, status>>
ReadFailureIgnored ==
  /\ pc = "read" /\ (spent \/ broken)
  /\ pc' = "gap" /\ missed' = (IF ph = "latency" THEN missed + 1 ELSE missed)
  /\ UNCHANGED <<ph, i, net, spent, broken, rtts, sent, recv, status>>

(* readSeq fails: the budget is spent or the tunnel broke.  That is fatal *)
(* to a stream; a datagram probe is missed, and the loop goes on.         *)
ReadFails ==
  /\ pc = "read" /\ (spent \/ broken)
  /\ missed' = (IF ph = "latency" THEN missed + 1 ELSE missed)
  /\ IF Stream THEN Finish("failed") ELSE pc' = "gap" /\ UNCHANGED status
  /\ UNCHANGED <<ph, i, net, spent, broken, rtts, sent, recv>>

(* Sleep(cfg.Gap), then the next iteration. *)
Gap ==
  /\ pc = "gap"
  /\ pc' = "next" /\ i' = i + 1
  /\ UNCHANGED <<ph, net, spent, broken, result>>

(* The loop is over: a datagram protocol goes on to the loss phase. *)
EndPhase ==
  /\ pc = "next" /\ (i = Pings \/ spent)
  /\ IF ph = "latency" /\ ~Stream
     THEN ph' = "loss" /\ i' = 0 /\ UNCHANGED <<pc, status>>
     ELSE Finish("unset") /\ UNCHANGED <<ph, i>>
  /\ UNCHANGED <<net, spent, broken, rtts, missed, sent, recv>>

Run ==
  \/ Dial \/ SendProbe \/ SendFails \/ ReadFails \/ Gap \/ EndPhase
  \/ \E f \in net : ReadFrame(f)

Next ==
  /\ UNCHANGED <<kind, oversize>>
  /\ \/ Run \/ Break \/ SpendBudget
     \/ \E f \in net : Echo(f) \/ Lose(f)

(* The client keeps running and time passes; the network owes nothing. *)
Spec == Init /\ [][Next]_vars /\ WF_state(SpendBudget)
  /\ WF_state(Dial \/ SendProbe \/ SendFails \/ ReadFails \/ Gap \/ EndPhase)

-----------------------------------------------------------------------------
(* Properties. *)

TypeOK ==
  /\ kind \in Kinds /\ oversize \subseteq Phases
  /\ pc \in {"dial", "next", "read", "gap", "done"}
  /\ ph \in Phases /\ i \in 0 .. Pings
  /\ net \subseteq Frames
  /\ spent \in BOOLEAN /\ broken \in BOOLEAN
  /\ rtts \in Seq([probe : Seqs, pong : Seqs])
  /\ missed \in Nat /\ recv \in 0 .. sent /\ sent \in 0 .. Pings
  /\ status \in {"unset", "ok", "failed", "skipped"}

(* A round trip is timed against the echo of the very probe that was sent  *)
(* for it, and every echo is used once, whatever stale or duplicated pongs *)
(* are still in flight (readSeq).                                          *)
HonestRTT ==
  \A j \in DOMAIN rtts :
    /\ rtts[j].pong = rtts[j].probe
    /\ \A k \in DOMAIN rtts : rtts[k].pong = rtts[j].pong => k = j

(* The loss phase misreports nothing, however frames are lost, delayed or  *)
(* doubled: unless the tunnel broke, every probe counted as sent is        *)
(* counted as received, but for the one a spent budget cuts off (a read    *)
(* waits for all that remains, so one lost frame is the last probe's).     *)
NoMisreportedLoss == pc = "done" /\ ~broken => sent <= recv + (IF spent THEN 1 ELSE 0)

(* A stream protocol reported OK answered every probe that was sent. *)
StreamOkMeansAnswered == Stream /\ status = "ok" => missed = 0 /\ net = {}

(* The budget bounds the run (the note above Run): once it is spent Run    *)
(* returns, however dead the tunnel.                                       *)
BudgetBounds == spent ~> pc = "done"

(* A missed latency probe of a datagram protocol is just loss, counted in  *)
(* the loss phase (the comment in Run): a report of OK over a tunnel that  *)
(* did not break shows that loss.  It does not when the missed probe used  *)
(* up the budget: no run claims this.                                      *)
MissedProbeCounted == status = "ok" /\ ~Stream /\ ~broken /\ missed > 0 => recv < sent
=============================================================================
