----------------------------- MODULE Throughput -----------------------------
(***************************************************************************)
(* benchmark.RunThroughput: a warm-up frame and its echo, then a writer    *)
(* that blasts frames until the deadline and a reader goroutine that       *)
(* counts the echoes until drainGrace later.  Both use one tunnel, whose   *)
(* deadline is set by the reader only.                                     *)
(*                                                                         *)
(* What SetReadDeadline does depends on the tunnel: "combined" (streams    *)
(* and connected datagrams) sets the deadline of writes too, "read" (raw   *)
(* sockets) that of reads only, "teardown" (naive) closes the tunnel when  *)
(* it expires.  Time is in ticks, each longer than a goroutine needs to    *)
(* notice an expired deadline.  MaxSent bounds the frames of the blast,    *)
(* MaxExtra the answers that a datagram tunnel brings beyond them: those   *)
(* of doubled frames and, on raw sockets, those meant for somebody else.   *)
(***************************************************************************)
EXTENDS Integers

CONSTANTS
  Warm,         \* the warm-up's read deadline (5 s)
  Dur, Grace,   \* the length of the blast, and drainGrace
  Cap,          \* frames a stream buffers in one direction
  MaxSent, MaxExtra

ASSUME ThroughputAssumption == {Warm, Dur, Grace, Cap, MaxSent, MaxExtra} \subseteq Nat \ {0}

(* The kinds of tunnels: tcp and its like; udp and its like; naive; gre and *)
(* its like.  On each the frame asked for fits into MaxFrame or does not.   *)
Tunnels ==
  { k \in [stream : BOOLEAN, deadlines : {"combined", "read", "teardown"}, fits : BOOLEAN] :
      /\ k.deadlines = "read" => ~k.stream
      /\ k.deadlines = "teardown" => k.stream }

MaxNow == Warm + Dur + Grace

VARIABLES
  kind,         \* the kind of the tunnel
  now,
  wpc,          \* the caller: dial, warm, echo, blast, write, drain, done
  rpc,          \* the reader goroutine: off, set, read, done
  rdl,          \* the deadline set on the tunnel (0: none)
  open, broken, \* the tunnel is open; history: the network or the server broke it
  warm,         \* the warm-up frame: none, up, down, read, lost
  up, down,     \* blast and surplus frames on their way to the server, and back
  extra,        \* history: the frames doubled and the foreign answers
  start, stop,  \* blastStart, and when the writer stopped (-1: not yet)
  sent, recv,   \* sentFrames, recvFrames
  status

net == <<warm, up, down, extra>>
tunnel == <<rdl, open, broken>>
blast == <<start, stop>>
state == <<now, wpc, rpc, tunnel, net, blast, sent, recv, status>>
vars == <<kind, state>>

Stream == kind.stream
Deadlines == kind.deadlines

Init ==
  /\ kind \in Tunnels
  /\ now = 0 /\ wpc = "dial" /\ rpc = "off"
  /\ rdl = 0 /\ open = TRUE /\ broken = FALSE
  /\ warm = "none" /\ up = 0 /\ down = 0 /\ extra = 0
  /\ start = -1 /\ stop = -1 /\ sent = 0 /\ recv = 0 /\ status = "unset"

Deadline == start + Dur
Expired == rdl # 0 /\ now >= rdl

-----------------------------------------------------------------------------
(* Time, the network and the server's EchoLoop. *)

(* The clock runs from the warm-up on.  Expired deadlines are noticed, and *)
(* the reader goroutine started, within a tick.                            *)
Tick ==
  /\ now < MaxNow /\ wpc \notin {"dial", "warm"}
  /\ ~(Deadlines = "teardown" /\ Expired /\ open)
  /\ ~(Expired /\ (wpc = "echo" \/ rpc = "read")) /\ rpc # "set"
  /\ ~(wpc = "blast" /\ now >= Deadline)
  /\ ~(wpc = "write" /\ (~open \/ (Deadlines = "combined" /\ Expired)))
  /\ now' = now + 1
  /\ UNCHANGED <<wpc, rpc, tunnel, net, blast, sent, recv, status>>

EchoWarm ==
  /\ warm = "up" /\ warm' = "down"
  /\ UNCHANGED <<now, wpc, rpc, tunnel, up, down, extra, blast, sent, recv, status>>

(* The server reads and writes in turn: a full stream back blocks it. *)
EchoBlast ==
  /\ up > 0
  /\ Stream => warm # "up" /\ down < Cap
  /\ up' = up - 1 /\ down' = down + 1
  /\ UNCHANGED <<now, wpc, rpc, tunnel, warm, extra, blast, sent, recv, status>>

Lose ==
  /\ ~Stream
  /\ \/ warm \in {"up", "down"} /\ warm' = "lost" /\ UNCHANGED <<up, down>>
     \/ up > 0 /\ up' = up - 1 /\ UNCHANGED <<warm, down>>
     \/ down > 0 /\ down' = down - 1 /\ UNCHANGED <<warm, up>>
  /\ UNCHANGED <<now, wpc, rpc, tunnel, extra, blast, sent, recv, status>>

(* The network doubles a frame or an answer, or a raw socket hears an echo  *)
(* that was meant for another client of the host.                           *)
Surplus ==
  /\ ~Stream /\ extra < MaxExtra /\ wpc # "dial"
  /\ \/ (up > 0 \/ warm = "up") /\ up' = up + 1 /\ UNCHANGED down
     \/ (down > 0 \/ warm = "down" \/ Deadlines = "read") /\ down' = down + 1 /\ UNCHANGED up
  /\ extra' = extra + 1
  /\ UNCHANGED <<now, wpc, rpc, tunnel, warm, blast, sent, recv, status>>

Break ==
  /\ open /\ wpc \notin {"dial", "done"}
  /\ open' = FALSE /\ broken' = TRUE
  /\ UNCHANGED <<now, wpc, rpc, rdl, net, blast, sent, recv, status>>

(* The timer of a tunnel that emulates deadlines closes it. *)
Teardown ==
  /\ Deadlines = "teardown" /\ Expired /\ open
  /\ open' = FALSE
  /\ UNCHANGED <<now, wpc, rpc, rdl, broken, net, blast, sent, recv, status>>

-----------------------------------------------------------------------------
(* The caller: dial, warm-up, blast, result. *)

(* After the dial the frame is encoded, which fails beyond MaxFrame; the *)
(* deferred Close follows.                                               *)
Dial ==
  /\ wpc = "dial"
  /\ \/ kind.fits /\ wpc' = "warm" /\ UNCHANGED <<open, status>>
     \/ ~kind.fits /\ wpc' = "done" /\ open' = FALSE /\ status' = "failed"
     \/ wpc' = "done" /\ status' = "skipped" /\ UNCHANGED open
  /\ UNCHANGED <<now, rpc, rdl, broken, net, blast, sent, recv>>

(* The warm-up frame is written, and the read deadline set for its echo. *)
WarmWrite ==
  /\ wpc = "warm"
  /\ IF open
     THEN wpc' = "echo" /\ warm' = "up" /\ rdl' = now + Warm /\ UNCHANGED status
     ELSE wpc' = "done" /\ status' = "failed" /\ UNCHANGED <<warm, rdl>>
  /\ UNCHANGED <<now, rpc, open, broken, up, down, extra, blast, sent, recv>>

StartBlast ==
  /\ wpc' = "blast" /\ rpc' = "set" /\ start' = now

(* Mutant of WarmRead: the echo of the warm-up is not drained. *)
WarmNotDrained ==
  /\ wpc = "echo" /\ StartBlast
  /\ UNCHANGED <<now, tunnel, net, stop, sent, recv, status>>

(* ReadFrame returns the next frame, the echo or a surplus one, or fails; *)
(* either way the blast begins.                                            *)
WarmRead ==
  /\ wpc = "echo"
  /\ \/ warm = "down" /\ open /\ ~Expired /\ warm' = "read" /\ UNCHANGED down
     \/ down > 0 /\ open /\ ~Expired /\ down' = down - 1 /\ UNCHANGED warm
     \/ (Expired \/ ~open) /\ UNCHANGED <<warm, down>>
  /\ StartBlast
  /\ UNCHANGED <<now, tunnel, up, extra, stop, sent, recv, status>>

Stops == wpc' = "drain" /\ stop' = now

(* The loop head: the blast ends at its deadline. *)
BlastCheck ==
  /\ wpc = "blast"
  /\ IF now < Deadline
     THEN sent < MaxSent /\ wpc' = "write" /\ UNCHANGED stop
     ELSE Stops
  /\ UNCHANGED <<now, rpc, tunnel, net, start, sent, recv, status>>

(* WriteFrame accepts the frame; a stream blocks while its buffer is full. *)
BlastWrite ==
  /\ wpc = "write" /\ open /\ ~(Deadlines = "combined" /\ Expired)
  /\ Stream => up < Cap
  /\ up' = up + 1 /\ sent' = sent + 1 /\ wpc' = "blast"
  /\ UNCHANGED <<now, rpc, tunnel, warm, down, extra, blast, recv, status>>

(* Mutant of NormalEnd: only a deadline error is a normal end. *)
OnlyDeadlineErrors == open

(* An error is the normal end of the blast when it is a deadline error (the *)
(* tunnel is still open) or comes at or after the deadline.                 *)
NormalEnd == open \/ now >= Deadline

BlastWriteFails ==
  /\ wpc = "write"
  /\ ~open \/ (Deadlines = "combined" /\ Expired)
  /\ Stops
  /\ status' = IF NormalEnd THEN status ELSE "failed"
  /\ UNCHANGED <<now, rpc, tunnel, net, start, sent, recv>>

(* <-readDone, the totals, and the deferred Close. *)
Result ==
  /\ wpc = "drain" /\ rpc = "done"
  /\ wpc' = "done"
  /\ status' = IF status = "unset" THEN "ok" ELSE status
  /\ open' = FALSE
  /\ UNCHANGED <<now, rpc, rdl, broken, net, blast, sent, recv>>

-----------------------------------------------------------------------------
(* The reader goroutine. *)

(* Mutants of ReaderSet: the deadline is cleared; or it is drainGrace from now. *)
ReaderClears ==
  /\ rpc = "set" /\ rpc' = "read" /\ rdl' = 0
  /\ UNCHANGED <<now, wpc, open, broken, net, blast, sent, recv, status>>
ReaderSetsGraceOnly ==
  /\ rpc = "set" /\ rpc' = "read" /\ rdl' = now + Grace
  /\ UNCHANGED <<now, wpc, open, broken, net, blast, sent, recv, status>>

(* SetReadDeadline, which fails on a closed connection. *)
ReaderSet ==
  /\ rpc = "set"
  /\ \/ rpc' = "read" /\ rdl' = Deadline + Grace
     \/ ~open /\ rpc' = "done" /\ UNCHANGED rdl
  /\ UNCHANGED <<now, wpc, open, broken, net, blast, sent, recv, status>>

(* An echo is counted, the warm-up's too if it comes this late. *)
ReaderCounts ==
  /\ rpc = "read" /\ open /\ ~Expired
  /\ \/ warm = "down" /\ warm' = "read" /\ UNCHANGED down
     \/ down > 0 /\ (Stream => warm \notin {"up", "down"}) /\ down' = down - 1 /\ UNCHANGED warm
  /\ recv' = recv + 1
  /\ UNCHANGED <<now, wpc, rpc, tunnel, up, extra, blast, sent, status>>

ReaderEnds ==
  /\ rpc = "read" /\ (Expired \/ ~open)
  /\ rpc' = "done"
  /\ UNCHANGED <<now, wpc, tunnel, net, blast, sent, recv, status>>

-----------------------------------------------------------------------------
Caller ==
  \/ Dial \/ WarmWrite \/ WarmRead \/ BlastCheck \/ BlastWrite \/ BlastWriteFails \/ Result
Reader == ReaderSet \/ ReaderCounts \/ ReaderEnds

Next ==
  /\ UNCHANGED kind
  /\ Tick \/ EchoWarm \/ EchoBlast \/ Lose \/ Surplus \/ Break \/ Teardown \/ Caller \/ Reader

(* Time passes, the caller and its goroutine run, and timers fire; the *)
(* network and the server owe nothing.                                 *)
Spec ==
  /\ Init /\ [][Next]_vars
  /\ WF_state(Tick) /\ WF_state(Caller) /\ WF_state(Reader) /\ WF_state(Teardown)

-----------------------------------------------------------------------------
(* Properties. *)

TypeOK ==
  /\ kind \in Tunnels
  /\ now \in 0 .. MaxNow
  /\ wpc \in {"dial", "warm", "echo", "blast", "write", "drain", "done"}
  /\ rpc \in {"off", "set", "read", "done"}
  /\ rdl \in {0, Warm, Deadline + Grace} /\ open \in BOOLEAN /\ broken \in BOOLEAN
  /\ warm \in {"none", "up", "down", "read", "lost"}
  /\ extra \in 0 .. MaxExtra
  /\ up \in 0 .. MaxSent + MaxExtra /\ down \in 0 .. MaxSent + MaxExtra
  /\ start \in -1 .. MaxNow /\ stop \in -1 .. MaxNow
  /\ sent \in 0 .. MaxSent /\ recv \in 0 .. MaxSent + MaxExtra + 1
  /\ status \in {"unset", "ok", "failed", "skipped"}

(* The warm-up's read ran out of its time. *)
WarmTimedOut == start >= Warm

(* Over a stream no more echoes are counted than frames were blasted; over *)
(* datagrams no more than those and what the network doubled or brought    *)
(* from others, so that the loss reported there may be below zero.  Both   *)
(* provided the warm-up's read did not time out.                           *)
CountsMatch ==
  wpc = "done" => WarmTimedOut \/ recv <= (IF Stream THEN sent ELSE sent + extra)

(* A run fails only when the tunnel broke or the frame does not fit, never *)
(* because the deadlines of the reader hit the writer, provided the        *)
(* warm-up's read did not time out (the comment at the writer).            *)
NoFalseFailure == status = "failed" => broken \/ WarmTimedOut \/ ~kind.fits

(* The writer blasts until the deadline: the deadlines of the reader never *)
(* cut the blast short, provided the warm-up's read did not time out or    *)
(* the deadlines are those of reads only.                                  *)
BlastsToDeadline ==
  stop # -1 => stop >= Deadline \/ broken \/ (WarmTimedOut /\ Deadlines # "read")

(* RunThroughput returns, whatever the network and the server do: the *)
(* reader's deadline ends it, and a write blocked across the deadline.*)
Returns == <>(wpc = "done")

(* A lost warm-up echo is not fatal (the comment at the warm-up): the blast *)
(* still runs until its deadline.  Its expired deadline may end the blast   *)
(* at the first write: no run claims this.                                  *)
WarmLossNotFatal == warm = "lost" /\ stop # -1 /\ ~broken => stop >= Deadline
=============================================================================
