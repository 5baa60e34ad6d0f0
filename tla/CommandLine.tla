---------------------------- MODULE CommandLine ----------------------------
(***************************************************************************)
(* main: the arguments of the client command are rewritten twice (the list *)
(* after --throughput-only becomes its value, single-dash flags get their  *)
(* second dash) before pflag parses them, and what they mean starts the    *)
(* client of Suite; the other commands change the host (HostSetup).        *)
(*                                                                         *)
(* An argument has a number of dashes, a name, and after a "=" a value: a  *)
(* sequence of arguments, joined by commas.  An argument that begins with  *)
(* no dash is a word.  Only the flags are left out that all behave alike.  *)
(***************************************************************************)
EXTENDS Suite, HostSetup

CONSTANTS Tokens, MaxArgs,        \* the arguments to choose from
          ServerConfs, Protocols, \* servers to meet; --protocols of the client
          Bases, Forwards         \* its base ports; the forwarding clients

VARIABLES command, argv, rewritten, opts

line == <<argv, rewritten, opts>>
vars == <<command, line, suite, setup>>

Word(w) == [dash |-> 0, name |-> w, eq |-> FALSE, value |-> << >>]
Flag(d, n) == [dash |-> d, name |-> n, eq |-> FALSE, value |-> << >>]
FlagIs(d, n, v) == [dash |-> d, name |-> n, eq |-> TRUE, value |-> v]

Words == [dash : {0}, name : Texts, eq : {FALSE}, value : {<< >>}]
Arguments == Words \cup [dash : 1 .. 2, name : Texts, eq : BOOLEAN, value : Seq(Words)]

-----------------------------------------------------------------------------
(* The rewriting. *)

IsWord(a) == a.dash = 0
BareOnly(a) == a.dash \in {1, 2} /\ a.name = "throughput-only" /\ ~a.eq

WordsAhead(args) ==
  LET flags == {i \in DOMAIN args : ~IsWord(args[i])} IN
  IF flags = {} THEN Len(args) ELSE Min(flags) - 1

(* expandThroughputOnlyList. *)
Expand[args \in Seq(Arguments)] ==
  IF args = << >> THEN << >>
  ELSE LET rest == Tail(args)
           n == WordsAhead(rest) IN
  IF BareOnly(args[1])
  THEN <<FlagIs(2, "throughput-only", SubSeq(rest, 1, n))>> \o Expand[SubSeq(rest, n + 1, Len(rest))]
  ELSE <<args[1]>> \o Expand[rest]

(* flagShape: the flags known, and whether each takes the next argument;   *)
(* throughput-only sets no NoOptDefVal, so that it counts as one that does. *)
TakesValue == [n \in {"blind", "password", "throughput", "throughput-only"} |-> n # "blind"]

\* Mutant of ConsumesNext: the value of a double-dash flag is not spared.
ConsumesNextSingle(a) ==
  a.dash = 1 /\ a.name \in DOMAIN TakesValue /\ TakesValue[a.name] /\ ~a.eq
ConsumesNext(a) ==
  a.dash \in {1, 2} /\ a.name \in DOMAIN TakesValue /\ TakesValue[a.name] /\ ~a.eq

TwoDashes(a) == IF a.dash = 1 /\ a.name \in DOMAIN TakesValue THEN [a EXCEPT !.dash = 2] ELSE a

NormalizeSingleDash[args \in Seq(Arguments)] ==
  IF args = << >> THEN << >>
  ELSE LET rest == Tail(args) IN
  IF ConsumesNext(args[1]) /\ rest # << >>
  THEN <<TwoDashes(args[1]), rest[1]>> \o NormalizeSingleDash[Tail(rest)]
  ELSE <<TwoDashes(args[1])>> \o NormalizeSingleDash[rest]

-----------------------------------------------------------------------------
(* The parsing. *)

Options == [err : BOOLEAN, blind : BOOLEAN, password : Seq(Arguments), throughput : Seq(Arguments),
            enabled : BOOLEAN, list : Seq(Arguments)]
Defaults == [err |-> FALSE, blind |-> FALSE, password |-> << >>, throughput |-> << >>,
             enabled |-> FALSE, list |-> << >>]
Err(o) == [o EXCEPT !.err = TRUE]

True == <<Word("true")>>
False == <<Word("false")>>

(* throughputOnlyFlag.Set; "" sets no list. *)
SetOnly(o, v) ==
  IF v = True THEN [o EXCEPT !.enabled = TRUE]
  ELSE IF v = False THEN [o EXCEPT !.enabled = FALSE]
  ELSE [o EXCEPT !.enabled = TRUE, !.list = v]

(* pflag's Set of a boolean; of all spellings it knows, "true" and "false". *)
SetBlind(o, v) == IF v \in {True, False} THEN [o EXCEPT !.blind = (v = True)] ELSE Err(o)

SetFlag(o, name, v) ==
  CASE name = "blind" -> SetBlind(o, v)
    [] name = "password" -> [o EXCEPT !.password = v]
    [] name = "throughput" -> [o EXCEPT !.throughput = v]
    [] name = "throughput-only" -> SetOnly(o, v)

(* pflag: an unknown flag, a shorthand, a value that cannot be set, or a    *)
(* flag that lacks its value ends the parsing; words in between are         *)
(* collected and ignored.  A boolean without a value is set to "true".      *)
Parse[args \in Seq(Arguments)] ==
  [o \in Options |->
     IF args = << >> \/ o.err THEN o
     ELSE LET a == args[1]
              rest == Tail(args) IN
     IF IsWord(a) THEN Parse[rest][o]
     ELSE IF a.dash = 1 \/ a.name \notin DOMAIN TakesValue THEN Err(o)
     ELSE IF a.eq THEN Parse[rest][SetFlag(o, a.name, a.value)]
     ELSE IF ~TakesValue[a.name] THEN Parse[rest][SetFlag(o, a.name, True)]
     ELSE IF rest = << >> THEN Err(o)
     ELSE Parse[Tail(rest)][SetFlag(o, a.name, <<rest[1]>>)]]

ASSUME CommandAssumption ==
  /\ DOMAIN TakesValue \subseteq Texts /\ Tokens \subseteq Arguments /\ MaxArgs \in Nat
  /\ ServerConfs \subseteq ServerConf /\ Protocols \subseteq SUBSET Texts
  /\ Bases \subseteq Nat /\ Forwards \subseteq ForwardConf

-----------------------------------------------------------------------------
(* The state machine. *)

Init ==
  /\ command \in {"client", "units", "completion"} /\ rewritten = << >> /\ opts = Defaults
  /\ argv \in IF command = "client" THEN SeqOf(Tokens, MaxArgs) ELSE {<< >>}
  /\ SuiteInit /\ SetupInit
  /\ command # "units" => file = [u \in Units |-> "none"]

(* main, up to cobra's Execute. *)
Main ==
  /\ command = "client" /\ cli = "off" /\ rewritten = << >>
  /\ rewritten' = <<NormalizeSingleDash[Expand[argv]]>>
  /\ opts' = Parse[rewritten'[1]][Defaults]
  /\ UNCHANGED <<argv, suite>>

(* splitCSV, and names that are no protocol's. *)
SplitCSV(v) == {a.name : a \in ToSet(v)}

(* clientCmd's RunE, which may also find --server or --tunnel-protocol      *)
(* missing; --throughput-only's own list wins over --throughput's.          *)
ThroughputList == SplitCSV(IF opts.list # << >> THEN opts.list ELSE opts.throughput)

RunE ==
  /\ cli = "off" /\ rewritten # << >>
  /\ argv' = << >> /\ rewritten' = << >> /\ opts' = Defaults
  /\ \/ UsageError
     \/ /\ ~opts.err
        /\ \/ \E p \in Protocols, b \in Bases, c \in {0, ServerBase} :
                  ClientStart([mode |-> "test", requested |-> p, blind |-> opts.blind,
                               only |-> opts.enabled, throughput |-> ThroughputList,
                               base |-> b, control |-> c])
           \/ \E f \in Forwards : ForwardStart(f)

(* The server runs elsewhere; the command line is read before it matters.  *)
SuiteNext ==
  /\ command = "client"
  /\ \/ Main \/ RunE
     \/ /\ cli # "off" /\ UNCHANGED line
        /\ ClientNext \/ ServerNext(ServerConfs)
  /\ UNCHANGED setup

SetupNext ==
  /\ \/ command = "units" /\ UnitsNext
     \/ command = "completion" /\ CompletionNext
  /\ UNCHANGED <<line, suite>>

Next == (SuiteNext \/ SetupNext) /\ UNCHANGED command

Spec == Init /\ [][Next]_vars

-----------------------------------------------------------------------------
(* Properties. *)

(* What the documentation says an argument list means: one dash is as good  *)
(* as two, a flag that takes a value takes the next argument whatever it    *)
(* looks like, and --throughput-only takes the words that follow it.  It is *)
(* the set of the outcomes allowed: any error where there is one, and after *)
(* a value that reads "-throughput-only" itself anything, for the code      *)
(* rewrites that too, whatever flag it belongs to (main.go:321).            *)
Meaning[args \in Seq(Arguments)] ==
  [o \in Options |->
     IF args = << >> \/ o.err THEN {o}
     ELSE LET a == args[1]
              rest == Tail(args)
              n == WordsAhead(rest)
              refused == {x \in Options : x.err} IN
     IF IsWord(a) THEN Meaning[rest][o]
     ELSE IF a.name \notin DOMAIN TakesValue THEN refused
     ELSE IF a.eq THEN Meaning[rest][SetFlag(o, a.name, a.value)]
     ELSE IF a.name = "throughput-only"
     THEN Meaning[SubSeq(rest, n + 1, Len(rest))][SetFlag(o, a.name, SubSeq(rest, 1, n))]
     ELSE IF a.name = "blind" THEN Meaning[rest][SetFlag(o, a.name, True)]
     ELSE IF rest = << >> THEN refused
     ELSE IF BareOnly(rest[1]) THEN Options
     ELSE Meaning[Tail(rest)][SetFlag(o, a.name, <<rest[1]>>)]]

(* The rewriting before the parser keeps the meaning of every argument      *)
(* list, with values that look like flags among them.                       *)
MeaningKept == rewritten # << >> => opts \in Meaning[argv][Defaults]
=============================================================================
