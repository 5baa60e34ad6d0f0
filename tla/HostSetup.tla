----------------------------- MODULE HostSetup -----------------------------
(***************************************************************************)
(* What the program changes on the host it runs on: systemd units, written *)
(* and enabled by install, removed by install --uninstall and uninstall;   *)
(* and the managed block in the rc file of a shell.  One command runs at a *)
(* time; any of its steps may fail, and it may be interrupted between any  *)
(* two of them.  MaxCommands bounds how many follow each other.            *)
(*                                                                         *)
(* A unit file "mentions" tunnel-suite or belongs to something "else"; the *)
(* rc file is a sequence of the user's lines, newlines and the parts of    *)
(* the block (its markers end their line).                                 *)
(***************************************************************************)
EXTENDS Naturals, Sequences, FiniteSets, SequencesExt

CONSTANTS Units, MaxCommands, MaxRc

ASSUME HostAssumption == IsFiniteSet(Units) /\ MaxCommands \in Nat /\ MaxRc \in Nat

VARIABLES
  file, enabled, running,   \* unit files' contents; systemd's state
  cmd, opt, stage,          \* the command under way, its options, its next step
  queue, asked, broken,     \* units still to remove, all of them, those that failed
  before, commands,         \* the units' state at its start; commands so far
  rc                        \* the rc file

units == <<file, enabled, running>>
step == <<opt, asked, before, commands>>
setup == <<units, cmd, stage, queue, broken, step, rc>>

Start == "S"  End == "E"  Source == "src"  NL == "nl"
Lines == {"a", "b"}
Parts == Lines \cup {Start, Source, End, NL}

SetupTypeOK ==
  /\ file \in [Units -> {"none", "mentions", "else"}] /\ {enabled, running} \subseteq SUBSET Units
  /\ cmd \in {"none", "install", "remove", "uninstall"}
  /\ stage \in {"idle", "write", "reload", "enable", "disable", "delete", "confirm", "finish"}
  /\ queue \in Seq(Units) /\ {asked, broken} \subseteq SUBSET Units /\ commands \in 0 .. MaxCommands
  /\ rc \in Seq(Parts)

Snapshot == [file |-> file, enabled |-> enabled, running |-> running]

SetupInit ==
  /\ file \in [Units -> {"none", "mentions", "else"}]
  /\ enabled \in SUBSET {u \in Units : file[u] # "none"}
  /\ running \in SUBSET {u \in Units : file[u] # "none"}
  /\ cmd = "none" /\ opt = [dry |-> FALSE, consent |-> FALSE] /\ stage = "idle"
  /\ queue = << >> /\ asked = {} /\ broken = {}
  /\ before = Snapshot /\ commands = 0
  /\ rc = << >>

-----------------------------------------------------------------------------
(* systemctl, as the code uses it.  A failed call may have done half.      *)

(* disable --now knows a unit by its file. *)
DisableNow(u, works) ==
  /\ works => file[u] # "none"
  /\ enabled' \in {enabled \ {u}} \cup (IF works THEN {} ELSE {enabled})
  /\ running' \in {running \ {u}} \cup (IF works THEN {} ELSE {running})

EnableNow(u, works) ==
  /\ works => file[u] # "none"
  /\ enabled' \in (IF works THEN {} ELSE {enabled}) \cup (IF file[u] = "none" THEN {} ELSE {enabled \cup {u}})
  /\ running' \in (IF works THEN {} ELSE {running}) \cup (IF file[u] = "none" THEN {} ELSE {running \cup {u}})

-----------------------------------------------------------------------------
(* The commands. *)

Begin(c, o, first, us) ==
  /\ cmd = "none" /\ commands < MaxCommands
  /\ cmd' = c /\ opt' = o /\ stage' = first /\ queue' = us /\ asked' = ToSet(us)
  /\ broken' = {} /\ before' = Snapshot /\ commands' = commands + 1
  /\ UNCHANGED <<units, rc>>

(* requireSystemdEnv fails, or a dry run prints the commands: nothing is   *)
(* done.                                                                   *)
One(c, first, u) ==
  \E dry, env \in BOOLEAN :
    Begin(c, [dry |-> dry, consent |-> TRUE], IF dry \/ ~env THEN "finish" ELSE first, <<u>>)

Install(u) == One("install", "write", u)
RemoveOne(u) == One("remove", "disable", u)

FindTunnelSuiteUnits == {u \in Units : file[u] = "mentions"}

(* With names, each of them has to be installed; without, all of them.     *)
Uninstall(names) ==
  LET installed == FindTunnelSuiteUnits
      chosen == IF names = {} THEN installed ELSE names IN
  \E dry, yes \in BOOLEAN :
    Begin("uninstall", [dry |-> dry, consent |-> yes],
          IF ~(names \subseteq installed) \/ chosen = {} THEN "finish" ELSE "confirm",
          IF names \subseteq installed THEN SetToSeq(chosen) ELSE << >>)

Fail(u) == broken' = broken \cup {u} /\ queue' = Tail(queue)

(* --dry-run and --yes skip the question; without a terminal, or on any    *)
(* answer but y, nothing is removed.  Root and systemctl are checked after *)
(* it.                                                                     *)
Confirm ==
  /\ cmd = "uninstall" /\ stage = "confirm"
  /\ \E answer, env \in BOOLEAN :
       /\ opt' = [opt EXCEPT !.consent = @ \/ answer]
       /\ stage' = IF opt.dry \/ ~opt'.consent \/ ~env THEN "finish" ELSE "disable"
  /\ UNCHANGED <<units, cmd, queue, asked, broken, before, commands, rc>>

(* os.WriteFile, which a full disk may leave empty. *)
Write ==
  /\ stage = "write"
  /\ \/ /\ file' = [file EXCEPT ![queue[1]] = "mentions"] /\ stage' = "reload" /\ UNCHANGED broken
     \/ /\ UNCHANGED file /\ stage' = "finish" /\ broken' = asked
     \/ /\ file' = [file EXCEPT ![queue[1]] = "else"] /\ stage' = "finish" /\ broken' = asked
  /\ UNCHANGED <<enabled, running, cmd, queue, step, rc>>

Reload ==
  /\ stage = "reload"
  /\ \/ stage' = (IF cmd = "install" THEN "enable" ELSE "finish")
     \/ stage' = "finish"
  /\ UNCHANGED <<units, cmd, queue, broken, step, rc>>

Enable ==
  /\ stage = "enable" /\ stage' = "finish"
  /\ \E works \in BOOLEAN :
       /\ EnableNow(queue[1], works)
       /\ broken' = IF works THEN broken ELSE asked
  /\ UNCHANGED <<file, cmd, queue, step, rc>>

(* removeUnits: a unit that fails is passed over; install --uninstall ends. *)
NextUnit == IF cmd = "uninstall" THEN (IF Len(queue) = 1 THEN "reload" ELSE "disable") ELSE "finish"

\* Mutant of Disable: the first failure ends the removal.
DisableOrStop ==
  /\ stage = "disable"
  /\ \E works \in BOOLEAN :
       /\ DisableNow(queue[1], works)
       /\ IF works THEN stage' = "delete" /\ UNCHANGED <<queue, broken>>
          ELSE stage' = "finish" /\ Fail(queue[1])
  /\ UNCHANGED <<file, cmd, step, rc>>

\* Mutant of Disable: a unit that cannot be disabled is deleted all the same.
DisableRegardless ==
  /\ stage = "disable" /\ stage' = "delete"
  /\ \E works \in BOOLEAN : DisableNow(queue[1], works)
  /\ UNCHANGED <<file, cmd, queue, broken, step, rc>>

Disable ==
  /\ stage = "disable"
  /\ \E works \in BOOLEAN :
       /\ DisableNow(queue[1], works)
       /\ IF works THEN stage' = "delete" /\ UNCHANGED <<queue, broken>>
          ELSE stage' = NextUnit /\ Fail(queue[1])
  /\ UNCHANGED <<file, cmd, step, rc>>

(* A file that is gone already is no failure. *)
Delete ==
  /\ stage = "delete"
  /\ LET u == queue[1] IN
     \/ /\ file' = [file EXCEPT ![u] = "none"] /\ queue' = Tail(queue) /\ UNCHANGED broken
        /\ stage' = IF cmd = "uninstall" THEN NextUnit ELSE "reload"
     \/ /\ file[u] # "none" /\ Fail(u) /\ stage' = NextUnit /\ UNCHANGED file
  /\ UNCHANGED <<enabled, running, cmd, step, rc>>

Return ==
  /\ stage = "finish" /\ cmd' = "none" /\ stage' = "idle"
  /\ UNCHANGED <<units, queue, broken, step, rc>>

Interrupt ==
  /\ cmd # "none" /\ stage # "finish" /\ cmd' = "none" /\ stage' = "idle"
  /\ UNCHANGED <<units, queue, broken, step, rc>>

-----------------------------------------------------------------------------
(* The rc file. *)

IndexOf(t, s) == SelectInSeq(s, LAMBDA e : e = t)

Text(s) == {i \in DOMAIN s : s[i] # NL}
TrimRight(s) == IF Text(s) = {} THEN << >> ELSE SubSeq(s, 1, Max(Text(s)))
TrimLeft(s) == IF Text(s) = {} THEN << >> ELSE SubSeq(s, Min(Text(s)), Len(s))

Block == <<Start, Source, End>>

(* applyCompBlock, with "" for a removal; a block without an end reaches to *)
(* the end of the file.  Callers have found the start marker.               *)
\* Mutant of BlockEnd: the end marker is not counted in.
BlockEndShort(s) == LET e == {i \in DOMAIN s : i > IndexOf(Start, s) /\ s[i] = End} IN
                    IF e = {} THEN Len(s) ELSE Min(e) - 1
BlockEnd(s) == LET e == {i \in DOMAIN s : i > IndexOf(Start, s) /\ s[i] = End} IN
               IF e = {} THEN Len(s) ELSE Min(e)
Rewritten(s) == SubSeq(s, 1, IndexOf(Start, s) - 1) \o Block \o SubSeq(s, BlockEnd(s) + 1, Len(s))
Removed(s) ==
  LET front == TrimRight(SubSeq(s, 1, IndexOf(Start, s) - 1))
      rest == TrimLeft(SubSeq(s, BlockEnd(s) + 1, Len(s))) IN
  IF front = << >> THEN rest ELSE IF rest = << >> THEN front ELSE front \o <<NL>> \o rest

Found(s) == IndexOf(Start, s) # 0
EndsLine(s) == s = << >> \/ Last(s) \in {NL, Start, End}

(* installCompletion; a marker brings its own newline. *)
Installed(s) ==
  IF Found(s) THEN Rewritten(s)
  ELSE s \o (IF EndsLine(s) THEN << >> ELSE <<NL>>) \o (IF s = << >> THEN << >> ELSE <<NL>>) \o Block

RcCommand == rc' = Installed(rc) \/ (Found(rc) /\ rc' = Removed(rc))

CompletionInstall ==
  /\ cmd = "none" /\ commands < MaxCommands /\ commands' = commands + 1
  /\ rc' = Installed(rc)
  /\ UNCHANGED <<units, cmd, opt, stage, queue, asked, broken, before>>

CompletionUninstall ==
  /\ cmd = "none" /\ commands < MaxCommands /\ commands' = commands + 1
  /\ rc' = IF Found(rc) THEN Removed(rc) ELSE rc
  /\ UNCHANGED <<units, cmd, opt, stage, queue, asked, broken, before>>

(* os.WriteFile truncates first: an interrupt leaves a part of the file. *)
CompletionInterrupted ==
  /\ cmd = "none" /\ commands < MaxCommands /\ commands' = commands + 1
  /\ \E new \in {Installed(rc)} \cup (IF Found(rc) THEN {Removed(rc)} ELSE {}) :
       \E n \in 0 .. Len(new) : rc' = SubSeq(new, 1, n)
  /\ UNCHANGED <<units, cmd, opt, stage, queue, asked, broken, before>>

(* The user writes a line at the end, with or without a newline. *)
UserWrites ==
  /\ cmd = "none" /\ Len(rc) < MaxRc
  /\ \E l \in Lines, more \in {<<NL>>, << >>} :
       l \notin ToSet(rc) /\ rc' = rc \o (IF EndsLine(rc) THEN << >> ELSE <<NL>>) \o <<l>> \o more
  /\ UNCHANGED <<units, cmd, opt, stage, queue, asked, broken, before, commands>>

UnitsNext ==
  \/ \E u \in Units : Install(u) \/ RemoveOne(u)
  \/ \E names \in SUBSET Units : Uninstall(names)
  \/ Confirm \/ Write \/ Reload \/ Enable \/ Disable \/ Delete \/ Return \/ Interrupt

CompletionNext == CompletionInstall \/ CompletionUninstall \/ CompletionInterrupted \/ UserWrites

(* The host by itself; CommandLine runs these steps among its own. *)
SetupSpec == SetupInit /\ [][UnitsNext \/ CompletionNext]_setup

-----------------------------------------------------------------------------
(* Properties. *)

(* Whatever fails or is interrupted, systemd never runs, or starts at boot, *)
(* a unit whose file is gone: a later uninstall could not find it.          *)
NoServiceWithoutUnit == \A u \in enabled \cup running : file[u] # "none"

Gone(u) == file[u] = "none" /\ u \notin enabled /\ u \notin running

(* An uninstall that was agreed to and was not interrupted has removed      *)
(* every unit it listed that did not itself fail, though others did; units  *)
(* it did not list are as before, and without consent or with --dry-run all *)
(* of them are.                                                             *)
UninstallThorough ==
  cmd = "uninstall" /\ stage \in {"reload", "finish"} =>
    /\ \A u \in Units \ asked : file[u] = before.file[u] /\ (u \in enabled <=> u \in before.enabled)
                                /\ (u \in running <=> u \in before.running)
    /\ opt.dry \/ ~opt.consent => Snapshot = before
    /\ broken # {} \/ stage = "reload" => \A u \in asked \ broken : Gone(u)

LinesOf[s \in Seq(Parts)] ==
  IF s = << >> THEN << >> ELSE (IF s[1] \in Lines THEN <<s[1]>> ELSE << >>) \o LinesOf[Tail(s)]

(* From a start marker up to the next end marker, or to the end of a file   *)
(* that lost it.                                                            *)
InBlock(s, i) == \E j \in 1 .. i : s[j] = Start /\ \A e \in j .. i - 1 : s[e] # End

UserLines(s) == LinesOf[[i \in DOMAIN s |-> IF InBlock(s, i) THEN NL ELSE s[i]]]

OneBlockAtMost(s) ==
  LET marks == {i \in DOMAIN s : s[i] \in {Start, Source, End}} IN
  marks = {} \/ \E i \in DOMAIN s : marks = i .. i + 2 /\ SubSeq(s, i, i + 2) = Block

(* Installing and uninstalling completion, any number of times and after an *)
(* interrupted try, keep the user's lines outside the block, in order and   *)
(* apart, and leave one whole block or none, and no marker alone.           *)
UserTextKept ==
  [][RcCommand =>
       /\ LinesOf[rc'] = UserLines(rc)
       /\ \A i \in 1 .. Len(rc') - 1 : rc'[i] \in Lines => rc'[i + 1] = NL
       /\ OneBlockAtMost(rc')]_rc
=============================================================================
