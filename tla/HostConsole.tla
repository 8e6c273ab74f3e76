----------------------------- MODULE HostConsole -----------------------------
(***************************************************************************)
(* The host's dialogue with the two stages: tools/vux_tool.py's enter_s1,  *)
(* enter_s2, send_cmd_and_wait, s2_cmd, run_app and the commands built     *)
(* from them, against the prompts of stage1/src/main.rs and                *)
(* stage2/src/shell.rs.                                                    *)
(*                                                                         *)
(* What is typed is a sequence of tokens: the keys "cr", "b", "i", and a   *)
(* line as its first letter (a key of the first stage) and its rest.  What *)
(* is printed is a sequence of tokens too.  Time is an order: the device   *)
(* answers what it was sent before a poll of the host (20 ms; the banner   *)
(* of more than 256 bytes also ends one) times out, and a poll is shorter  *)
(* than the first stage's wait for a key (AUTOBOOT_MS).  A load from the   *)
(* card and a command of the second stage take any time.                   *)
(***************************************************************************)
EXTENDS Integers, Sequences, SequencesExt, FiniteSets

CONSTANTS
    Starts,       \* where the device may be when the host connects
    Commands,     \* the command line tool's commands used
    Replies,      \* what the commands print: of the n-th at n + 1, first an earlier one's
    Splits,       \* the values split may have
    MaxCommands,  \* bounds, each for a host without and with split reads: its commands, and
    MaxPolls,     \* the deadlines of enter_s1 and enter_s2, in polls of a device at a prompt
    MaxWaits      \* and in others

\* Everything else that is typed or printed
Tokens == {"cr", "b", "i", "r", "eset", "un", "l", "s", "m", "kdir", "banner", "help", "s1> ", "s2> ", "nl", "[CMD:b]",
           "[CMD:r]", "[CMD:i]", "[CMD:?]", "info", "stage2", "no boot", "[ERR]", "[RUN]"}

ASSUME ConsoleAssumption ==
    /\ Starts \subseteq {"start", "s1", "s2", "boot", "busy", "app"}
    /\ Commands \subseteq {"sd-info", "ls", "mkdir", "run-app", "reboot"}
    /\ Splits \subseteq BOOLEAN
    /\ MaxCommands \in [BOOLEAN -> Nat] /\ MaxWaits \in Nat
    /\ MaxPolls \in [BOOLEAN -> Nat] /\ \A s \in BOOLEAN : MaxPolls[s] > 2
    /\ Replies \in Seq(STRING) /\ \A s \in BOOLEAN : MaxCommands[s] < Len(Replies)
    /\ \A m \in DOMAIN Replies : Replies[m] \notin Tokens \cup {"none"}

VARIABLES
    split,                   \* a read or a drain of the host may end between two answers of the device
    dev, devLine, devCmd,    \* the device: its place, the second stage's line, the command it runs
    card,                    \* the card holds a second stage
    toDev, toHost,
    todo, pc, text, polls, waits,  \* the host: steps left, place, what a read collected, polls made
    id, outcome,             \* number of the command, how it ended
    gaveUp,                  \* lines whose command timed out
    late                     \* history: a drain or a poll ended while answers were still to come

device == <<dev, devLine, devCmd, card>>
host   == <<todo, pc, text, polls, waits, id, outcome, gaveUp, late>>
vars   == <<split, device, toDev, toHost, host>>

------------------------------------------------------------------------------
(* The device *)

Out(tokens) == toHost' = toHost \o tokens

Take == toDev # <<>> /\ toDev' = Tail(toDev)

\* stage 1's main: bytes that arrived before are dropped, the rest of the line comes later
Start ==
    /\ dev = "start"
    /\ \E k \in 0 .. Len(toDev) : toDev' = SubSeq(toDev, k + 1, Len(toDev))
    /\ dev' = "window" /\ Out(<<"banner">>)
    /\ UNCHANGED <<devLine, devCmd, card, host>>

\* safe_mode: a key
KeyInWindow ==
    /\ dev = "window" /\ Take
    /\ dev' = "s1" /\ Out(<<"help", "s1> ">>)
    /\ UNCHANGED <<devLine, devCmd, card, host>>

\* the first stage's loop
Stage1Key ==
    /\ dev = "s1" /\ Take
    /\ LET key == Head(toDev) IN
       \/ key = "cr" /\ Out(<<"nl", "s1> ">>) /\ dev' = dev
       \/ key = "b"  /\ Out(<<"[CMD:b]">>) /\ dev' = "boot"
       \/ key = "r"  /\ Out(<<"[CMD:r]">>) /\ dev' = "start"
       \/ key = "i"  /\ Out(<<"[CMD:i]", "info", "s1> ">>) /\ dev' = dev
       \/ key \notin {"cr", "b", "r", "i"} /\ Out(<<"[CMD:?]", "s1> ">>) /\ dev' = dev
    /\ UNCHANGED <<devLine, devCmd, card, host>>

\* the second stage's line: echoed, and executed at the end
Stage2Char ==
    /\ dev = "s2" /\ Take /\ Head(toDev) # "cr"
    /\ devLine' = Append(devLine, Head(toDev)) /\ Out(<<Head(toDev)>>)
    /\ UNCHANGED <<dev, devCmd, card, host>>

LineOf(step) == CASE step = "ls" -> <<"l", "s">> [] step = "mkdir" -> <<"m", "kdir">> [] step = "run" -> <<"r", "un">>

\* id is the command's whose line it is, 0 an earlier one's
Executed == [line |-> devLine, id |-> IF pc = "echo" /\ devLine = LineOf(Head(todo)) THEN id ELSE 0]

Stage2Line ==
    /\ dev = "s2" /\ Take /\ Head(toDev) = "cr"
    /\ devLine' = <<>>
    /\ \/ devLine = <<>> /\ Out(<<"nl", "s2> ">>) /\ UNCHANGED <<dev, devCmd>>
       \/ devLine = <<"r", "eset">> /\ Out(<<"nl">>) /\ dev' = "start" /\ UNCHANGED devCmd
       \/ devLine \in {<<"l", "s">>, <<"m", "kdir">>, <<"r", "un">>}
          /\ Out(<<"nl">>) /\ dev' = "busy" /\ devCmd' = Executed
       \/ devLine \notin {<<>>, <<"r", "eset">>, <<"l", "s">>, <<"m", "kdir">>, <<"r", "un">>}
          /\ Out(<<"nl", "[ERR]", "s2> ">>) /\ UNCHANGED <<dev, devCmd>>
    /\ UNCHANGED <<card, host>>

Reply(n) == Replies[n + 1]

\* a command of the second stage is done; run starts an application that prints no prompt
CommandDone ==
    /\ dev = "busy"
    /\ \/ /\ Out(<<Reply(devCmd.id), "s2> ">>) /\ dev' = "s2"
       \/ /\ Out(<<"[ERR]", "s2> ">>) /\ dev' = "s2"
       \/ /\ devCmd.line = <<"r", "un">> /\ Out(<<"[RUN]", "nl">>) /\ dev' = "app"
    /\ UNCHANGED <<devLine, devCmd, card, toDev, host>>

\* boot(): a second stage from the card, or back to the prompt
BootDone ==
    /\ dev = "boot"
    /\ IF card THEN dev' = "s2" /\ Out(<<"stage2", "s2> ">>) ELSE dev' = "s1" /\ Out(<<"no boot", "s1> ">>)
    /\ devLine' = <<>>
    /\ UNCHANGED <<devCmd, card, toDev, host>>

\* the device has answered everything it was sent
AtNoPrompt == dev \in {"boot", "busy", "app"}

Settled == (toDev = <<>> \/ AtNoPrompt) /\ dev # "start"

Quiet == toHost = <<>> /\ Settled

\* no key within AUTOBOOT_MS of the banner: a host that polls, or whose drain of 50 ms
\* ends, has sent one by then; send_cmd_and_wait's of 100 ms may not have
NoKey ==
    /\ dev = "window" /\ toDev = <<>>
    /\ pc = "idle" \/ (toHost = <<>> /\ (pc = "drain" => Head(todo) = "key"))
    /\ dev' = "boot"
    /\ UNCHANGED <<devLine, devCmd, card, toDev, toHost, host>>

\* an application keeps its input (it may read it or not)
AppReads ==
    /\ dev = "app" /\ Take
    /\ UNCHANGED <<device, toHost, host>>

------------------------------------------------------------------------------
(* The host *)

StepsOf(c) ==
    CASE c = "sd-info" -> <<"enter_s1", "key">>
      [] c = "ls"      -> <<"enter_s2", "ls">>
      [] c = "mkdir"   -> <<"enter_s2", "mkdir">>
      [] c = "run-app" -> <<"enter_s2", "run">>
      [] c = "reboot"  -> <<"enter_s1", "enter_s2">>

Write(tokens) == toDev' = toDev \o tokens

Read(p) == pc' = p /\ text' = <<>>

Keep == UNCHANGED <<device, id, outcome>>
KeepPolls == UNCHANGED <<polls, waits>>
NoPolls == polls' = 0 /\ waits' = 0

\* main and _dispatch: the port is opened, the first step drains it; a line at rest owes
\* the host nothing that an earlier command typed
Command ==
    /\ pc = "idle" /\ todo = <<>> /\ id < MaxCommands[split]
    /\ \E c \in Commands : todo' = StepsOf(c)
    /\ pc' = "drain" /\ text' = <<>> /\ NoPolls /\ id' = id + 1 /\ outcome' = "none"
    /\ late' = (late /\ ~(toDev = <<>> /\ devLine = <<>>))
    /\ UNCHANGED <<device, toDev, toHost, gaveUp>>

\* drain_serial: until nothing has arrived for a while
Drain ==
    /\ pc = "drain" /\ toHost # <<>>
    /\ toHost' = <<>>
    /\ Keep /\ KeepPolls /\ UNCHANGED <<toDev, todo, pc, text, gaveUp, late>>

\* the step's first bytes
Send ==
    /\ pc = "drain" /\ toHost = <<>> /\ (split \/ Settled)
    /\ \/ /\ Head(todo) = "enter_s1" /\ Write(<<"cr">>) /\ Read("poll1") /\ polls' = 1
       \/ /\ Head(todo) = "enter_s2" /\ Write(<<"cr">>) /\ Read("poll2") /\ polls' = 1
       \/ /\ Head(todo) = "key" /\ Write(<<"i">>) /\ Read("mark") /\ polls' = 0
       \/ /\ Head(todo) \in {"ls", "mkdir"} /\ Write(LineOf(Head(todo)) \o <<"cr">>) /\ Read("echo") /\ polls' = 0
       \/ /\ Head(todo) = "run" /\ Write(LineOf("run") \o <<"cr">>) /\ Read("run") /\ polls' = 0
    /\ late' = (late \/ ~Settled)
    /\ waits' = 0 /\ Keep /\ UNCHANGED <<toHost, todo, gaveUp>>

StepDone == todo' = Tail(todo) /\ Read(IF Tail(todo) = <<>> THEN "done" ELSE "drain") /\ NoPolls

Raise(what) == todo' = <<>> /\ Read(what) /\ NoPolls

Chunk == text \o toHost

\* a read of 256 bytes: it lasts its timeout, the banner ends it
Receives ==
    /\ toHost # <<>> /\ (split \/ Settled \/ "banner" \in ToSet(toHost))
    /\ toHost' = <<>>

\* mutant: no key goes with the next poll
PollSilent(typed) ==
    /\ \/ /\ IF AtNoPrompt THEN waits < MaxWaits /\ waits' = waits + 1 /\ polls' = polls
                            ELSE polls < MaxPolls[split] /\ polls' = polls + 1 /\ waits' = waits
          /\ Write(typed) /\ Read(pc) /\ todo' = todo
       \/ /\ IF AtNoPrompt THEN waits = MaxWaits ELSE polls = MaxPolls[split]
          /\ Write(typed) /\ Raise("timeout")
    /\ UNCHANGED gaveUp

\* the loop of enter_s1 and enter_s2 goes round, unless its time is up
Poll(typed) ==
    /\ \/ /\ IF AtNoPrompt THEN waits < MaxWaits /\ waits' = waits + 1 /\ polls' = polls
                            ELSE polls < MaxPolls[split] /\ polls' = polls + 1 /\ waits' = waits
          /\ Write(Append(typed, "cr")) /\ Read(pc) /\ todo' = todo
       \/ /\ IF AtNoPrompt THEN waits = MaxWaits ELSE polls = MaxPolls[split]
          /\ Write(typed) /\ Raise("timeout")
    /\ UNCHANGED gaveUp

\* read_until looks for the prompts in this order
PromptIn(got) ==
    IF "s1> " \in ToSet(got) THEN "s1> " ELSE IF "s2> " \in ToSet(got) THEN "s2> " ELSE "none"

\* mutant: any prompt will do
Stage1AnsweredAny(p) == p # "none"

Stage1Answered(p) == p = "s1> "

\* enter_s1, enter_s2: a read of their polls
PollReads ==
    /\ pc \in {"poll1", "poll2"} /\ Receives
    /\ LET p == PromptIn(Chunk) IN
       \/ /\ p = "none" /\ "banner" \in ToSet(Chunk) /\ Poll(<<>>)
       \/ /\ p = "none" /\ "banner" \notin ToSet(Chunk)
          /\ text' = Chunk /\ KeepPolls /\ UNCHANGED <<toDev, todo, pc, gaveUp>>
       \/ /\ Stage1Answered(p) /\ pc = "poll1" /\ StepDone /\ UNCHANGED <<toDev, gaveUp>>
       \/ /\ p = "s2> " /\ pc = "poll1" /\ Poll(<<"r", "eset", "cr">>)
       \/ /\ p = "s2> " /\ pc = "poll2" /\ StepDone /\ UNCHANGED <<toDev, gaveUp>>
       \/ /\ p = "s1> " /\ pc = "poll2"
          /\ Write(<<"b">>) /\ Read("boot2") /\ KeepPolls /\ UNCHANGED <<todo, gaveUp>>
    /\ late' = (late \/ (PromptIn(Chunk) # "none" /\ ~Settled))
    /\ Keep

PollTimesOut ==
    /\ pc \in {"poll1", "poll2"} /\ Quiet
    /\ Poll(<<>>)
    /\ Keep /\ UNCHANGED <<toHost, late>>

\* a long read: send_cmd_and_wait, s2_cmd, run_app, enter_s2 after `b`
LongReads == pc \in {"mark", "echo", "run", "boot2"}

IndexOf(tokens, got) == CHOOSE k \in 0 .. Len(got) : IF tokens \in ToSet(got) THEN k > 0 /\ got[k] = tokens ELSE k = 0

\* s2_cmd: the echo of its line; what follows it
EchoAt(line, got) ==
    {k \in 1 .. Len(got) : k >= Len(line) + 1 /\ SubSeq(got, k - Len(line), k) = Append(line, "nl")}

AfterEcho(line, got) ==
    LET ends == EchoAt(line, got)
    IN  IF ends = {} THEN <<>> ELSE SubSeq(got, 1 + CHOOSE k \in ends : \A j \in ends : k <= j, Len(got))

\* mutant: the prompt ends the read without a look at the echo
FinishedAnyPrompt(step, got) ==
    CASE step = "key" -> "s1> " \in ToSet(SubSeq(got, IndexOf("[CMD:i]", got) + 1, Len(got))) /\ "[CMD:i]" \in ToSet(got)
      [] step \in {"ls", "mkdir", "enter_s2"} -> "s2> " \in ToSet(got)
      [] step = "run" -> "[RUN]" \in ToSet(got) \/ "s2> " \in ToSet(SubSeq(got, IndexOf("nl", got) + 1, Len(got)))

\* whether what was read ends the step
Finished(step, got) ==
    CASE step = "key" -> "s1> " \in ToSet(SubSeq(got, IndexOf("[CMD:i]", got) + 1, Len(got))) /\ "[CMD:i]" \in ToSet(got)
      [] step \in {"ls", "mkdir"} -> "s2> " \in ToSet(AfterEcho(LineOf(step), got))
      [] step = "run" -> "[RUN]" \in ToSet(got) \/ "s2> " \in ToSet(SubSeq(got, IndexOf("nl", got) + 1, Len(got)))
      [] step = "enter_s2" -> "s2> " \in ToSet(got)

\* _s2_check and run_app's refusal
Refused(step, got) ==
    CASE step \in {"ls", "mkdir"} -> "[ERR]" \in ToSet(AfterEcho(LineOf(step), got))
      [] step = "run" -> "[RUN]" \notin ToSet(got)
      [] step \in {"key", "enter_s2"} -> FALSE

\* _s2_reply: what follows the echo, or all of it
Returned(step, got) == LET a == AfterEcho(LineOf(step), got) IN IF a = <<>> THEN got[1] ELSE a[1]

LongRead ==
    /\ LongReads /\ Receives
    /\ LET step == Head(todo) IN
       \/ /\ ~Finished(step, Chunk)
          /\ text' = Chunk /\ KeepPolls /\ UNCHANGED <<todo, pc, outcome>>
       \/ /\ Finished(step, Chunk) /\ Refused(step, Chunk)
          /\ Raise("S2Error") /\ UNCHANGED outcome
       \/ /\ Finished(step, Chunk) /\ ~Refused(step, Chunk)
          /\ StepDone
          /\ outcome' = IF step \in {"ls", "mkdir"} THEN Returned(step, Chunk) ELSE outcome
    /\ UNCHANGED <<device, toDev, gaveUp, id, late>>

LongTimesOut ==
    /\ LongReads /\ Quiet
    /\ Raise("timeout")
    /\ gaveUp' = IF pc \in {"echo", "run"} THEN gaveUp \cup {LineOf(Head(todo))} ELSE gaveUp
    /\ Keep /\ UNCHANGED <<toDev, toHost, late>>

\* ser.close()
Close ==
    /\ pc \in {"done", "timeout", "S2Error"}
    /\ Read("idle") /\ UNCHANGED <<device, toDev, toHost, todo, polls, waits, id, outcome, gaveUp, late>>

Init ==
    /\ split \in Splits
    /\ dev \in Starts /\ devLine = <<>> /\ devCmd = [line |-> <<"l", "s">>, id |-> 0] /\ card \in BOOLEAN
    /\ toDev = <<>> /\ toHost = <<>>
    /\ todo = <<>> /\ pc = "idle" /\ text = <<>> /\ polls = 0 /\ waits = 0 /\ id = 0 /\ outcome = "none" /\ gaveUp = {}
    /\ late = FALSE

Device == (Start \/ KeyInWindow \/ Stage1Key \/ Stage2Char \/ Stage2Line \/ AppReads) /\ UNCHANGED split
Slow   == (CommandDone \/ BootDone \/ NoKey) /\ UNCHANGED split
Host   == (Drain \/ Send \/ PollReads \/ PollTimesOut \/ LongRead \/ LongTimesOut \/ Close) /\ UNCHANGED split

Next == Device \/ Slow \/ Host \/ (Command /\ UNCHANGED split)

\* The device's loops and the host's run on; a load or a command of the second stage need
\* not end
Spec == Init /\ [][Next]_vars /\ WF_vars(Device) /\ WF_vars(Host)

------------------------------------------------------------------------------
(* Properties *)

\* Types of all variables.
TypeOK ==
    /\ dev \in {"start", "window", "s1", "s2", "boot", "busy", "app"}
    /\ pc \in {"idle", "drain", "poll1", "poll2", "boot2", "mark", "echo", "run", "done", "timeout", "S2Error"}
    /\ pc \in {"drain", "poll1", "poll2", "boot2", "mark", "echo", "run"} => todo # <<>>
    /\ polls \in 0 .. MaxPolls[split] /\ waits \in 0 .. MaxWaits /\ id \in 0 .. MaxCommands[split]
    /\ devLine # <<>> => dev = "s2"

\* What the host types is read by the stage it is for, at its prompt: the keys `i` and `b`
\* by the first stage, a line (`ls`, `mkdir`, `run`, `reset`) by the second, from its first
\* character on an empty line; none of them is dropped after a reset, taken as the answer to
\* another prompt, or read as keys of the first stage, where `r` is a reset
\* (vux_tool.py:497-540, 562-578).
MeetsItsStage ==
    toDev # <<>> =>
        /\ Head(toDev) \in {"i", "b"} => dev = "s1"
        /\ Head(toDev) \in {"l", "s", "m", "kdir", "r", "un", "eset"} => dev = "s2"
        /\ Head(toDev) \in {"l", "m", "r"} => devLine = <<>>

\* What s2_cmd returns is the reply to its own command, also when an earlier command's
\* output still arrives after the drain (vux_tool.py:562-578). A line given again after
\* it timed out may get the first one's answer: the echoes are the same.
OwnReply ==
    [][pc = "echo" /\ pc' # pc /\ outcome' # "none" /\ LineOf(Head(todo)) \notin gaveUp => outcome' = Reply(id)]_vars

\* What the host types is read by the stage it is for, as MeetsItsStage says it, whether or
\* not reads end early, until a drain or a poll that found a prompt ends while the device
\* still owes answers: the prompt may be an old one then, and the code does type for the
\* wrong stage. The next command that finds nothing typed and left over is safe again.
TypedForItsStage == TypeOK /\ (~late => MeetsItsStage)

\* The host gives up only on a device that is loading, running a command or running an
\* application: neither a banner between two polls nor a prompt left over from an earlier
\* poll makes it miss one (vux_tool.py:497-540, main.rs:33); again until an answer is late.
GivesUpOnlyAwayFromPrompts ==
    [][(~late /\ pc \in {"poll1", "poll2", "mark", "echo", "run"} /\ pc' = "timeout") => AtNoPrompt]_vars

\* Every command of the host ends, whatever the device does, and it gives up only on a device
\* that is at no prompt.
EndsForAReason == GivesUpOnlyAwayFromPrompts /\ ((~split /\ pc # "idle") ~> (~split /\ pc = "idle"))
==============================================================================
