----------------------------- MODULE SimpleShell -----------------------------
(***************************************************************************)
(* simple_shell.c of Project-2-1, as a system of processes.                *)
(*                                                                         *)
(* The user types a line; the shell forks a child for it, which forks once *)
(* more for a pipe.  A child whose execvp or open fails does not end: it   *)
(* returns from run_command into the loop of main, and reads the next line *)
(* of whatever is its standard input by then.  So every process can become *)
(* a shell, and each carries the shell's variables args and command.       *)
(*                                                                         *)
(* proc[p] is what the kernel and the program keep about process p.  The   *)
(* programs that execvp starts are an environment: they read their         *)
(* standard input to its end if it is a pipe or a file, write some lines   *)
(* and end.                                                                *)
(***************************************************************************)
EXTENDS Integers, FiniteSets, SequencesExt

CONSTANTS Lines,       \* what the user may type: sequences of words
          Programs,    \* the names execvp finds
          Output,      \* how many lines each program writes
          Files,       \* files, each "absent", "readable", "unreadable" or
                       \* "noplace" (its directory does not exist), at first
          FILE_LINES,  \* lines of a readable file
          PIPE_SIZE,   \* lines that fit into a pipe
          Slots,       \* MAX_LINE / 2 + 1, the length of args
          MaxProcs,    \* limit of the number of processes
          MaxLines     \* bound: lines the user types

ASSUME ShellAssumption ==
    /\ Output \in [Programs -> Nat]
    /\ {FILE_LINES, MaxLines} \subseteq Nat
    /\ {PIPE_SIZE, Slots, MaxProcs} \subseteq Nat \ {0}
    /\ \A line \in Lines : Len(line) < Slots

VARIABLES proc, files,
          data,          \* lines in the pipe or file that process p opened
          typed,         \* how many lines the user has typed
          backgrounded,  \* some command ran with an ampersand
          returned,      \* some child returned into the loop of main
          unjoined       \* ... leaving the first command of its pipe alone

vars == <<proc, files, data, typed, backgrounded, returned, unjoined>>
ghosts == <<backgrounded, returned, unjoined>>

NULL == ""
Terminal == 0                   \* or, for output, a file: it takes everything
Nobody == 0                     \* init, which reaps its children at once
Procs == 1 .. MaxProcs

pc(p) == proc[p].pc
Alive == {p \in Procs : pc(p) \notin {"free", "zombie"}}
Children(p) == {c \in Procs : pc(c) # "free" /\ proc[c].parent = p}

(* Who could still read from, or write to, the pipe made by process p.     *)
Readers(p) == {q \in Alive : proc[q].stdin = p \/ p \in proc[q].both}
Writers(p) == {q \in Alive : proc[q].stdout = p \/ p \in proc[q].both}
Exhausted(p) == data[p] = 0 /\ Writers(p) = {}

(* Names for new processes: not that of a pipe that is still open.         *)
Fresh == {p \in Procs : pc(p) = "free" /\ Readers(p) = {} /\ Writers(p) = {}}
-----------------------------------------------------------------------------
(* The functions on args.                                                  *)

Find(args, word) == SelectInSeq(args, LAMBDA w : w = word)

refresh_args(args) ==
    LET k == Find(args, NULL) IN [i \in 1 .. k - 1 |-> NULL] \o SubSeq(args, k, Slots)

parse_input(args, line) == line \o SubSeq(args, Len(line) + 1, Slots)

(* A word that ends in an ampersand and has more letters than that.        *)
Glued == [w \in {"ls&"} |-> "ls"]

check_ampersand(args, size) ==
    CASE args[size] = "&" ->
             [found |-> TRUE, args |-> [args EXCEPT ![size] = NULL], size |-> size - 1]
      [] args[size] \in DOMAIN Glued ->
             [found |-> TRUE, args |-> [args EXCEPT ![size] = Glued[@]], size |-> size]
      [] OTHER -> [found |-> FALSE, args |-> args, size |-> size]

(* The place of the pipe, or else the place behind the command.            *)
detect_pipe(args, size) ==
    LET bar == Find(SubSeq(args, 1, size), "|") IN IF bar = 0 THEN size + 1 ELSE bar

(* Where "<" and ">" are among size words after the first off words; what  *)
(* follows one is a file name.  There is room to note two of them.         *)
Redirections(args, off, size) ==
    LET at[i \in off + 1 .. off + size] ==
            args[i] \in {"<", ">"} /\ (i = off + 1 \/ ~at[i - 1])
    IN {i \in off + 1 .. off + size :
            at[i] /\ Cardinality({j \in off + 1 .. i - 1 : at[j]}) < 2}

RedirectionIgnored(args, off, size) == [args |-> args, in |-> NULL, out |-> NULL]

(* The words at some of the places, in order.                              *)
WordsAt(words, places) ==
    LET upto[i \in 0 .. Len(words)] ==
            IF i = 0 THEN <<>>
            ELSE IF i \in places THEN Append(upto[i - 1], words[i]) ELSE upto[i - 1]
    IN upto[Len(words)]

(* They are removed with their files; each removal moves up the words      *)
(* behind, including the one behind the last, which also stays.            *)
check_redirection(args, off, size) ==
    LET last == off + size
        found == Redirections(args, off, size)
        kept == WordsAt(SubSeq(args, off + 1, last),
                        {i \in 1 .. size : {off + i, off + i - 1} \cap found = {}})
        named(word) == {i \in found : args[i] = word /\ i < last}
        File(word) == IF named(word) = {} THEN NULL ELSE args[Max(named(word)) + 1]
    IN [args |-> SubSeq(args, 1, off)
                 \o kept \o [k \in 1 .. size - Len(kept) |-> args[last + 1]]
                 \o SubSeq(args, last + 1, Slots),
        in |-> File("<"), out |-> File(">")]

(* What execvp takes as its arguments: the words up to the first NULL.     *)
Argv(p) == LET rest == SubSeq(proc[p].args, proc[p].off + 1, Slots)
           IN SubSeq(rest, 1, Find(rest, NULL) - 1)
-----------------------------------------------------------------------------
(* The kernel's part.                                                      *)

Free == [pc |-> "free", parent |-> Nobody, args |-> [i \in 1 .. Slots |-> NULL],
         size |-> 0, off |-> 0, command |-> <<>>, piped |-> FALSE, unwaited |-> 0,
         stdin |-> Terminal, stdout |-> Terminal, pipe |-> Nobody, both |-> {}, left |-> 0]

(* Process p ends: its children get another parent, its own is told.       *)
Ended(p) ==
    [q \in Procs |->
        CASE q = p -> IF proc[p].parent = Nobody THEN Free
                      ELSE [Free EXCEPT !.pc = "zombie", !.parent = proc[p].parent]
          [] q \in Children(p) -> IF pc(q) = "zombie" THEN Free
                                  ELSE [proc[q] EXCEPT !.parent = Nobody]
          [] OTHER -> proc[q]]

Goto(p, label) == proc' = [proc EXCEPT ![p].pc = label]

(* A child comes back into the loop of main: it is a shell now.            *)
ReturnsToMain(p) == returned' = TRUE /\ Goto(p, "prompt")

(* wait(NULL): some child of p that has ended is reaped.                   *)
wait(p, label) ==
    \E c \in Children(p) :
        /\ pc(c) = "zombie"
        /\ proc' = [proc EXCEPT ![c] = Free, ![p].pc = label]
-----------------------------------------------------------------------------
(* The loop of main.                                                       *)

(* refresh_args, get_input, parse_input and the tests on the first word.   *)
GetLine(s, typedLine) ==
    LET shell == proc[s]
        line == IF typedLine = <<"!!">> THEN shell.command ELSE typedLine
        args == parse_input(refresh_args(shell.args), line)
        seen == [shell EXCEPT !.args = args, !.size = Len(line), !.command = line,
                              !.piped = @ \/ Contains(shell.command, "|")]
    IN IF line # <<>> /\ line[1] = "exit" THEN proc' = Ended(s)
       ELSE proc' = [proc EXCEPT ![s] =
                        [seen EXCEPT !.pc = IF line = <<>> THEN "prompt" ELSE "run"]]

TypeLine(s, line) ==
    /\ pc(s) = "prompt" /\ proc[s].stdin = Terminal
    /\ typed < MaxLines
    /\ typed' = typed + 1
    /\ GetLine(s, line)
    /\ UNCHANGED <<files, data, backgrounded, returned, unjoined>>

(* The standard input is a pipe or a file: what is in it are commands.     *)
ReadLine(s, line) ==
    /\ pc(s) = "prompt" /\ proc[s].stdin # Terminal
    /\ data[proc[s].stdin] > 0
    /\ data' = [data EXCEPT ![proc[s].stdin] = @ - 1]
    /\ GetLine(s, line)
    /\ UNCHANGED <<files, typed, ghosts>>

(* At the end of a pipe or a file fgets fails and the loop starts again.   *)
FailToRead(s) ==
    /\ pc(s) = "prompt" /\ proc[s].stdin # Terminal
    /\ Exhausted(proc[s].stdin)
    /\ UNCHANGED vars

(* run_command up to the first fork; c is the new process.                 *)
RunCommand(s) ==
    LET amp == check_ampersand(proc[s].args, proc[s].size)
        bar == detect_pipe(amp.args, amp.size)
        args == IF bar > amp.size THEN amp.args ELSE [amp.args EXCEPT ![bar] = NULL]
        child == [proc[s] EXCEPT !.pc = IF bar < amp.size THEN "pipe" ELSE "single",
                                 !.parent = s, !.unwaited = 0, !.args = args,
                                 !.size = bar - 1, !.off = 0, !.left = amp.size - bar,
                                 !.pipe = Nobody]
    IN /\ pc(s) = "run"
       /\ \/ \E c \in Fresh :
                /\ \A q \in Fresh : c <= q
                /\ proc' = [proc EXCEPT ![c] = child,
                       ![s] = [proc[s] EXCEPT
                                   !.args = args,
                                   !.pc = IF amp.found THEN "prompt" ELSE "wait",
                                   !.unwaited = IF amp.found THEN @ + 1 ELSE @]]
                /\ backgrounded' = (backgrounded \/ amp.found)
          \/ /\ Fresh = {}
             /\ proc' = [proc EXCEPT ![s].args = args, ![s].pc = "prompt"]
             /\ UNCHANGED backgrounded
       /\ UNCHANGED <<files, data, typed, returned, unjoined>>

WaitForgotten(s) == pc(s) = "wait" /\ Goto(s, "prompt") /\ UNCHANGED <<files, data, typed, ghosts>>
Wait(s) == pc(s) = "wait" /\ wait(s, "prompt") /\ UNCHANGED <<files, data, typed, ghosts>>
-----------------------------------------------------------------------------
(* The child.                                                              *)

(* pipe and the second fork.  The child keeps the second command, the new  *)
(* process gets the first.  Without one, neither branch is taken.          *)
MakePipe(c) ==
    /\ pc(c) = "pipe"
    /\ \/ \E g \in Fresh \ {c} :
             /\ \A q \in Fresh : g <= q
             /\ LET end == [proc[c] EXCEPT !.pipe = c, !.both = @ \cup {c}]
                IN proc' = [proc EXCEPT
                       ![c] = [end EXCEPT !.pc = "second", !.off = @ + end.size + 1, !.size = end.left],
                       ![g] = [end EXCEPT !.pc = "first", !.parent = c]]
             /\ data' = [data EXCEPT ![c] = 0]
             /\ UNCHANGED returned
       \/ Fresh = {} /\ ReturnsToMain(c) /\ UNCHANGED data
    /\ UNCHANGED <<files, typed, backgrounded, unjoined>>

(* close(fd[1]) of the second command's process, close(fd[0]) of the       *)
(* first's; the ends they keep become standard input and output.           *)
NotClosed(ends, pipe) == ends
Closed(ends, pipe) == ends \ {pipe}

(* redirect_io: output first.  A new file gets the mode 644, decimal, which *)
(* does not let its owner read it.                                         *)
Opened(out) == out # NULL /\ files[out] # "noplace"
FilesWith(out) == IF Opened(out) /\ files[out] = "absent"
                  THEN [files EXCEPT ![out] = "unreadable"] ELSE files
redirect_io(in, out) == /\ out # NULL => Opened(out)
                        /\ in # NULL => FilesWith(out)[in] = "readable"

(* check_redirection, redirect_io, then the ends of the pipe.  A file that *)
(* cannot be opened sends the child to main, with the output it may have   *)
(* redirected already and the pipe open.                                   *)
StartCommand(p) ==
    LET found == check_redirection(proc[p].args, proc[p].off, proc[p].size)
        in == IF pc(p) = "second" THEN NULL ELSE found.in
        out == IF pc(p) = "first" THEN NULL ELSE found.out
        fails == ~redirect_io(in, out)
        me == [proc[p] EXCEPT !.args = found.args, !.stdout = IF Opened(out) THEN Terminal ELSE @]
        redirected == [me EXCEPT !.stdin = IF in # NULL THEN p ELSE @, !.both = Closed(@, me.pipe)]
    IN /\ pc(p) \in {"single", "first", "second"}
       /\ files' = FilesWith(out)
       /\ proc' = [proc EXCEPT ![p] =
              CASE fails /\ pc(p) = "second" -> [me EXCEPT !.pc = "prompt", !.unwaited = 1]
                [] fails /\ pc(p) # "second" -> [me EXCEPT !.pc = "prompt"]
                [] ~fails /\ pc(p) = "single" -> [redirected EXCEPT !.pc = "exec"]
                [] ~fails /\ pc(p) = "first" -> [redirected EXCEPT !.pc = "exec", !.stdout = me.pipe]
                [] ~fails /\ pc(p) = "second" -> [redirected EXCEPT !.pc = "join", !.stdin = me.pipe]]
       /\ data' = IF in # NULL /\ ~fails THEN [data EXCEPT ![p] = FILE_LINES] ELSE data
       /\ returned' = (returned \/ fails)
       /\ unjoined' = (unjoined \/ (fails /\ pc(p) = "second"))
       /\ UNCHANGED <<typed, backgrounded>>

(* The second command waits for the first to finish before it starts.      *)
FirstNotJoined(p) == pc(p) = "join" /\ Goto(p, "exec") /\ UNCHANGED <<files, data, typed, ghosts>>
WaitFirst(p) == pc(p) = "join" /\ wait(p, "exec") /\ UNCHANGED <<files, data, typed, ghosts>>

(* execvp; without a file name it crashes, without such a file it returns. *)
Exec(p) ==
    LET argv == Argv(p) IN
    /\ pc(p) = "exec"
    /\ CASE argv = <<>> -> proc' = Ended(p) /\ UNCHANGED returned
         [] argv # <<>> /\ Head(argv) \in Programs ->
                /\ proc' = [proc EXCEPT ![p].pc = "program", ![p].left =
                                IF proc[p].stdout = Terminal THEN 0 ELSE Output[Head(argv)]]
                /\ UNCHANGED returned
         [] argv # <<>> /\ Head(argv) \notin Programs -> ReturnsToMain(p)
    /\ UNCHANGED <<files, data, typed, backgrounded, unjoined>>
-----------------------------------------------------------------------------
(* The programs.                                                           *)

Write(p) ==
    LET out == proc[p].stdout IN
    /\ pc(p) = "program" /\ proc[p].left > 0
    /\ IF Readers(out) = {} THEN proc' = Ended(p) /\ UNCHANGED data
       ELSE /\ data[out] < PIPE_SIZE
            /\ data' = [data EXCEPT ![out] = @ + 1]
            /\ proc' = [proc EXCEPT ![p].left = @ - 1]
    /\ UNCHANGED <<files, typed, ghosts>>

Read(p) ==
    LET in == proc[p].stdin IN
    /\ pc(p) = "program" /\ in # Terminal
    /\ data[in] > 0
    /\ data' = [data EXCEPT ![in] = @ - 1]
    /\ UNCHANGED <<proc, files, typed, ghosts>>

Finish(p) ==
    /\ pc(p) = "program" /\ proc[p].left = 0
    /\ proc[p].stdin # Terminal => Exhausted(proc[p].stdin)
    /\ proc' = Ended(p)
    /\ UNCHANGED <<files, data, typed, ghosts>>
-----------------------------------------------------------------------------
Init ==
    /\ proc = [p \in Procs |-> IF p = 1 THEN [Free EXCEPT !.pc = "prompt"] ELSE Free]
    /\ files = Files
    /\ data = [p \in Procs |-> 0]
    /\ typed = 0
    /\ backgrounded = FALSE /\ returned = FALSE /\ unjoined = FALSE

Runs(p) == \/ RunCommand(p) \/ Wait(p)
           \/ MakePipe(p) \/ StartCommand(p) \/ WaitFirst(p) \/ Exec(p)
           \/ Write(p) \/ Read(p) \/ Finish(p)
           \/ FailToRead(p) \/ \E line \in Lines : ReadLine(p, line)

Next == \E p \in Procs : Runs(p) \/ \E line \in Lines : TypeLine(p, line)

(* As long as some process can run, the kernel runs one.  That no process  *)
(* is starved by the others need not be assumed.  The user may stop typing.*)
Spec == Init /\ [][Next]_vars /\ WF_vars(\E p \in Procs : Runs(p))
-----------------------------------------------------------------------------
(* Properties.                                                             *)

ShellsAtTerminal == {p \in Procs : pc(p) = "prompt" /\ proc[p].stdin = Terminal}

(* A shell waits for its child, and the child may itself be a shell by     *)
(* then: but as long as nothing runs in the background and no pipe was     *)
(* left half set up, one process at a time reads what the user types.      *)
OneReaderOfTerminal ==
    ~backgrounded /\ ~unjoined => Cardinality(ShellsAtTerminal) <= 1

(* wait(NULL) reaps any child, the one just started or an older one that   *)
(* ran in the background.  Either way a shell that asks for a command has  *)
(* as many children, running or unreaped, as it has not waited for.  So    *)
(* none is left over if it started none in the background.                 *)
UnwaitedChildrenStay ==
    \A p \in Procs : pc(p) = "prompt" => Cardinality(Children(p)) = proc[p].unwaited

(* The line without its ampersand, and the command on one side of its bar. *)
Plain(line) ==
    LET last == Len(line)
    IN CASE line[last] = "&" -> SubSeq(line, 1, last - 1)
         [] line[last] \in DOMAIN Glued -> [line EXCEPT ![last] = Glued[@]]
         [] OTHER -> line
Part(plain, first) ==
    LET bar == Find(plain, "|")
    IN CASE bar = 0 -> plain
         [] bar # 0 /\ first -> SubSeq(plain, 1, bar - 1)
         [] OTHER -> SubSeq(plain, bar + 1, Len(plain))

(* What the user meant to be the words of a command.                       *)
Words(line, first) ==
    LET part == Part(Plain(line), first)
        IsWord(i) == part[i] \notin {"<", ">"} /\ (i > 1 => part[i - 1] \notin {"<", ">"})
    IN WordsAt(part, {i \in DOMAIN part : IsWord(i)})

(* A command in which check_redirection finds all redirections: it notes   *)
(* two, and takes what follows one for a file.                             *)
Symbols == {"<", ">"}
Legible(part) ==
    LET at == {i \in DOMAIN part : part[i] \in Symbols}
    IN Cardinality(at) <= 2 /\ \A i \in at : i + 1 \notin at

(* What the user is expected to type: words have a letter, and the         *)
(* redirections of a command are few and apart.                            *)
Vocabulary == UNION {Range(line) : line \in Lines}
LinesRight ==
    /\ NULL \notin Vocabulary
    /\ \A line \in Lines \ {<<>>} :
           /\ line \in Seq(Vocabulary)
           /\ \A first \in BOOLEAN : Legible(Part(Plain(line), first))

(* args is used for every line and never cleared behind its first NULL,    *)
(* where & and | put NULLs.  A program is executed with the words that     *)
(* were typed, at least if its shell has not run a pipe before.            *)
ArgvAsTyped ==
    \A p \in Procs : pc(p) = "program" =>
        Argv(p) = Words(proc[p].command, proc[p].off = 0) \/ proc[p].piped

(* A first command that fills its pipe while the second waits for it.      *)
Clogged == \E p \in Procs : pc(p) = "join" /\ data[p] = PIPE_SIZE

(* A command that was started is over some time and the shell asks for     *)
(* the next one, unless a child returned into main or a pipe is full.      *)
WaitEnds == \A p \in Procs : (pc(p) = "wait") ~> (pc(p) # "wait" \/ returned \/ Clogged)
=============================================================================
