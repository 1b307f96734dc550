-------------------------- MODULE SimpleShellProofs --------------------------
(***************************************************************************)
(* Theorems about SimpleShell, for any lines, programs, files and limits.  *)
(*                                                                         *)
(* Of the many steps of a process, four kinds matter to its relatives: it  *)
(* goes on by itself (Moves), gets a child (Forks), reaps one (Reaps), or  *)
(* ends.  Each action is shown to be one of them, and each kind to keep    *)
(* the invariant.                                                          *)
(***************************************************************************)
EXTENDS SimpleShell, Counting

Fields == {"pc", "parent", "args", "size", "off", "command", "piped", "unwaited",
           "stdin", "stdout", "pipe", "both", "left"}

(* The places in run_command at which a child is waited for.               *)
Waiting == {"wait", "second", "join"}

(* The children p has not waited for, the awaited one among them.          *)
Owed(p) == proc[p].unwaited + (IF pc(p) \in Waiting THEN 1 ELSE 0)

(* What is known of the record of every process.                           *)
Shape ==
    /\ DOMAIN proc = Procs
    /\ \A p \in Procs : /\ DOMAIN proc[p] = Fields
                        /\ proc[p].unwaited \in Nat
                        /\ proc[p].parent # p
                        /\ pc(p) \in {"pipe", "second"} => proc[p].unwaited = 0

(* Every process has as many children as it owes waits, and a dead one     *)
(* has none: wait reaps nobody else's, and those of the dead are adopted.  *)
Family ==
    \A p \in Procs : /\ IsFiniteSet(Children(p))
                     /\ p \in Alive => Cardinality(Children(p)) = Owed(p)
                     /\ p \notin Alive => Children(p) = {}

(* Who does not wait, a zombie included.                                   *)
Leaf(p) == pc(p) \notin {"free"} \cup Waiting

(* The shells that wait for one another form a chain with one end.         *)
OneLeaf ==
    ~backgrounded /\ ~unjoined => \A p, q \in Procs : Leaf(p) /\ Leaf(q) => p = q

IInv == Shape /\ Family /\ OneLeaf
-----------------------------------------------------------------------------
(* The kinds of steps.                                                     *)

Unmoved(P) == \A q \in Procs \ P : proc'[q] = proc[q]

Moves(p) ==
    /\ p \in Alive /\ (p \in Alive)' /\ Unmoved({p})
    /\ proc'[p].parent = proc[p].parent /\ Owed(p)' = Owed(p)

Forks(p, c) ==
    /\ p \in Alive /\ (p \in Alive)' /\ Unmoved({p, c})
    /\ c \in Procs /\ c # p /\ pc(c) = "free" /\ (c \in Alive)'
    /\ proc'[c].parent = p /\ proc'[p].parent = proc[p].parent
    /\ Owed(p)' = Owed(p) + 1 /\ Owed(c)' = 0

Reaps(p, c) ==
    /\ p \in Alive /\ (p \in Alive)' /\ Unmoved({p, c})
    /\ c \in Children(p) /\ c # p /\ pc(c) = "zombie" /\ pc(c)' = "free"
    /\ proc'[p].parent = proc[p].parent /\ Owed(p)' = Owed(p) - 1

LEMMA MovesKeepsFamily ==
    ASSUME Shape, Family, NEW p \in Procs, Moves(p)
    PROVE  Family'
<1> USE DEF Moves, Unmoved
<1>1. \A q \in Procs : Children(q)' = Children(q)
  BY DEF Children, Alive, pc
<1>2. \A q \in Procs : q # p => Owed(q)' = Owed(q) /\ ((q \in Alive)' <=> q \in Alive)
  BY DEF Owed, Alive, pc
<1> HIDE DEF Unmoved
<1> QED BY <1>1, <1>2 DEF Family

LEMMA ForksKeepsFamily ==
    ASSUME Shape, Family, NEW p \in Procs, NEW c \in Procs, Forks(p, c)
    PROVE  Family'
<1> USE DEF Forks, Unmoved
<1>1. \A q \in Procs : q # p => Children(q)' = Children(q)
  BY DEF Children, Alive, pc
<1>2. Children(p)' = Children(p) \cup {c} /\ c \notin Children(p)
  BY DEF Children, Alive, pc
<1>3. \A q \in Procs : q \notin {p, c} => Owed(q)' = Owed(q) /\ ((q \in Alive)' <=> q \in Alive)
  BY DEF Owed, Alive, pc
<1>4. c \notin Alive
  BY DEF Alive
<1>5. Children(c) = {} /\ IsFiniteSet({}) /\ Cardinality({}) = 0
  BY <1>4, FS_EmptySet DEF Family
<1>6. /\ IsFiniteSet(Children(p) \cup {c})
      /\ Cardinality(Children(p) \cup {c}) = Cardinality(Children(p)) + 1
  BY <1>2, FS_AddElement DEF Family
<1> HIDE DEF Unmoved
<1> QED BY <1>1, <1>2, <1>3, <1>4, <1>5, <1>6 DEF Family

LEMMA ReapsKeepsFamily ==
    ASSUME Shape, Family, NEW p \in Procs, NEW c \in Procs, Reaps(p, c)
    PROVE  Family'
<1> USE DEF Reaps, Unmoved
<1>1. \A q \in Procs : q # p => Children(q)' = Children(q)
  BY DEF Children, Alive, pc
<1>2. Children(p)' = Children(p) \ {c} /\ c \in Children(p)
  BY DEF Children, Alive, pc
<1>3. \A q \in Procs : q \notin {p, c} => Owed(q)' = Owed(q) /\ ((q \in Alive)' <=> q \in Alive)
  BY DEF Owed, Alive, pc
<1>4. c \notin Alive /\ (c \notin Alive)'
  BY DEF Alive
<1>5. /\ IsFiniteSet(Children(p) \ {c})
      /\ Cardinality(Children(p) \ {c}) = Cardinality(Children(p)) - 1
  BY <1>2, FS_RemoveElement DEF Family
<1> HIDE DEF Unmoved
<1> QED BY <1>1, <1>2, <1>3, <1>4, <1>5 DEF Family

LEMMA EndKeepsFamily ==
    ASSUME ShellAssumption, Shape, Family, NEW p \in Alive, proc' = Ended(p)
    PROVE  Shape' /\ Family'
<1>0. p \in Procs /\ Nobody \notin Procs
  BY ShellAssumption DEF Alive, Nobody, Procs
<1>1. \A q \in Procs : proc'[q] = Ended(p)[q]
  BY DEF Ended
<1>2. p \notin Children(p)
  BY DEF Children, Shape
<1>5. /\ pc(p)' \in {"free", "zombie"}
      /\ proc'[p].parent = proc[p].parent
  <2>1. proc'[p] = IF proc[p].parent = Nobody THEN Free
                   ELSE [Free EXCEPT !.pc = "zombie", !.parent = proc[p].parent]
    BY <1>0, <1>1, <1>2 DEF Ended
  <2> QED BY <2>1 DEF Free, pc
<1>3. \A q \in Children(p) : q # p =>
          /\ pc(q)' = IF pc(q) = "zombie" THEN "free" ELSE pc(q)
          /\ proc'[q].parent = Nobody /\ (pc(q) # "zombie" => proc'[q].unwaited = proc[q].unwaited)
  BY <1>1 DEF Ended, Free, pc, Children, Shape, Fields
<1>4. \A q \in Procs : q # p /\ q \notin Children(p) => proc'[q] = proc[q]
  BY <1>1 DEF Ended
<1>6. Shape'
  <2>1. DOMAIN proc' = Procs
    BY DEF Ended
  <2>2. \A q \in Procs : DOMAIN proc'[q] = Fields /\ proc'[q].unwaited \in Nat
    BY <1>1 DEF Ended, Free, Shape, Fields
  <2>3. \A q \in Procs : proc'[q].parent # q
    BY <1>0, <1>5, <1>3, <1>4 DEF Shape
  <2>4. \A q \in Procs : pc(q)' \in {"pipe", "second"} => proc'[q].unwaited = 0
    BY <1>5, <1>3, <1>4 DEF Shape, pc, Children
  <2> QED BY <2>1, <2>2, <2>3, <2>4 DEF Shape
<1>7. Children(p)' = {}
  BY <1>0, <1>5, <1>3, <1>4, <1>2 DEF Children, Shape, pc
<1>8. \A q \in Procs : q # p => Children(q)' = Children(q)
  <2> SUFFICES ASSUME NEW q \in Procs, q # p PROVE Children(q)' = Children(q)
    OBVIOUS
  <2>1. p \in Children(q)' <=> p \in Children(q)
    <3>1. CASE proc[p].parent = q
      <4>1. proc'[p] = [Free EXCEPT !.pc = "zombie", !.parent = proc[p].parent]
        BY <1>0, <1>1, <1>2, <3>1 DEF Ended
      <4> QED BY <4>1, <1>0, <3>1 DEF Free, Children, pc, Alive
    <3>2. CASE proc[p].parent # q
      BY <1>5, <3>2 DEF Children
    <3> QED BY <3>1, <3>2
  <2>2. \A c \in Procs : c \in Children(p) => c \notin Children(q) /\ c \notin Children(q)'
    BY <1>0, <1>3, <1>2 DEF Children
  <2>3. \A c \in Procs : c # p /\ c \notin Children(p) => (c \in Children(q)' <=> c \in Children(q))
    BY <1>4 DEF Children, pc
  <2> QED BY <2>1, <2>2, <2>3 DEF Children
<1>9. \A q \in Procs : q # p /\ q \in Alive => (q \in Alive)' /\ Owed(q)' = Owed(q)
  BY <1>3, <1>4 DEF Alive, Owed, pc
<1>10. \A q \in Procs : q # p /\ q \notin Alive => (q \notin Alive)'
  BY <1>3, <1>4 DEF Alive, pc
<1>11. (p \notin Alive)'
  BY <1>5 DEF Alive
<1>12. IsFiniteSet({}) 
  BY FS_EmptySet
<1> QED BY <1>0, <1>6, <1>7, <1>8, <1>9, <1>10, <1>11, <1>12 DEF Family

(* Who ends does not leave another reader behind.                          *)
LEMMA EndKeepsLeaf ==
    ASSUME ShellAssumption, Shape, OneLeaf, NEW p \in Alive, Leaf(p), proc' = Ended(p),
           unjoined' = unjoined, backgrounded' = backgrounded
    PROVE  OneLeaf'
<1>1. \A q \in Procs : q # p /\ Leaf(q)' => Leaf(q)
  BY DEF Ended, Leaf, Free, pc, Shape, Fields
<1> QED BY <1>1 DEF OneLeaf, Alive

(* wait, from a place where a child is awaited to one where none is.       *)
LEMMA WaitReaps ==
    ASSUME ShellAssumption, Shape, OneLeaf, NEW p \in Alive, pc(p) \in {"wait", "join"},
           NEW label, label \in {"prompt", "exec"}, wait(p, label),
           unjoined' = unjoined, backgrounded' = backgrounded
    PROVE  /\ Shape' /\ OneLeaf'
           /\ \E c \in Procs : Reaps(p, c)
<1>1. PICK c \in Children(p) : pc(c) = "zombie" /\ proc' = [proc EXCEPT ![c] = Free, ![p].pc = label]
  BY DEF wait
<1>2. p \in Procs /\ c \in Procs /\ c # p /\ Nobody \notin Procs
  BY <1>1, ShellAssumption DEF Children, Alive, Nobody, Procs
<1>3. /\ proc'[c] = Free
      /\ proc'[p] = [proc[p] EXCEPT !.pc = label]
      /\ Unmoved({p, c}) /\ DOMAIN proc' = Procs
  BY <1>1, <1>2 DEF Shape, Unmoved
<1>4. /\ pc(p)' = label /\ proc'[p].parent = proc[p].parent /\ proc'[p].unwaited = proc[p].unwaited
      /\ DOMAIN proc'[p] = Fields
      /\ pc(c)' = "free" /\ proc'[c].unwaited = 0 /\ proc'[c].parent = Nobody /\ DOMAIN proc'[c] = Fields
  BY <1>2, <1>3 DEF Shape, Fields, Free, pc
<1>5. Shape'
  <2>1. \A q \in Procs \ {p, c} :
            /\ DOMAIN proc'[q] = Fields /\ proc'[q].unwaited \in Nat /\ proc'[q].parent # q
            /\ pc(q)' \in {"pipe", "second"} => proc'[q].unwaited = 0
    BY <1>3 DEF Shape, Unmoved, pc
  <2>2. proc[p].unwaited \in Nat /\ proc[p].parent # p
    BY <1>2 DEF Shape
  <2>3. pc(p)' \notin {"pipe", "second"} /\ pc(c)' \notin {"pipe", "second"}
    BY <1>4
  <2>4. \A q \in {p, c} :
            /\ DOMAIN proc'[q] = Fields /\ proc'[q].unwaited \in Nat /\ proc'[q].parent # q
            /\ pc(q)' \in {"pipe", "second"} => proc'[q].unwaited = 0
    BY <1>2, <1>4, <2>2, <2>3 DEF pc
  <2> QED BY <1>3, <2>1, <2>4 DEF Shape
<1>6. Reaps(p, c)
  BY <1>1, <1>2, <1>3, <1>4 DEF Reaps, Owed, Waiting, Alive, Shape
<1>7. OneLeaf'
  <2>1. \A q \in Procs : q # p => (Leaf(q)' => Leaf(q) /\ q # c)
    BY <1>2, <1>3, <1>4 DEF Leaf, Unmoved, pc
  <2>2. Leaf(c)
    BY <1>1 DEF Leaf, Waiting
  <2> QED BY <1>2, <2>1, <2>2 DEF OneLeaf
<1> QED BY <1>2, <1>5, <1>6, <1>7

(* A process goes on by itself with the record r.                          *)
LEMMA StepAlone ==
    ASSUME ShellAssumption, IInv, NEW p \in Alive, NEW r, proc' = [proc EXCEPT ![p] = r],
           DOMAIN r = Fields, r.parent = proc[p].parent, r.unwaited \in Nat,
           r.pc \notin {"free", "zombie", "pipe", "second"},
           r.unwaited + (IF r.pc \in Waiting THEN 1 ELSE 0) = Owed(p),
           ~backgrounded' /\ ~unjoined' => ~backgrounded /\ ~unjoined,
           ~unjoined' => Leaf(p) \/ r.pc \in Waiting
    PROVE  IInv'
<1>1. p \in Procs
  BY DEF Alive
<1>2. proc'[p] = r /\ Unmoved({p}) /\ DOMAIN proc' = Procs
  BY <1>1 DEF IInv, Shape, Unmoved
<1>3. Shape'
  <2>1. r.parent # p
    BY <1>1 DEF IInv, Shape
  <2> QED BY <1>2, <2>1 DEF IInv, Shape, Unmoved, pc
<1>4. Moves(p)
  BY <1>1, <1>2 DEF Moves, Alive, Owed, pc
<1>5. Family'
  BY <1>1, <1>4, MovesKeepsFamily DEF IInv
<1>6. OneLeaf'
  <2>1. \A q \in Procs : q # p => (Leaf(q)' <=> Leaf(q))
    BY <1>2 DEF Unmoved, Leaf, pc
  <2>2. ~unjoined' /\ Leaf(p)' => Leaf(p)
    BY <1>2 DEF Leaf, pc
  <2> QED BY <1>1, <2>1, <2>2 DEF IInv, OneLeaf
<1> QED BY <1>3, <1>5, <1>6 DEF IInv

(* A process goes on with r and has a child with the record k.             *)
LEMMA StepForks ==
    ASSUME ShellAssumption, IInv, NEW p \in Alive, NEW c \in Procs, pc(c) = "free",
           NEW r, NEW k, proc'[p] = r, proc'[c] = k, Unmoved({p, c}), DOMAIN proc' = Procs,
           DOMAIN r = Fields, r.parent = proc[p].parent, r.unwaited \in Nat,
           r.pc \notin {"free", "zombie", "pipe"}, r.pc = "second" => r.unwaited = 0,
           r.unwaited + (IF r.pc \in Waiting THEN 1 ELSE 0) = Owed(p) + 1,
           DOMAIN k = Fields, k.parent = p, k.unwaited = 0,
           k.pc \notin {"free", "zombie"} \cup Waiting,
           ~backgrounded' /\ ~unjoined' => ~backgrounded /\ ~unjoined,
           Leaf(p), backgrounded' \/ r.pc \in Waiting
    PROVE  IInv'
<1>1. p \in Procs /\ c # p
  BY DEF Alive
<1>2. Shape'
  <2>1. r.parent # p
    BY <1>1 DEF IInv, Shape
  <2> QED BY <1>1, <2>1 DEF IInv, Shape, Unmoved, pc, Waiting
<1>3. Forks(p, c)
  BY <1>1 DEF Forks, Alive, Owed, pc
<1>4. Family'
  BY <1>1, <1>3, ForksKeepsFamily DEF IInv
<1>5. OneLeaf'
  <2>1. \A q \in Procs : q \notin {p, c} => (Leaf(q)' <=> Leaf(q))
    BY DEF Unmoved, Leaf, pc
  <2>2. ~backgrounded' => ~Leaf(p)'
    BY DEF Leaf, pc
  <2> QED BY <1>1, <2>1, <2>2 DEF IInv, OneLeaf
<1> QED BY <1>2, <1>4, <1>5 DEF IInv

(* A process that does not wait ends.                                      *)
LEMMA StepEnds ==
    ASSUME ShellAssumption, IInv, NEW p \in Alive, Leaf(p), proc' = Ended(p),
           unjoined' = unjoined, backgrounded' = backgrounded
    PROVE  IInv'
  BY EndKeepsFamily, EndKeepsLeaf DEF IInv

LEMMA StepWaits ==
    ASSUME ShellAssumption, IInv, NEW p \in Alive, pc(p) \in {"wait", "join"},
           NEW label, label \in {"prompt", "exec"}, wait(p, label),
           unjoined' = unjoined, backgrounded' = backgrounded
    PROVE  IInv'
<1>1. Shape' /\ OneLeaf' /\ \E c \in Procs : Reaps(p, c)
  BY WaitReaps DEF IInv
<1>2. Family'
  BY <1>1, ReapsKeepsFamily DEF IInv, Alive
<1> QED BY <1>1, <1>2 DEF IInv

(* A process whose record does not change.                                 *)
LEMMA StepElsewhere ==
    ASSUME IInv, proc' = proc, unjoined' = unjoined, backgrounded' = backgrounded
    PROVE  IInv'
<1>1. Shape'
  BY DEF IInv, Shape, pc
<1>2. /\ \A p \in Procs : Children(p)' = Children(p) /\ Owed(p)' = Owed(p)
      /\ Alive' = Alive
  BY DEF Children, Owed, pc, Alive
<1>3. Family'
  BY <1>2 DEF IInv, Family
<1>4. OneLeaf'
  BY DEF IInv, OneLeaf, Leaf, pc
<1> QED BY <1>1, <1>3, <1>4 DEF IInv
-----------------------------------------------------------------------------
(* The actions.                                                            *)

LEMMA GetLineStep ==
    ASSUME ShellAssumption, IInv, NEW s \in Procs, pc(s) = "prompt", NEW typedLine,
           GetLine(s, typedLine), unjoined' = unjoined, backgrounded' = backgrounded
    PROVE  IInv'
<1>1. s \in Alive /\ Leaf(s)
  BY DEF Alive, Leaf, Waiting
<1> DEFINE line == IF typedLine = <<"!!">> THEN proc[s].command ELSE typedLine
           args == parse_input(refresh_args(proc[s].args), line)
           piped == proc[s].piped \/ Contains(proc[s].command, "|")
           label == IF line = <<>> THEN "prompt" ELSE "run"
           r == [[proc[s] EXCEPT !.args = args, !.size = Len(line), !.command = line,
                                 !.piped = piped] EXCEPT !.pc = label]
<1>2. proc' = Ended(s) \/ proc' = [proc EXCEPT ![s] = r]
  BY DEF GetLine
<1>3. label \in {"prompt", "run"}
  OBVIOUS
<1> HIDE DEF line, args, piped, label
<1>4. /\ DOMAIN r = Fields /\ r.parent = proc[s].parent /\ r.unwaited = proc[s].unwaited
      /\ r.pc = label /\ r.unwaited \in Nat
  BY DEF IInv, Shape, Fields
<1>5. r.unwaited + (IF r.pc \in Waiting THEN 1 ELSE 0) = Owed(s)
  BY <1>3, <1>4 DEF Owed, Waiting
<1> HIDE DEF r
<1>6. CASE proc' = [proc EXCEPT ![s] = r]
  BY <1>1, <1>3, <1>4, <1>5, <1>6, StepAlone
<1> QED BY <1>1, <1>2, <1>6, StepEnds

LEMMA RunCommandStep ==
    ASSUME ShellAssumption, IInv, NEW s \in Procs, RunCommand(s)
    PROVE  IInv'
<1> DEFINE amp == check_ampersand(proc[s].args, proc[s].size)
           bar == detect_pipe(amp.args, amp.size)
           args == IF bar > amp.size THEN amp.args ELSE [amp.args EXCEPT ![bar] = NULL]
           place == IF bar < amp.size THEN "pipe" ELSE "single"
           left == amp.size - bar
           k == [proc[s] EXCEPT !.pc = place, !.parent = s, !.unwaited = 0, !.args = args,
                                !.size = bar - 1, !.off = 0, !.left = left, !.pipe = Nobody]
           label == IF amp.found THEN "prompt" ELSE "wait"
           count == IF amp.found THEN proc[s].unwaited + 1 ELSE proc[s].unwaited
           r == [proc[s] EXCEPT !.args = args, !.pc = label,
                                !.unwaited = IF amp.found THEN @ + 1 ELSE @]
           alone == [[proc[s] EXCEPT !.args = args] EXCEPT !.pc = "prompt"]
<1>1. /\ pc(s) = "run" /\ unjoined' = unjoined
      /\ \/ \E c \in Fresh :
               /\ proc' = [proc EXCEPT ![c] = k, ![s] = r]
               /\ backgrounded' = (backgrounded \/ amp.found)
         \/ /\ proc' = [proc EXCEPT ![s].args = args, ![s].pc = "prompt"]
            /\ backgrounded' = backgrounded
  BY DEF RunCommand
<1>2. place \in {"pipe", "single"} /\ (amp.found \/ label = "wait") /\ label \in {"prompt", "wait"}
  OBVIOUS
<1>3. proc[s].unwaited \in Nat /\ DOMAIN proc[s] = Fields /\ DOMAIN proc = Procs
  BY DEF IInv, Shape
<1>4. count = proc[s].unwaited + (IF label = "prompt" THEN 1 ELSE 0) /\ count \in Nat
  BY <1>3
<1> HIDE DEF amp, bar, args, place, left, label, count, k, r, alone
<1>5. s \in Alive /\ Leaf(s) /\ Owed(s) = proc[s].unwaited
  <2>1. pc(s) = "run"
    BY <1>1
  <2>2. s \in Alive /\ Leaf(s)
    BY <2>1 DEF Alive, Leaf, Waiting
  <2> QED BY <1>3, <2>1, <2>2 DEF Waiting, Owed
<1> USE DEF k, r, alone
<1>6. CASE proc' = [proc EXCEPT ![s].args = args, ![s].pc = "prompt"] /\ backgrounded' = backgrounded
  <2>1. proc' = [proc EXCEPT ![s] = alone]
    BY <1>3, <1>6
  <2>2. /\ DOMAIN alone = Fields /\ alone.parent = proc[s].parent
        /\ alone.unwaited = proc[s].unwaited /\ alone.pc = "prompt"
    BY <1>3 DEF Fields
  <2>3. alone.unwaited + (IF alone.pc \in Waiting THEN 1 ELSE 0) = Owed(s)
    BY <1>3, <1>5, <2>2 DEF Waiting
  <2> HIDE DEF alone
  <2> QED BY <1>1, <1>3, <1>5, <1>6, <2>1, <2>2, <2>3, StepAlone
<1>7. ASSUME NEW c \in Fresh,
             proc' = [proc EXCEPT ![c] = k, ![s] = r],
             backgrounded' = (backgrounded \/ amp.found)
      PROVE  IInv'
  <2>1. c \in Procs /\ pc(c) = "free" /\ c # s
    BY <1>1 DEF Fresh
  <2>2. /\ proc'[s] = r /\ proc'[c] = k
        /\ Unmoved({s, c}) /\ DOMAIN proc' = Procs
    <3> HIDE DEF k, r
    <3> QED BY <1>3, <1>7, <2>1 DEF Unmoved
  <2>3. /\ DOMAIN r = Fields /\ r.parent = proc[s].parent /\ r.unwaited = count /\ r.pc = label
        /\ DOMAIN k = Fields /\ k.parent = s /\ k.unwaited = 0 /\ k.pc = place
    BY <1>3 DEF Fields, count
  <2> HIDE DEF r, k
  <2>4. /\ r.pc \notin {"free", "zombie", "pipe", "second"} /\ k.pc \notin {"free", "zombie"} \cup Waiting
        /\ (backgrounded' \/ r.pc \in Waiting)
    BY <1>2, <1>7, <2>3 DEF Waiting
  <2>5. r.unwaited + (IF r.pc \in Waiting THEN 1 ELSE 0) = Owed(s) + 1
    BY <1>2, <1>3, <1>4, <1>5, <2>3 DEF Waiting
  <2>6. r.unwaited \in Nat /\ (~backgrounded' /\ ~unjoined' => ~backgrounded /\ ~unjoined)
    BY <1>1, <1>4, <1>7, <2>3
  <2>7. r.pc = "second" => r.unwaited = 0
    BY <2>4
  <2> QED BY <1>5, <2>1, <2>2, <2>3, <2>4, <2>5, <2>6, <2>7, StepForks
<1> QED BY <1>1, <1>6, <1>7

LEMMA MakePipeStep ==
    ASSUME ShellAssumption, IInv, NEW c \in Procs, MakePipe(c)
    PROVE  IInv'
<1> DEFINE end == [proc[c] EXCEPT !.pipe = c, !.both = @ \cup {c}]
           r == [end EXCEPT !.pc = "second", !.off = @ + end.size + 1, !.size = end.left]
           k == [end EXCEPT !.pc = "first", !.parent = c]
           alone == [proc[c] EXCEPT !.pc = "prompt"]
<1>1. /\ pc(c) = "pipe" /\ unjoined' = unjoined /\ backgrounded' = backgrounded
      /\ \/ \E g \in Fresh \ {c} : proc' = [proc EXCEPT ![c] = r, ![g] = k]
         \/ proc' = [proc EXCEPT ![c].pc = "prompt"]
  BY DEF MakePipe, ReturnsToMain, Goto
<1>2. c \in Alive /\ Leaf(c) /\ proc[c].unwaited = 0 /\ Owed(c) = 0
  BY <1>1 DEF Alive, Leaf, Waiting, Owed, IInv, Shape
<1>3. DOMAIN proc[c] = Fields /\ DOMAIN proc = Procs
  BY DEF IInv, Shape
<1>4. CASE proc' = [proc EXCEPT ![c].pc = "prompt"]
  <2>1. proc' = [proc EXCEPT ![c] = alone]
    BY <1>3, <1>4
  <2>2. /\ DOMAIN alone = Fields /\ alone.parent = proc[c].parent
        /\ alone.unwaited = proc[c].unwaited /\ alone.pc = "prompt"
    BY <1>3 DEF Fields
  <2>3. alone.unwaited + (IF alone.pc \in Waiting THEN 1 ELSE 0) = Owed(c)
    BY <1>2, <2>2 DEF Waiting
  <2>4. alone.unwaited \in Nat /\ alone.pc \notin {"free", "zombie", "pipe", "second"}
    BY <1>2, <2>2
  <2> HIDE DEF alone
  <2> QED BY <1>1, <1>2, <2>1, <2>2, <2>3, <2>4, StepAlone
<1>5. ASSUME NEW g \in Fresh \ {c}, proc' = [proc EXCEPT ![c] = r, ![g] = k]
      PROVE  IInv'
  <2>1. g \in Procs /\ pc(g) = "free" /\ g # c
    BY DEF Fresh
  <2>2. proc'[c] = r /\ proc'[g] = k /\ Unmoved({c, g}) /\ DOMAIN proc' = Procs
    BY <1>3, <1>5, <2>1 DEF Unmoved
  <2>3. DOMAIN end = Fields /\ end.parent = proc[c].parent /\ end.unwaited = 0
    BY <1>2, <1>3 DEF Fields
  <2> HIDE DEF end
  <2>4. /\ DOMAIN r = Fields /\ r.parent = proc[c].parent /\ r.unwaited = 0 /\ r.pc = "second"
        /\ DOMAIN k = Fields /\ k.parent = c /\ k.unwaited = 0 /\ k.pc = "first"
    BY <2>3 DEF Fields
  <2> HIDE DEF r, k
  <2>5. r.pc \in Waiting /\ k.pc \notin {"free", "zombie"} \cup Waiting
    BY <2>4 DEF Waiting
  <2> QED BY <1>1, <1>2, <2>1, <2>2, <2>4, <2>5, StepForks
<1> QED BY <1>1, <1>4, <1>5

LEMMA StartCommandStep ==
    ASSUME ShellAssumption, IInv, NEW p \in Procs, StartCommand(p)
    PROVE  IInv'
<1> DEFINE found == check_redirection(proc[p].args, proc[p].off, proc[p].size)
           in == IF pc(p) = "second" THEN NULL ELSE found.in
           out == IF pc(p) = "first" THEN NULL ELSE found.out
           fails == ~redirect_io(in, out)
           me == [proc[p] EXCEPT !.args = found.args,
                                 !.stdout = IF Opened(out) THEN Terminal ELSE @]
           redirected == [me EXCEPT !.stdin = IF in # NULL THEN p ELSE @,
                                    !.both = Closed(@, me.pipe)]
           r == CASE fails /\ pc(p) = "second" -> [me EXCEPT !.pc = "prompt", !.unwaited = 1]
                  [] fails /\ pc(p) # "second" -> [me EXCEPT !.pc = "prompt"]
                  [] ~fails /\ pc(p) = "single" -> [redirected EXCEPT !.pc = "exec"]
                  [] ~fails /\ pc(p) = "first" -> [redirected EXCEPT !.pc = "exec", !.stdout = me.pipe]
                  [] ~fails /\ pc(p) = "second" -> [redirected EXCEPT !.pc = "join", !.stdin = me.pipe]
<1>1. /\ pc(p) \in {"single", "first", "second"}
      /\ proc' = [proc EXCEPT ![p] = r]
      /\ unjoined' = (unjoined \/ (fails /\ pc(p) = "second"))
      /\ backgrounded' = backgrounded
  BY DEF StartCommand
<1>2. DOMAIN proc[p] = Fields /\ proc[p].unwaited \in Nat
  BY DEF IInv, Shape
<1>3. /\ DOMAIN me = Fields /\ me.parent = proc[p].parent /\ me.unwaited = proc[p].unwaited
  <2> HIDE DEF found, in, out
  <2> QED BY <1>2 DEF Fields
<1>4. /\ DOMAIN redirected = Fields /\ redirected.parent = proc[p].parent
      /\ redirected.unwaited = proc[p].unwaited
  <2> HIDE DEF found, in, out, me
  <2> QED BY <1>3 DEF Fields
<1>5. p \in Alive
  BY <1>1 DEF Alive
<1> HIDE DEF found, in, out, fails, me, redirected
<1>6. CASE pc(p) = "second"
  <2>1. proc[p].unwaited = 0 /\ Owed(p) = 1
    BY <1>6 DEF IInv, Shape, Owed, Waiting
  <2>2. CASE fails
    <3>1. r = [me EXCEPT !.pc = "prompt", !.unwaited = 1]
      BY <1>6, <2>2
    <3> HIDE DEF r
    <3>2. /\ DOMAIN r = Fields /\ r.parent = proc[p].parent /\ r.unwaited = 1 /\ r.pc = "prompt"
      BY <1>3, <3>1 DEF Fields
    <3>3. r.unwaited + (IF r.pc \in Waiting THEN 1 ELSE 0) = Owed(p)
      BY <2>1, <3>2 DEF Waiting
    <3>4. unjoined' = TRUE
      BY <1>1, <1>6, <2>2
    <3>5. r.unwaited \in Nat /\ r.pc \notin {"free", "zombie", "pipe", "second"}
      BY <3>2
    <3> QED BY <1>1, <1>5, <3>2, <3>3, <3>4, <3>5, StepAlone
  <2>3. CASE ~fails
    <3>1. r = [redirected EXCEPT !.pc = "join", !.stdin = me.pipe]
      BY <1>6, <2>3
    <3> HIDE DEF r
    <3>2. /\ DOMAIN r = Fields /\ r.parent = proc[p].parent /\ r.unwaited = 0 /\ r.pc = "join"
      BY <1>4, <2>1, <3>1 DEF Fields
    <3>3. r.unwaited + (IF r.pc \in Waiting THEN 1 ELSE 0) = Owed(p) /\ r.pc \in Waiting
      BY <2>1, <3>2 DEF Waiting
    <3>4. ~unjoined' => ~unjoined
      BY <1>1, <2>3
    <3>5. r.unwaited \in Nat /\ r.pc \notin {"free", "zombie", "pipe", "second"}
      BY <3>2
    <3> QED BY <1>1, <1>5, <3>2, <3>3, <3>4, <3>5, StepAlone
  <2> QED BY <2>2, <2>3
<1>7. CASE pc(p) # "second"
  <2>1. Owed(p) = proc[p].unwaited /\ Leaf(p)
    BY <1>1, <1>2, <1>7 DEF Owed, Leaf, Waiting
  <2>2. /\ DOMAIN r = Fields /\ r.parent = proc[p].parent
        /\ r.unwaited = proc[p].unwaited /\ r.pc \in {"prompt", "exec"}
    <3>1. CASE fails
      <4>1. r = [me EXCEPT !.pc = "prompt"]
        BY <1>7, <3>1
      <4> QED BY <1>3, <4>1 DEF Fields
    <3>2. CASE ~fails
      <4>1. CASE r = [redirected EXCEPT !.pc = "exec"]
        BY <1>4, <4>1 DEF Fields
      <4>2. CASE r = [redirected EXCEPT !.pc = "exec", !.stdout = me.pipe]
        <5> HIDE DEF r
        <5> QED BY <1>4, <4>2 DEF Fields
      <4>3. pc(p) \in {"single", "first"}
        BY <1>1, <1>7
      <4> QED BY <3>2, <4>1, <4>2, <4>3
    <3> QED BY <3>1, <3>2
  <2> HIDE DEF r
  <2>3. r.unwaited + (IF r.pc \in Waiting THEN 1 ELSE 0) = Owed(p)
    BY <1>2, <2>1, <2>2 DEF Waiting
  <2>4. ~unjoined' => ~unjoined
    BY <1>1, <1>7
  <2>5. r.unwaited \in Nat /\ r.pc \notin {"free", "zombie", "pipe", "second"}
    BY <1>2, <2>2
  <2> QED BY <1>1, <1>5, <2>1, <2>2, <2>3, <2>4, <2>5, StepAlone
<1> QED BY <1>6, <1>7

(* A process at a place where it does not wait goes to another one.        *)
LEMMA GoesOn ==
    ASSUME ShellAssumption, IInv, NEW p \in Alive, Leaf(p), NEW r,
           proc' = [proc EXCEPT ![p] = r], unjoined' = unjoined, backgrounded' = backgrounded,
           DOMAIN r = Fields, r.parent = proc[p].parent, r.unwaited = proc[p].unwaited,
           r.pc \in {"prompt", "exec", "program"}
    PROVE  IInv'
<1>1. proc[p].unwaited \in Nat /\ Owed(p) = proc[p].unwaited
  BY DEF Alive, Leaf, IInv, Shape, Owed
<1>2. r.unwaited + (IF r.pc \in Waiting THEN 1 ELSE 0) = Owed(p)
  BY <1>1 DEF Waiting
<1>3. r.unwaited \in Nat /\ r.pc \notin {"free", "zombie", "pipe", "second"}
  BY <1>1
<1> QED BY <1>2, <1>3, StepAlone

LEMMA ExecStep ==
    ASSUME ShellAssumption, IInv, NEW p \in Procs, Exec(p)
    PROVE  IInv'
<1> DEFINE left == IF proc[p].stdout = Terminal THEN 0 ELSE Output[Head(Argv(p))]
           program == [proc[p] EXCEPT !.pc = "program", !.left = left]
           shell == [proc[p] EXCEPT !.pc = "prompt"]
<1>1. /\ pc(p) = "exec" /\ unjoined' = unjoined /\ backgrounded' = backgrounded
      /\ \/ proc' = Ended(p)
         \/ proc' = [proc EXCEPT ![p].pc = "program", ![p].left = left]
         \/ proc' = [proc EXCEPT ![p].pc = "prompt"]
  BY DEF Exec, ReturnsToMain, Goto
<1>2. p \in Alive /\ Leaf(p)
  BY <1>1 DEF Alive, Leaf, Waiting
<1>3. DOMAIN proc[p] = Fields /\ DOMAIN proc = Procs
  BY DEF IInv, Shape
<1> HIDE DEF left
<1>4. /\ DOMAIN program = Fields /\ program.parent = proc[p].parent
      /\ program.unwaited = proc[p].unwaited /\ program.pc = "program"
  BY <1>3 DEF Fields
<1>5. /\ DOMAIN shell = Fields /\ shell.parent = proc[p].parent
      /\ shell.unwaited = proc[p].unwaited /\ shell.pc = "prompt"
  BY <1>3 DEF Fields
<1>6. CASE proc' = [proc EXCEPT ![p].pc = "program", ![p].left = left]
  <2>1. proc' = [proc EXCEPT ![p] = program]
    BY <1>3, <1>6
  <2> HIDE DEF program
  <2> QED BY <1>1, <1>2, <1>4, <2>1, GoesOn
<1>7. CASE proc' = [proc EXCEPT ![p].pc = "prompt"]
  <2>1. proc' = [proc EXCEPT ![p] = shell]
    BY <1>3, <1>7
  <2> HIDE DEF shell
  <2> QED BY <1>1, <1>2, <1>5, <2>1, GoesOn
<1> QED BY <1>1, <1>2, <1>6, <1>7, StepEnds

LEMMA WriteStep ==
    ASSUME ShellAssumption, IInv, NEW p \in Procs, Write(p)
    PROVE  IInv'
<1> DEFINE rest == proc[p].left - 1
           r == [proc[p] EXCEPT !.left = rest]
<1>1. /\ pc(p) = "program" /\ unjoined' = unjoined /\ backgrounded' = backgrounded
      /\ proc' = Ended(p) \/ proc' = [proc EXCEPT ![p].left = rest]
  BY DEF Write, ghosts
<1>2. p \in Alive /\ Leaf(p)
  BY <1>1 DEF Alive, Leaf, Waiting
<1>3. DOMAIN proc[p] = Fields /\ DOMAIN proc = Procs
  BY DEF IInv, Shape
<1> HIDE DEF rest
<1>4. /\ DOMAIN r = Fields /\ r.parent = proc[p].parent
      /\ r.unwaited = proc[p].unwaited /\ r.pc = "program"
  BY <1>1, <1>3 DEF Fields, pc
<1>5. CASE proc' = [proc EXCEPT ![p].left = rest]
  <2>1. proc' = [proc EXCEPT ![p] = r]
    BY <1>3, <1>5
  <2> HIDE DEF r
  <2> QED BY <1>1, <1>2, <1>4, <2>1, GoesOn
<1> QED BY <1>1, <1>2, <1>5, StepEnds
-----------------------------------------------------------------------------
(* The shell starts alone.                                                 *)
LEMMA InitIInv ==
    ASSUME ShellAssumption, Init
    PROVE  IInv
<1>1. \A p \in Procs : /\ proc[p] = IF p = 1 THEN [Free EXCEPT !.pc = "prompt"] ELSE Free
                       /\ p # Nobody
  BY ShellAssumption DEF Init, Procs, Nobody
<1>2. \A p \in Procs : /\ DOMAIN proc[p] = Fields /\ proc[p].unwaited = 0 /\ proc[p].parent = Nobody
                       /\ pc(p) = IF p = 1 THEN "prompt" ELSE "free"
  BY <1>1 DEF Free, Fields, pc
<1>3. Shape
  <2>1. DOMAIN proc = Procs
    BY DEF Init
  <2> QED BY <1>1, <1>2, <2>1 DEF Shape
<1>4. Family
  <2>1. \A p \in Procs : Children(p) = {} /\ Owed(p) = 0
    BY <1>1, <1>2 DEF Children, Owed, Waiting
  <2> QED BY <2>1, FS_EmptySet DEF Family
<1>5. OneLeaf
  BY <1>2 DEF OneLeaf, Leaf
<1> QED BY <1>3, <1>4, <1>5 DEF IInv

(* Every step of every process, and every line typed, preserves the        *)
(* invariant: forks, waits, failing execvps and ends of processes change   *)
(* the number of children and the number of waits owed together, and hand  *)
(* the terminal on to one process.                                         *)
THEOREM InductiveStep ==
    ASSUME ShellAssumption, IInv, [Next]_vars
    PROVE  IInv'
<1>1. ASSUME NEW p \in Procs, NEW line \in Lines, TypeLine(p, line)
      PROVE  IInv'
  BY <1>1, GetLineStep DEF TypeLine
<1>2. ASSUME NEW p \in Procs, Runs(p)
      PROVE  IInv'
  <2>1. CASE RunCommand(p)
    BY <2>1, RunCommandStep
  <2>2. CASE Wait(p)
    <3>1. pc(p) = "wait" /\ wait(p, "prompt") /\ p \in Alive
      BY <2>2 DEF Wait, Alive
    <3>2. unjoined' = unjoined /\ backgrounded' = backgrounded
      BY <2>2 DEF Wait, ghosts
    <3> QED BY <3>1, <3>2, StepWaits
  <2>3. CASE MakePipe(p)
    BY <2>3, MakePipeStep
  <2>4. CASE StartCommand(p)
    BY <2>4, StartCommandStep
  <2>5. CASE WaitFirst(p)
    <3>1. pc(p) = "join" /\ wait(p, "exec") /\ p \in Alive
      BY <2>5 DEF WaitFirst, Alive
    <3>2. unjoined' = unjoined /\ backgrounded' = backgrounded
      BY <2>5 DEF WaitFirst, ghosts
    <3> QED BY <3>1, <3>2, StepWaits
  <2>6. CASE Exec(p)
    BY <2>6, ExecStep
  <2>7. CASE Write(p)
    BY <2>7, WriteStep
  <2>8. CASE Read(p)
    BY <2>8, StepElsewhere DEF Read, ghosts
  <2>9. CASE Finish(p)
    <3>1. p \in Alive /\ Leaf(p)
      BY <2>9 DEF Finish, Alive, Leaf, Waiting
    <3> QED BY <2>9, <3>1, StepEnds DEF Finish, ghosts
  <2>10. CASE FailToRead(p)
    BY <2>10, StepElsewhere DEF FailToRead, vars
  <2>11. ASSUME NEW line \in Lines, ReadLine(p, line)
         PROVE  IInv'
    BY <2>11, GetLineStep DEF ReadLine, ghosts
  <2> QED BY <1>2, <2>1, <2>2, <2>3, <2>4, <2>5, <2>6, <2>7, <2>8, <2>9, <2>10, <2>11 DEF Runs
<1>3. CASE UNCHANGED vars
  BY <1>3, StepElsewhere DEF vars
<1> QED BY <1>1, <1>2, <1>3 DEF Next

(* In every state children and owed waits agree and the leaf is one.       *)
THEOREM Invariance == Spec => []IInv
<1>1. Init => IInv
  BY InitIInv, ShellAssumption
<1>2. IInv /\ [Next]_vars => IInv'
  BY InductiveStep, ShellAssumption
<1> QED BY <1>1, <1>2, PTL DEF Spec

(* For any number of processes and any lines: unless a command ran in the  *)
(* background or the second command of a pipe came back without having     *)
(* waited for the first, what the user types is read by one process.       *)
THEOREM TerminalHasOneReader == Spec => []OneReaderOfTerminal
<1>1. IInv => OneReaderOfTerminal
  <2> SUFFICES ASSUME IInv, ~backgrounded, ~unjoined
               PROVE  Cardinality(ShellsAtTerminal) <= 1
    BY DEF OneReaderOfTerminal
  <2>1. \A p, q \in ShellsAtTerminal : p = q
    BY DEF IInv, OneLeaf, Leaf, Waiting, ShellsAtTerminal
  <2>2. CASE ShellsAtTerminal = {}
    BY <2>2, FS_EmptySet
  <2>3. CASE ShellsAtTerminal # {}
    <3>1. PICK p : p \in ShellsAtTerminal
      BY <2>3
    <3>2. ShellsAtTerminal = {p}
      BY <2>1, <3>1
    <3> QED BY <3>2, FS_Singleton
  <2> QED BY <2>2, <2>3
<1> QED BY <1>1, Invariance, PTL

(* A shell that asks for a command has as many children, running or        *)
(* unreaped, as it has not waited for: wait(NULL) may reap an older child  *)
(* than the one just started, but it reaps one for each it is called for.  *)
THEOREM ChildrenAreOwed == Spec => []UnwaitedChildrenStay
<1>1. IInv => UnwaitedChildrenStay
  BY DEF IInv, Family, Shape, Owed, Waiting, UnwaitedChildrenStay, Alive
<1> QED BY <1>1, Invariance, PTL
-----------------------------------------------------------------------------
(***************************************************************************)
(* What a program is told.                                                 *)
(*                                                                         *)
(* Words are typed, and args is an array of them and of NULLs.  As long as *)
(* no pipe has left words behind a NULL, args is Padded: a line of words   *)
(* and NULLs behind it.  Then refresh_args clears it, and each function    *)
(* makes of it what is meant to be made of the line.                       *)
(***************************************************************************)
Word == Vocabulary \cup {Glued[w] : w \in DOMAIN Glued}
Array == [1 .. Slots -> Word \cup {NULL}]

Padded(words) == [i \in 1 .. Slots |-> IF i <= Len(words) THEN words[i] ELSE NULL]
Clean(args) == \E words \in Seq(Word) : Len(words) < Slots /\ args = Padded(words)

(* Find returns the first place of a word, or 0.                           *)
LEMMA FindFinds ==
    ASSUME NEW s, Len(s) \in Nat, NEW word
    PROVE  /\ Find(s, word) \in 0 .. Len(s)
           /\ Find(s, word) = 0 => \A i \in 1 .. Len(s) : s[i] # word
           /\ Find(s, word) # 0 => /\ s[Find(s, word)] = word
                                   /\ \A i \in 1 .. Find(s, word) - 1 : s[i] # word
<1> DEFINE I == {i \in 1 .. Len(s) : s[i] = word}
<1>1. Find(s, word) = IF I # {} THEN Min(I) ELSE 0
  BY DEF Find, SelectInSeq
<1>2. CASE I = {}
  BY <1>1, <1>2
<1>3. CASE I # {}
  <2>1. I \subseteq Nat
    OBVIOUS
  <2> HIDE DEF I
  <2>2. PICK k \in I : \A i \in I : k <= i
    BY <1>3, <2>1, LeastNat
  <2>3. Min(I) = k
    <3>1. \A x \in I : (\A y \in I : x <= y) => x = k
      BY <2>1, <2>2
    <3> QED BY <2>2, <3>1 DEF Min
  <2>4. Find(s, word) = k
    BY <1>1, <1>3, <2>3
  <2>5. k \in 1 .. Len(s) /\ s[k] = word
    BY <2>2 DEF I
  <2>6. \A i \in 1 .. k - 1 : s[i] # word
    <3> SUFFICES ASSUME NEW i \in 1 .. k - 1, s[i] = word PROVE FALSE
      OBVIOUS
    <3>1. i \in I
      BY <2>5 DEF I
    <3>2. k <= i
      BY <2>2, <3>1
    <3> QED BY <2>5, <3>2
  <2> QED BY <2>4, <2>5, <2>6
<1> QED BY <1>2, <1>3

LEMMA FindIs ==
    ASSUME NEW s, Len(s) \in Nat, NEW word, NEW k \in 1 .. Len(s), s[k] = word,
           \A i \in 1 .. k - 1 : s[i] # word
    PROVE  Find(s, word) = k
<1> DEFINE f == Find(s, word)
<1>1. /\ f \in 0 .. Len(s)
      /\ f = 0 => \A i \in 1 .. Len(s) : s[i] # word
      /\ f # 0 => s[f] = word /\ \A i \in 1 .. f - 1 : s[i] # word
  BY FindFinds
<1> HIDE DEF f
<1>2. f # 0
  BY <1>1
<1>3. ~ (f < k) /\ ~ (k < f)
  BY <1>1, <1>2
<1>4. f = k
  BY <1>1, <1>3
<1> QED BY <1>4 DEF f

LEMMA NullIsNoWord ==
    ASSUME LinesRight
    PROVE  NULL \notin Word /\ "|" # NULL
  BY DEF LinesRight, Word, Glued, NULL

LEMMA ArrayIsSeq ==
    ASSUME Slots \in Nat, NEW args \in Array
    PROVE  /\ args \in Seq(Word \cup {NULL}) /\ Len(args) = Slots
           /\ \A i \in 1 .. Slots : args[i] \in Word \cup {NULL}
<1> DEFINE V == Word \cup {NULL}
<1> HIDE DEF V
<1>1. args \in [1 .. Slots -> V]
  BY DEF Array, V
<1>2. args \in Seq(V) /\ Len(args) = Slots
  BY <1>1
<1> QED BY <1>1, <1>2 DEF V

LEMMA PaddedIsArray ==
    ASSUME NEW words \in Seq(Word)
    PROVE  Padded(words) \in Array
<1> DEFINE V == Word \cup {NULL}
<1>1. \A i \in 1 .. Slots : i <= Len(words) => words[i] \in V
  <2>1. Len(words) \in Nat /\ \A i \in 1 .. Len(words) : words[i] \in Word
    BY LenProperties, ElementOfSeq
  <2> HIDE DEF V
  <2>2. \A i \in 1 .. Slots : i <= Len(words) => i \in 1 .. Len(words)
    BY <2>1
  <2> QED BY <2>1, <2>2 DEF V
<1>2. NULL \in V
  OBVIOUS
<1> HIDE DEF V
<1>3. Padded(words) \in [1 .. Slots -> V]
  BY <1>1, <1>2 DEF Padded
<1> QED BY <1>3 DEF V, Array

(* Two arrays are equal when they hold the same words.                     *)
LEMMA SameArray ==
    ASSUME Slots \in Nat, NEW V, NEW s \in Seq(V), Len(s) = Slots, NEW words,
           \A i \in 1 .. Slots : s[i] = IF i <= Len(words) THEN words[i] ELSE NULL
    PROVE  s = Padded(words)
<1>1. s \in [1 .. Slots -> V]
  BY LenProperties
<1> QED BY <1>1 DEF Padded

(* refresh_args clears an array that was in order.                         *)
LEMMA Refreshed ==
    ASSUME Slots \in Nat, LinesRight, NEW args, Clean(args)
    PROVE  refresh_args(args) = Padded(<<>>)
<1>1. PICK words \in Seq(Word) : Len(words) < Slots /\ args = Padded(words)
  BY DEF Clean
<1> DEFINE L == Len(words)
           V == {NULL}
           nulls == [i \in 1 .. L |-> NULL]
           rest == SubSeq(args, L + 1, Slots)
<1>2. L \in Nat /\ L < Slots /\ \A i \in 1 .. L : words[i] \in Word
  BY <1>1, LenProperties, ElementOfSeq
<1>3. /\ Len(args) = Slots /\ \A i \in 1 .. L : args[i] # NULL
      /\ \A i \in L + 1 .. Slots : args[i] = NULL
  <2>1. Len(args) = Slots
    BY <1>1, PaddedIsArray, ArrayIsSeq
  <2>2. \A i \in 1 .. Slots : args[i] = IF i <= L THEN words[i] ELSE NULL
    BY <1>1 DEF Padded
  <2> QED BY <1>2, <2>1, <2>2, NullIsNoWord
<1> HIDE DEF L
<1>4. Find(args, NULL) = L + 1
  <2>1. L + 1 \in 1 .. Slots /\ \A i \in 1 .. L + 1 - 1 : i \in 1 .. L
    BY <1>2
  <2> QED BY <1>2, <1>3, <2>1, FindIs
<1>5. nulls \in Seq(V) /\ Len(nulls) = L /\ \A i \in 1 .. L : nulls[i] = NULL
  BY <1>2
<1>6. rest \in Seq(V) /\ Len(rest) = Slots - L
  <2>1. /\ SubSeq(args, L + 1, Slots) \in Seq(V)
        /\ Len(SubSeq(args, L + 1, Slots))
               = IF L + 1 <= Slots THEN Slots - (L + 1) + 1 ELSE 0
    BY <1>2, <1>3, SubSeqProperties
  <2> HIDE DEF V
  <2> QED BY <1>2, <2>1
<1>7. refresh_args(args) = nulls \o rest
  <2>1. refresh_args(args) = [i \in 1 .. (L + 1) - 1 |-> NULL] \o SubSeq(args, L + 1, Slots)
    BY ONLY <1>4 DEF refresh_args
  <2>2. (L + 1) - 1 = L
    BY <1>2
  <2>3. [i \in 1 .. (L + 1) - 1 |-> NULL] = nulls
    BY ONLY <2>2
  <2> HIDE DEF nulls
  <2> QED BY ONLY <2>1, <2>3
<1> HIDE DEF nulls, rest, V
<1>8. nulls \o rest \in Seq(V) /\ Len(nulls \o rest) = L + (Slots - L)
  BY <1>5, <1>6, ConcatProperties
<1>9. \A i \in 1 .. Slots : (nulls \o rest)[i] = NULL
  <2>1. \A i \in 1 .. Len(nulls \o rest) : (nulls \o rest)[i] \in V
    BY <1>8, ElementOfSeq
  <2> QED BY <1>2, <1>8, <2>1 DEF V
<1>10. Len(nulls \o rest) = Slots /\ Len(<<>>) = 0
  BY <1>2, <1>8
<1>11. \A i \in 1 .. Slots : (nulls \o rest)[i] = IF i <= Len(<<>>) THEN <<>>[i] ELSE NULL
  BY <1>9, <1>10
<1> QED BY <1>7, <1>8, <1>10, <1>11, SameArray

(* parse_input fills a clear array.                                        *)
LEMMA Parsed ==
    ASSUME Slots \in Nat, NEW line \in Seq(Word), Len(line) < Slots
    PROVE  parse_input(Padded(<<>>), line) = Padded(line)
<1> DEFINE L == Len(line)
           V == Word \cup {NULL}
           rest == SubSeq(Padded(<<>>), L + 1, Slots)
<1>1. L \in Nat /\ L < Slots /\ line \in Seq(V)
  BY LenProperties, SeqMonotonic
<1>2. \A i \in 1 .. Slots : Padded(<<>>)[i] = NULL
  BY DEF Padded
<1>3. \A i \in L + 1 .. Slots : Padded(<<>>)[i] \in V
  BY <1>1, <1>2
<1>4. /\ rest \in Seq(V) /\ Len(rest) = Slots - L
      /\ \A i \in 1 .. Slots - L : rest[i] = NULL
  <2>1. L + 1 \in Int /\ Slots \in Int
    BY <1>1
  <2>2. /\ rest \in Seq(V)
        /\ Len(rest) = IF L + 1 <= Slots THEN Slots - (L + 1) + 1 ELSE 0
        /\ \A i \in 1 .. Slots - (L + 1) + 1 : rest[i] = Padded(<<>>)[L + 1 + i - 1]
    <3> HIDE DEF L, V
    <3> QED BY ONLY <1>3, <2>1, SubSeqProperties
  <2>3. Slots - (L + 1) + 1 = Slots - L /\ L + 1 <= Slots
    BY <1>1
  <2>4. \A i \in 1 .. Slots - L : L + 1 + i - 1 \in 1 .. Slots
    BY <1>1
  <2> HIDE DEF L, V, rest
  <2> QED BY <1>2, <2>2, <2>3, <2>4
<1> HIDE DEF rest, V
<1>5. /\ line \o rest \in Seq(V) /\ Len(line \o rest) = L + (Slots - L)
      /\ \A i \in 1 .. L + (Slots - L) :
             (line \o rest)[i] = IF i <= L THEN line[i] ELSE rest[i - L]
  BY <1>1, <1>4, ConcatProperties
<1>6. Len(line \o rest) = Slots
  BY <1>1, <1>5
<1>7. \A i \in 1 .. Slots : (line \o rest)[i] = IF i <= L THEN line[i] ELSE NULL
  <2>1. \A i \in 1 .. Slots : i > L => i - L \in 1 .. Slots - L
    BY <1>1
  <2>2. 1 .. L + (Slots - L) = 1 .. Slots
    BY <1>1
  <2> HIDE DEF L
  <2> QED BY <1>1, <1>4, <1>5, <2>1, <2>2
<1>8. parse_input(Padded(<<>>), line) = line \o rest
  BY DEF parse_input, rest
<1> QED BY <1>5, <1>6, <1>7, <1>8, SameArray

(* The line without its ampersand is a line, with the bars it had.         *)
LEMMA PlainLine ==
    ASSUME NEW line \in Seq(Word), line # <<>>
    PROVE  /\ Plain(line) \in Seq(Word) /\ Len(Plain(line)) <= Len(line)
           /\ Len(Plain(line)) \in Nat
           /\ Contains(Plain(line), "|") => Contains(line, "|")
<1> DEFINE L == Len(line)
           cut == SubSeq(line, 1, L - 1)
           unglued == [line EXCEPT ![L] = Glued[@]]
<1>1. L \in Nat \ {0} /\ \A i \in 1 .. L : line[i] \in Word
  BY EmptySeq, ElementOfSeq
<1>2. CASE line[L] = "&"
  <2>1. Plain(line) = cut
    <3>1. line[L] \notin DOMAIN Glued
      BY <1>2 DEF Glued
    <3> QED BY <1>2, <3>1 DEF Plain
  <2>2. /\ cut \in Seq(Word) /\ Len(cut) = L - 1
        /\ \A i \in 1 .. L - 1 : cut[i] = line[i]
    <3>1. \A i \in 1 .. L - 1 : line[i] \in Word
      BY <1>1
    <3>2. /\ SubSeq(line, 1, L - 1) \in Seq(Word)
          /\ Len(SubSeq(line, 1, L - 1)) = IF 1 <= L - 1 THEN L - 1 - 1 + 1 ELSE 0
          /\ \A i \in 1 .. L - 1 - 1 + 1 : SubSeq(line, 1, L - 1)[i] = line[1 + i - 1]
      <4>1. 1 \in Int /\ L - 1 \in Int
        BY <1>1
      <4> HIDE DEF L
      <4> QED BY ONLY <3>1, <4>1, SubSeqProperties
    <3> HIDE DEF L
    <3> QED BY <1>1, <3>2 DEF cut
  <2>3. ASSUME NEW i \in 1 .. L - 1, line[i] = "|" PROVE Contains(line, "|")
    <3>1. i \in 1 .. Len(line)
      BY <1>1
    <3> QED BY <2>3, <3>1 DEF Contains
  <2> HIDE DEF cut, L
  <2>4. Contains(cut, "|") => Contains(line, "|")
    BY <2>2, <2>3 DEF Contains
  <2> QED BY <1>1, <2>1, <2>2, <2>4 DEF L
<1>3. CASE line[L] # "&" /\ line[L] \in DOMAIN Glued
  <2>1. Plain(line) = unglued
    BY <1>3 DEF Plain
  <2>2. Glued[line[L]] \in Word /\ Glued[line[L]] # "|"
    BY <1>3 DEF Word, Glued
  <2>3. /\ unglued \in Seq(Word) /\ Len(unglued) = L
        /\ \A i \in 1 .. L : unglued[i] = IF i = L THEN Glued[line[L]] ELSE line[i]
    <3>1. unglued = [line EXCEPT ![L] = Glued[line[L]]]
      OBVIOUS
    <3>2. L \in 1 .. Len(line)
      BY <1>1
    <3> QED BY <2>2, <3>1, <3>2, ExceptSeq
  <2> HIDE DEF unglued, L
  <2>4. Contains(unglued, "|") => Contains(line, "|")
    BY <2>2, <2>3 DEF Contains, L
  <2> QED BY <1>1, <2>1, <2>3, <2>4 DEF L
<1>4. CASE line[L] # "&" /\ line[L] \notin DOMAIN Glued
  <2>1. Plain(line) = line
    BY <1>4 DEF Plain
  <2> QED BY <1>1, <2>1
<1> QED BY <1>2, <1>3, <1>4

(* check_ampersand makes the line without its ampersand of the line.       *)
LEMMA Ampersand ==
    ASSUME LinesRight, Slots \in Nat, NEW line \in Seq(Word), line # <<>>, Len(line) < Slots
    PROVE  /\ check_ampersand(Padded(line), Len(line)).args = Padded(Plain(line))
           /\ check_ampersand(Padded(line), Len(line)).size = Len(Plain(line))
<1> DEFINE L == Len(line)
           args == Padded(line)
           r == check_ampersand(args, L)
<1>1. L \in Nat \ {0} /\ L < Slots /\ \A i \in 1 .. L : line[i] \in Word
  BY EmptySeq, ElementOfSeq
<1>2. /\ args[L] = line[L] /\ DOMAIN args = 1 .. Slots
      /\ \A i \in 1 .. Slots : args[i] = IF i <= L THEN line[i] ELSE NULL
  BY <1>1 DEF Padded
<1>3. CASE line[L] = "&"
  <2> DEFINE cut == SubSeq(line, 1, L - 1)
  <2>0. line[L] \notin DOMAIN Glued
    BY <1>3 DEF Glued
  <2>1. Plain(line) = cut
    BY <1>3, <2>0 DEF Plain
  <2>2. r = [found |-> TRUE, args |-> [args EXCEPT ![L] = NULL], size |-> L - 1]
    <3> HIDE DEF args
    <3> QED BY <1>2, <1>3, <2>0 DEF check_ampersand
  <2>3. Len(cut) = L - 1 /\ \A i \in 1 .. L - 1 : cut[i] = line[i]
    <3>1. \A i \in 1 .. L - 1 : line[i] \in Word
      BY <1>1
    <3>2. /\ Len(SubSeq(line, 1, L - 1)) = IF 1 <= L - 1 THEN L - 1 - 1 + 1 ELSE 0
          /\ \A i \in 1 .. L - 1 - 1 + 1 : SubSeq(line, 1, L - 1)[i] = line[1 + i - 1]
      <4>1. 1 \in Int /\ L - 1 \in Int
        BY <1>1
      <4> HIDE DEF L
      <4> QED BY ONLY <3>1, <4>1, SubSeqProperties
    <3> HIDE DEF L
    <3> QED BY <1>1, <3>2 DEF cut
  <2> HIDE DEF cut, L, args, r
  <2>4. [args EXCEPT ![L] = NULL] = Padded(cut)
    <3>1. \A i \in 1 .. Slots :
              (IF i = L THEN NULL ELSE args[i]) = IF i <= Len(cut) THEN cut[i] ELSE NULL
      BY <1>1, <1>2, <2>3
    <3>2. [args EXCEPT ![L] = NULL] = [i \in 1 .. Slots |-> IF i = L THEN NULL ELSE args[i]]
      BY <1>2
    <3> QED BY ONLY <3>1, <3>2 DEF Padded
  <2>5. r.args = Padded(cut) /\ r.size = Len(cut)
    BY <2>2, <2>3, <2>4
  <2> QED BY <2>1, <2>5 DEF r, args, L
<1>4. CASE line[L] # "&" /\ line[L] \in DOMAIN Glued
  <2> DEFINE unglued == [line EXCEPT ![L] = Glued[@]]
             w == Glued[line[L]]
  <2>1. Plain(line) = unglued
    BY <1>4 DEF Plain
  <2>2. r = [found |-> TRUE, args |-> [args EXCEPT ![L] = Glued[@]], size |-> L]
    <3> HIDE DEF args
    <3> QED BY <1>2, <1>4 DEF check_ampersand
  <2>3. Len(unglued) = L /\ \A i \in 1 .. L : unglued[i] = IF i = L THEN w ELSE line[i]
    <3>1. unglued = [line EXCEPT ![L] = Glued[line[L]]]
      OBVIOUS
    <3>2. L \in 1 .. Len(line) /\ w \in Word
      BY <1>1, <1>4 DEF Word
    <3> QED BY <3>1, <3>2, ExceptSeq
  <2>4. [args EXCEPT ![L] = Glued[@]] = [args EXCEPT ![L] = w]
    BY <1>2
  <2> HIDE DEF unglued, L, args, r, w
  <2>5. [args EXCEPT ![L] = w] = Padded(unglued)
    <3>1. \A i \in 1 .. Slots :
              (IF i = L THEN w ELSE args[i]) = IF i <= Len(unglued) THEN unglued[i] ELSE NULL
      BY <1>1, <1>2, <2>3
    <3>2. [args EXCEPT ![L] = w] = [i \in 1 .. Slots |-> IF i = L THEN w ELSE args[i]]
      BY <1>2
    <3> QED BY ONLY <3>1, <3>2 DEF Padded
  <2>6. r.args = Padded(unglued) /\ r.size = Len(unglued)
    BY <2>2, <2>3, <2>4, <2>5
  <2> QED BY <2>1, <2>6 DEF r, args, L
<1>5. CASE line[L] # "&" /\ line[L] \notin DOMAIN Glued
  <2>1. Plain(line) = line
    BY <1>5 DEF Plain
  <2>2. r = [found |-> FALSE, args |-> args, size |-> L]
    <3> HIDE DEF args
    <3> QED BY <1>2, <1>5 DEF check_ampersand
  <2> HIDE DEF args
  <2>3. r.args = args /\ r.size = L
    BY <2>2
  <2> QED BY <2>1, <2>3 DEF args
<1> QED BY <1>3, <1>4, <1>5

(* The bar of a line, or else the place behind it.                         *)
Bar(plain) == IF Find(plain, "|") = 0 THEN Len(plain) + 1 ELSE Find(plain, "|")

LEMMA BarIs ==
    ASSUME NEW plain \in Seq(Word)
    PROVE  /\ Len(plain) \in Nat /\ Bar(plain) \in 1 .. Len(plain) + 1
           /\ Bar(plain) <= Len(plain) => /\ Bar(plain) = Find(plain, "|")
                                          /\ Contains(plain, "|")
           /\ Bar(plain) > Len(plain) => Find(plain, "|") = 0
<1>1. Len(plain) \in Nat
  BY LenProperties
<1>2. /\ Find(plain, "|") \in 0 .. Len(plain)
      /\ Find(plain, "|") # 0 => plain[Find(plain, "|")] = "|"
  BY <1>1, FindFinds
<1>3. Find(plain, "|") # 0 => Contains(plain, "|")
  BY <1>1, <1>2 DEF Contains
<1> QED BY <1>1, <1>2, <1>3 DEF Bar

(* detect_pipe finds the bar.                                              *)
LEMMA Pipe ==
    ASSUME Slots \in Nat, NEW plain \in Seq(Word), Len(plain) < Slots
    PROVE  detect_pipe(Padded(plain), Len(plain)) = Bar(plain)
<1> DEFINE L == Len(plain)
           args == Padded(plain)
           s == SubSeq(args, 1, L)
<1>1. L \in Nat /\ L < Slots /\ \A i \in 1 .. L : plain[i] \in Word
  BY LenProperties, ElementOfSeq
<1>2. \A i \in 1 .. L : args[i] = plain[i] /\ args[i] \in Word
  BY <1>1 DEF Padded
<1>3. /\ s \in Seq(Word) /\ Len(s) = L
      /\ \A i \in 1 .. L : s[i] = plain[i]
  <2>1. /\ SubSeq(args, 1, L) \in Seq(Word)
        /\ Len(SubSeq(args, 1, L)) = IF 1 <= L THEN L - 1 + 1 ELSE 0
        /\ \A i \in 1 .. L - 1 + 1 : SubSeq(args, 1, L)[i] = args[1 + i - 1]
    <3>1. 1 \in Int /\ L \in Int
      BY <1>1
    <3> HIDE DEF args, L
    <3> QED BY ONLY <1>2, <3>1, SubSeqProperties
  <2> HIDE DEF args, L
  <2> QED BY <1>1, <1>2, <2>1 DEF s
<1>4. s = plain
  <2> HIDE DEF s
  <2> QED BY <1>3, SeqEqual
<1> HIDE DEF args
<1> QED BY <1>4 DEF detect_pipe, Bar, args

-----------------------------------------------------------------------------
(* check_redirection.                                                      *)

(* Some of the words of a line are a line that is not longer.              *)
LEMMA FewerWords ==
    ASSUME NEW W, NEW s \in Seq(W), NEW places
    PROVE  WordsAt(s, places) \in Seq(W) /\ Len(WordsAt(s, places)) <= Len(s)
<1> DEFINE L == Len(s)
           none == <<>>
           next(q, k) == IF k \in places THEN Append(q, s[k]) ELSE q
           Eq(g) == g = [i \in 0 .. L |->
                            IF i = 0 THEN <<>>
                            ELSE IF i \in places THEN Append(g[i - 1], s[i]) ELSE g[i - 1]]
           H == [k \in 1 .. L |-> [q \in Seq(W) |-> next(q, k)]]
           upto == CHOOSE g : Eq(g)
<1>1. WordsAt(s, places) = upto[L]
  BY DEF WordsAt
<1>2. L \in Nat /\ none \in Seq(W) /\ \A k \in 1 .. L : s[k] \in W
  BY LenProperties, ElementOfSeq, EmptySeq
<1>3. \A k \in 1 .. L, q \in Seq(W) : next(q, k) \in Seq(W) /\ Len(next(q, k)) <= Len(q) + 1
  <2> SUFFICES ASSUME NEW k \in 1 .. L, NEW q \in Seq(W)
               PROVE  next(q, k) \in Seq(W) /\ Len(next(q, k)) <= Len(q) + 1
    OBVIOUS
  <2>1. s[k] \in W /\ Len(q) \in Nat
    BY <1>2, LenProperties
  <2>2. Append(q, s[k]) \in Seq(W) /\ Len(Append(q, s[k])) = Len(q) + 1
    BY <2>1, AppendProperties
  <2> HIDE DEF L
  <2> QED BY <2>1, <2>2
<1>4. H \in [1 .. L -> [Seq(W) -> Seq(W)]]
  <2> HIDE DEF L, next
  <2> QED BY <1>3
<1>5. PICK g \in [0 .. L -> Seq(W)] : Computes(g, none, H, L)
  <2> HIDE DEF H, L, none
  <2> QED BY <1>2, <1>4, RecursionTo
<1>6. g[0] = <<>> /\ \A k \in 1 .. L : g[k] = next(g[k - 1], k)
  <2>1. ASSUME NEW k \in 1 .. L PROVE H[k][g[k - 1]] = next(g[k - 1], k)
    <3>1. k - 1 \in 0 .. L
      BY <1>2
    <3>2. g[k - 1] \in Seq(W) /\ H[k] = [q \in Seq(W) |-> next(q, k)]
      BY <3>1
    <3> HIDE DEF H, next
    <3> QED BY <3>2
  <2> HIDE DEF H, L, next
  <2> QED BY <1>5, <2>1 DEF Computes
<1>7. Eq(g)
  <2>1. \A k \in 0 .. L : k # 0 => k \in 1 .. L
    BY <1>2
  <2>2. \A k \in 0 .. L :
            g[k] = IF k = 0 THEN <<>>
                   ELSE IF k \in places THEN Append(g[k - 1], s[k]) ELSE g[k - 1]
    <3> HIDE DEF L
    <3> QED BY ONLY <1>6, <2>1
  <2>3. g = [k \in 0 .. L |-> g[k]]
    BY <1>5
  <2> HIDE DEF L
  <2> QED BY ONLY <2>2, <2>3
<1>8. Eq(upto)
  <2> HIDE DEF Eq
  <2> QED BY <1>7
<1> HIDE DEF upto, L
<1>9. upto[0] = <<>> /\ \A k \in 1 .. L : upto[k] = next(upto[k - 1], k)
  <2>1. 0 \in 0 .. L /\ \A k \in 1 .. L : k \in 0 .. L /\ k # 0
    BY <1>2
  <2>2. upto = [i \in 0 .. L |->
                   IF i = 0 THEN <<>>
                   ELSE IF i \in places THEN Append(upto[i - 1], s[i]) ELSE upto[i - 1]]
    BY ONLY <1>8
  <2> QED BY ONLY <2>1, <2>2
<1> HIDE DEF next
<1>10. \A k \in 0 .. L : k \in {m \in 0 .. L : upto[m] \in Seq(W) /\ Len(upto[m]) <= m}
  <2> DEFINE T == {m \in 0 .. L : upto[m] \in Seq(W) /\ Len(upto[m]) <= m}
  <2>1. 0 \in T
    <3>1. <<>> \in Seq(W) /\ Len(<<>>) = 0 /\ 0 \in 0 .. L
      BY <1>2
    <3>2. upto[0] \in Seq(W) /\ Len(upto[0]) = 0
      BY ONLY <1>9, <3>1
    <3> QED BY <3>1, <3>2
  <2>2. ASSUME NEW k \in 1 .. L, k - 1 \in T PROVE k \in T
    <3>1. PICK q : q = upto[k - 1]
      OBVIOUS
    <3>2. q \in Seq(W) /\ Len(q) <= k - 1 /\ Len(q) \in Nat /\ upto[k] = next(q, k)
      BY <1>9, <2>2, <3>1, LenProperties
    <3>3. /\ next(q, k) \in Seq(W) /\ Len(next(q, k)) <= Len(q) + 1
          /\ Len(next(q, k)) \in Nat
      BY <1>3, <3>2, LenProperties
    <3>4. Len(next(q, k)) <= k /\ k \in 0 .. L
      BY <1>2, <3>2, <3>3
    <3> QED BY <3>2, <3>3, <3>4
  <2> HIDE DEF T
  <2>3. \A k \in 0 .. L : k \in T
    BY <1>2, <2>1, <2>2, InductionTo
  <2> QED BY <2>3 DEF T
<1>11. L \in 0 .. L
  BY <1>2
<1> QED BY <1>1, <1>10, <1>11 DEF L

(* Of a legible part check_redirection finds all redirections.             *)
LEMMA FindsRedirections ==
    ASSUME NEW args, NEW off \in Nat, NEW size \in Nat, NEW part, DOMAIN part = 1 .. size,
           \A i \in 1 .. size : args[off + i] = part[i], Legible(part)
    PROVE  Redirections(args, off, size) = {i \in off + 1 .. off + size : args[i] \in Symbols}
<1> DEFINE I == off + 1 .. off + size
           Eq(g) == g = [i \in I |-> args[i] \in {"<", ">"} /\ (i = off + 1 \/ ~g[i - 1])]
           at == CHOOSE g : Eq(g)
           g0 == [i \in I |-> args[i] \in {"<", ">"}]
           S == {i \in 1 .. size : part[i] \in Symbols}
<1>1. Redirections(args, off, size)
          = {i \in I : at[i] /\ Cardinality({j \in off + 1 .. i - 1 : at[j]}) < 2}
  BY DEF Redirections
<1>2. \A i \in I : i - off \in 1 .. size /\ args[i] = part[i - off]
  BY Z3T(20)
<1>3. ASSUME NEW i \in I, i # off + 1 PROVE ~ (args[i] \in Symbols /\ args[i - 1] \in Symbols)
  <2>1. i - 1 \in I /\ i - 1 - off + 1 = i - off
    BY <1>3
  <2>2. args[i] = part[i - off] /\ args[i - 1] = part[i - 1 - off]
        /\ i - off \in 1 .. size /\ i - 1 - off \in 1 .. size
    BY <1>2, <2>1
  <2>3. \A k \in S : k + 1 \notin S
    BY DEF Legible
  <2> HIDE DEF S
  <2>4. ~ (i - 1 - off \in S /\ i - off \in S)
    BY <2>1, <2>3
  <2> QED BY <2>2, <2>4 DEF S
<1>4. Eq(g0)
  <2>1. \A i \in I : i # off + 1 => i - 1 \in I
    OBVIOUS
  <2>2. ASSUME NEW i \in I PROVE g0[i] = (args[i] \in {"<", ">"} /\ (i = off + 1 \/ ~g0[i - 1]))
    <3>1. CASE i = off + 1
      BY <3>1
    <3>2. CASE i # off + 1
      <4>1. i - 1 \in I /\ ~ (args[i] \in {"<", ">"} /\ args[i - 1] \in {"<", ">"})
        BY <1>3, <2>1, <3>2 DEF Symbols
      <4> HIDE DEF I
      <4>2. g0[i] = (args[i] \in {"<", ">"}) /\ g0[i - 1] = (args[i - 1] \in {"<", ">"})
        BY <4>1
      <4> HIDE DEF g0
      <4>3. CASE args[i] \in {"<", ">"}
        <5>0. (args[i] \in {"<", ">"}) = TRUE /\ (args[i - 1] \in {"<", ">"}) = FALSE
          BY <4>1, <4>3
        <5>1. g0[i] = TRUE /\ g0[i - 1] = FALSE
          BY ONLY <4>2, <5>0
        <5> QED BY <4>3, <5>1
      <4>4. CASE args[i] \notin {"<", ">"}
        <5>0. (args[i] \in {"<", ">"}) = FALSE
          BY <4>4
        <5>1. g0[i] = FALSE
          BY ONLY <4>2, <5>0
        <5> QED BY <4>4, <5>1
      <4> QED BY ONLY <4>3, <4>4
    <3> QED BY <3>1, <3>2
  <2> HIDE DEF I
  <2> QED BY <2>2
<1>5. Eq(at)
  <2> HIDE DEF Eq
  <2> QED BY <1>4
<1> HIDE DEF at
<1>6. \A i \in I : at[i] = (args[i] \in {"<", ">"} /\ (i = off + 1 \/ ~at[i - 1]))
  BY ONLY <1>5
<1>7. ASSUME NEW i \in I PROVE at[i] <=> args[i] \in Symbols
  <2>1. CASE i = off + 1
    BY <1>6, <2>1 DEF Symbols
  <2>2. CASE i # off + 1
    <3>1. i - 1 \in I /\ ~ (args[i] \in {"<", ">"} /\ args[i - 1] \in {"<", ">"})
      BY <1>3, <2>2 DEF Symbols
    <3> HIDE DEF I
    <3> QED BY <1>6, <2>2, <3>1 DEF Symbols
  <2> QED BY <2>1, <2>2
<1>8. ASSUME NEW i \in I, args[i] \in Symbols
      PROVE  Cardinality({j \in off + 1 .. i - 1 : at[j]}) < 2
  <2> DEFINE B == {j \in off + 1 .. i - 1 : at[j]}
             C == {j - off : j \in B}
  <2>1. B \subseteq I /\ i \notin B
    OBVIOUS
  <2>2. i - off \in S /\ i - off \notin C /\ C \subseteq S
    <3>1. \A j \in B : j - off \in S
      BY <1>2, <1>7, <2>1
    <3>2. i - off \in S
      BY <1>2, <1>8
    <3>3. \A j \in B : j - off # i - off
      BY <2>1
    <3> QED BY <3>1, <3>2, <3>3
  <2>3. IsFiniteSet(S) /\ Cardinality(S) <= 2 /\ Cardinality(S) \in Nat
    <3>0. 1 \in Int /\ size \in Int
      OBVIOUS
    <3>1. IsFiniteSet(1 .. size) /\ S \subseteq 1 .. size
      BY <3>0, FS_Interval
    <3>2. Cardinality(S) <= 2
      BY DEF Legible
    <3> HIDE DEF S
    <3> QED BY <3>1, <3>2, FS_Subset, FS_CardinalityType
  <2>4. IsFiniteSet(C) /\ Cardinality(C) < 2 /\ Cardinality(C) \in Nat
    <3> DEFINE R == S \ {i - off}
    <3>1. C \subseteq R /\ IsFiniteSet(R) /\ Cardinality(R) = Cardinality(S) - 1
      <4> HIDE DEF S, C
      <4>1. Cardinality(S \ {i - off}) = IF i - off \in S THEN Cardinality(S) - 1 ELSE Cardinality(S)
        BY <2>3, FS_RemoveElement
      <4>2. IsFiniteSet(S \ {i - off})
        BY <2>3, FS_RemoveElement
      <4> QED BY <2>2, <4>1, <4>2
    <3> HIDE DEF R, S, C
    <3>2. IsFiniteSet(C) /\ Cardinality(C) <= Cardinality(R) /\ Cardinality(C) \in Nat
      BY <3>1, FS_Subset, FS_CardinalityType
    <3> QED BY <2>3, <3>1, <3>2
  <2>5. Cardinality(B) = Cardinality(C)
    <3> DEFINE f == [j \in B |-> j - off]
    <3>1. ExistsBijection(B, C)
      <4>1. \A j \in B : j \in Int
        BY <2>1
      <4>2. f \in [B -> C] /\ \A c \in C : \E j \in B : f[j] = c
        OBVIOUS
      <4>3. \A j, k \in B : f[j] = f[k] => j = k
        BY <4>1
      <4> QED BY <4>2, <4>3 DEF ExistsBijection, Bijection, Injection, Surjection, IsInjective
    <3>2. IsFiniteSet(B)
      <4>0. off + 1 \in Int /\ i - 1 \in Int
        BY <2>1
      <4>1. IsFiniteSet(off + 1 .. i - 1) /\ B \subseteq off + 1 .. i - 1
        BY <4>0, FS_Interval
      <4> QED BY <4>1, FS_Subset
    <3> HIDE DEF B, C, f
    <3> QED BY <3>1, <3>2, FS_Bijection
  <2> HIDE DEF B, C
  <2>6. Cardinality(B) < 2
    BY <2>4, <2>5
  <2> QED BY <2>6 DEF B
<1>9. {i \in I : at[i] /\ Cardinality({j \in off + 1 .. i - 1 : at[j]}) < 2}
          = {i \in I : args[i] \in Symbols}
  <2> HIDE DEF I
  <2> QED BY <1>7, <1>8
<1> QED BY <1>1, <1>9

(* Where a part of a line has words, and not redirections or their files.  *)
Places(part) == {i \in DOMAIN part : /\ part[i] \notin Symbols
                                     /\ i > 1 => part[i - 1] \notin Symbols}

(* args holds a part of a line behind its first off words, and then NULL.  *)
Holds(args, off, part) ==
    /\ args \in Array /\ off \in Nat /\ part \in Seq(Word) /\ off + Len(part) < Slots
    /\ \A i \in 1 .. Len(part) : args[off + i] = part[i]
    /\ args[off + Len(part) + 1] = NULL

(* check_redirection leaves the words of that part, and NULLs behind them. *)
Redirected(args, off, part) ==
    [i \in 1 .. Slots |->
        IF i <= off THEN args[i]
        ELSE IF i - off <= Len(WordsAt(part, Places(part))) THEN WordsAt(part, Places(part))[i - off]
        ELSE IF i - off <= Len(part) THEN NULL ELSE args[i]]

(* The n words of a sequence behind the first m.                           *)
Behind(s, m, n) == SubSeq(s, m + 1, m + n)
AreBehind(s, m, n, S) == \A i \in 1 .. n : s[m + i] \in S
IsBehind(s, m, n, S) ==
    /\ Behind(s, m, n) \in Seq(S) /\ Len(Behind(s, m, n)) = n
    /\ \A i \in 1 .. n : Behind(s, m, n)[i] = s[m + i]

LEMMA Piece ==
    ASSUME NEW S, NEW s, NEW m \in Nat, NEW n \in Nat, AreBehind(s, m, n, S)
    PROVE  IsBehind(s, m, n, S)
<1>1. PICK a, b : a = m + 1 /\ b = m + n
  OBVIOUS
<1>2. a \in Int /\ b \in Int /\ b - a + 1 = n
  BY <1>1
<1>3. \A i \in a .. b : s[i] \in S
  <2>1. \A i \in a .. b : i - m \in 1 .. n /\ m + (i - m) = i
    BY <1>1
  <2> QED BY <2>1 DEF AreBehind
<1>4. /\ SubSeq(s, a, b) \in Seq(S) /\ Len(SubSeq(s, a, b)) = IF a <= b THEN b - a + 1 ELSE 0
      /\ \A i \in 1 .. b - a + 1 : SubSeq(s, a, b)[i] = s[a + i - 1]
  BY ONLY <1>2, <1>3, SubSeqProperties
<1>5. PICK c : c = SubSeq(s, a, b)
  OBVIOUS
<1>6. c \in Seq(S) /\ Len(c) = n /\ \A i \in 1 .. n : c[i] = s[a + i - 1]
  <2>1. (IF a <= b THEN b - a + 1 ELSE 0) = n
    BY <1>1
  <2> QED BY ONLY <1>2, <1>4, <1>5, <2>1
<1>7. \A i \in 1 .. n : a + i - 1 = m + i
  BY <1>1
<1>8. c = Behind(s, m, n)
  BY ONLY <1>1, <1>5 DEF Behind
<1>9. \A i \in 1 .. n : c[i] = s[m + i]
  BY ONLY <1>6, <1>7
<1> QED BY ONLY <1>6, <1>8, <1>9 DEF IsBehind

LEMMA Kept ==
    ASSUME Slots \in Nat, NEW args, NEW off, NEW part, Holds(args, off, part), Legible(part)
    PROVE  /\ SubSeq(args, off + 1, off + Len(part)) = part
           /\ {i \in 1 .. Len(part) :
                  {off + i, off + i - 1} \cap Redirections(args, off, Len(part)) = {}}
                  = Places(part)
<1> DEFINE size == Len(part)
           s == SubSeq(args, off + 1, off + size)
<1>1. /\ size \in Nat /\ off \in Nat /\ off + size < Slots /\ part \in Seq(Word)
      /\ DOMAIN part = 1 .. size
      /\ \A i \in 1 .. size : args[off + i] = part[i] /\ part[i] \in Word
  BY LenProperties, ElementOfSeq DEF Holds
<1>2. s = part
  <2>1. AreBehind(args, off, size, Word)
    BY <1>1 DEF AreBehind
  <2> HIDE DEF size
  <2>2. /\ Behind(args, off, size) \in Seq(Word) /\ Len(Behind(args, off, size)) = size
        /\ \A i \in 1 .. size : Behind(args, off, size)[i] = args[off + i]
    <3>1. off \in Nat /\ size \in Nat
      BY <1>1
    <3>2. IsBehind(args, off, size, Word)
      BY ONLY <2>1, <3>1, Piece
    <3> QED BY ONLY <3>2 DEF IsBehind
  <2>4. s \in Seq(Word) /\ Len(s) = size /\ \A i \in 1 .. size : s[i] = args[off + i]
    BY <2>2 DEF Behind
  <2> HIDE DEF s
  <2>8. \A i \in 1 .. Len(s) : s[i] = part[i]
    BY <1>1, <2>4
  <2> QED BY <1>1, <2>4, <2>8, SeqEqual DEF size
<1>3. Redirections(args, off, size) = {i \in off + 1 .. off + size : args[i] \in Symbols}
  <2> HIDE DEF size
  <2> QED BY ONLY <1>1, Legible(part), FindsRedirections
<1>4. ASSUME NEW i \in 1 .. size
      PROVE  {off + i, off + i - 1} \cap Redirections(args, off, size) = {}
                 <=> i \in Places(part)
  <2> DEFINE found == {j \in off + 1 .. off + size : args[j] \in Symbols}
  <2>1. off + i \in found <=> part[i] \in Symbols
    <3> HIDE DEF size
    <3>1. off + i \in off + 1 .. off + size /\ args[off + i] = part[i]
      BY <1>1
    <3> QED BY <3>1
  <2>2. off + i - 1 \in found <=> i > 1 /\ part[i - 1] \in Symbols
    <3> HIDE DEF size
    <3>1. CASE i > 1
      <4>1. i - 1 \in 1 .. size /\ off + i - 1 = off + (i - 1)
        BY <1>1, <3>1
      <4>2. off + (i - 1) \in off + 1 .. off + size /\ args[off + (i - 1)] = part[i - 1]
        BY <1>1, <4>1
      <4> QED BY <3>1, <4>1, <4>2
    <3>2. CASE ~ (i > 1)
      <4>1. off + i - 1 \notin off + 1 .. off + size
        BY <1>1, <3>2
      <4> QED BY <3>2, <4>1
    <3> QED BY <3>1, <3>2
  <2>3. i \in Places(part) <=> part[i] \notin Symbols /\ (i > 1 => part[i - 1] \notin Symbols)
    BY <1>1 DEF Places
  <2>4. {off + i, off + i - 1} \cap found = {} <=> off + i \notin found /\ off + i - 1 \notin found
    <3> HIDE DEF found, size
    <3> QED OBVIOUS
  <2> HIDE DEF found
  <2>5. {off + i, off + i - 1} \cap found = {} <=> i \in Places(part)
    BY <2>1, <2>2, <2>3, <2>4
  <2> HIDE DEF size
  <2> QED BY <1>3, <2>5 DEF found
<1>5. Places(part) \subseteq 1 .. size
  BY <1>1 DEF Places
<1>6. {i \in 1 .. size : {off + i, off + i - 1} \cap Redirections(args, off, size) = {}}
          = Places(part)
  <2> HIDE DEF size
  <2> QED BY <1>4, <1>5
<1> QED BY <1>2, <1>6

LEMMA Check ==
    ASSUME Slots \in Nat, NEW args, NEW off, NEW part, Holds(args, off, part), Legible(part)
    PROVE  /\ check_redirection(args, off, Len(part)).args = Redirected(args, off, part)
           /\ WordsAt(part, Places(part)) \in Seq(Word)
           /\ Len(WordsAt(part, Places(part))) \in 0 .. Len(part)
<1> DEFINE size == Len(part)
           last == off + size
           V == Word \cup {NULL}
           kept == WordsAt(part, Places(part))
           moved == [k \in 1 .. size - Len(kept) |-> args[last + 1]]
           before == SubSeq(args, 1, off)
           behind == SubSeq(args, last + 1, Slots)
           res == before \o kept \o moved \o behind
<1>1. /\ size \in Nat /\ off \in Nat /\ off + size < Slots /\ part \in Seq(Word)
      /\ args \in Array /\ args[last + 1] = NULL
  BY LenProperties DEF Holds
<1>2. \A i \in 1 .. Slots : args[i] \in V
  BY <1>1 DEF Array
<1>3. kept \in Seq(Word) /\ kept \in Seq(V) /\ Len(kept) \in 0 .. size
  <2>1. kept \in Seq(Word) /\ Len(kept) <= Len(part) /\ Len(kept) \in Nat
    BY <1>1, FewerWords, LenProperties
  <2>2. kept \in Seq(V)
    BY <2>1, SeqMonotonic
  <2> HIDE DEF kept, V
  <2> QED BY <1>1, <2>1, <2>2
<1>4. check_redirection(args, off, size).args = res
  <2>1. /\ SubSeq(args, off + 1, off + size) = part
        /\ {i \in 1 .. size : {off + i, off + i - 1} \cap Redirections(args, off, size) = {}}
               = Places(part)
    BY Kept
  <2> DEFINE at == {i \in 1 .. size : {off + i, off + i - 1} \cap Redirections(args, off, size) = {}}
             all == WordsAt(SubSeq(args, off + 1, off + size), at)
  <2>2. check_redirection(args, off, size).args
            = SubSeq(args, 1, off) \o all \o [k \in 1 .. size - Len(all) |-> args[off + size + 1]]
              \o SubSeq(args, off + size + 1, Slots)
    BY DEF check_redirection
  <2>3. all = kept
    BY ONLY <2>1
  <2> HIDE DEF all, kept, at
  <2> QED BY ONLY <2>2, <2>3
<1> HIDE DEF V, size, kept
<1>5. before \in Seq(V) /\ Len(before) = off /\ \A i \in 1 .. off : before[i] = args[i]
  <2>1. /\ SubSeq(args, 1, off) \in Seq(V)
        /\ Len(SubSeq(args, 1, off)) = IF 1 <= off THEN off - 1 + 1 ELSE 0
        /\ \A i \in 1 .. off - 1 + 1 : SubSeq(args, 1, off)[i] = args[1 + i - 1]
    <3>1. \A i \in 1 .. off : args[i] \in V
      BY <1>1, <1>2
    <3>2. 1 \in Int /\ off \in Int
      BY <1>1
    <3> QED BY ONLY <3>1, <3>2, SubSeqProperties
  <2> QED BY <1>1, <2>1
<1>6. moved \in Seq(V) /\ Len(moved) = size - Len(kept) /\ \A i \in 1 .. size - Len(kept) : moved[i] = NULL
  <2>1. NULL \in V /\ size - Len(kept) \in Nat
    BY <1>1, <1>3 DEF V
  <2> QED BY <1>1, <2>1
<1>7. /\ behind \in Seq(V) /\ Len(behind) = Slots - last
      /\ \A i \in 1 .. Slots - last : behind[i] = args[last + i]
  <2>1. /\ SubSeq(args, last + 1, Slots) \in Seq(V)
        /\ Len(SubSeq(args, last + 1, Slots))
               = IF last + 1 <= Slots THEN Slots - (last + 1) + 1 ELSE 0
        /\ \A i \in 1 .. Slots - (last + 1) + 1 :
               SubSeq(args, last + 1, Slots)[i] = args[last + 1 + i - 1]
    <3>1. \A i \in last + 1 .. Slots : args[i] \in V
      BY <1>1, <1>2
    <3>2. last + 1 \in Int /\ Slots \in Int
      BY <1>1
    <3> HIDE DEF last
    <3> QED BY ONLY <3>1, <3>2, SubSeqProperties
  <2> QED BY <1>1, <2>1
<1> HIDE DEF before, moved, behind
<1>8. /\ before \o kept \in Seq(V) /\ Len(before \o kept) = off + Len(kept)
      /\ \A i \in 1 .. off + Len(kept) :
             (before \o kept)[i] = IF i <= off THEN args[i] ELSE kept[i - off]
  <2>1. /\ before \o kept \in Seq(V) /\ Len(before \o kept) = Len(before) + Len(kept)
        /\ \A i \in 1 .. Len(before) + Len(kept) :
               (before \o kept)[i] = IF i <= Len(before) THEN before[i] ELSE kept[i - Len(before)]
    BY <1>3, <1>5, ConcatProperties
  <2> QED BY <1>1, <1>3, <1>5, <2>1
<1> DEFINE b1 == before \o kept
<1> HIDE DEF b1
<1>9. /\ b1 \o moved \in Seq(V) /\ Len(b1 \o moved) = last
      /\ \A i \in 1 .. last :
             (b1 \o moved)[i] = IF i <= off THEN args[i]
                                ELSE IF i - off <= Len(kept) THEN kept[i - off] ELSE NULL
  <2>1. /\ b1 \o moved \in Seq(V) /\ Len(b1 \o moved) = Len(b1) + Len(moved)
        /\ \A i \in 1 .. Len(b1) + Len(moved) :
               (b1 \o moved)[i] = IF i <= Len(b1) THEN b1[i] ELSE moved[i - Len(b1)]
    BY <1>6, <1>8, ConcatProperties DEF b1
  <2>2. Len(b1) = off + Len(kept) /\ Len(b1) + Len(moved) = last
    BY <1>1, <1>3, <1>6, <1>8 DEF b1
  <2>3. \A i \in 1 .. last : i > Len(b1) => i - Len(b1) \in 1 .. size - Len(kept)
    BY <1>1, <1>3, <2>2
  <2>4. \A i \in 1 .. last : i <= Len(b1) => i \in 1 .. off + Len(kept)
    BY <1>1, <1>3, <2>2
  <2>5. \A i \in 1 .. last : i <= Len(b1) => b1[i] = IF i <= off THEN args[i] ELSE kept[i - off]
    BY <1>8, <2>4 DEF b1
  <2>6. \A i \in 1 .. last : i > Len(b1) => moved[i - Len(b1)] = NULL
    BY <1>6, <2>3
  <2>7. \A i \in 1 .. last : i > Len(b1) => ~ (i <= off) /\ ~ (i - off <= Len(kept))
    BY <1>1, <1>3, <2>2
  <2>8. \A i \in 1 .. last : i <= Len(b1) => (i <= off \/ i - off <= Len(kept))
    BY <1>1, <1>3, <2>2
  <2>9. \A i \in 1 .. last : i <= Len(b1) \/ i > Len(b1)
    BY <1>1, <1>3, <2>2
  <2>10. \A i \in 1 .. last : (b1 \o moved)[i] = IF i <= Len(b1) THEN b1[i] ELSE moved[i - Len(b1)]
    BY <2>1, <2>2
  <2>11. \A i \in 1 .. last : i > Len(b1) => ~ (i <= Len(b1))
    BY <1>1, <1>3, <2>2
  <2>12. ASSUME NEW i \in 1 .. last
         PROVE  (b1 \o moved)[i] = IF i <= off THEN args[i]
                                   ELSE IF i - off <= Len(kept) THEN kept[i - off] ELSE NULL
    <3> HIDE DEF last
    <3>1. CASE i <= Len(b1)
      BY ONLY <2>12, <3>1, <2>5, <2>8, <2>10
    <3>2. CASE i > Len(b1)
      BY ONLY <2>12, <3>2, <2>6, <2>7, <2>10, <2>11
    <3> QED BY <3>1, <3>2, <2>9
  <2> QED BY <2>1, <2>2, <2>12
<1> DEFINE b2 == b1 \o moved
<1> HIDE DEF b2
<1>10. /\ b2 \o behind \in Seq(V) /\ Len(b2 \o behind) = Slots
       /\ \A i \in 1 .. Slots :
              (b2 \o behind)[i] = IF i <= off THEN args[i]
                                  ELSE IF i - off <= Len(kept) THEN kept[i - off]
                                  ELSE IF i - off <= size THEN NULL ELSE args[i]
  <2>1. /\ b2 \o behind \in Seq(V) /\ Len(b2 \o behind) = Len(b2) + Len(behind)
        /\ \A i \in 1 .. Len(b2) + Len(behind) :
               (b2 \o behind)[i] = IF i <= Len(b2) THEN b2[i] ELSE behind[i - Len(b2)]
    BY <1>7, <1>9, ConcatProperties DEF b2
  <2>2. Len(b2) = last /\ Len(b2) + Len(behind) = Slots
    BY <1>1, <1>7, <1>9 DEF b2
  <2>3. \A i \in 1 .. Slots : i <= last => i \in 1 .. last
    BY <1>1
  <2>4. \A i \in 1 .. Slots : i > last => /\ behind[i - last] = args[i]
                                          /\ ~ (i - off <= Len(kept)) /\ ~ (i - off <= size)
                                          /\ ~ (i <= off)
    <3>1. \A i \in 1 .. Slots : i > last => i - last \in 1 .. Slots - last /\ last + (i - last) = i
      BY <1>1
    <3>2. \A i \in 1 .. Slots : i > last => /\ ~ (i - off <= Len(kept)) /\ ~ (i - off <= size)
                                            /\ ~ (i <= off)
      BY <1>1, <1>3
    <3> HIDE DEF last
    <3> QED BY <1>7, <3>1, <3>2
  <2>5. \A i \in 1 .. Slots : i <= last => (i <= off \/ i - off <= size)
    BY <1>1
  <2>6. \A i \in 1 .. Slots : i <= last =>
            b2[i] = IF i <= off THEN args[i]
                    ELSE IF i - off <= Len(kept) THEN kept[i - off] ELSE NULL
    BY <1>9, <2>3 DEF b2
  <2>7. \A i \in 1 .. Slots : (b2 \o behind)[i] = IF i <= last THEN b2[i] ELSE behind[i - last]
    BY <2>1, <2>2
  <2> HIDE DEF last
  <2>8. \A i \in 1 .. Slots :
            (b2 \o behind)[i] = IF i <= off THEN args[i]
                                ELSE IF i - off <= Len(kept) THEN kept[i - off]
                                ELSE IF i - off <= size THEN NULL ELSE args[i]
    <3>0. \A i \in 1 .. Slots : i <= last \/ i > last
      BY <1>1 DEF last
    <3>1. SUFFICES ASSUME NEW i \in 1 .. Slots
                   PROVE  (b2 \o behind)[i] = IF i <= off THEN args[i]
                                ELSE IF i - off <= Len(kept) THEN kept[i - off]
                                ELSE IF i - off <= size THEN NULL ELSE args[i]
      OBVIOUS
    <3>2. CASE i <= last
      BY ONLY <3>1, <3>2, <2>5, <2>6, <2>7
    <3>3. CASE i > last
      <4>1. ~ (i <= last)
        BY <1>1, <3>3 DEF last
      <4> QED BY ONLY <3>1, <3>3, <4>1, <2>4, <2>7
    <3> QED BY <3>0, <3>2, <3>3
  <2> QED BY <2>1, <2>2, <2>8
<1>11. b2 \o behind = [i \in 1 .. Slots |->
           IF i <= off THEN args[i]
           ELSE IF i - off <= Len(kept) THEN kept[i - off]
           ELSE IF i - off <= size THEN NULL ELSE args[i]]
  <2>1. PICK b : b = b2 \o behind
    OBVIOUS
  <2>2. b \in Seq(V) /\ Len(b) = Slots
    BY <1>10, <2>1
  <2>3. DOMAIN b = 1 .. Slots /\ b = [i \in 1 .. Slots |-> b[i]]
    BY ONLY <2>2, LenProperties
  <2> QED BY ONLY <1>10, <2>1, <2>3
<1>12. res = Redirected(args, off, part)
  BY <1>11 DEF Redirected, b2, b1, kept, size
<1> QED BY <1>3, <1>4, <1>12 DEF size, kept

(* What execvp takes of an array behind its first off words.               *)
Executed(args, off) ==
    LET rest == SubSeq(args, off + 1, Slots) IN SubSeq(rest, 1, Find(rest, NULL) - 1)

LEMMA Executes ==
    ASSUME LinesRight, Slots \in Nat, NEW args, NEW off, NEW part,
           Holds(args, off, part), Legible(part)
    PROVE  Executed(Redirected(args, off, part), off) = WordsAt(part, Places(part))
<1> DEFINE kept == WordsAt(part, Places(part))
           res == Redirected(args, off, part)
           size == Len(part)
           n == Slots - off
           V == Word \cup {NULL}
<1>1. /\ size \in Nat /\ off \in Nat /\ off + size < Slots /\ part \in Seq(Word)
      /\ args \in Array /\ args[off + size + 1] = NULL
  BY LenProperties DEF Holds
<1>2. kept \in Seq(Word) /\ Len(kept) \in 0 .. size /\ \A i \in 1 .. Len(kept) : kept[i] \in Word
  <2>1. kept \in Seq(Word) /\ Len(kept) \in 0 .. size
    BY Check
  <2> HIDE DEF kept
  <2> QED BY <2>1, ElementOfSeq
<1> HIDE DEF kept
<1>3. \A i \in 1 .. Slots :
          res[i] = IF i <= off THEN args[i]
                   ELSE IF i - off <= Len(kept) THEN kept[i - off]
                   ELSE IF i - off <= size THEN NULL ELSE args[i]
  BY DEF Redirected, kept
<1> HIDE DEF res, size
<1>4. /\ \A i \in 1 .. Len(kept) : res[off + i] = kept[i]
      /\ res[off + (Len(kept) + 1)] = NULL
  <2>1. ASSUME NEW i \in 1 .. Len(kept) PROVE res[off + i] = kept[i]
    <3>1. PICK j : j = off + i
      OBVIOUS
    <3>2. j \in 1 .. Slots /\ ~ (j <= off) /\ j - off = i /\ i <= Len(kept)
      BY <1>1, <1>2, <3>1
    <3> QED BY <1>3, <3>1, <3>2
  <2>2. PICK j : j = off + (Len(kept) + 1)
    OBVIOUS
  <2>3. j \in 1 .. Slots /\ ~ (j <= off) /\ ~ (j - off <= Len(kept))
    BY <1>1, <1>2, <2>2
  <2>4. j - off <= size \/ j = off + size + 1
    BY <1>1, <1>2, <2>2
  <2>5. res[j] = NULL
    BY <1>1, <1>3, <2>3, <2>4
  <2> QED BY <2>1, <2>2, <2>5
<1>5. \A i \in 1 .. n : res[off + i] \in V
  <2> SUFFICES ASSUME NEW i \in 1 .. n PROVE res[off + i] \in V
    OBVIOUS
  <2>1. PICK j : j = off + i
    OBVIOUS
  <2>2. j \in 1 .. Slots /\ (~ (j <= off) => j - off \in 1 .. n)
    BY <1>1, <2>1
  <2>3. args[j] \in V
    BY <1>1, <2>2 DEF Array
  <2>4. ~ (j <= off) /\ j - off <= Len(kept) => kept[j - off] \in V
    BY <1>1, <1>2, <2>1
  <2> HIDE DEF V
  <2>5. NULL \in V
    BY DEF V
  <2> QED BY <1>3, <2>1, <2>2, <2>3, <2>4, <2>5
<1> DEFINE rest == Behind(res, off, n)
<1>6. rest \in Seq(V) /\ Len(rest) = n /\ \A i \in 1 .. n : rest[i] = res[off + i]
  <2>1. off \in Nat /\ n \in Nat
    BY <1>1
  <2>2. AreBehind(res, off, n, V)
    BY <1>5 DEF AreBehind
  <2> HIDE DEF n, V
  <2>3. IsBehind(res, off, n, V)
    BY ONLY <2>1, <2>2, Piece
  <2> QED BY ONLY <2>3 DEF IsBehind
<1>7. SubSeq(res, off + 1, Slots) = rest
  <2>1. off + n = Slots
    BY <1>1
  <2> HIDE DEF n
  <2> QED BY <2>1 DEF Behind
<1> HIDE DEF rest
<1>8. Find(rest, NULL) = Len(kept) + 1
  <2>1. Len(kept) + 1 \in 1 .. Len(rest) /\ Len(rest) \in Nat
    BY <1>1, <1>2, <1>6
  <2>2. rest[Len(kept) + 1] = NULL
    BY <1>4, <1>6, <2>1
  <2>3. \A i \in 1 .. Len(kept) + 1 - 1 : rest[i] # NULL
    <3>1. \A i \in 1 .. Len(kept) + 1 - 1 : i \in 1 .. Len(kept) /\ i \in 1 .. n
      BY <1>1, <1>2
    <3> QED BY <1>2, <1>4, <1>6, <3>1, NullIsNoWord
  <2> QED BY <2>1, <2>2, <2>3, FindIs
<1>9. Executed(res, off) = SubSeq(rest, 0 + 1, 0 + Len(kept))
  <2>1. 0 + 1 = 1 /\ 0 + Len(kept) = Len(kept) + 1 - 1
    BY <1>2
  <2>2. Executed(res, off) = SubSeq(rest, 1, Find(rest, NULL) - 1)
    BY <1>7 DEF Executed
  <2> QED BY ONLY <1>8, <2>1, <2>2
<1>10. /\ Behind(rest, 0, Len(kept)) \in Seq(Word) /\ Len(Behind(rest, 0, Len(kept))) = Len(kept)
       /\ \A i \in 1 .. Len(kept) : Behind(rest, 0, Len(kept))[i] = rest[0 + i]
  <2>1. 0 \in Nat /\ Len(kept) \in Nat
    BY <1>2
  <2>2. AreBehind(rest, 0, Len(kept), Word)
    <3>1. \A i \in 1 .. Len(kept) : 0 + i = i /\ i \in 1 .. n
      BY <1>1, <1>2
    <3> QED BY <1>2, <1>4, <1>6, <3>1 DEF AreBehind
  <2>3. PICK z : z = 0
    OBVIOUS
  <2>4. z \in Nat /\ AreBehind(rest, z, Len(kept), Word)
    BY ONLY <2>1, <2>2, <2>3
  <2>5. IsBehind(rest, z, Len(kept), Word)
    BY ONLY <2>1, <2>4, Piece
  <2> QED BY ONLY <2>3, <2>5 DEF IsBehind
<1>11. Behind(rest, 0, Len(kept)) = kept
  <2>1. PICK b : b = Behind(rest, 0, Len(kept))
    OBVIOUS
  <2>2. b \in Seq(Word) /\ Len(b) = Len(kept) /\ \A i \in 1 .. Len(kept) : b[i] = rest[0 + i]
    BY ONLY <1>10, <2>1
  <2>3. \A i \in 1 .. Len(kept) : 0 + i = i /\ i \in 1 .. n
    BY <1>1, <1>2
  <2>4. \A i \in 1 .. Len(b) : b[i] = kept[i]
    BY <1>4, <1>6, <2>2, <2>3
  <2>5. b = kept
    BY <1>2, <2>2, <2>4, SeqEqual
  <2> QED BY <2>1, <2>5
<1> QED BY <1>9, <1>11 DEF Behind, res, kept

(* If that was all args held, args is in order again.                      *)
LEMMA CleanAgain ==
    ASSUME Slots \in Nat, NEW args, NEW part, Holds(args, 0, part), Legible(part),
           \A i \in 1 .. Slots : i > Len(part) => args[i] = NULL
    PROVE  Clean(Redirected(args, 0, part))
<1> DEFINE kept == WordsAt(part, Places(part))
           res == Redirected(args, 0, part)
           size == Len(part)
<1>1. size \in Nat /\ 0 + size < Slots
  BY LenProperties DEF Holds
<1>2. kept \in Seq(Word) /\ Len(kept) \in 0 .. size
  <2>1. PICK z : z = 0
    OBVIOUS
  <2>2. Holds(args, z, part)
    BY ONLY <2>1, Holds(args, 0, part)
  <2>3. kept \in Seq(Word) /\ Len(kept) \in 0 .. size
    BY ONLY Slots \in Nat, Legible(part), <2>2, Check
  <2> QED BY <2>3
<1> HIDE DEF kept
<1>3. \A i \in 1 .. Slots :
          res[i] = IF i <= 0 THEN args[i]
                   ELSE IF i - 0 <= Len(kept) THEN kept[i - 0]
                   ELSE IF i - 0 <= size THEN NULL ELSE args[i]
  BY DEF Redirected, kept
<1>4. res = [i \in 1 .. Slots |-> res[i]]
  BY DEF Redirected
<1> HIDE DEF res
<1>5. \A i \in 1 .. Slots : res[i] = IF i <= Len(kept) THEN kept[i] ELSE NULL
  <2>1. \A i \in 1 .. Slots : i - 0 = i /\ ~ (i <= 0)
    OBVIOUS
  <2>2. \A i \in 1 .. Slots : ~ (i <= size) => args[i] = NULL
    BY <1>1
  <2> HIDE DEF size
  <2> QED BY <1>3, <2>1, <2>2
<1>6. res = Padded(kept)
  BY ONLY <1>4, <1>5 DEF Padded
<1>7. Len(kept) < Slots
  BY <1>1, <1>2
<1> QED BY <1>2, <1>6, <1>7 DEF Clean, res

-----------------------------------------------------------------------------
(* The two sides of a bar.                                                 *)

(* args with a NULL where the bar was: what run_command hands to a child.  *)
Halved(plain) ==
    [i \in 1 .. Slots |-> IF i <= Len(plain) /\ i # Bar(plain) THEN plain[i] ELSE NULL]

LEMMA Halves ==
    ASSUME Slots \in Nat, NEW plain \in Seq(Word), Len(plain) < Slots
    PROVE  Halved(plain) = IF Bar(plain) > Len(plain) THEN Padded(plain)
                           ELSE [Padded(plain) EXCEPT ![Bar(plain)] = NULL]
<1>1. Len(plain) \in Nat /\ Bar(plain) \in Nat
  BY BarIs
<1>2. CASE Bar(plain) > Len(plain)
  <2>1. \A i \in 1 .. Slots : i <= Len(plain) => i # Bar(plain)
    BY <1>1, <1>2
  <2>2. \A i \in 1 .. Slots : (IF i <= Len(plain) /\ i # Bar(plain) THEN plain[i] ELSE NULL)
                                  = IF i <= Len(plain) THEN plain[i] ELSE NULL
    BY <2>1
  <2>3. Halved(plain) = Padded(plain)
    BY ONLY <2>2 DEF Halved, Padded
  <2> QED BY <1>2, <2>3
<1>3. CASE ~ (Bar(plain) > Len(plain))
  <2>1. [Padded(plain) EXCEPT ![Bar(plain)] = NULL]
            = [i \in 1 .. Slots |-> IF i = Bar(plain) THEN NULL ELSE Padded(plain)[i]]
    BY DEF Padded
  <2>2. \A i \in 1 .. Slots : (IF i <= Len(plain) /\ i # Bar(plain) THEN plain[i] ELSE NULL)
                                  = IF i = Bar(plain) THEN NULL ELSE Padded(plain)[i]
    BY DEF Padded
  <2>3. Halved(plain) = [i \in 1 .. Slots |-> IF i = Bar(plain) THEN NULL ELSE Padded(plain)[i]]
    BY ONLY <2>2 DEF Halved
  <2> QED BY <1>3, <2>1, <2>3
<1> QED BY <1>2, <1>3

LEMMA HalvedIsArray ==
    ASSUME Slots \in Nat, NEW plain \in Seq(Word), Len(plain) < Slots
    PROVE  Halved(plain) \in Array
<1> DEFINE V == Word \cup {NULL}
<1>1. Len(plain) \in Nat /\ \A i \in 1 .. Len(plain) : plain[i] \in V
  BY LenProperties, ElementOfSeq
<1>2. NULL \in V
  OBVIOUS
<1> HIDE DEF V
<1>3. \A i \in 1 .. Slots : (IF i <= Len(plain) /\ i # Bar(plain) THEN plain[i] ELSE NULL) \in V
  BY <1>1, <1>2
<1> QED BY ONLY <1>3 DEF Halved, Array, V

(* The command before the bar, or without one, begins args.                *)
LEMMA FirstSide ==
    ASSUME Slots \in Nat, NEW plain \in Seq(Word), Len(plain) < Slots
    PROVE  /\ Holds(Halved(plain), 0, Part(plain, TRUE))
           /\ Len(Part(plain, TRUE)) = Bar(plain) - 1
           /\ Bar(plain) > Len(plain) =>
                  \A i \in 1 .. Slots : i > Len(Part(plain, TRUE)) => Halved(plain)[i] = NULL
<1> DEFINE n == Bar(plain) - 1
           args == Halved(plain)
           part == Part(plain, TRUE)
<1>1. /\ Len(plain) \in Nat /\ Bar(plain) \in 1 .. Len(plain) + 1
      /\ Bar(plain) <= Len(plain) => Bar(plain) = Find(plain, "|")
      /\ Bar(plain) > Len(plain) => Find(plain, "|") = 0
      /\ \A i \in 1 .. Len(plain) : plain[i] \in Word
  BY BarIs, ElementOfSeq
<1>2. part \in Seq(Word) /\ Len(part) = n /\ \A i \in 1 .. n : part[i] = plain[i]
  <2>1. CASE Bar(plain) > Len(plain)
    <3>1. part = plain /\ n = Len(plain)
      BY <1>1, <2>1 DEF Part
    <3> HIDE DEF part, n
    <3> QED BY <3>1
  <2>2. CASE Bar(plain) <= Len(plain)
    <3>1. Find(plain, "|") # 0 /\ n \in Nat /\ \A i \in 1 .. n : plain[i] \in Word
      BY <1>1, <2>2
    <3>2. part = SubSeq(plain, 1, n)
      BY <1>1, <2>2, <3>1 DEF Part
    <3> HIDE DEF part, n
    <3>3. 1 \in Int /\ n \in Int /\ n - 1 + 1 = n
      BY <3>1
    <3>4. /\ SubSeq(plain, 1, n) \in Seq(Word)
          /\ Len(SubSeq(plain, 1, n)) = IF 1 <= n THEN n - 1 + 1 ELSE 0
          /\ \A i \in 1 .. n - 1 + 1 : SubSeq(plain, 1, n)[i] = plain[1 + i - 1]
      BY ONLY <3>1, <3>3, SubSeqProperties
    <3> QED BY <3>1, <3>2, <3>3, <3>4
  <2>3. Bar(plain) > Len(plain) \/ Bar(plain) <= Len(plain)
    BY <1>1
  <2> QED BY ONLY <2>1, <2>2, <2>3
<1> HIDE DEF part
<1>3. n \in Nat /\ n < Slots /\ n <= Len(plain)
  BY <1>1
<1>4. \A i \in 1 .. n : args[i] = plain[i]
  BY <1>1, <1>3 DEF Halved
<1>5. args[n + 1] = NULL
  BY <1>1, <1>3 DEF Halved
<1>6. args \in Array
  BY HalvedIsArray
<1>7. Bar(plain) > Len(plain) => \A i \in 1 .. Slots : i > n => args[i] = NULL
  BY <1>1 DEF Halved
<1> HIDE DEF args
<1>8. Holds(args, 0, part)
  <2>1. 0 + Len(part) = n /\ 0 + Len(part) + 1 = n + 1
    BY <1>2, <1>3
  <2>2. \A i \in 1 .. n : args[0 + i] = part[i]
    BY <1>2, <1>4
  <2> HIDE DEF n
  <2> QED BY <1>2, <1>3, <1>5, <1>6, <2>1, <2>2 DEF Holds
<1> QED BY <1>2, <1>7, <1>8 DEF args, part

(* The command behind the bar follows it in args.                          *)
LEMMA SecondSide ==
    ASSUME Slots \in Nat, NEW plain \in Seq(Word), Len(plain) < Slots, Bar(plain) <= Len(plain)
    PROVE  /\ Holds(Halved(plain), Bar(plain), Part(plain, FALSE))
           /\ Len(Part(plain, FALSE)) = Len(plain) - Bar(plain)
<1> DEFINE bar == Bar(plain)
           n == Len(plain) - bar
           args == Halved(plain)
           part == Part(plain, FALSE)
<1>1. /\ Len(plain) \in Nat /\ bar \in 1 .. Len(plain) /\ bar = Find(plain, "|")
      /\ \A i \in 1 .. Len(plain) : plain[i] \in Word
  BY BarIs, ElementOfSeq
<1>2. part = SubSeq(plain, bar + 1, Len(plain))
  BY <1>1 DEF Part
<1>3. n \in Nat /\ bar \in Nat /\ bar + n < Slots /\ bar + n = Len(plain)
  BY <1>1
<1> HIDE DEF part, n, bar
<1>4. part = Behind(plain, bar, n)
  BY <1>2, <1>3 DEF Behind
<1>5. \A i \in 1 .. n : bar + i \in 1 .. Len(plain) /\ bar + i # bar /\ bar + i <= Len(plain)
  BY <1>1, <1>3
<1>6. part \in Seq(Word) /\ Len(part) = n /\ \A i \in 1 .. n : part[i] = plain[bar + i]
  <2>1. AreBehind(plain, bar, n, Word)
    BY <1>1, <1>5 DEF AreBehind
  <2>2. IsBehind(plain, bar, n, Word)
    BY ONLY <1>3, <2>1, Piece
  <2> QED BY <1>4, <2>2 DEF IsBehind
<1>7. \A i \in 1 .. Slots : args[i] = IF i <= Len(plain) /\ i # bar THEN plain[i] ELSE NULL
  BY DEF Halved, bar
<1>8. \A i \in 1 .. n : args[bar + i] = part[i]
  <2> HIDE DEF args
  <2>1. \A i \in 1 .. n : bar + i \in 1 .. Slots
    BY <1>1, <1>3
  <2> QED BY <1>5, <1>6, <1>7, <2>1
<1>9. args[bar + n + 1] = NULL
  <2> HIDE DEF args
  <2>1. bar + n + 1 \in 1 .. Slots /\ ~ (bar + n + 1 <= Len(plain))
    BY <1>1, <1>3
  <2> QED BY <1>7, <2>1
<1>10. args \in Array
  BY HalvedIsArray
<1> HIDE DEF args
<1>11. Holds(args, bar, part)
  BY <1>3, <1>6, <1>8, <1>9, <1>10 DEF Holds
<1> QED BY <1>6, <1>11 DEF args, part, bar, n

LEMMA WordsAre ==
    ASSUME NEW line, NEW first
    PROVE  Words(line, first) = WordsAt(Part(Plain(line), first), Places(Part(Plain(line), first)))
BY DEF Words, Places, Symbols

(* The lines of the user.                                                  *)
LEMMA LineIs ==
    ASSUME ShellAssumption, LinesRight, NEW line \in Lines, line # <<>>
    PROVE  /\ line \in Seq(Word) /\ Len(line) \in Nat \ {0} /\ Len(line) < Slots
           /\ Plain(line) \in Seq(Word) /\ Len(Plain(line)) \in Nat /\ Len(Plain(line)) < Slots
           /\ Contains(Plain(line), "|") => Contains(line, "|")
           /\ \A first \in BOOLEAN : Legible(Part(Plain(line), first))
<1>1. line \in Seq(Vocabulary) /\ \A first \in BOOLEAN : Legible(Part(Plain(line), first))
  BY DEF LinesRight
<1>2. Vocabulary \subseteq Word
  BY DEF Word
<1>3. line \in Seq(Word)
  BY ONLY <1>1, <1>2, SeqMonotonic
<1>4. Len(line) < Slots /\ Slots \in Nat
  BY DEF ShellAssumption
<1>5. Len(line) \in Nat \ {0}
  BY <1>3, EmptySeq
<1>6. /\ Plain(line) \in Seq(Word) /\ Len(Plain(line)) <= Len(line)
      /\ Len(Plain(line)) \in Nat
      /\ Contains(Plain(line), "|") => Contains(line, "|")
  BY <1>3, PlainLine
<1>7. Len(Plain(line)) < Slots
  BY <1>4, <1>5, <1>6
<1> QED BY <1>1, <1>3, <1>4, <1>5, <1>6, <1>7

(* check_redirection leaves the words of the command before the bar.       *)
LEMMA FirstWords ==
    ASSUME ShellAssumption, LinesRight, NEW line \in Lines, line # <<>>, NEW args,
           args = check_redirection(Halved(Plain(line)), 0, Bar(Plain(line)) - 1).args
    PROVE  Executed(args, 0) = Words(line, TRUE) /\ (Contains(line, "|") \/ Clean(args))
<1> DEFINE plain == Plain(line)
           part == Part(plain, TRUE)
<1>0. PICK off : off = 0
  OBVIOUS
<1>1. /\ Slots \in Nat /\ plain \in Seq(Word) /\ Len(plain) < Slots /\ Legible(part)
      /\ Contains(plain, "|") => Contains(line, "|")
  BY LineIs DEF ShellAssumption
<1> HIDE DEF plain
<1>2. /\ Holds(Halved(plain), 0, part) /\ Len(part) = Bar(plain) - 1
      /\ Bar(plain) > Len(plain) => \A i \in 1 .. Slots : i > Len(part) => Halved(plain)[i] = NULL
  BY <1>1, FirstSide
<1> HIDE DEF part
<1>3. Holds(Halved(plain), off, part)
  BY ONLY <1>0, <1>2
<1>4. check_redirection(Halved(plain), off, Len(part)).args = Redirected(Halved(plain), off, part)
  BY ONLY <1>1, <1>3, Check
<1>5. args = Redirected(Halved(plain), off, part)
  <2>1. args = check_redirection(Halved(plain), 0, Bar(plain) - 1).args
    BY DEF plain
  <2> QED BY ONLY <1>0, <1>2, <1>4, <2>1
<1>6. Executed(args, off) = WordsAt(part, Places(part))
  BY ONLY LinesRight, <1>1, <1>3, <1>5, Executes
<1>7. Words(line, TRUE) = WordsAt(part, Places(part))
  BY WordsAre DEF part, plain
<1>8. Contains(line, "|") \/ Clean(args)
  <2>1. CASE Bar(plain) > Len(plain)
    <3>1. Clean(Redirected(Halved(plain), 0, part))
      BY ONLY <1>1, <1>2, <2>1, CleanAgain
    <3> QED BY ONLY <1>0, <1>5, <3>1
  <2>2. CASE ~ (Bar(plain) > Len(plain))
    <3>1. Bar(plain) <= Len(plain)
      BY <1>1, <2>2, BarIs
    <3> QED BY <1>1, <3>1, BarIs
  <2> QED BY <2>1, <2>2
<1> QED BY <1>0, <1>6, <1>7, <1>8

LEMMA SecondWords ==
    ASSUME ShellAssumption, LinesRight, NEW line \in Lines, line # <<>>, NEW args, NEW off, NEW size,
           off = Bar(Plain(line)), size = Len(Plain(line)) - off, off <= Len(Plain(line)),
           args = check_redirection(Halved(Plain(line)), off, size).args
    PROVE  Executed(args, off) = Words(line, FALSE) /\ Contains(line, "|") /\ off # 0
<1> DEFINE plain == Plain(line)
           part == Part(plain, FALSE)
<1>1. /\ Slots \in Nat /\ plain \in Seq(Word) /\ Len(plain) < Slots /\ Legible(part)
      /\ Contains(plain, "|") => Contains(line, "|")
  BY LineIs DEF ShellAssumption
<1>2. off = Bar(plain) /\ size = Len(plain) - off /\ Bar(plain) <= Len(plain)
      /\ args = check_redirection(Halved(plain), off, size).args
  OBVIOUS
<1> HIDE DEF plain
<1>3. /\ Holds(Halved(plain), off, part) /\ Len(part) = size
  BY ONLY <1>1, <1>2, SecondSide DEF part
<1> HIDE DEF part
<1>4. check_redirection(Halved(plain), off, Len(part)).args = Redirected(Halved(plain), off, part)
  BY ONLY <1>1, <1>3, Check
<1>5. args = Redirected(Halved(plain), off, part)
  BY ONLY <1>2, <1>3, <1>4
<1>6. Executed(args, off) = WordsAt(part, Places(part))
  BY ONLY LinesRight, <1>1, <1>3, <1>5, Executes
<1>7. Words(line, FALSE) = WordsAt(part, Places(part))
  BY WordsAre DEF part, plain
<1>8. Contains(line, "|") /\ off # 0
  BY <1>1, <1>2, BarIs
<1> QED BY <1>6, <1>7, <1>8

-----------------------------------------------------------------------------
(* What every process has in args, unless its shell has run a pipe before. *)
Told(r) ==
    r.pc \notin {"free", "zombie"} /\ ~r.piped =>
        LET plain == Plain(r.command) IN
        /\ r.command \in Lines \cup {<<>>}
        /\ r.pc \notin {"prompt", "wait"} => r.command # <<>>
        /\ r.pc \in {"prompt", "wait", "join", "exec", "program"} =>
               Contains(r.command, "|") \/ Clean(r.args)
        /\ r.pc = "run" => r.args = Padded(r.command) /\ r.size = Len(r.command)
        /\ r.pc \in {"pipe", "single", "first", "second"} => r.args = Halved(plain)
        /\ r.pc \in {"pipe", "single", "first"} => r.off = 0 /\ r.size = Bar(plain) - 1
        /\ r.pc = "pipe" => r.left = Len(plain) - Bar(plain) /\ Bar(plain) <= Len(plain)
        /\ r.pc = "second" => /\ r.off = Bar(plain) /\ r.off <= Len(plain)
                              /\ r.size = Len(plain) - r.off
        /\ r.pc \in {"join", "exec", "program"} =>
               Executed(r.args, r.off) = Words(r.command, r.off = 0)

AllTold == \A p \in Procs : Told(proc[p])
ToldIInv == IInv /\ AllTold

LEMMA OneTold ==
    ASSUME ToldIInv, NEW p \in Procs, NEW r, proc' = [proc EXCEPT ![p] = r], Told(r)
    PROVE  AllTold'
<1>1. \A q \in Procs : proc'[q] = IF q = p THEN r ELSE proc[q]
  BY DEF ToldIInv, IInv, Shape
<1>2. \A q \in Procs : Told(proc'[q])
  BY <1>1 DEF ToldIInv, AllTold
<1> QED BY <1>2 DEF AllTold

LEMMA TwoTold ==
    ASSUME ToldIInv, NEW p \in Procs, NEW c \in Procs, NEW r, NEW k,
           proc' = [proc EXCEPT ![c] = k, ![p] = r], Told(r), Told(k)
    PROVE  AllTold'
<1>1. \A q \in Procs : proc'[q] = IF q = p THEN r ELSE IF q = c THEN k ELSE proc[q]
  BY DEF ToldIInv, IInv, Shape
<1>2. \A q \in Procs : Told(proc'[q])
  BY <1>1 DEF ToldIInv, AllTold
<1> QED BY <1>2 DEF AllTold

(* Free and zombie processes are told nothing.                             *)
LEMMA SilentTold ==
    ASSUME NEW r, r.pc \in {"free", "zombie"}
    PROVE  Told(r)
BY DEF Told

LEMMA EndTold ==
    ASSUME ToldIInv, NEW p \in Procs, proc' = Ended(p)
    PROVE  AllTold'
<1> SUFFICES ASSUME NEW q \in Procs PROVE Told(proc'[q])
  BY DEF AllTold
<1>1. DOMAIN proc[q] = Fields /\ Told(proc[q])
  BY DEF ToldIInv, AllTold, IInv, Shape
<1>2. CASE proc'[q] = Free \/ proc'[q] = [Free EXCEPT !.pc = "zombie", !.parent = proc[p].parent]
  <2>1. Free.pc = "free" /\ [Free EXCEPT !.pc = "zombie", !.parent = proc[p].parent].pc = "zombie"
    BY DEF Free
  <2> HIDE DEF Free
  <2>2. proc'[q].pc \in {"free", "zombie"}
    BY <1>2, <2>1
  <2> QED BY <2>2, SilentTold
<1>3. CASE proc'[q] = [proc[q] EXCEPT !.parent = Nobody]
  <2>1. PICK r : r = [proc[q] EXCEPT !.parent = Nobody]
    OBVIOUS
  <2>2. /\ r.pc = proc[q].pc /\ r.args = proc[q].args /\ r.size = proc[q].size
        /\ r.off = proc[q].off /\ r.command = proc[q].command /\ r.piped = proc[q].piped
        /\ r.left = proc[q].left
    BY <1>1, <2>1 DEF Fields
  <2>3. Told(r)
    BY <1>1, <2>2 DEF Told
  <2> QED BY <1>3, <2>1, <2>3
<1>4. CASE proc'[q] = proc[q]
  BY <1>1, <1>4
<1>5. p \notin Children(p)
  BY DEF Children, ToldIInv, IInv, Shape
<1> QED BY <1>2, <1>3, <1>4, <1>5 DEF Ended

(* A process goes on to another place with the args it has.                *)
LEMMA GotoTold ==
    ASSUME ToldIInv, NEW p \in Procs, NEW r, DOMAIN r = Fields, NEW label,
           r.pc = label, r.args = proc[p].args, r.off = proc[p].off,
           r.command = proc[p].command, r.piped = proc[p].piped,
           <<pc(p), label>> \in {<<"wait", "prompt">>, <<"join", "exec">>, <<"exec", "prompt">>,
                                 <<"exec", "program">>, <<"program", "program">>}
    PROVE  Told(r)
<1>1. Told(proc[p])
  BY DEF ToldIInv, AllTold
<1> QED BY <1>1 DEF Told, pc

LEMMA WaitTold ==
    ASSUME ToldIInv, NEW p \in Procs, NEW label, wait(p, label),
           <<pc(p), label>> \in {<<"wait", "prompt">>, <<"join", "exec">>}
    PROVE  AllTold'
<1>1. PICK c \in Children(p) : pc(c) = "zombie" /\ proc' = [proc EXCEPT ![c] = Free, ![p].pc = label]
  BY DEF wait
<1>2. PICK r : r = [proc[p] EXCEPT !.pc = label]
  OBVIOUS
<1>3. DOMAIN proc[p] = Fields /\ DOMAIN proc = Procs /\ c \in Procs /\ c # p
  BY <1>1 DEF ToldIInv, IInv, Shape, Children
<1>4. /\ DOMAIN r = Fields /\ r.pc = label /\ r.args = proc[p].args /\ r.off = proc[p].off
      /\ r.command = proc[p].command /\ r.piped = proc[p].piped
  BY <1>2, <1>3 DEF Fields
<1>5. Told(r)
  BY <1>4, GotoTold
<1>6. PICK k : k = Free
  OBVIOUS
<1>7. Told(k)
  BY <1>6, SilentTold DEF Free
<1>8. proc' = [proc EXCEPT ![c] = k, ![p] = r]
  BY <1>1, <1>2, <1>3, <1>6
<1> QED BY <1>3, <1>5, <1>7, <1>8, TwoTold

LEMMA ExecTold ==
    ASSUME ToldIInv, NEW p \in Procs, Exec(p)
    PROVE  AllTold'
<1> DEFINE left == IF proc[p].stdout = Terminal THEN 0 ELSE Output[Head(Argv(p))]
<1>1. /\ pc(p) = "exec"
      /\ \/ proc' = Ended(p)
         \/ proc' = [proc EXCEPT ![p].pc = "program", ![p].left = left]
         \/ proc' = [proc EXCEPT ![p].pc = "prompt"]
  BY DEF Exec, ReturnsToMain, Goto
<1>2. DOMAIN proc[p] = Fields /\ DOMAIN proc = Procs
  BY DEF ToldIInv, IInv, Shape
<1> HIDE DEF left
<1>3. CASE proc' = [proc EXCEPT ![p].pc = "program", ![p].left = left]
  <2>1. PICK r : r = [proc[p] EXCEPT !.pc = "program", !.left = left]
    OBVIOUS
  <2>2. /\ DOMAIN r = Fields /\ r.pc = "program" /\ r.args = proc[p].args /\ r.off = proc[p].off
        /\ r.command = proc[p].command /\ r.piped = proc[p].piped
    BY <1>2, <2>1 DEF Fields
  <2>3. Told(r)
    BY <1>1, <2>2, GotoTold
  <2>4. proc' = [proc EXCEPT ![p] = r]
    BY <1>2, <1>3, <2>1
  <2> QED BY <2>3, <2>4, OneTold
<1>4. CASE proc' = [proc EXCEPT ![p].pc = "prompt"]
  <2>1. PICK r : r = [proc[p] EXCEPT !.pc = "prompt"]
    OBVIOUS
  <2>2. /\ DOMAIN r = Fields /\ r.pc = "prompt" /\ r.args = proc[p].args /\ r.off = proc[p].off
        /\ r.command = proc[p].command /\ r.piped = proc[p].piped
    BY <1>2, <2>1 DEF Fields
  <2>3. Told(r)
    BY <1>1, <2>2, GotoTold
  <2>4. proc' = [proc EXCEPT ![p] = r]
    BY <1>2, <1>4, <2>1
  <2> QED BY <2>3, <2>4, OneTold
<1> QED BY <1>1, <1>3, <1>4, EndTold

LEMMA WriteTold ==
    ASSUME ToldIInv, NEW p \in Procs, Write(p)
    PROVE  AllTold'
<1> DEFINE rest == proc[p].left - 1
<1>1. /\ pc(p) = "program"
      /\ proc' = Ended(p) \/ proc' = [proc EXCEPT ![p].left = rest]
  BY DEF Write
<1>2. DOMAIN proc[p] = Fields /\ DOMAIN proc = Procs
  BY DEF ToldIInv, IInv, Shape
<1> HIDE DEF rest
<1>3. CASE proc' = [proc EXCEPT ![p].left = rest]
  <2>1. PICK r : r = [proc[p] EXCEPT !.left = rest]
    OBVIOUS
  <2>2. /\ DOMAIN r = Fields /\ r.pc = "program" /\ r.args = proc[p].args /\ r.off = proc[p].off
        /\ r.command = proc[p].command /\ r.piped = proc[p].piped
    BY <1>1, <1>2, <2>1 DEF Fields, pc
  <2>3. Told(r)
    BY <1>1, <2>2, GotoTold
  <2>4. proc' = [proc EXCEPT ![p] = r]
    BY <1>2, <1>3, <2>1
  <2> QED BY <2>3, <2>4, OneTold
<1> QED BY <1>1, <1>3, EndTold

LEMMA GetLineTold ==
    ASSUME ShellAssumption, LinesRight, ToldIInv, NEW s \in Procs, pc(s) = "prompt",
           NEW typedLine \in Lines, GetLine(s, typedLine)
    PROVE  AllTold'
<1> DEFINE line == IF typedLine = <<"!!">> THEN proc[s].command ELSE typedLine
           args == parse_input(refresh_args(proc[s].args), line)
           piped == proc[s].piped \/ Contains(proc[s].command, "|")
           label == IF line = <<>> THEN "prompt" ELSE "run"
<1>1. \/ proc' = Ended(s)
      \/ proc' = [proc EXCEPT ![s] =
                     [[proc[s] EXCEPT !.args = args, !.size = Len(line), !.command = line,
                                      !.piped = piped] EXCEPT !.pc = label]]
  BY DEF GetLine
<1>2. DOMAIN proc[s] = Fields /\ Told(proc[s]) /\ Slots \in Nat
  BY DEF ToldIInv, AllTold, IInv, Shape, ShellAssumption
<1>3. ASSUME ~piped
      PROVE  /\ line \in Lines \cup {<<>>}
             /\ args = Padded(line) /\ Padded(line) \in Array
             /\ line = <<>> => Clean(args)
  <2>1. ~proc[s].piped /\ ~Contains(proc[s].command, "|")
    BY <1>3
  <2>2. proc[s].command \in Lines \cup {<<>>} /\ Clean(proc[s].args)
    BY <1>2, <2>1 DEF Told, pc
  <2>3. line \in Lines \cup {<<>>}
    BY <2>2
  <2>4. args = parse_input(Padded(<<>>), line)
    BY <1>2, <2>2, Refreshed
  <2> HIDE DEF line, args
  <2>5. line \in Seq(Word) /\ Len(line) < Slots
    <3>1. CASE line = <<>>
      <4>1. proc[s].args \in Array /\ Slots > 0
        <5>1. PICK words \in Seq(Word) : Len(words) < Slots
          BY <2>2 DEF Clean
        <5>2. Len(words) \in Nat
          BY <5>1, LenProperties
        <5>3. Slots > 0
          BY <1>2, <5>1, <5>2
        <5>4. proc[s].args \in Array
          BY <2>2, PaddedIsArray DEF Clean
        <5> QED BY <5>3, <5>4
      <4>2. <<>> \in Seq(Word) /\ Len(<<>>) = 0
        OBVIOUS
      <4> QED BY <1>2, <3>1, <4>1, <4>2
    <3>2. CASE line # <<>>
      BY <2>3, <3>2, LineIs
    <3> QED BY <3>1, <3>2
  <2>6. args = Padded(line) /\ Padded(line) \in Array
    BY <1>2, <2>4, <2>5, Parsed, PaddedIsArray
  <2>7. Clean(args)
    BY <2>5, <2>6 DEF Clean
  <2> QED BY <2>3, <2>6, <2>7
<1> HIDE DEF line, args, piped
<1>4. CASE proc' = [proc EXCEPT ![s] =
                       [[proc[s] EXCEPT !.args = args, !.size = Len(line), !.command = line,
                                        !.piped = piped] EXCEPT !.pc = label]]
  <2>1. PICK r : r = [[proc[s] EXCEPT !.args = args, !.size = Len(line), !.command = line,
                                      !.piped = piped] EXCEPT !.pc = label]
    OBVIOUS
  <2>2. /\ r.pc = label /\ r.args = args /\ r.size = Len(line) /\ r.command = line
        /\ r.piped = piped
    <3> HIDE DEF label
    <3> QED BY <1>2, <2>1 DEF Fields
  <2>3. label = IF line = <<>> THEN "prompt" ELSE "run"
    OBVIOUS
  <2> HIDE DEF label
  <2>4. Told(r)
    BY <1>3, <2>2, <2>3 DEF Told
  <2>5. proc' = [proc EXCEPT ![s] = r]
    BY <1>4, <2>1
  <2> QED BY <2>4, <2>5, OneTold
<1> QED BY <1>1, <1>4, EndTold

LEMMA RunCommandTold ==
    ASSUME ShellAssumption, LinesRight, ToldIInv, NEW s \in Procs, RunCommand(s)
    PROVE  AllTold'
<1> DEFINE amp == check_ampersand(proc[s].args, proc[s].size)
           bar == detect_pipe(amp.args, amp.size)
           args == IF bar > amp.size THEN amp.args ELSE [amp.args EXCEPT ![bar] = NULL]
           place == IF bar < amp.size THEN "pipe" ELSE "single"
           left == amp.size - bar
           size == bar - 1
           label == IF amp.found THEN "prompt" ELSE "wait"
           count == IF amp.found THEN proc[s].unwaited + 1 ELSE proc[s].unwaited
           line == proc[s].command
           plain == Plain(line)
<1>1. /\ pc(s) = "run"
      /\ \/ \E c \in Fresh :
               proc' = [proc EXCEPT
                   ![c] = [proc[s] EXCEPT !.pc = place, !.parent = s, !.unwaited = 0,
                                          !.args = args, !.size = size, !.off = 0,
                                          !.left = left, !.pipe = Nobody],
                   ![s] = [proc[s] EXCEPT !.args = args, !.pc = label, !.unwaited = count]]
         \/ proc' = [proc EXCEPT ![s].args = args, ![s].pc = "prompt"]
  BY DEF RunCommand
<1>2. DOMAIN proc[s] = Fields /\ DOMAIN proc = Procs /\ Told(proc[s]) /\ Slots \in Nat
  BY DEF ToldIInv, AllTold, IInv, Shape, ShellAssumption
<1>3. ASSUME ~proc[s].piped
      PROVE  /\ line \in Lines /\ line # <<>>
             /\ args = Halved(plain) /\ bar = Bar(plain) /\ amp.size = Len(plain)
             /\ Contains(line, "|") \/ Clean(args)
             /\ Len(plain) \in Nat /\ Bar(plain) \in Nat
  <2>1. /\ line \in Lines /\ line # <<>>
        /\ proc[s].args = Padded(line) /\ proc[s].size = Len(line)
    BY <1>1, <1>2, <1>3 DEF Told, pc
  <2> HIDE DEF line, plain
  <2>2. /\ line \in Seq(Word) /\ Len(line) < Slots
        /\ plain \in Seq(Word) /\ Len(plain) < Slots /\ Len(plain) \in Nat
        /\ Contains(plain, "|") => Contains(line, "|")
    BY <2>1, LineIs DEF plain
  <2>3. amp.args = Padded(plain) /\ amp.size = Len(plain)
    BY <1>2, <2>1, <2>2, Ampersand DEF plain
  <2> HIDE DEF amp
  <2>4. bar = Bar(plain)
    BY <1>2, <2>2, <2>3, Pipe
  <2> HIDE DEF bar
  <2>5. args = Halved(plain)
    BY <1>2, <2>2, <2>3, <2>4, Halves
  <2>6. Bar(plain) \in Nat /\ (~ (Bar(plain) > Len(plain)) => Contains(line, "|"))
    BY <2>2, BarIs
  <2>7. Bar(plain) > Len(plain) => Clean(args)
    BY <2>2, <2>3, <2>4 DEF Clean
  <2> HIDE DEF args
  <2> QED BY <2>1, <2>2, <2>3, <2>4, <2>5, <2>6, <2>7
<1> DEFINE n == amp.size
<1>4. /\ place = IF bar < n THEN "pipe" ELSE "single"
      /\ left = n - bar /\ size = bar - 1 /\ label \in {"prompt", "wait"}
  OBVIOUS
<1> HIDE DEF amp, bar, args, place, left, size, label, count, n
<1>5. ASSUME NEW l \in {"prompt", "wait"}, NEW r, r.pc = l, r.args = args,
             r.command = line, r.piped = proc[s].piped
      PROVE  Told(r)
  <2> HIDE DEF plain
  <2> QED BY <1>3, <1>5 DEF Told
<1>6. CASE proc' = [proc EXCEPT ![s].args = args, ![s].pc = "prompt"]
  <2>1. PICK r : r = [proc[s] EXCEPT !.args = args, !.pc = "prompt"]
    OBVIOUS
  <2>2. /\ r.pc = "prompt" /\ r.args = args /\ r.command = line /\ r.piped = proc[s].piped
    BY <1>2, <2>1 DEF Fields
  <2>3. Told(r)
    BY <1>5, <2>2
  <2>4. proc' = [proc EXCEPT ![s] = r]
    BY <1>2, <1>6, <2>1
  <2> QED BY <2>3, <2>4, OneTold
<1>7. ASSUME NEW c \in Fresh,
             proc' = [proc EXCEPT
                   ![c] = [proc[s] EXCEPT !.pc = place, !.parent = s, !.unwaited = 0,
                                          !.args = args, !.size = size, !.off = 0,
                                          !.left = left, !.pipe = Nobody],
                   ![s] = [proc[s] EXCEPT !.args = args, !.pc = label, !.unwaited = count]]
      PROVE  AllTold'
  <2>1. PICK k : k = [proc[s] EXCEPT !.pc = place, !.parent = s, !.unwaited = 0,
                                     !.args = args, !.size = size, !.off = 0,
                                     !.left = left, !.pipe = Nobody]
    OBVIOUS
  <2>2. PICK r : r = [proc[s] EXCEPT !.args = args, !.pc = label, !.unwaited = count]
    OBVIOUS
  <2>3. /\ r.pc = label /\ r.args = args /\ r.command = line /\ r.piped = proc[s].piped
        /\ k.pc = place /\ k.args = args /\ k.command = line /\ k.piped = proc[s].piped
        /\ k.off = 0 /\ k.size = size /\ k.left = left
    BY <1>2, <2>1, <2>2 DEF Fields
  <2>4. Told(r)
    BY <1>4, <1>5, <2>3
  <2>5. Told(k)
    <3>1. ASSUME ~k.piped
          PROVE  /\ line \in Lines /\ line # <<>>
                 /\ args = Halved(plain) /\ bar = Bar(plain) /\ n = Len(plain)
                 /\ Len(plain) \in Nat /\ Bar(plain) \in Nat
      BY <1>3, <2>3, <3>1 DEF n
    <3> HIDE DEF plain
    <3>2. ASSUME ~k.piped, place = "pipe"
          PROVE  left = Len(plain) - Bar(plain) /\ Bar(plain) <= Len(plain)
      BY <1>4, <3>1, <3>2
    <3>3. place \in {"pipe", "single"}
      BY <1>4
    <3>4. plain = Plain(k.command)
      BY <2>3 DEF plain
    <3>5. ~k.piped => size = Bar(plain) - 1
      BY <1>4, <3>1
    <3> HIDE DEF line
    <3> QED BY ONLY <2>3, <3>1, <3>2, <3>3, <3>4, <3>5 DEF Told
  <2>6. c \in Procs /\ proc' = [proc EXCEPT ![c] = k, ![s] = r]
    BY <1>7, <2>1, <2>2 DEF Fresh
  <2> QED BY <2>4, <2>5, <2>6, TwoTold
<1> QED BY <1>1, <1>6, <1>7

LEMMA MakePipeTold ==
    ASSUME ShellAssumption, LinesRight, ToldIInv, NEW c \in Procs, MakePipe(c)
    PROVE  AllTold'
<1> DEFINE end == [proc[c] EXCEPT !.pipe = c, !.both = @ \cup {c}]
           off == end.off + end.size + 1
           plain == Plain(proc[c].command)
<1>1. /\ pc(c) = "pipe"
      /\ \/ \E g \in Fresh \ {c} :
               proc' = [proc EXCEPT
                   ![c] = [end EXCEPT !.pc = "second", !.off = off, !.size = end.left],
                   ![g] = [end EXCEPT !.pc = "first", !.parent = c]]
         \/ proc' = [proc EXCEPT ![c].pc = "prompt"]
  BY DEF MakePipe, ReturnsToMain, Goto
<1>2. DOMAIN proc[c] = Fields /\ DOMAIN proc = Procs /\ Told(proc[c])
  BY DEF ToldIInv, AllTold, IInv, Shape
<1>3. /\ DOMAIN end = Fields /\ end.args = proc[c].args /\ end.command = proc[c].command
      /\ end.piped = proc[c].piped /\ end.off = proc[c].off /\ end.size = proc[c].size
      /\ end.left = proc[c].left
  BY <1>2 DEF Fields
<1>4. ASSUME ~proc[c].piped
      PROVE  /\ proc[c].command \in Lines /\ proc[c].command # <<>>
             /\ proc[c].args = Halved(plain)
             /\ proc[c].off = 0 /\ proc[c].size = Bar(plain) - 1
             /\ proc[c].left = Len(plain) - Bar(plain) /\ Bar(plain) <= Len(plain)
  BY <1>1, <1>2, <1>4 DEF Told, pc
<1>5. ASSUME ~proc[c].piped PROVE Contains(proc[c].command, "|") /\ Bar(plain) \in Nat
  <2>1. plain \in Seq(Word) /\ (Contains(plain, "|") => Contains(proc[c].command, "|"))
    BY <1>4, <1>5, LineIs
  <2> HIDE DEF plain
  <2> QED BY <1>4, <1>5, <2>1, BarIs
<1> HIDE DEF end
<1>6. CASE proc' = [proc EXCEPT ![c].pc = "prompt"]
  <2>1. PICK r : r = [proc[c] EXCEPT !.pc = "prompt"]
    OBVIOUS
  <2>2. r.pc = "prompt" /\ r.command = proc[c].command /\ r.piped = proc[c].piped
    BY <1>2, <2>1 DEF Fields
  <2>3. Told(r)
    <3> HIDE DEF plain
    <3> QED BY <1>4, <1>5, <2>2 DEF Told
  <2>4. proc' = [proc EXCEPT ![c] = r]
    BY <1>2, <1>6, <2>1
  <2> QED BY <2>3, <2>4, OneTold
<1>7. ASSUME NEW g \in Fresh \ {c},
             proc' = [proc EXCEPT
                   ![c] = [end EXCEPT !.pc = "second", !.off = off, !.size = end.left],
                   ![g] = [end EXCEPT !.pc = "first", !.parent = c]]
      PROVE  AllTold'
  <2>1. PICK r : r = [end EXCEPT !.pc = "second", !.off = off, !.size = end.left]
    OBVIOUS
  <2>2. PICK k : k = [end EXCEPT !.pc = "first", !.parent = c]
    OBVIOUS
  <2>3. /\ r.pc = "second" /\ r.args = proc[c].args /\ r.command = proc[c].command
        /\ r.piped = proc[c].piped /\ r.off = off /\ r.size = proc[c].left
        /\ k.pc = "first" /\ k.args = proc[c].args /\ k.command = proc[c].command
        /\ k.piped = proc[c].piped /\ k.off = proc[c].off /\ k.size = proc[c].size
    <3> HIDE DEF off
    <3> QED BY <1>3, <2>1, <2>2 DEF Fields
  <2>4. ~proc[c].piped => off = Bar(plain)
    <3>1. off = proc[c].off + proc[c].size + 1
      BY <1>3
    <3> HIDE DEF off, plain
    <3> QED BY <1>4, <1>5, <3>1
  <2> HIDE DEF off
  <2>5. Told(r)
    <3>1. plain = Plain(r.command)
      BY <2>3
    <3> HIDE DEF plain
    <3> QED BY ONLY <1>4, <2>3, <2>4, <3>1 DEF Told
  <2>6. Told(k)
    <3>1. plain = Plain(k.command)
      BY <2>3
    <3> HIDE DEF plain
    <3> QED BY ONLY <1>4, <2>3, <3>1 DEF Told
  <2>7. g \in Procs /\ g # c
    BY DEF Fresh
  <2>8. proc' = [proc EXCEPT ![c] = r, ![g] = k]
    BY <1>7, <2>1, <2>2
  <2>9. proc' = [proc EXCEPT ![g] = k, ![c] = r]
    BY <1>2, <2>7, <2>8
  <2> QED BY <2>5, <2>6, <2>7, <2>9, TwoTold
<1> QED BY <1>1, <1>6, <1>7

LEMMA StartCommandTold ==
    ASSUME ShellAssumption, LinesRight, ToldIInv, NEW p \in Procs, StartCommand(p)
    PROVE  AllTold'
<1> DEFINE found == check_redirection(proc[p].args, proc[p].off, proc[p].size)
           in == IF pc(p) = "second" THEN NULL ELSE found.in
           out == IF pc(p) = "first" THEN NULL ELSE found.out
           fails == ~redirect_io(in, out)
           args == found.args
           stdout == IF Opened(out) THEN Terminal ELSE proc[p].stdout
           me == [proc[p] EXCEPT !.args = args, !.stdout = stdout]
           stdin == IF in # NULL THEN p ELSE me.stdin
           both == Closed(me.both, me.pipe)
           redirected == [me EXCEPT !.stdin = stdin, !.both = both]
           r == CASE fails /\ pc(p) = "second" -> [me EXCEPT !.pc = "prompt", !.unwaited = 1]
                  [] fails /\ pc(p) # "second" -> [me EXCEPT !.pc = "prompt"]
                  [] ~fails /\ pc(p) = "single" -> [redirected EXCEPT !.pc = "exec"]
                  [] ~fails /\ pc(p) = "first" -> [redirected EXCEPT !.pc = "exec", !.stdout = me.pipe]
                  [] ~fails /\ pc(p) = "second" -> [redirected EXCEPT !.pc = "join", !.stdin = me.pipe]
           line == proc[p].command
           plain == Plain(line)
<1>1. pc(p) \in {"single", "first", "second"} /\ proc' = [proc EXCEPT ![p] = r]
  BY DEF StartCommand
<1>2. DOMAIN proc[p] = Fields /\ DOMAIN proc = Procs /\ Told(proc[p])
  BY DEF ToldIInv, AllTold, IInv, Shape
<1>3. ASSUME ~proc[p].piped
      PROVE  /\ line \in Lines /\ line # <<>>
             /\ Executed(args, proc[p].off) = Words(line, proc[p].off = 0)
             /\ Contains(line, "|") \/ Clean(args)
  <2>1. /\ line \in Lines /\ line # <<>> /\ proc[p].args = Halved(plain)
        /\ pc(p) # "second" => proc[p].off = 0 /\ proc[p].size = Bar(plain) - 1
        /\ pc(p) = "second" => /\ proc[p].off = Bar(plain) /\ proc[p].off <= Len(plain)
                               /\ proc[p].size = Len(plain) - proc[p].off
    BY <1>1, <1>2, <1>3 DEF Told, pc
  <2>2. CASE pc(p) # "second"
    <3>1. args = check_redirection(Halved(Plain(line)), 0, Bar(Plain(line)) - 1).args
      BY ONLY <2>1, <2>2
    <3> HIDE DEF args, line, plain
    <3>2. Executed(args, 0) = Words(line, TRUE) /\ (Contains(line, "|") \/ Clean(args))
      BY ONLY ShellAssumption, LinesRight, <2>1, <3>1, FirstWords
    <3>3. proc[p].off = 0 /\ (proc[p].off = 0) = TRUE
      BY <2>1, <2>2
    <3> QED BY ONLY <2>1, <3>2, <3>3
  <2>3. CASE pc(p) = "second"
    <3>1. PICK off, size : off = proc[p].off /\ size = proc[p].size
      OBVIOUS
    <3>2. /\ args = check_redirection(Halved(Plain(line)), off, size).args
          /\ off = Bar(Plain(line)) /\ size = Len(Plain(line)) - off /\ off <= Len(Plain(line))
      BY ONLY <2>1, <2>3, <3>1
    <3> HIDE DEF args, line, plain
    <3>3. Executed(args, off) = Words(line, FALSE) /\ Contains(line, "|") /\ off # 0
      BY ONLY ShellAssumption, LinesRight, <2>1, <3>2, SecondWords
    <3>4. (proc[p].off = 0) = FALSE
      BY <3>1, <3>3
    <3> QED BY ONLY <2>1, <3>1, <3>3, <3>4
  <2> QED BY <2>2, <2>3
<1> HIDE DEF in, out, fails, stdout, stdin, both, args, found
<1>4. /\ DOMAIN me = Fields /\ me.args = args /\ me.command = line /\ me.piped = proc[p].piped
      /\ me.off = proc[p].off
  <2> QED BY <1>2 DEF Fields
<1> HIDE DEF me
<1>5. /\ DOMAIN redirected = Fields /\ redirected.args = args /\ redirected.command = line
      /\ redirected.piped = proc[p].piped /\ redirected.off = proc[p].off
  BY <1>4 DEF Fields
<1> HIDE DEF redirected
<1>6. /\ r.args = args /\ r.command = line /\ r.piped = proc[p].piped /\ r.off = proc[p].off
      /\ r.pc \in {"prompt", "exec", "join"}
  <2>1. CASE fails /\ pc(p) = "second"
    <3>1. r = [me EXCEPT !.pc = "prompt", !.unwaited = 1]
      BY <2>1
    <3> HIDE DEF r
    <3> QED BY <1>4, <3>1 DEF Fields
  <2>2. CASE fails /\ pc(p) # "second"
    <3>1. r = [me EXCEPT !.pc = "prompt"]
      BY <2>2
    <3> HIDE DEF r
    <3> QED BY <1>4, <3>1 DEF Fields
  <2>3. CASE ~fails /\ pc(p) = "single"
    <3>1. r = [redirected EXCEPT !.pc = "exec"]
      BY <2>3
    <3> HIDE DEF r
    <3> QED BY <1>5, <3>1 DEF Fields
  <2>4. CASE ~fails /\ pc(p) = "first"
    <3>1. r = [redirected EXCEPT !.pc = "exec", !.stdout = me.pipe]
      BY <2>4
    <3> HIDE DEF r
    <3> QED BY <1>5, <3>1 DEF Fields
  <2>5. CASE ~fails /\ pc(p) = "second"
    <3>1. r = [redirected EXCEPT !.pc = "join", !.stdin = me.pipe]
      BY <2>5
    <3> HIDE DEF r
    <3> QED BY <1>5, <3>1 DEF Fields
  <2> HIDE DEF r
  <2> QED BY ONLY <1>1, <2>1, <2>2, <2>3, <2>4, <2>5
<1> HIDE DEF r
<1>7. Told(r)
  <2> HIDE DEF line
  <2> QED BY ONLY <1>3, <1>6 DEF Told
<1> QED BY <1>1, <1>7, OneTold
-----------------------------------------------------------------------------
LEMMA InitTold ==
    ASSUME ShellAssumption, Init
    PROVE  AllTold
<1> SUFFICES ASSUME NEW p \in Procs PROVE Told(proc[p])
  BY DEF AllTold
<1>1. CASE p # 1
  <2>1. proc[p].pc = "free"
    BY <1>1 DEF Init, Free
  <2> QED BY <2>1, SilentTold
<1>2. CASE p = 1
  <2>1. /\ proc[p].pc = "prompt" /\ proc[p].command = <<>>
        /\ proc[p].args = [i \in 1 .. Slots |-> NULL]
    BY <1>2 DEF Init, Free
  <2>2. /\ proc[p].args = Padded(<<>>) /\ <<>> \in Seq(Word)
        /\ Len(<<>>) < Slots
    <3>1. \A i \in 1 .. Slots : ~ (i <= Len(<<>>))
      OBVIOUS
    <3>2. Len(<<>>) < Slots
      BY DEF ShellAssumption
    <3> QED BY <2>1, <3>1, <3>2 DEF Padded
  <2>3. Clean(proc[p].args)
    BY <2>2 DEF Clean
  <2> QED BY <2>1, <2>3 DEF Told
<1> QED BY <1>1, <1>2

THEOREM ToldStep ==
    ASSUME ShellAssumption, LinesRight, ToldIInv, [Next]_vars
    PROVE  ToldIInv'
<1>1. IInv'
  BY InductiveStep DEF ToldIInv
<1>2. ASSUME proc' = proc PROVE AllTold'
  BY <1>2 DEF ToldIInv, AllTold
<1>3. ASSUME NEW p \in Procs, NEW line \in Lines, TypeLine(p, line)
      PROVE  AllTold'
  BY <1>3, GetLineTold DEF TypeLine
<1>4. ASSUME NEW p \in Procs, Runs(p)
      PROVE  AllTold'
  <2>1. CASE RunCommand(p)
    BY <2>1, RunCommandTold
  <2>2. CASE Wait(p)
    BY <2>2, WaitTold DEF Wait
  <2>3. CASE MakePipe(p)
    BY <2>3, MakePipeTold
  <2>4. CASE StartCommand(p)
    BY <2>4, StartCommandTold
  <2>5. CASE WaitFirst(p)
    BY <2>5, WaitTold DEF WaitFirst
  <2>6. CASE Exec(p)
    BY <2>6, ExecTold
  <2>7. CASE Write(p)
    BY <2>7, WriteTold
  <2>8. CASE Read(p)
    BY <1>2, <2>8 DEF Read
  <2>9. CASE Finish(p)
    BY <2>9, EndTold DEF Finish
  <2>10. CASE FailToRead(p)
    BY <1>2, <2>10 DEF FailToRead, vars
  <2>11. ASSUME NEW line \in Lines, ReadLine(p, line)
         PROVE  AllTold'
    BY <2>11, GetLineTold DEF ReadLine
  <2> QED BY <1>4, <2>1, <2>2, <2>3, <2>4, <2>5, <2>6, <2>7, <2>8, <2>9, <2>10, <2>11 DEF Runs
<1>5. ASSUME UNCHANGED vars PROVE AllTold'
  BY <1>2, <1>5 DEF vars
<1> QED BY <1>1, <1>3, <1>4, <1>5 DEF Next, ToldIInv

(* For any lines in which words have letters and the redirections of a     *)
(* command are two at most and apart, and for any number of processes: a   *)
(* program is started with the words that were typed, unless its shell has *)
(* run a pipe before.  All that is left in args of earlier lines is behind *)
(* a NULL; refresh_args, which stops at the first NULL, clears it all.     *)
THEOREM ProgramsAreTold ==
    ASSUME LinesRight
    PROVE  Spec => []ArgvAsTyped
<1>1. Init => ToldIInv
  BY InitIInv, InitTold, ShellAssumption DEF ToldIInv
<1>2. ToldIInv /\ [Next]_vars => ToldIInv'
  BY ToldStep, ShellAssumption
<1>3. ToldIInv => ArgvAsTyped
  <2> SUFFICES ASSUME ToldIInv, NEW p \in Procs, pc(p) = "program", ~proc[p].piped
               PROVE  Argv(p) = Words(proc[p].command, proc[p].off = 0)
    BY DEF ArgvAsTyped
  <2>1. Told(proc[p])
    BY DEF ToldIInv, AllTold
  <2>2. Executed(proc[p].args, proc[p].off) = Words(proc[p].command, proc[p].off = 0)
    BY <2>1 DEF Told, pc
  <2> QED BY <2>2 DEF Argv, Executed
<1> QED BY <1>1, <1>2, <1>3, PTL DEF Spec
=============================================================================
