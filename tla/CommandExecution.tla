--------------------------- MODULE CommandExecution ---------------------------
(***************************************************************************)
(* What the execution of commands promises to who asks for them, whatever  *)
(* fails, dies or is asked for meanwhile: commands are taken up one at a   *)
(* time, in the order they were asked for and never again; an order is     *)
(* placed only while its command runs, and once; a command ends once,      *)
(* which is final.  It may be let go of without an end.                    *)
(***************************************************************************)
EXTENDS Naturals, Sequences

CONSTANTS Commands, Orders, NoCommand

VARIABLES
    command,    \* the state of each command
    queue,      \* what was asked for and not taken up, oldest first
    current,    \* the command that is being executed, or NoCommand
    placed      \* how often each order was placed

vars == <<command, queue, current, placed>>

Init ==
    /\ command = [c \in Commands |-> "none"]
    /\ queue = <<>>
    /\ current = NoCommand
    /\ placed = [c \in Orders |-> 0]

Ask(c) ==
    /\ command[c] = "none"
    /\ command' = [command EXCEPT ![c] = "queued"]
    /\ queue' = Append(queue, c)
    /\ UNCHANGED <<current, placed>>

Take ==
    /\ current = NoCommand /\ queue # <<>>
    /\ command[Head(queue)] = "queued"
    /\ command' = [command EXCEPT ![Head(queue)] = "processing"]
    /\ queue' = Tail(queue)
    /\ current' = Head(queue)
    /\ UNCHANGED placed

Place ==
    /\ current \in Orders
    /\ command[current] = "processing" /\ placed[current] = 0
    /\ placed' = [placed EXCEPT ![current] = 1]
    /\ UNCHANGED <<command, queue, current>>

End(outcome) ==
    /\ current \in Commands /\ command[current] = "processing"
    /\ command' = [command EXCEPT ![current] = outcome]
    /\ current' \in {current, NoCommand}
    /\ UNCHANGED <<queue, placed>>

LetGo ==
    /\ current' = NoCommand
    /\ UNCHANGED <<command, queue, placed>>

Next ==
    \/ \E c \in Commands : Ask(c)
    \/ Take \/ Place \/ LetGo
    \/ \E outcome \in {"completed", "failed"} : End(outcome)

Spec == Init /\ [][Next]_vars
=============================================================================
