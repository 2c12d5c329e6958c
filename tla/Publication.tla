---------------------------- MODULE Publication ----------------------------
(***************************************************************************)
(* What compile and export-okf promise about their --out-dir, with the     *)
(* staging directory, the temporary files and the order of the writes      *)
(* hidden.  Commands race for one output path.  A command either publishes *)
(* its whole tree in one step, over nothing or over an empty directory, or *)
(* gives up and leaves the path as it found it.                            *)
(***************************************************************************)
CONSTANTS Writers,  \* the running compile and export-okf commands
          Trees     \* Trees[w]: the complete directory content w publishes

VARIABLES output,   \* what is at the output path: a record of kind, entries
          outcome   \* outcome[w]: "running", "published" or "gave_up"

promise == <<output, outcome>>

Absent    == [kind |-> "absent", entries |-> {}]
EmptyDir  == [kind |-> "dir",    entries |-> {}]
PlainFile == [kind |-> "file",   entries |-> {}]
Published(w) == [kind |-> "dir", entries |-> Trees[w]]

Init == /\ output \in {Absent, EmptyDir, PlainFile}
        /\ outcome = [w \in Writers |-> "running"]

Publish(w) == /\ outcome[w] = "running"
              /\ output \in {Absent, EmptyDir}
              /\ output' = Published(w)
              /\ outcome' = [outcome EXCEPT ![w] = "published"]

GiveUp(w) == /\ outcome[w] = "running"
             /\ outcome' = [outcome EXCEPT ![w] = "gave_up"]
             /\ UNCHANGED output

(* The person who runs the commands may prepare the path or clear it.      *)
Operator == /\ \/ output = Absent /\ output' \in {EmptyDir, PlainFile}
               \/ output' = Absent
            /\ UNCHANGED outcome

Next == (\E w \in Writers : Publish(w) \/ GiveUp(w)) \/ Operator

Spec == Init /\ [][Next]_promise
=============================================================================
