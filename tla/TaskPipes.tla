----------------------------- MODULE TaskPipes ------------------------------
(***************************************************************************)
(* practice/practice4/p4b1.c: a parent forks nChildren children that each  *)
(* complete mTasks tasks and write a message to the pipe of each task when *)
(* it is done.  The parent reads the pipes in turn to find out which tasks *)
(* all children have completed.                                            *)
(*                                                                         *)
(* A message in the pipe of task j is named by the child that wrote it.    *)
(* All messages that wait fit into one read of MAX_SIZE - 1 bytes (36 of   *)
(* the longest message for less than a hundred children and tasks).        *)
(***************************************************************************)
EXTENDS Integers, Sequences

CONSTANTS nChildren, mTasks   (* argv[1] and argv[2], both positive *)

Child == 0 .. (nChildren - 1)
Task  == 0 .. (mTasks - 1)

VARIABLES
  fdPipes,                (* the messages in the pipe of each task         *)
  parent,                 (* "fork", "read", "check", "wait" or "exited"   *)
  j,                      (* the parent's loop variable                    *)
  completed_child_tasks,  (* which child is known to have done which task  *)
  complete_tasks,         (* the tasks known to be done by all             *)
  task,                   (* the task each child is at; -1 if not forked   *)
  wrote,                  (* the children that have sent its message       *)
  ended                   (* the children that have ended                  *)

childVars == <<task, wrote, ended>>
vars == <<fdPipes, parent, j, completed_child_tasks, complete_tasks, childVars>>

Init == /\ fdPipes = [t \in Task |-> <<>>]
        /\ parent = "fork" /\ j = 0
        /\ completed_child_tasks = [c \in Child |-> {}]
        /\ complete_tasks = {}
        /\ task = [c \in Child |-> -1]
        /\ wrote = {} /\ ended = {}
-----------------------------------------------------------------------------
(* child_process *)

Runs(c) == task[c] >= 0 /\ c \notin ended

WriteMessage(c) == /\ Runs(c) /\ c \notin wrote /\ task[c] < mTasks
                   /\ fdPipes' = [fdPipes EXCEPT ![task[c]] = Append(@, c)]
                   /\ wrote' = wrote \cup {c}
                   /\ UNCHANGED <<parent, j, completed_child_tasks,
                                  complete_tasks, task, ended>>

(* close of the write end, the next task. *)
CloseWriteEnd(c) == /\ Runs(c) /\ c \in wrote
                    /\ task' = [task EXCEPT ![c] = @ + 1]
                    /\ wrote' = wrote \ {c}
                    /\ UNCHANGED <<fdPipes, parent, j, completed_child_tasks,
                                   complete_tasks, ended>>

ChildExit(c) == /\ Runs(c) /\ task[c] = mTasks
                /\ ended' = ended \cup {c}
                /\ UNCHANGED <<fdPipes, parent, j, completed_child_tasks,
                               complete_tasks, task, wrote>>

child_process(c) == WriteMessage(c) \/ CloseWriteEnd(c) \/ ChildExit(c)
-----------------------------------------------------------------------------
(* The parent. *)

Fork(c) == /\ parent = "fork" /\ task[c] = -1
           /\ \A d \in Child : d < c => task[d] # -1
           /\ task' = [task EXCEPT ![c] = 0]
           /\ parent' = IF c = nChildren - 1 THEN "read" ELSE parent
           /\ UNCHANGED <<fdPipes, j, completed_child_tasks, complete_tasks,
                          wrote, ended>>

(* The round over the pipes goes on to the next pipe, or to the check. *)
NextPipe == /\ j' = (j + 1) % mTasks
            /\ parent' = IF j = mTasks - 1 THEN "check" ELSE "read"

(* read, and the loop over the messages that were read: strtok cuts them
   apart, but sscanf looks at the first one every time. *)
ReadMessages ==
  /\ parent = "read" /\ fdPipes[j] # <<>>
  /\ completed_child_tasks' =
       [completed_child_tasks EXCEPT ![Head(fdPipes[j])] = @ \cup {j}]
  /\ complete_tasks' = IF \A c \in Child : j \in completed_child_tasks'[c]
                       THEN complete_tasks \cup {j} ELSE complete_tasks
  /\ fdPipes' = [fdPipes EXCEPT ![j] = <<>>]
  /\ NextPipe
  /\ UNCHANGED childVars

(* read returns 0: nothing is there and every child has closed its end. *)
EndOfFile ==
  /\ parent = "read" /\ fdPipes[j] = <<>>
  /\ \A c \in Child : task[c] > j \/ c \in ended
  /\ NextPipe
  /\ UNCHANGED <<fdPipes, completed_child_tasks, complete_tasks, childVars>>

CheckAll == /\ parent = "check"
            /\ parent' = IF complete_tasks = Task THEN "wait" ELSE "read"
            /\ UNCHANGED <<fdPipes, j, completed_child_tasks, complete_tasks,
                           childVars>>

WaitForChildren == /\ parent = "wait" /\ ended = Child
                   /\ parent' = "exited"
                   /\ UNCHANGED <<fdPipes, j, completed_child_tasks,
                                  complete_tasks, childVars>>

Parent == \/ (\E c \in Child : Fork(c)) \/ ReadMessages \/ EndOfFile
          \/ CheckAll \/ WaitForChildren

Next == Parent \/ \E c \in Child : child_process(c)

(* The kernel schedules every process that can run. *)
FairSpec == /\ Init /\ [][Next]_vars
            /\ WF_vars(Parent)
            /\ \A c \in Child : WF_vars(child_process(c))
-----------------------------------------------------------------------------
(* Line 8: "The parent process wants to find out when all the child
   processes have completed T1 ... and when all the children have completed
   all their tasks": a task that all children have completed is known to be
   complete in the end. *)
ParentFindsOut ==
  \A t \in Task : (\A c \in Child : task[c] > t) ~> t \in complete_tasks
=============================================================================
