------------------------------ MODULE PingPong ------------------------------
(***************************************************************************)
(* ipc/pipe/pipe_pingpong.c: a parent and its child send one number to and *)
(* fro through two pipes.  Each closes only the write (child) or read      *)
(* (parent) end of pipePing that it does not use; both keep both ends of   *)
(* pipePong.  Either may die at any time.  The number is left out: it only *)
(* counts the turns.                                                       *)
(***************************************************************************)
EXTENDS Naturals, FiniteSets

VARIABLES doing,       (* what each process does                           *)
          ends,        (* the pipe ends each process has open              *)
          inPipe       (* the numbers in each pipe                         *)

pingVars == <<doing, ends, inPipe>>

Pipe    == {"ping", "pong"}
AllEnds == Pipe \X {"read", "write"}

Ping(end) == <<"ping", end>>
Pong(end) == <<"pong", end>>

(* Both pipes are made before the fork, so that both processes have all four
   ends. *)
PingInit == /\ doing = [parent |-> "close", child |-> "close"]
            /\ ends = [p \in {"parent", "child"} |-> AllEnds]
            /\ inPipe = [q \in Pipe |-> 0]
-----------------------------------------------------------------------------
Someone(end) == \E p \in {"parent", "child"} : end \in ends[p]

Die(p) == /\ doing' = [doing EXCEPT ![p] = "dead"]
          /\ ends' = [ends EXCEPT ![p] = {}]

(* write of a pipe nobody can read raises SIGPIPE. *)
Write(p, q, next) ==
  IF Someone(<<q, "read">>)
  THEN /\ doing' = [doing EXCEPT ![p] = next]
       /\ inPipe' = [inPipe EXCEPT ![q] = @ + 1]
       /\ UNCHANGED ends
  ELSE Die(p) /\ UNCHANGED inPipe

(* read waits for a number, or returns 0 when nobody can write any more. *)
Read(p, q, next, atEnd) ==
  \/ /\ inPipe[q] > 0
     /\ inPipe' = [inPipe EXCEPT ![q] = @ - 1]
     /\ doing' = [doing EXCEPT ![p] = next]
     /\ UNCHANGED ends
  \/ /\ inPipe[q] = 0 /\ ~Someone(<<q, "write">>)
     /\ doing' = [doing EXCEPT ![p] = atEnd]
     /\ UNCHANGED <<ends, inPipe>>

(* Fault: the child keeps the end it does not use. *)
ChildKeepsEnd == /\ doing.child = "close"
                 /\ doing' = [doing EXCEPT !.child = "write"]
                 /\ UNCHANGED <<ends, inPipe>>

ChildCloses == /\ doing.child = "close"
               /\ doing' = [doing EXCEPT !.child = "write"]
               /\ ends' = [ends EXCEPT !.child = @ \ {Ping("write")}]
               /\ UNCHANGED inPipe

ChildWrites == doing.child = "write" /\ Write("child", "pong", "read")
ChildReads  == doing.child = "read" /\ Read("child", "ping", "write", "exit")

ParentCloses == /\ doing.parent = "close"
                /\ doing' = [doing EXCEPT !.parent = "read"]
                /\ ends' = [ends EXCEPT !.parent = @ \ {Ping("read")}]
                /\ UNCHANGED inPipe

ParentReads  == doing.parent = "read" /\ Read("parent", "pong", "write", "exit")
ParentWrites == doing.parent = "write" /\ Write("parent", "ping", "read")

(* After its loop a process closes what it used and ends; the parent does not
   wait for the child. *)
Exit(p) == doing[p] = "exit" /\ Die(p) /\ UNCHANGED inPipe

Killed(p) == doing[p] # "dead" /\ Die(p) /\ UNCHANGED inPipe

Child  == ChildCloses \/ ChildWrites \/ ChildReads \/ Exit("child")
Parent == ParentCloses \/ ParentReads \/ ParentWrites \/ Exit("parent")

PingNext == Child \/ Parent \/ Killed("child") \/ Killed("parent")

PingSpec == /\ PingInit /\ [][PingNext]_pingVars
            /\ WF_pingVars(Child) /\ WF_pingVars(Parent)
-----------------------------------------------------------------------------
PingTypeOK == /\ doing \in [{"parent", "child"} ->
                             {"close", "read", "write", "exit", "dead"}]
              /\ ends \in [{"parent", "child"} -> SUBSET AllEnds]
              /\ inPipe \in [Pipe -> 0 .. 1]

(* The end of one process reaches the other, as far as the open pipe ends let
   it.  A child whose parent is gone reads the end of pipePing and ends.  A
   parent whose child is gone is killed by its next write, but only if the
   number is with it or on its way to it: it still has the write end of
   pipePong open and else waits for itself for ever (100-107). *)
EndReachesTheOther ==
  /\ doing.parent = "dead" ~> doing.child = "dead"
  /\ doing.child = "dead" /\ doing.parent # "dead"
       /\ (inPipe["pong"] > 0 \/ doing.parent = "write")
     ~> doing.parent = "dead"
=============================================================================
