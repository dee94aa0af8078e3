------------------------------ MODULE TwoFifos ------------------------------
(***************************************************************************)
(* practice/practice4/practice4b4p1.c and practice4b4p2.c: p2 writes a     *)
(* line into the FIFO named FIFO1, p1 reads it and writes it in upper case *)
(* into FIFO2, p2 reads that from there.  p1 makes both FIFOs; at its exit *)
(* p1 removes the name FIFO1 and p2 the name FIFO2.                        *)
(*                                                                         *)
(* A FIFO is named by the run of p1 that made it.  One p1 and one p2 run   *)
(* at a time, each may be stopped (SIGINT, with its exit handler), killed  *)
(* (without) and started again.  A line is empty or some text; a text is   *)
(* named by the run of p2 and the number of the line, and its upper case   *)
(* by the same.  A read takes all that waits, here fewer bytes than fit.   *)
(***************************************************************************)
EXTENDS Naturals, Sequences

CONSTANTS MaxP1, MaxP2,   (* bounds: how often each program starts         *)
          MaxLines        (* bound: the lines that a run of p2 gets        *)

VARIABLES
  FIFO1, FIFO2,   (* the run of p1 whose FIFO the name means, or 0         *)
  inFIFO1, inFIFO2,   (* the texts in the FIFOs of each run                *)
  p1, p2,         (* where each is, what it has open, what it has read     *)
  p1Runs, p2Runs, (* how often each was started                            *)
  p2Killed        (* history: some p2 died without its exit handler        *)

fifoVars == <<FIFO1, FIFO2, inFIFO1, inFIFO2>>
twoVars  == <<fifoVars, p1, p2, p1Runs, p2Runs, p2Killed>>

P1Run == 1 .. MaxP1
Empty == <<0, 0>>
Texts == (1 .. MaxP2) \X (1 .. MaxLines)

P1Off == [at |-> "off", fdr |-> 0, fdw |-> 0, buffer |-> <<>>]
P2Off == [at |-> "off", fdr |-> 0, fdw |-> 0, lines |-> 0, line |-> Empty,
          buffer |-> <<>>]

TwoInit == /\ FIFO1 = 0 /\ FIFO2 = 0
           /\ inFIFO1 = [r \in P1Run |-> <<>>]
           /\ inFIFO2 = [r \in P1Run |-> <<>>]
           /\ p1 = P1Off /\ p2 = P2Off
           /\ p1Runs = 0 /\ p2Runs = 0 /\ p2Killed = FALSE
-----------------------------------------------------------------------------
(* p1 *)

P1Only(from, to) == /\ p1.at = from /\ p1' = to
                    /\ UNCHANGED <<p2, p1Runs, p2Runs, p2Killed>>

(* cleanup removes FIFO1 also when it was not this run that made it. *)
P1Exits == p1' = P1Off /\ FIFO1' = 0 /\ UNCHANGED <<FIFO2, inFIFO1, inFIFO2>>

MakeFIFO1 == /\ p1.at = "off" /\ p1Runs < MaxP1
             /\ p1Runs' = p1Runs + 1
             /\ IF FIFO1 # 0
                THEN P1Exits
                ELSE /\ p1' = [p1 EXCEPT !.at = "mkfifo", !.fdr = p1Runs']
                     /\ FIFO1' = p1Runs'
                     /\ UNCHANGED <<FIFO2, inFIFO1, inFIFO2>>
             /\ UNCHANGED <<p2, p2Runs, p2Killed>>

MakeFIFO2 == /\ P1Only("mkfifo", IF FIFO2 # 0 THEN P1Off
                                 ELSE [p1 EXCEPT !.at = "openRead"])
             /\ IF FIFO2 # 0 THEN FIFO1' = 0 /\ UNCHANGED FIFO2
                             ELSE FIFO2' = p1.fdr /\ UNCHANGED FIFO1
             /\ UNCHANGED <<inFIFO1, inFIFO2>>

(* open of FIFO1 waits until p2 opens it, too; the dummy finds its reader. *)
P1OpenFIFO1 == /\ p2.fdw = p1.fdr
               /\ P1Only("openRead", [p1 EXCEPT !.at = "openWrite"])
               /\ UNCHANGED fifoVars

P1OpenFIFO2 == /\ P1Only("openWrite",
                         IF FIFO2 = 0 THEN P1Off
                         ELSE [p1 EXCEPT !.at = "opening", !.fdw = FIFO2])
               /\ FIFO1' = IF FIFO2 = 0 THEN 0 ELSE FIFO1
               /\ UNCHANGED <<FIFO2, inFIFO1, inFIFO2>>

P2Reads(r) == r # 0 /\ p2.fdr = r

P1Opened == /\ P2Reads(p1.fdw)
            /\ P1Only("opening", [p1 EXCEPT !.at = "read"])
            /\ UNCHANGED fifoVars

P1Read == /\ P1Only("read", [p1 EXCEPT !.at = "write",
                                       !.buffer = inFIFO1[p1.fdr]])
          /\ inFIFO1[p1.fdr] # <<>>
          /\ inFIFO1' = [inFIFO1 EXCEPT ![p1.fdr] = <<>>]
          /\ UNCHANGED <<FIFO1, FIFO2, inFIFO2>>

(* A write without a reader kills p1, which leaves both names behind. *)
P1Write == /\ P1Only("write", IF P2Reads(p1.fdw)
                              THEN [p1 EXCEPT !.at = "read", !.buffer = <<>>]
                              ELSE P1Off)
           /\ inFIFO2' = IF P2Reads(p1.fdw)
                         THEN [inFIFO2 EXCEPT ![p1.fdw] = @ \o p1.buffer]
                         ELSE inFIFO2
           /\ UNCHANGED <<FIFO1, FIFO2, inFIFO1>>

P1Dies == /\ p1.at # "off"
          /\ P1Exits \/ (p1' = P1Off /\ UNCHANGED fifoVars)
          /\ UNCHANGED <<p2, p1Runs, p2Runs, p2Killed>>

P1Steps == MakeFIFO2 \/ P1OpenFIFO1 \/ P1OpenFIFO2 \/ P1Opened \/ P1Read \/ P1Write
-----------------------------------------------------------------------------
(* p2 *)

P2Only(from, to) == /\ p2.at = from /\ p2' = to
                    /\ UNCHANGED <<p1, p1Runs, p2Runs>>

P2Exits == p2' = P2Off /\ FIFO2' = 0 /\ UNCHANGED <<FIFO1, inFIFO1, inFIFO2>>

P2OpenFIFO1 == /\ p2.at = "off" /\ p2Runs < MaxP2
               /\ p2Runs' = p2Runs + 1
               /\ IF FIFO1 = 0
                  THEN P2Exits
                  ELSE /\ p2' = [p2 EXCEPT !.at = "opening1", !.fdw = FIFO1]
                       /\ UNCHANGED fifoVars
               /\ UNCHANGED <<p1, p1Runs, p2Killed>>

P1Reads(r) == r # 0 /\ p1.fdr = r /\ p1.at # "mkfifo"

P2Opened1 == /\ P1Reads(p2.fdw)
             /\ P2Only("opening1", [p2 EXCEPT !.at = "openRead"])
             /\ UNCHANGED <<fifoVars, p2Killed>>

P2OpenFIFO2 == /\ P2Only("openRead",
                         IF FIFO2 = 0 THEN P2Off
                         ELSE [p2 EXCEPT !.at = "opening2", !.fdr = FIFO2])
               /\ UNCHANGED <<fifoVars, p2Killed>>

P2Opened2 == /\ p1.fdw = p2.fdr
             /\ P2Only("opening2", [p2 EXCEPT !.at = "fgets"])
             /\ UNCHANGED <<fifoVars, p2Killed>>

fgets == /\ p2.lines < MaxLines
         /\ \E line \in {Empty, <<p2Runs, p2.lines + 1>>} :
              P2Only("fgets", [p2 EXCEPT !.at = "write", !.line = line,
                                         !.lines = @ + 1, !.buffer = <<>>])
         /\ UNCHANGED <<fifoVars, p2Killed>>

(* A write of nothing does nothing; one without a reader kills p2. *)
P2Write == \/ /\ p2.line = Empty \/ P1Reads(p2.fdw)
              /\ P2Only("write", [p2 EXCEPT !.at = "read"])
              /\ inFIFO1' = IF p2.line = Empty THEN inFIFO1
                            ELSE [inFIFO1 EXCEPT ![p2.fdw] = Append(@, p2.line)]
              /\ UNCHANGED <<FIFO1, FIFO2, inFIFO2, p2Killed>>
           \/ /\ p2.line # Empty /\ ~P1Reads(p2.fdw)
              /\ P2Only("write", P2Off)
              /\ p2Killed' = TRUE
              /\ UNCHANGED fifoVars

(* Its own dummy writer keeps p2 from the end of the file. *)
P2Read == /\ P2Only("read", [p2 EXCEPT !.at = "fgets",
                                       !.buffer = inFIFO2[p2.fdr]])
          /\ inFIFO2[p2.fdr] # <<>>
          /\ inFIFO2' = [inFIFO2 EXCEPT ![p2.fdr] = <<>>]
          /\ UNCHANGED <<FIFO1, FIFO2, inFIFO1, p2Killed>>

P2Dies == /\ p2.at # "off"
          /\ \/ P2Exits /\ UNCHANGED p2Killed
             \/ p2' = P2Off /\ p2Killed' = TRUE /\ UNCHANGED fifoVars
          /\ UNCHANGED <<p1, p1Runs, p2Runs>>

P2Steps == P2Opened1 \/ P2OpenFIFO2 \/ P2Opened2 \/ P2Write \/ P2Read
-----------------------------------------------------------------------------
TwoNext == MakeFIFO1 \/ P1Steps \/ P1Dies
           \/ P2OpenFIFO1 \/ P2Steps \/ fgets \/ P2Dies

(* The kernel schedules a process that can run; nobody has to start one, to
   type a line or to stop one. *)
TwoSpec == TwoInit /\ [][TwoNext]_twoVars
           /\ WF_twoVars(P1Steps) /\ WF_twoVars(P2Steps)
-----------------------------------------------------------------------------
TwoTypeOK ==
  /\ {FIFO1, FIFO2} \subseteq 0 .. MaxP1
  /\ inFIFO1 \in [P1Run -> Seq(Texts)] /\ inFIFO2 \in [P1Run -> Seq(Texts)]
  /\ p1.at \in {"off", "mkfifo", "openRead", "openWrite", "opening", "read",
                "write"}
  /\ p2.at \in {"off", "opening1", "openRead", "opening2", "fgets", "write",
                "read"}
  /\ {p1.fdr, p1.fdw, p2.fdr, p2.fdw} \subseteq 0 .. MaxP1
  /\ p1.buffer \in Seq(Texts) /\ p2.buffer \in Seq(Texts)
  /\ p2.line \in Texts \cup {Empty} /\ p2.lines \in 0 .. MaxLines
  /\ p1Runs \in 0 .. MaxP1 /\ p2Runs \in 0 .. MaxP2 /\ p2Killed \in BOOLEAN

(* What p2 prints (practice4b4p2.c 140) is the upper case of the line it has
   just sent, however both programs are stopped and started, unless a p2 died
   without removing FIFO2: its reply then waits there for the next p2, which
   stays one reply behind. *)
PrintsOwnLine ==
  p2.at = "fgets" /\ p2.buffer # <<>> /\ ~p2Killed => p2.buffer = <<p2.line>>

(* "the open order to avoid deadlock" (practice4b4p2.c 88): two programs that
   meet get through their four opens to the next fgets, and so they do from
   a text to its reply, unless one of them dies.  An empty line, of which
   nothing is written, gets no reply (125-132). *)
Waits ==
  /\ p1.at # "off" /\ p2.fdw = p1.fdr
  /\ \/ p2.at \in {"opening1", "openRead", "opening2"}
     \/ p2.at = "read" /\ p2.line # Empty
TextsAreAnswered == Waits ~> ~Waits
=============================================================================
