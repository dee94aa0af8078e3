----------------------------- MODULE SingleLane -----------------------------
(***************************************************************************)
(* os/osprj/single_lane_bridge.c and single_lane_ent.c: entrances write    *)
(* their vehicles into a FIFO, the bridge reads one after the other.       *)
(* Each execution of the bridge that gets past mkfifo has a FIFO of its    *)
(* own under the one name.  The vehicles' numbers are left out: they are   *)
(* only printed.                                                           *)
(***************************************************************************)
EXTENDS Naturals, FiniteSets

CONSTANTS Entrances,  (* the executions of single_lane_ent                 *)
          Bridges,    (* the executions of single_lane_bridge              *)
          PIPE_SIZE   (* how many vehicles a FIFO holds                    *)

NoBridge == "no bridge"

VARIABLES
  link,      (* the bridge that made the FIFO named SINGLE_LANE            *)
  bridge,    (* what each bridge does                                      *)
  reading,   (* fdSingleLane: the bridge whose FIFO it opens or reads      *)
  dummy,     (* fdSingleLaneDummy: the FIFO it opens or has open to write  *)
  entrance,  (* what each entrance does                                    *)
  lane,      (* the bridge whose FIFO it opens or has open                 *)
  waiting    (* the vehicles in each bridge's FIFO                         *)

laneVars == <<link, bridge, reading, dummy, entrance, lane, waiting>>

LaneInit == /\ link = NoBridge
            /\ bridge = [b \in Bridges |-> "off"]
            /\ reading = [b \in Bridges |-> NoBridge]
            /\ dummy = [b \in Bridges |-> NoBridge]
            /\ entrance = [e \in Entrances |-> "off"]
            /\ lane = [e \in Entrances |-> NoBridge]
            /\ waiting = [b \in Bridges |-> 0]

(* Who has a FIFO open, or is about to. *)
HasReader(f) == f # NoBridge /\ \E b \in Bridges : reading[b] = f
HasWriter(f) == \/ \E e \in Entrances : lane[e] = f
                \/ \E b \in Bridges : dummy[b] = f

(* The FIFO that an open finds under the name: it keeps nothing that nobody
   has open. *)
Found == [f \in Bridges |-> IF f = link /\ ~HasReader(f) /\ ~HasWriter(f)
                            THEN 0 ELSE waiting[f]]

(* An open waits for the other end; who opens it ends the wait at once. *)
ReaderFound(b) == bridge[b] = "openingDummy" /\ dummy[b] = link
WriterFound(b) == bridge[b] = "opening" /\ reading[b] = link
-----------------------------------------------------------------------------
(* The bridge.  What goes wrong ends in exit, whose cleanup removes the name,
   whatever FIFO it means by then. *)
MakeFifo(b) ==
  /\ bridge[b] = "off"
  /\ bridge' = [bridge EXCEPT ![b] = IF link = NoBridge THEN "openRead" ELSE "exit"]
  /\ link' = IF link = NoBridge THEN b ELSE link
  /\ UNCHANGED <<reading, dummy, entrance, lane, waiting>>

(* Both opens go by the name, which another bridge may have removed or made
   anew since. *)
OpenFails(b) == /\ bridge[b] \in {"openRead", "openDummy"} /\ link = NoBridge
                /\ bridge' = [bridge EXCEPT ![b] = "exit"]
                /\ UNCHANGED <<link, reading, dummy, entrance, lane, waiting>>

OpenToRead(b) ==
  /\ bridge[b] = "openRead" /\ link # NoBridge
  /\ reading' = [reading EXCEPT ![b] = link]
  /\ bridge' = [c \in Bridges |->
       IF c = b THEN IF HasWriter(link) THEN "openDummy" ELSE "opening"
       ELSE IF ReaderFound(c) THEN "read" ELSE bridge[c]]
  /\ entrance' = [e \in Entrances |->
       IF entrance[e] = "opening" /\ lane[e] = link THEN "write" ELSE entrance[e]]
  /\ waiting' = Found
  /\ UNCHANGED <<link, dummy, lane>>

OpenDummy(b) ==
  /\ bridge[b] = "openDummy" /\ link # NoBridge
  /\ dummy' = [dummy EXCEPT ![b] = link]
  /\ bridge' = [c \in Bridges |->
       IF c = b THEN IF HasReader(link) THEN "read" ELSE "openingDummy"
       ELSE IF WriterFound(c) THEN "openDummy" ELSE bridge[c]]
  /\ waiting' = Found
  /\ UNCHANGED <<link, reading, entrance, lane>>

EnterBridge(b) == /\ bridge[b] = "read" /\ waiting[reading[b]] > 0
                  /\ waiting' = [waiting EXCEPT ![reading[b]] = @ - 1]
                  /\ UNCHANGED <<link, bridge, reading, dummy, entrance, lane>>

(* Its own dummy keeps a FIFO from ending, unless it is on another one. *)
LaneEnds(b) ==
  /\ bridge[b] = "read" /\ waiting[reading[b]] = 0 /\ ~HasWriter(reading[b])
  /\ bridge' = [bridge EXCEPT ![b] = "exit"]
  /\ UNCHANGED <<link, reading, dummy, entrance, lane, waiting>>

Gone(b) == /\ bridge' = [bridge EXCEPT ![b] = "gone"]
           /\ reading' = [reading EXCEPT ![b] = NoBridge]
           /\ dummy' = [dummy EXCEPT ![b] = NoBridge]
           /\ UNCHANGED <<entrance, lane, waiting>>

Exits(b) == bridge[b] = "exit" /\ link' = NoBridge /\ Gone(b)

(* SIGINT runs cleanup, SIGKILL does not. *)
BridgeEnds(b) == /\ bridge[b] \notin {"off", "gone"}
                 /\ link' \in {link, NoBridge}
                 /\ Gone(b)
-----------------------------------------------------------------------------
(* The entrance. *)
OpenLaneFails(e) == /\ entrance[e] = "off" /\ link = NoBridge
                    /\ entrance' = [entrance EXCEPT ![e] = "gone"]
                    /\ UNCHANGED <<link, bridge, reading, dummy, lane, waiting>>

OpenLane(e) ==
  /\ entrance[e] = "off" /\ link # NoBridge
  /\ lane' = [lane EXCEPT ![e] = link]
  /\ entrance' = [entrance EXCEPT ![e] =
                    IF HasReader(link) THEN "write" ELSE "opening"]
  /\ bridge' = [c \in Bridges |-> IF WriterFound(c) THEN "openDummy" ELSE bridge[c]]
  /\ waiting' = Found
  /\ UNCHANGED <<link, reading, dummy>>

Leaves(e) == /\ entrance' = [entrance EXCEPT ![e] = "gone"]
             /\ lane' = [lane EXCEPT ![e] = NoBridge]
             /\ UNCHANGED <<link, bridge, reading, dummy, waiting>>

(* write waits while the FIFO is full, and kills without a reader. *)
JoinLane(e) ==
  /\ entrance[e] = "write" /\ HasReader(lane[e]) /\ waiting[lane[e]] < PIPE_SIZE
  /\ waiting' = [waiting EXCEPT ![lane[e]] = @ + 1]
  /\ UNCHANGED <<link, bridge, reading, dummy, entrance, lane>>

BrokenLane(e) == entrance[e] = "write" /\ ~HasReader(lane[e]) /\ Leaves(e)

EntranceEnds(e) == entrance[e] \in {"opening", "write"} /\ Leaves(e)
-----------------------------------------------------------------------------
Bridge(b)   == \/ MakeFifo(b) \/ OpenFails(b) \/ OpenToRead(b) \/ OpenDummy(b)
               \/ EnterBridge(b) \/ LaneEnds(b) \/ Exits(b) \/ BridgeEnds(b)
Writes(e)   == JoinLane(e) \/ BrokenLane(e)
Entrance(e) == OpenLaneFails(e) \/ OpenLane(e) \/ Writes(e) \/ EntranceEnds(e)

LaneNext == \/ \E b \in Bridges : Bridge(b)
            \/ \E e \in Entrances : Entrance(e)

(* The scheduler lets an entrance write that can. *)
LaneFairness == \A e \in Entrances : WF_laneVars(Writes(e))

LaneSpec == LaneInit /\ [][LaneNext]_laneVars /\ LaneFairness
-----------------------------------------------------------------------------
LaneTypeOK ==
  /\ link \in Bridges \cup {NoBridge}
  /\ bridge \in [Bridges -> {"off", "openRead", "opening", "openDummy",
                             "openingDummy", "read", "exit", "gone"}]
  /\ reading \in [Bridges -> Bridges \cup {NoBridge}]
  /\ dummy \in [Bridges -> Bridges \cup {NoBridge}]
  /\ entrance \in [Entrances -> {"off", "opening", "write", "gone"}]
  /\ lane \in [Entrances -> Bridges \cup {NoBridge}]
  /\ waiting \in [Bridges -> 0 .. PIPE_SIZE]

(* The end of the bridge reaches every entrance that has the lane open, by
   SIGPIPE at its next vehicle (single_lane_ent.c 76-93), unless another bridge
   that was slow to open finds the FIFO of the dead one under the name.  An
   entrance still in open is not reached. *)
BridgeEndReachesEntrances ==
  \A e \in Entrances :
    entrance[e] = "write" /\ ~HasReader(lane[e])
      ~> entrance[e] = "gone" \/ HasReader(lane[e])
=============================================================================
