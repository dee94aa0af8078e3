-------------------------------- MODULE Tso --------------------------------
(***************************************************************************)
(* ddbprj/tso.py: timestamp ordering of a schedule that is read from a     *)
(* table with a column for each transaction.  Row by row, and in a row     *)
(* column by column, a read or a write is accepted or rejected by the read *)
(* and write timestamps of its data item; at the end the script says       *)
(* whether there was a conflict.  The table is any of NumRows rows, chosen *)
(* entry by entry as the script comes to it.                               *)
(***************************************************************************)
EXTENDS Integers, Sequences, FiniteSetsExt

CONSTANTS Items,      (* data items                                        *)
          Stamps,     (* timestamps a transaction may have                 *)
          NumRows     (* bound: the rows of the table                      *)

VARIABLES ts,         (* the timestamp of each transaction (column)        *)
          rts, wts,   (* the timestamps of each item                       *)
          row, col,   (* the entry that comes next                         *)
          deadlock,   (* an operation was rejected                         *)
          reads, writes,  (* timestamps of the accepted operations by item *)
          underWrite, (* one was accepted after a younger write            *)
          underRead,  (* a write was accepted after a younger read         *)
          readBack    (* a read was accepted after a younger read          *)

history == <<reads, writes, underWrite, underRead, readBack>>
tsoVars == <<ts, rts, wts, row, col, deadlock, history>>

TsoInit == /\ ts \in [1 .. 2 -> Stamps]
           /\ rts = [x \in Items |-> 0]
           /\ wts = [x \in Items |-> 0]
           /\ row = 1 /\ col = 1
           /\ deadlock = FALSE
           /\ reads = [x \in Items |-> {0}]
           /\ writes = [x \in Items |-> {0}]
           /\ underWrite = FALSE /\ underRead = FALSE /\ readBack = FALSE
-----------------------------------------------------------------------------
NextColumn == IF col = Len(ts) THEN row' = row + 1 /\ col' = 1
                               ELSE row' = row /\ col' = col + 1

(* An entry that is neither a read nor a write is passed over. *)
Ignore == /\ row <= NumRows /\ NextColumn
          /\ UNCHANGED <<ts, rts, wts, deadlock, history>>

(* An accepted read sets the read timestamp to that of its transaction, also
   when it was greater. *)
AcceptRead(x) ==
  /\ row <= NumRows /\ NextColumn
  /\ ts[col] >= wts[x]
  /\ rts' = [rts EXCEPT ![x] = ts[col]]
  /\ reads' = [reads EXCEPT ![x] = @ \cup {ts[col]}]
  /\ underWrite' = (underWrite \/ Max(writes[x]) > ts[col])
  /\ readBack' = (readBack \/ Max(reads[x]) > ts[col])
  /\ UNCHANGED <<ts, wts, deadlock, writes, underRead>>

(* Fault: a write is tested against the reads only. *)
AcceptWriteAfterReads(x) ==
  /\ row <= NumRows /\ NextColumn
  /\ ts[col] >= rts[x]
  /\ wts' = [wts EXCEPT ![x] = ts[col]]
  /\ writes' = [writes EXCEPT ![x] = @ \cup {ts[col]}]
  /\ underWrite' = (underWrite \/ Max(writes[x]) > ts[col])
  /\ underRead' = (underRead \/ Max(reads[x]) > ts[col])
  /\ UNCHANGED <<ts, rts, deadlock, reads, readBack>>

AcceptWrite(x) ==
  /\ row <= NumRows /\ NextColumn
  /\ ts[col] >= rts[x] /\ ts[col] >= wts[x]
  /\ wts' = [wts EXCEPT ![x] = ts[col]]
  /\ writes' = [writes EXCEPT ![x] = @ \cup {ts[col]}]
  /\ underWrite' = (underWrite \/ Max(writes[x]) > ts[col])
  /\ underRead' = (underRead \/ Max(reads[x]) > ts[col])
  /\ UNCHANGED <<ts, rts, deadlock, reads, readBack>>

(* A rejected operation ends its row; the rows after it are still carried
   out, those of its transaction too. *)
Reject == /\ row' = row + 1 /\ col' = 1
          /\ deadlock' = TRUE
          /\ UNCHANGED <<ts, rts, wts, history>>

RejectRead(x)  == row <= NumRows /\ ts[col] < wts[x] /\ Reject
RejectWrite(x) == /\ row <= NumRows
                  /\ ts[col] < rts[x] \/ ts[col] < wts[x]
                  /\ Reject

TsoNext == \/ Ignore
           \/ \E x \in Items : \/ AcceptRead(x) \/ AcceptWrite(x)
                               \/ RejectRead(x) \/ RejectWrite(x)

TsoSpec == TsoInit /\ [][TsoNext]_tsoVars
-----------------------------------------------------------------------------
TsoTypeOK == /\ ts \in [1 .. 2 -> Stamps]
             /\ rts \in [Items -> Stamps \cup {0}]
             /\ wts \in [Items -> Stamps \cup {0}]
             /\ row \in 1 .. NumRows + 1 /\ col \in 1 .. Len(ts)
             /\ {deadlock, underWrite, underRead, readBack} \subseteq BOOLEAN
             /\ reads \in [Items -> SUBSET (Stamps \cup {0})]
             /\ writes \in [Items -> SUBSET (Stamps \cup {0})]

(* The tests of the timestamps (110, 122) do what they are for: no operation
   is accepted after a younger write of its item, and no write after a
   younger read, as long as the reads of an item come in the order of their
   timestamps.  When they do not, the younger read is forgotten (111) and a
   write between the two passes as "no conflict" (148). *)
AcceptedInTimestampOrder == ~underWrite /\ (underRead => readBack)
=============================================================================
