------------------------------ MODULE RosNode ------------------------------
(***************************************************************************)
(* The ROS 2 bridge node: the reader thread opens, reads and closes the    *)
(* serial port and opens it again after an error; the spinning thread      *)
(* writes commands to it and, when spinning ends, closes it.  Both take    *)
(* the handle under a lock and use it after the lock is released.  The     *)
(* device is unplugged and plugged in again at any time.  The reader is a  *)
(* daemon thread nobody joins: after destroy_node the process may exit,    *)
(* wherever the reader is, and the system closes what it had open.         *)
(***************************************************************************)
EXTENDS Integers

CONSTANTS Port,    \* names of Serial objects
          Closed   \* no object: None
ASSUME ClosedAssumption == Closed \notin Port

VARIABLES
  alive,     \* the process
  plugged,   \* the device
  live,      \* Serial objects that are open
  broken,    \* those whose device was unplugged since
  _serial,   \* the shared handle
  _running,
  reader,    \* where _reader_loop is
  rser,      \* its Serial object: _connect's and the loop's local
  spin,      \* where the spinning thread is
  cser       \* _on_cmd's local
nodeVars == <<alive, plugged, live, broken, _serial, _running, reader, rser, spin, cser>>
device == <<plugged, broken>>

ReaderAt == {"loop", "connect", "opened", "inner", "fetch", "check", "read", "finally", "pause", "done"}
SpinAt   == {"spin", "cmd", "write", "destroy", "disconnect", "ended"}

NodeTypeOK ==
  /\ alive \in BOOLEAN /\ plugged \in BOOLEAN /\ _running \in BOOLEAN
  /\ live \subseteq Port /\ broken \subseteq Port
  /\ {_serial, rser, cser} \subseteq Port \cup {Closed}
  /\ reader \in ReaderAt /\ spin \in SpinAt

NodeInit ==
  /\ alive = TRUE /\ plugged \in BOOLEAN /\ _running = TRUE
  /\ live = {} /\ broken = {}
  /\ _serial = Closed /\ rser = Closed /\ cser = Closed
  /\ reader = "loop" /\ spin = "spin"

Unplug == /\ alive /\ plugged /\ plugged' = FALSE
          /\ broken' = live
          /\ UNCHANGED <<alive, live, _serial, _running, reader, rser, spin, cser>>
Plug   == /\ alive /\ ~plugged /\ plugged' = TRUE
          /\ UNCHANGED <<alive, live, broken, _serial, _running, reader, rser, spin, cser>>

(***************************************************************************)
(* The reader thread.                                                      *)
(***************************************************************************)
ReaderStep(from, to) ==
  alive /\ reader = from /\ reader' = to /\ UNCHANGED <<alive, spin, cser>>

OuterLoop == ReaderStep("loop", IF _running THEN "connect" ELSE "done")
             /\ UNCHANGED <<device, live, _serial, _running, rser>>

\* serial.Serial(...): an object nothing refers to yet, or a SerialException.
\* destroy_node may have run since the loop looked at _running.
OpenPort ==
  /\ ReaderStep("connect", "opened") /\ plugged
  /\ \E p \in Port \ (live \cup {_serial, cser}) :
       rser' = p /\ live' = live \cup {p} /\ broken' = broken \ {p}
  /\ UNCHANGED <<plugged, _serial, _running>>
OpenFails == ReaderStep("connect", "pause") /\ ~plugged
             /\ UNCHANGED <<device, live, _serial, _running, rser>>

\* with self._serial_lock: self._serial = ser
StorePort == ReaderStep("opened", "inner") /\ _serial' = rser
             /\ UNCHANGED <<device, live, _running, rser>>

InnerLoop == ReaderStep("inner", IF _running THEN "fetch" ELSE "finally")
             /\ UNCHANGED <<device, live, _serial, _running, rser>>
FetchPort == ReaderStep("fetch", "check") /\ rser' = _serial
             /\ UNCHANGED <<device, live, _serial, _running>>
CheckPort == ReaderStep("check", IF rser \in live THEN "read" ELSE "finally")
             /\ UNCHANGED <<device, live, _serial, _running, rser>>

\* readline: nothing for a second or a line, unless the object was closed or broken.
\* Mutant: the exception ends the thread's loop.
MutReadLine == ReaderStep("read", IF rser \in live \ broken THEN "inner" ELSE "done")
               /\ UNCHANGED <<device, live, _serial, _running, rser>>
ReadLine  == ReaderStep("read", IF rser \in live \ broken THEN "inner" ELSE "finally")
             /\ UNCHANGED <<device, live, _serial, _running, rser>>

\* _disconnect, one block under the lock.
\* Mutant: the handle is forgotten without being closed.
MutDisconnect == _serial' = Closed /\ UNCHANGED live
Disconnect == _serial' = Closed /\ live' = live \ {_serial}

Finally == ReaderStep("finally", IF _running THEN "pause" ELSE "loop")
           /\ Disconnect
           /\ UNCHANGED <<device, _running, rser>>
Pause   == ReaderStep("pause", "loop")   \* time.sleep(RECONNECT_DELAY)
           /\ UNCHANGED <<device, live, _serial, _running, rser>>

Reader == OuterLoop \/ OpenPort \/ OpenFails \/ StorePort \/ InnerLoop \/ FetchPort
          \/ CheckPort \/ ReadLine \/ Finally \/ Pause

(***************************************************************************)
(* The spinning thread: main and _on_cmd.                                  *)
(***************************************************************************)
SpinStep(from, to) ==
  alive /\ spin = from /\ spin' = to /\ UNCHANGED <<alive, reader, rser>>

Cmd == SpinStep("spin", "cmd") /\ UNCHANGED <<device, live, _serial, _running, cser>>
FetchForCmd == SpinStep("cmd", "write") /\ cser' = _serial
               /\ UNCHANGED <<device, live, _serial, _running>>
\* The command is written, or dropped with a message: no port, or a SerialException.
WriteOrDrop == SpinStep("write", "spin") /\ cser' = Closed
               /\ UNCHANGED <<device, live, _serial, _running>>
\* A command that is not ASCII raises an exception no one catches (line 195).
WriteRaises == SpinStep("write", "destroy") /\ cser \in live /\ cser' = Closed
               /\ UNCHANGED <<device, live, _serial, _running>>
Interrupt == /\ alive /\ spin \in {"spin", "cmd", "write"}
             /\ spin' = "destroy" /\ cser' = Closed
             /\ UNCHANGED <<alive, device, live, _serial, _running, reader, rser>>

\* destroy_node.
\* Mutant: the port is closed, but the reader not told to stop.
MutStopRunning == SpinStep("destroy", "disconnect")
                  /\ UNCHANGED <<device, live, _serial, _running, cser>>
StopRunning == SpinStep("destroy", "disconnect") /\ _running' = FALSE
               /\ UNCHANGED <<device, live, _serial, cser>>
DestroyDisconnects == SpinStep("disconnect", "ended") /\ Disconnect
                      /\ UNCHANGED <<device, _running, cser>>

Destroy == StopRunning \/ DestroyDisconnects
Commands == Cmd \/ FetchForCmd \/ WriteOrDrop \/ WriteRaises

\* main returns after rclpy.shutdown(), which may take any time.
ProcessExits ==
  /\ alive /\ spin = "ended" /\ alive' = FALSE
  /\ live' = {} /\ broken' = {}
  /\ UNCHANGED <<plugged, _serial, _running, reader, rser, spin, cser>>
Done == ~alive /\ UNCHANGED nodeVars

NodeNext == Reader \/ Commands \/ Interrupt \/ Destroy \/ ProcessExits \/ Unplug \/ Plug \/ Done

(***************************************************************************)
(* Properties.                                                             *)
(***************************************************************************)
\* Every open port is reachable for the next _disconnect: it is the shared handle, or
\* the reader has just opened it and is about to store it.  So there is never a second
\* one, and none is left when the reader ends, although destroy_node may find no handle
\* because the reader is inside _connect (serial_bridge_node.py:86, :205-206).
NoLeakedPort ==
  /\ live \subseteq {_serial} \cup (IF reader = "opened" THEN {rser} ELSE {})
  /\ \A p, q \in live : p = q
  /\ reader = "done" => live = {}

\* "Reconnects automatically if the device is unplugged" (serial_bridge_node.py:112).
ComesBack == <>[](plugged /\ _running) => <>[](_serial \in live \ broken)

\* However spinning ends, by an interrupt or by an exception from a command, the port is
\* closed in the end: by the reader, which comes to its end wherever destroy_node has
\* met it, unless the process exits first.
EndsWithoutPort == (spin = "destroy") ~> (live = {} /\ (reader = "done" \/ ~alive))
=============================================================================
