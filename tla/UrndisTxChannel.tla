--------------------------- MODULE UrndisTxChannel ---------------------------
(***************************************************************************)
(* What the RNDIS TX path promises the network stack, without transfers,  *)
(* sub-frames or packing: frames handed to the driver wait in one ordered *)
(* queue; a step either accepts a frame, refuses it at once, or settles   *)
(* the fate of some waiting frames: a prefix of the queue reaches the     *)
(* device in order, and any set of the frames behind it is discarded.     *)
(* A frame is never delivered twice, never delivered after a frame        *)
(* queued behind it, and never silently forgotten: it stays pending, is  *)
(* on the wire, or is in gone.                                             *)
(***************************************************************************)
EXTENDS Integers, Sequences

CONSTANTS
    FrameLens,   \* lengths of the frames the stack may queue
    MaxFrames    \* bound on the number of frames ever queued

Frame == [id: 1..MaxFrames, len: FrameLens]

VARIABLES
    pending,   \* frames accepted and not yet delivered or discarded
    wire,      \* frames delivered to the device, in order
    gone,      \* frames discarded without delivery
    nextId     \* id of the next frame the stack hands over

vars == <<pending, wire, gone, nextId>>

Init ==
    /\ pending = <<>>
    /\ wire = <<>>
    /\ gone = {}
    /\ nextId = 1

NewFrame(len) == [id |-> nextId, len |-> len]

(* The stack hands over a frame and it joins the queue.                   *)
Accept(len) ==
    /\ nextId <= MaxFrames
    /\ pending' = Append(pending, NewFrame(len))
    /\ nextId' = nextId + 1
    /\ UNCHANGED <<wire, gone>>

(* The stack hands over a frame that the driver discards at once.         *)
Refuse(len) ==
    /\ nextId <= MaxFrames
    /\ gone' = gone \cup {NewFrame(len)}
    /\ nextId' = nextId + 1
    /\ UNCHANGED <<pending, wire>>

(* The first p waiting frames reach the device in order; the frames of   *)
(* the set lose, all queued behind them, are discarded.                   *)
Settle(p, lose) ==
    LET rest == SubSeq(pending, p + 1, Len(pending))
    IN /\ wire' = wire \o SubSeq(pending, 1, p)
       /\ gone' = gone \cup lose
       /\ pending' = SelectSeq(rest, LAMBDA f : f \notin lose)
       /\ UNCHANGED nextId

Next ==
    \/ \E len \in FrameLens : Accept(len) \/ Refuse(len)
    \/ \E p \in 0..Len(pending) :
          \E lose \in SUBSET {pending[i] : i \in (p + 1)..Len(pending)} :
             Settle(p, lose)

Spec == Init /\ [][Next]_vars

====
