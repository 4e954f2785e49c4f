------------------------------- MODULE BbsApp -------------------------------
(***************************************************************************)
(* The BBS application of src/main/main.c: the AX.25 link calls back from  *)
(* the task that receives frames, each callback puts an event into a       *)
(* queue, and the worker task takes them out and hands them to the session *)
(* (module BbsSession), one at a time.  A callback never waits: when the   *)
(* queue is full its event is dropped, of whichever kind it is.            *)
(*                                                                         *)
(* The link is external: it has at most one station at a time, reports its *)
(* coming, its data and its going in that order, and may end at any time,  *)
(* the command B being one reason.                                         *)
(***************************************************************************)
EXTENDS BbsSession

CONSTANTS QueueLen  \* BBS_EVT_QUEUE_LEN

ASSUME AppAssumption == QueueLen \in Nat \ {0}

VARIABLES
  link,      \* the station the link is up with, or None
  evt_queue

\* History: whether the CONNECT of the present link was queued, and whether
\* the last event that was handled was a line of `from`, whose CONNECT was.
VARIABLES announced, handled

appvars == <<vars, link, evt_queue, announced, handled>>

Nothing == [from |-> None, announced |-> FALSE]

\* Mutant: a full queue gives up its oldest event.
SendOverOldest(evt) ==
  evt_queue' = IF Len(evt_queue) < QueueLen THEN Append(evt_queue, evt)
                                            ELSE Append(Tail(evt_queue), evt)

\* xQueueSend() with no time to wait.
Send(evt) ==
  evt_queue' = IF Len(evt_queue) < QueueLen THEN Append(evt_queue, evt) ELSE evt_queue

ConnOnConnect(s) ==
  /\ link = None
  /\ link' = s
  /\ Send([type |-> "CONNECT", from |-> s])
  /\ announced' = (Len(evt_queue) < QueueLen)
  /\ UNCHANGED <<vars, handled>>

ConnOnDisconnect ==
  /\ link # None
  /\ link' = None
  /\ Send([type |-> "DISCONNECT"])
  /\ announced' = FALSE
  /\ UNCHANGED <<vars, handled>>

\* One line of the station; a packet of several is as many events.
ConnOnData ==
  /\ link # None
  /\ Send([type |-> "DATA", from |-> link, announced |-> announced])
  /\ UNCHANGED <<vars, link, announced, handled>>

\* Mutant: a session in progress goes on when another station connects.
HandleConnectOnce(evt) ==
  /\ evt.type = "CONNECT"
  /\ IF connected THEN UNCHANGED vars ELSE OnConnect(evt.from)
  /\ handled' = Nothing

\* bbs_worker_task().  A line that comes while the session is not connected
\* is ignored, and an empty command has no effect.
HandleConnect(evt) ==
  /\ evt.type = "CONNECT"
  /\ OnConnect(evt.from)
  /\ handled' = Nothing

HandleDisconnect(evt) ==
  /\ evt.type = "DISCONNECT"
  /\ OnDisconnect
  /\ handled' = Nothing

HandleData(evt) ==
  /\ evt.type = "DATA"
  /\ IF connected THEN Line \/ (input_mode = "COMMAND" /\ UNCHANGED vars)
                  ELSE UNCHANGED vars
  /\ handled' = [from |-> evt.from, announced |-> evt.announced]

Worker ==
  /\ evt_queue # <<>>
  /\ LET evt == Head(evt_queue)
     IN  HandleConnect(evt) \/ HandleDisconnect(evt) \/ HandleData(evt)
  /\ evt_queue' = Tail(evt_queue)
  /\ UNCHANGED <<link, announced>>

AppTick == Tick /\ UNCHANGED <<link, evt_queue, announced, handled>>

AppInit ==
  /\ Init
  /\ link = None /\ evt_queue = <<>>
  /\ announced = FALSE /\ handled = Nothing

AppNext ==
  \/ \E s \in Stations : ConnOnConnect(s)
  \/ ConnOnDisconnect \/ ConnOnData
  \/ Worker
  \/ AppTick

\* The worker task waits for nothing but the queue, so it is scheduled again
\* as long as there are events.
AppSpec == AppInit /\ [][AppNext]_appvars /\ WF_appvars(Worker)
-----------------------------------------------------------------------------
(* Properties. *)

\* A line of a station whose CONNECT was queued is handled in the session of
\* that station, whatever was dropped before and between.
HandledAsSender ==
  handled.announced => connected /\ remote = handled.from

\* The session follows the link: once a station's CONNECT is queued, the
\* session becomes that station's unless the link ends first.
SessionFollows ==
  \A s \in Stations :
    link = s /\ announced ~> (connected /\ remote = s) \/ link # s

\* README.md:144, of the BBS LED: "Steady on when a client is connected to the
\* BBS".  The LED shows the session's `connected`; here, whenever no event is
\* left to handle.
LedTruthful == evt_queue = <<>> => (connected <=> link # None)
=============================================================================
