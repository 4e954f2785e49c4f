-------------------------------- MODULE Boot --------------------------------
(***************************************************************************)
(* app_main() of src/main/main.c with the ports and slots it sets up: the  *)
(* steps of the boot, while clients of the servers that are up already     *)
(* come and go.  A step may fail: ESP_ERROR_CHECK restarts the device,     *)
(* while a return leaves it as far as it got, with the tasks that run.     *)
(***************************************************************************)
EXTENDS AgwpeSlots, KissPorts

CONSTANT RouterSizes  \* the values of ax25.router.max_ports to look at

ASSUME BootAssumption == RouterSizes \subseteq Nat \ {0}

VARIABLES
  stage,    \* how many of Steps are done
  returned  \* app_main() has returned early

bootvars == <<agwpe, kiss, stage, returned>>

Step(name, failing) == [name |-> name, failing |-> failing]

CoreSteps == <<
  Step("config",     "restart"),  \* NVS and configuration
  Step("pools",      "return"),   \* the arrays of slots, WiFi
  Step("router",     "restart"),  \* with the AGWPE server and the beacon
  Step("uart_port",  "restart")>> \* and the digipeater

ServerSteps == <<
  Step("mutexes",    "return"),   \* and the cleanup queue and task
  Step("kiss",       "restart"),
  Step("agwpe",      "restart")>>

BbsSteps == <<
  Step("storage",    "return"),
  Step("heard",      "return"),   \* the heard list, with its port
  Step("address",    "return"),   \* the BBS's own, after the load of heard.dat
  Step("app_port",   "restart"),
  Step("conn",       "restart"),  \* and the session
  Step("evt_queue",  "return")>>  \* and the worker task

Steps == CoreSteps \o ServerSteps \o BbsSteps

Done(name) == \E i \in 1 .. stage : Steps[i].name = name
Booting == stage < Len(Steps) /\ ~returned

\* The UART may be off, or a terminal, and then has no port.
UartPort == RegisterPort(Uart) \/ UNCHANGED registered

\* bbs_heard_init()
HeardPort == RegisterPort(Heard)

AppPort == RegisterPort(App)

BootPort(name) ==
  CASE name = "uart_port" -> UartPort
    [] name = "heard"     -> HeardPort
    [] name = "app_port"  -> AppPort
    [] OTHER              -> UNCHANGED registered

\* Nothing else can fail in these two steps.
MayFail(name) == name \in {"heard", "app_port"} => ~Room

BootStep ==
  /\ Booting
  /\ BootPort(Steps[stage + 1].name)
  /\ stage' = stage + 1
  /\ UNCHANGED <<agwpe, router_max, kiss_pool, kiss_user_data, kiss_pc, kiss_mine, returned>>

BootReturns ==
  /\ Booting /\ Steps[stage + 1].failing = "return"
  /\ MayFail(Steps[stage + 1].name)
  /\ returned' = TRUE
  /\ UNCHANGED <<agwpe, kiss, stage>>

\* A restart clears what is in RAM.
Restart ==
  /\ stage' = 0 /\ returned' = FALSE
  /\ slots' = [s \in Slots |-> Empty] /\ live' = {}
  /\ user_data' = [c \in Conns |-> None]
  /\ pc' = [c \in Conns |-> "closed"] /\ mine' = [c \in Conns |-> None]
  /\ queue' = <<>> /\ cleaner' = Resting /\ walk' = NotWalking /\ leaked' = {}
  /\ registered' = {} /\ kiss_pool' = [s \in KissSlots |-> EmptySlot]
  /\ kiss_user_data' = [c \in KissConns |-> NoConn]
  /\ kiss_pc' = [c \in KissConns |-> "closed"] /\ kiss_mine' = [c \in KissConns |-> NoConn]
  /\ UNCHANGED router_max

BootRestarts ==
  /\ Booting /\ Steps[stage + 1].failing = "restart"
  /\ MayFail(Steps[stage + 1].name)
  /\ Restart

\* A UI frame goes out by the UART: without the mutex xSemaphoreTake() stops
\* the device.
FrameOut ==
  /\ Uart \in registered
  /\ IF Done("mutexes") THEN WalkStarts /\ UNCHANGED <<kiss, stage, returned>>
                        ELSE Restart

\* A station connects: without the queue xQueueSend() stops the device.
ConnectIn ==
  /\ App \in registered
  /\ ~Done("evt_queue")
  /\ Restart
-----------------------------------------------------------------------------
BootInit ==
  /\ AgwpeInit /\ KissFresh
  /\ router_max \in RouterSizes
  /\ stage = 0 /\ returned = FALSE

BootNext ==
  \/ BootStep \/ BootReturns \/ BootRestarts
  \/ FrameOut \/ ConnectIn
  \/ Done("kiss") /\ KissNext /\ UNCHANGED <<agwpe, stage, returned>>
  \/ /\ Done("agwpe") /\ \E c \in Conns : Comes(c) \/ Goes(c)
     /\ UNCHANGED <<kiss, stage, returned>>
  \/ (Cleanup \/ Walk) /\ UNCHANGED <<kiss, stage, returned>>

\* The cleanup task waits for nothing but requests and the mutex, and the walk
\* of who has that for nothing; the mutex is free between two frames, each of
\* which goes to the UART first.
BootFairness ==
  /\ WF_bootvars(Walk /\ UNCHANGED <<kiss, stage, returned>>)
  /\ WF_bootvars((Receive \/ RemoveClient \/ ClearSlot) /\ UNCHANGED <<kiss, stage, returned>>)
  /\ SF_bootvars(FreeSlot /\ UNCHANGED <<kiss, stage, returned>>)

BootSpec == BootInit /\ [][BootNext]_bootvars /\ BootFairness
=============================================================================
