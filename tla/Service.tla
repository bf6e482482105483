-------------------------------- MODULE Service --------------------------------
(***************************************************************************)
(* The process around the background jobs of Delivery: the lifespan of     *)
(* main.py with its start-up synchronisation, the HTTP clients the         *)
(* analyses share and open when they first need them, and the shutdown     *)
(* that closes them in turn.  uvicorn, which starts and stops the          *)
(* lifespan, is external; the synchronisations the scheduler starts are in *)
(* UrlhausSync, and a shutdown does not wait for them.                     *)
(***************************************************************************)
EXTENDS Delivery

CONSTANT Clients   \* the modules with a client of their own: rdap, fetch, unchain

VARIABLES
  phase,     \* where the process is, see Phases
  startup,   \* the synchronisation at start-up
  open,      \* the clients that are open
  toClose    \* those the shutdown has not come to yet

lifecycle == <<phase, startup, open, toClose>>
serviceVars == <<vars, lifecycle>>
-----------------------------------------------------------------------------
\* Serving; asked to stop; lifespan's finally clause waiting for the synchronisation,
\* closing the clients, and past them; ended.
Phases == {"up", "draining", "syncWait", "closing", "closed", "down"}

ServiceInit ==
  /\ Init
  /\ phase = "down"
  /\ startup = "over"
  /\ open = {} /\ toClose = {}

\* Everything before the yield of lifespan; the synchronisation at start-up is a setting.
Boot ==
  /\ phase = "down"
  /\ phase' = "up"
  /\ startup' \in {"running", "over"}
  /\ open' = {} /\ toClose' = {}
  /\ UNCHANGED vars

\* A job does what Delivery says; only a process that is up accepts new ones, and only
\* one that runs has any.
Serves ==
  /\ \E j \in Jobs :
       \/ phase = "up" /\ Accept(j)
       \/ phase # "down" /\ \/ PipelineReturns(j) \/ TaskDies(j) \/ Retry(j)
                            \/ AnswerArrives(j) \/ AttemptErrors(j)
  /\ UNCHANGED lifecycle

SpringServes ==
  /\ \E p \in posts : SpringAccepts(p) \/ SpringRefuses(p) \/ PostIsLost(p)
  /\ UNCHANGED lifecycle

\* _get_client: the pipeline of a job needs a client.
OpenClient ==
  /\ phase # "down"
  /\ \E j \in Jobs : job[j] = "running"
  /\ \E c \in Clients \ open : open' = open \cup {c}
  /\ UNCHANGED <<vars, phase, startup, toClose>>

\* A synchronisation ends by itself or of its cancellation.
StartupEnds ==
  /\ phase # "down" /\ startup # "over"
  /\ startup' = "over"
  /\ UNCHANGED <<vars, phase, open, toClose>>
-----------------------------------------------------------------------------
\* SIGTERM: no new connections.
StopAsked ==
  /\ phase = "up"
  /\ phase' = "draining"
  /\ UNCHANGED <<vars, startup, open, toClose>>

\* Whether the start-up synchronisation is asked to stop or there is nothing to wait for.
EntersFinally ==
  /\ startup' = IF startup = "running" THEN "cancelled" ELSE startup
  /\ phase' = "syncWait"
  /\ UNCHANGED <<vars, open, toClose>>

\* Mutant of ServerDrains: uvicorn is started with a limit on the wait for requests.
DrainGivesUp == phase = "draining" /\ EntersFinally

\* uvicorn waits for the requests with their background tasks, as long as it takes
\* (entrypoint.sh sets no limit), before it lets lifespan go on.
ServerDrains == phase = "draining" /\ Active = {} /\ EntersFinally

\* Mutant of SyncWaitEnds: no limit on the wait for the cancelled synchronisation.
SyncWaitForever ==
  /\ phase = "syncWait" /\ startup = "over"
  /\ phase' = "closing"
  /\ toClose' = Clients
  /\ UNCHANGED <<vars, startup, open>>

\* The synchronisation has ended or its 2 s are over.
SyncWaitEnds ==
  /\ phase = "syncWait"
  /\ phase' = "closing"
  /\ toClose' = Clients
  /\ UNCHANGED <<vars, startup, open>>

\* aclose_client of one module after the other.
CloseClient ==
  /\ phase = "closing"
  /\ \E c \in toClose : toClose' = toClose \ {c} /\ open' = open \ {c}
  /\ UNCHANGED <<vars, phase, startup>>

\* The provider and the engine.
CloseRest ==
  /\ phase = "closing" /\ toClose = {}
  /\ phase' = "closed"
  /\ UNCHANGED <<vars, startup, open, toClose>>

\* The event loop cancels what is left and ends.
Exit ==
  /\ phase = "closed"
  /\ phase' = "down"
  /\ startup' = "over"
  /\ job' = [j \in Jobs |-> IF j \in Active THEN "lost" ELSE job[j]]
  /\ UNCHANGED <<result, attempt, answer, posts, received, crashes, open, toClose>>

\* The process dies, and whatever it had open with it.
ProcessDies ==
  /\ phase # "down"
  /\ Crash
  /\ phase' = "down"
  /\ startup' = "over"
  /\ open' = {} /\ toClose' = {}
-----------------------------------------------------------------------------
ServiceNext ==
  \/ Boot \/ Serves \/ SpringServes \/ OpenClient
  \/ StartupEnds \/ StopAsked \/ ServerDrains \/ SyncWaitEnds \/ CloseClient \/ CloseRest \/ Exit
  \/ ProcessDies

\* Besides the jobs of Delivery: lifespan's own steps are taken, its wait has a limit.
\* A synchronisation may take as long as it likes, and nobody need stop the service.
ServiceFairness ==
  /\ \A j \in Jobs : /\ WF_serviceVars(phase # "down" /\ PipelineReturns(j) /\ UNCHANGED lifecycle)
                     /\ WF_serviceVars(phase # "down" /\ AttemptErrors(j) /\ UNCHANGED lifecycle)
                     /\ WF_serviceVars(phase # "down" /\ Retry(j) /\ UNCHANGED lifecycle)
  /\ WF_serviceVars(ServerDrains) /\ WF_serviceVars(SyncWaitEnds)
  /\ WF_serviceVars(CloseClient) /\ WF_serviceVars(CloseRest) /\ WF_serviceVars(Exit)

ServiceSpec == ServiceInit /\ [][ServiceNext]_serviceVars /\ ServiceFairness
-----------------------------------------------------------------------------
\* The type invariant of what Service adds.
LifecycleOK ==
  /\ phase \in Phases
  /\ startup \in {"running", "cancelled", "over"}
  /\ open \subseteq Clients /\ toClose \subseteq Clients

\* What the end of the event loop leaves to be lost.
NoJobIsLost == [][Exit => UNCHANGED job]_serviceVars

\* main.py:80-94 and ai_openai.py:205: a shutdown gets to its end although analyses,
\* callbacks and synchronisations are under way; it takes no client from an analysis,
\* so that none is opened anew behind its back and left open, and loses no job.
ShutdownIsClean ==
  /\ phase = "draining" ~> phase = "down" /\ open = {}
  /\ NoJobIsLost
=============================================================================
