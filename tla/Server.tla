------------------------------- MODULE Server --------------------------------
(* The life of API processes: their start (Migrations), one of them from its *)
(* first request to its exit (ApiServer), and what it knows of its health    *)
(* (Monitoring).  The three share no state; a behaviour is of one of them,   *)
(* part, while the others stay as they began.                                *)
EXTENDS Migrations

CONSTANTS Requests, Path, Workers, SharedLimits, MaxTx, MaxWork, MaxSignals,
          Kinds, RouteCap, Window, RecentCap, SampleCap, Cooldown,
          Critical, Elevated, Slow, MaxRequests

VARIABLES part,
          db, server, exit, req, worker, clients, ended, signals,
          total, routes, recent, samples, alerted, sending, heard, past

apiVars == <<db, server, exit, req, worker, clients, ended, signals>>
healthVars == <<total, routes, recent, samples, alerted, sending, heard, past>>

Api == INSTANCE ApiServer
Health == INSTANCE Monitoring

ASSUME ServerAssumption == Api!ApiServerAssumption /\ Health!MonitoringAssumption

ServerInit == /\ part \in {"start", "serve", "monitor"}
              /\ Init /\ Api!Init /\ Health!Init

allVars == <<part, vars, apiVars, healthVars>>

ServerNext ==
  /\ UNCHANGED part
  /\ \/ part = "start" /\ Next /\ UNCHANGED <<apiVars, healthVars>>
     \/ part = "serve" /\ Api!Next /\ UNCHANGED <<vars, healthVars>>
     \/ part = "monitor" /\ Health!Next /\ UNCHANGED <<vars, apiVars>>

(* A process that starts goes on; timers fire, a webhook call ends, and the   *)
(* webhook takes one now and then.                                            *)
ServerSpec ==
  /\ ServerInit /\ [][ServerNext]_allVars
  /\ \A p \in Processes :
       /\ WF_allVars(part = "start" /\ Work(p) /\ UNCHANGED <<part, apiVars, healthVars>>)
       /\ SF_allVars(part = "start" /\ AcquireLock(p) /\ UNCHANGED <<part, apiVars, healthVars>>)
  /\ WF_allVars(part = "serve" /\ Api!TenSeconds /\ UNCHANGED <<part, vars, healthVars>>)
  /\ WF_allVars(part = "monitor" /\ Health!Tick /\ UNCHANGED <<part, vars, apiVars>>)
  /\ WF_allVars(part = "monitor" /\ (Health!Delivered \/ Health!DeliveryFails)
                /\ UNCHANGED <<part, vars, apiVars>>)
  /\ SF_allVars(part = "monitor" /\ Health!Delivered /\ UNCHANGED <<part, vars, apiVars>>)

-----------------------------------------------------------------------------
(* Exit code 0 leaves no client unanswered and no transaction cut off, the    *)
(* pool is not ended under a request whose client still waits, the counters   *)
(* and the route table are of the requests that came, and the percentiles are *)
(* nearest ranks.                                                             *)
ServerSound == /\ Api!TypeOK /\ Api!CleanExit /\ Api!PoolServesRequests
               /\ Health!TypeOK /\ Health!CountsAgree /\ Health!PercentilesAreRanks

(* The recent requests are those of the window whenever they are looked at,   *)
(* and a standing set of alerts is told once per cooldown.                    *)
AlertsInTime == Health!RecentIsExact /\ Health!CooldownKept

(* Every start comes to an end, a process that was told to stop stops, and    *)
(* alerts that stand are told, and told again after every cooldown.           *)
ServerProgress == StartEnds /\ Api!ShutdownEnds /\ Health!StandingIsTold
=============================================================================
