-------------------------------- MODULE Service --------------------------------
(***************************************************************************)
(* The server as a Windows service (main.c): the commands of the program,  *)
(* the service control manager, the process of the service, which keeps    *)
(* its privileges, and the restricted process that runs the server.        *)
(***************************************************************************)
EXTENDS Integers, FiniteSets

VARIABLES
  installed,
  status,     (* what the service reported, "stopped" at first             *)
  accepts,    (* dwControlsAccepted: stop and shutdown                     *)
  service,    (* where the process of the service is                       *)
  child,      (* where the restricted process is                           *)
  event,      (* termination_event: "none", "reset", "set", "closed"       *)
  asked,      (* a stop was let through to _service_ctl                    *)
  missed,     (* and found no event                                        *)
  removed     (* the stop command removed the service                      *)

vars == <<installed, status, accepts, service, child, event, asked, missed, removed>>

Init ==
  /\ installed = FALSE /\ status = "stopped" /\ accepts = FALSE
  /\ service = "gone" /\ child = "gone" /\ event = "none"
  /\ asked = FALSE /\ missed = FALSE /\ removed = FALSE

-----------------------------------------------------------------------------
(* The commands: each is a process of its own that ends at once.           *)

Install ==
  /\ ~ installed /\ installed' = TRUE
  /\ UNCHANGED <<status, accepts, service, child, event, asked, missed, removed>>

(* _service_uninstall refuses a service that is not stopped.               *)
Remove == installed /\ status = "stopped" /\ installed' = FALSE

Uninstall ==
  /\ Remove
  /\ UNCHANGED <<status, accepts, service, child, event, asked, missed, removed>>

(* main calls _service_uninstall for the stop command as well.             *)
StopCommand ==
  /\ Remove /\ removed' = TRUE
  /\ UNCHANGED <<status, accepts, service, child, event, asked, missed>>

Start ==
  /\ installed /\ status = "stopped" /\ service = "gone"
  /\ status' = "start pending" /\ accepts' = FALSE /\ service' = "begin"
  /\ event' = "none" /\ asked' = FALSE /\ missed' = FALSE
  /\ UNCHANGED <<installed, child, removed>>

-----------------------------------------------------------------------------
(* _service_ctl, in the thread of the dispatcher.                          *)

Reported(s) == status' = s /\ accepts' = (s # "start pending")

Stop ==
  /\ service # "gone" /\ accepts /\ status # "stopped" /\ Reported("stop pending")
  /\ asked' = TRUE
  /\ IF event = "none" THEN missed' = TRUE /\ UNCHANGED event
     ELSE event' = "set" /\ UNCHANGED missed
  /\ UNCHANGED <<installed, service, child, removed>>

(* Any other control, such as a question about the state, reports running. *)
Interrogate ==
  /\ service # "gone" /\ status # "stopped" /\ Reported("running")
  /\ UNCHANGED <<installed, service, child, event, asked, missed, removed>>

-----------------------------------------------------------------------------
(* _service_main.                                                          *)

Keep == UNCHANGED <<installed, child, asked, missed, removed>>

(* _service_die: stop pending, the event is closed, stopped.               *)
Die ==
  /\ service' = "gone" /\ Reported("stopped")
  /\ event' = IF event = "none" THEN event ELSE "closed"

MakeEvent ==
  /\ service = "begin"
  /\ \/ event' = "reset" /\ service' = "token" /\ UNCHANGED <<status, accepts>>
     \/ Die
  /\ Keep

Spawn_Unchecked ==                \* mutant: a failure leaves the service running
  /\ service = "token"
  /\ \/ Die /\ child' \in {"gone", "init"}
     \/ /\ service' = "spawned" /\ child' = "init"
        /\ UNCHANGED <<status, accepts, event>>
  /\ UNCHANGED <<installed, asked, missed, removed>>

(* The restricted token, the channel, the process.                         *)
Spawn ==
  /\ service = "token"
  /\ \/ Die /\ UNCHANGED child
     \/ /\ service' = "spawned" /\ child' = "init"
        /\ UNCHANGED <<status, accepts, event>>
  /\ UNCHANGED <<installed, asked, missed, removed>>

Run ==
  /\ service = "spawned" /\ service' = "serving" /\ Reported("running")
  /\ UNCHANGED event /\ Keep

(* __server_privileged_process: the last request; or the channel is closed *)
(* and the process exits without a report.                                 *)
Finish ==
  /\ service = "serving" /\ child = "exit"
  /\ service' = "last" /\ child' = "gone"
  /\ UNCHANGED <<installed, status, accepts, event, asked, missed, removed>>

Report ==
  /\ service = "last" /\ service' = "gone" /\ Reported("stopped")
  /\ event' = "closed" /\ Keep

Break ==
  /\ service = "serving" /\ child = "gone"
  /\ service' = "gone"
  /\ UNCHANGED <<status, accepts, event>> /\ Keep

(* The manager notices the end of a process that did not report it.        *)
Notice ==
  /\ service = "gone" /\ status # "stopped"
  /\ Reported("stopped")
  /\ UNCHANGED <<service, event>> /\ Keep

-----------------------------------------------------------------------------
(* main_process, with the handles on the command line.                     *)
ChildStep(from, to) ==
  /\ child = from /\ child' = to
  /\ UNCHANGED <<installed, status, accepts, service, event, asked, missed, removed>>

Child ==
  \/ ChildStep("init", "wait") \/ ChildStep("init", "fini")
  \/ event = "set" /\ ChildStep("wait", "fini")
  \/ ChildStep("fini", "exit")
  \/ \E at \in {"init", "wait", "fini"} : ChildStep(at, "gone")   (* a crash *)

Next ==
  \/ Install \/ Uninstall \/ StopCommand \/ Start \/ Stop \/ Interrogate
  \/ MakeEvent \/ Spawn \/ Run \/ Finish \/ Report \/ Break \/ Notice \/ Child

-----------------------------------------------------------------------------
(* A stop that was accepted makes the server leave, unless an answer to    *)
(* another control had announced the service before its event was made;    *)
(* and the service is not reported stopped, and so neither removed nor     *)
(* started again, while a server it made runs.                             *)
ServiceSafe ==
  /\ asked /\ ~ missed => event \in {"set", "closed"}
  /\ missed => asked
  /\ status = "stopped" => service \in {"gone"} /\ child = "gone"
  /\ ~ installed => status = "stopped"

-----------------------------------------------------------------------------
(* The inductive invariant: there is no restricted process but while the   *)
(* service serves it, and no event before it is made.                      *)

TypeOK ==
  /\ installed \in BOOLEAN /\ accepts \in BOOLEAN
  /\ asked \in BOOLEAN /\ missed \in BOOLEAN /\ removed \in BOOLEAN
  /\ status \in {"stopped", "start pending", "running", "stop pending"}
  /\ service \in {"gone", "begin", "token", "spawned", "serving", "last"}
  /\ child \in {"gone", "init", "wait", "fini", "exit"}
  /\ event \in {"none", "reset", "set", "closed"}

IInv ==
  /\ TypeOK /\ ServiceSafe
  /\ service \notin {"spawned", "serving"} => child = "gone"
  /\ service = "begin" => event = "none"
=============================================================================
