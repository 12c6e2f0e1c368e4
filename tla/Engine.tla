------------------------------- MODULE Engine -------------------------------
(***************************************************************************)
(* The life of the server: server_init sets the subsystems up and loads    *)
(* the plugins, the workers wait for the start and run the handlers of the *)
(* plugins, server_fini stops them (lib/m_server.c, lib/m_plugin.c), and   *)
(* main_process waits for the order to quit (main.c).                      *)
(*                                                                         *)
(* Plugins are opened and started by the main thread before any worker     *)
(* runs, so a load is one step; a handler is not, nor is the shutdown      *)
(* event, which is delivered under _plugin_lock held for writing.          *)
(***************************************************************************)
EXTENDS Integers, Sequences

CONSTANTS
  Workers,    (* the threads of _thread                                    *)
  Images,     (* how many plugins the configuration names                  *)
  PluginMax,  (* PLUGIN_MAX                                                *)
  Depth       (* bound: plugin_call nests that deep                        *)

Ids == 1 .. PluginMax

(* What server_init sets up, in its order.                                 *)
Stages == <<"string", "socket", "plugin", "file", "attr", "udp", "hook",
            "blocking", "readable", "writable", "incoming", "config", "threads">>

VARIABLES
  pc,       (* where the main thread is                                    *)
  stage,    (* the stage of server_init                                    *)
  images,   (* the plugins still to load                                   *)
  up,       (* the stages set up and not cleaned up                        *)
  twice,    (* the stages cleaned up when they were not set up             *)
  plugin,   (* _plugin: "none", "opened" (_status -1), "started"           *)
  finished, (* how often plugin_fini ran                                   *)
  told,     (* how often the shutdown event was delivered                  *)
  sockets,  (* the plugins that have a socket open                         *)
  silent,   (* plugins whose socket was closed without an event            *)
  running,  (* server_running                                              *)
  wpc,      (* where each worker is                                        *)
  inside    (* the handlers each worker is in, the innermost last          *)

vars == <<pc, stage, images, up, twice, plugin, finished, told, sockets, silent,
          running, wpc, inside>>
setup == <<stage, images, up, twice>>
registry == <<plugin, finished, told, sockets, silent>>
threads == <<running, wpc, inside>>

Init ==
  /\ pc = "init" /\ stage = 1 /\ images = Images /\ up = {} /\ twice = {}
  /\ plugin = [i \in Ids |-> "none"]
  /\ finished = [i \in Ids |-> 0]
  /\ told = [i \in Ids |-> 0]
  /\ sockets = {} /\ silent = {}
  /\ running = FALSE
  /\ wpc = [w \in Workers |-> "none"]
  /\ inside = [w \in Workers |-> <<>>]

-----------------------------------------------------------------------------
(* Start.                                                                  *)

(* The identifier a plugin gets.                                           *)
FirstFree(i) == plugin[i] = "none" /\ \A j \in 1 .. i - 1 : plugin[j] # "none"

(* plugin_init may refuse: the plugin keeps its identifier.                *)
InitStatus == {"opened", "started"}

(* plugin_open, then plugin_start; the identifier is given back when the   *)
(* image cannot be loaded.                                                 *)
LoadPlugin ==
  \/ UNCHANGED registry
  \/ \E i \in Ids, status \in InitStatus :
       /\ FirstFree(i)
       /\ plugin' = [plugin EXCEPT ![i] = status]
       /\ sockets' \in {sockets, sockets \cup {i}}
       /\ UNCHANGED <<finished, told, silent>>

ConfigurePlugin ==
  /\ pc = "init" /\ Stages[stage] = "config" /\ images > 0
  /\ images' = images - 1
  /\ LoadPlugin
  /\ UNCHANGED <<pc, stage, up, twice, threads>>

SetUp ==
  /\ pc = "init" /\ (Stages[stage] = "config" => images = 0)
  /\ up' = up \cup {Stages[stage]}
  /\ IF stage < Len(Stages)
     THEN stage' = stage + 1 /\ UNCHANGED <<pc, wpc>>
     ELSE /\ pc' = "builtin"
          /\ wpc' = [w \in Workers |-> "wait"]
          /\ UNCHANGED stage
  /\ UNCHANGED <<images, twice, registry, running, inside>>

(* The labels _err_*: what each failure jumps to, in the order it runs.    *)
Ladder(k) ==
  IF Stages[k] = "blocking" THEN {}
  ELSE {Stages[j] : j \in 1 .. k - 1} \ {"hook", "config"}

CleanedAgain(k) == IF Stages[k] \in {"config", "threads"} THEN {"plugin", "socket"} ELSE {}

(* plugin_api_cleanup: every plugin that was started is told to finish.    *)
PluginCleanup ==
  /\ finished' = [i \in Ids |-> finished[i] + (IF plugin[i] = "started" THEN 1 ELSE 0)]
  /\ plugin' = [i \in Ids |-> "none"]

InitFails ==
  /\ pc = "init"
  /\ pc' = "failed"
  /\ up' = up \ Ladder(stage)
  /\ twice' = twice \cup CleanedAgain(stage)
  /\ PluginCleanup
  /\ sockets' = {} /\ silent' = silent \cup sockets
  /\ UNCHANGED <<stage, images, told, threads>>

(* The built-in plugin, then the broadcast.                                *)
Start ==
  /\ pc = "builtin"
  /\ pc' = "serve" /\ running' = TRUE
  /\ LoadPlugin
  /\ UNCHANGED <<setup, wpc, inside>>

-----------------------------------------------------------------------------
(* The workers.  A worker that has not seen server_running set when it is  *)
(* cleared waits for ever.                                                 *)

Wake(w) ==
  /\ wpc[w] = "wait" /\ running
  /\ wpc' = [wpc EXCEPT ![w] = "loop"]
  /\ UNCHANGED <<pc, setup, registry, running, inside>>

Loop(w) ==
  /\ wpc[w] = "loop"
  /\ wpc' = [wpc EXCEPT ![w] = IF running THEN "work" ELSE "exited"]
  /\ UNCHANGED <<pc, setup, registry, running, inside>>

(* plugin_acquire, for a handler of plugin i.                              *)
Acquire(w, i) ==
  /\ pc # "tell" /\ plugin[i] = "started"
  /\ inside' = [inside EXCEPT ![w] = Append(@, i)]
  /\ UNCHANGED <<pc, setup, plugin, finished, told, silent, running, wpc>>

(* An event of a socket or the input of a client.                          *)
CallHandler(w, i) ==
  /\ wpc[w] = "work" /\ inside[w] = <<>>
  /\ Acquire(w, i)
  /\ sockets' \in {sockets, sockets \cup {i}, sockets \ {i}}

(* plugin_call, from a handler: plugin_getid misses the last identifier.   *)
CallPlugin(w, i) ==
  /\ inside[w] # <<>> /\ Len(inside[w]) < Depth /\ i < PluginMax
  /\ Acquire(w, i)
  /\ UNCHANGED sockets

(* plugin_release; the outermost handler gives the worker back its loop.   *)
Leave(w) ==
  /\ wpc[w] = "work"
  /\ IF Len(inside[w]) > 0
     THEN inside' = [inside EXCEPT ![w] = SubSeq(@, 1, Len(@) - 1)]
     ELSE UNCHANGED inside
  /\ wpc' = [wpc EXCEPT ![w] = IF Len(inside[w]) > 1 THEN "work" ELSE "loop"]
  /\ UNCHANGED <<pc, setup, registry, running>>

-----------------------------------------------------------------------------
(* Stop.                                                                   *)

Quit ==
  /\ pc = "serve"
  /\ pc' = "tell" /\ running' = FALSE
  /\ UNCHANGED <<setup, registry, wpc, inside>>

(* plugin_api_shutdown: below PLUGIN_MAX, started or not.                  *)
Tell ==
  /\ pc = "tell"
  /\ pc' = "join"
  /\ told' = [i \in Ids |-> told[i] + (IF i < PluginMax /\ plugin[i] # "none" THEN 1 ELSE 0)]
  /\ UNCHANGED <<setup, plugin, finished, sockets, silent, threads>>

Join_Skipped ==                   \* mutant: the workers are not joined
  /\ pc = "join"
  /\ pc' = "sockets"
  /\ UNCHANGED <<setup, registry, threads>>

Join ==
  /\ pc = "join" /\ \A w \in Workers : wpc[w] = "exited"
  /\ pc' = "sockets"
  /\ UNCHANGED <<setup, registry, threads>>

(* socket_api_cleanup: each socket left tells its plugin, if it started.   *)
CloseSockets ==
  /\ pc = "sockets"
  /\ pc' = "plugins"
  /\ silent' = silent \cup {i \in sockets : plugin[i] # "started"}
  /\ sockets' = {}
  /\ UNCHANGED <<setup, plugin, finished, told, threads>>

ClosePlugins ==
  /\ pc = "plugins"
  /\ pc' = "stopped"
  /\ PluginCleanup
  /\ up' = {"hook"}
  /\ UNCHANGED <<stage, images, twice, told, sockets, silent, threads>>

(* Back in main_process, which asks the privileged process to exit.        *)
Exit ==
  /\ pc \in {"failed", "stopped"}
  /\ pc' = "exit"
  /\ UNCHANGED <<setup, registry, threads>>

Next ==
  \/ ConfigurePlugin \/ SetUp \/ InitFails \/ Start
  \/ \E w \in Workers : Wake(w) \/ Loop(w) \/ Leave(w)
  \/ \E w \in Workers, i \in Ids : CallHandler(w, i) \/ CallPlugin(w, i)
  \/ Quit \/ Tell \/ Join \/ CloseSockets \/ ClosePlugins \/ Exit

-----------------------------------------------------------------------------
(* No worker is in a handler of a plugin that is not started or is gone,   *)
(* and plugin_fini runs once, when no worker can call the plugin again.    *)
HandlersAlive ==
  \A i \in Ids :
    /\ \A w \in Workers : \A k \in 1 .. Len(inside[w]) :
         inside[w][k] = i => plugin[i] = "started" /\ finished[i] = 0
    /\ finished[i] <= 1
    /\ finished[i] = 1 => \A w \in Workers : wpc[w] \in {"none", "exited"}

(* A plugin that finishes after a run was told once that the server stops, *)
(* but for the last identifier, and its sockets were closed before it with *)
(* an event; only a failed start closes sockets in silence.                *)
OrderlyStop ==
  /\ \A i \in Ids : told[i] <= 1
  /\ pc = "stopped" =>
       /\ \A i \in Ids : finished[i] = 1 => (told[i] = 1 <=> i < PluginMax)
       /\ sockets = {}
       /\ \A i \in silent : finished[i] = 0

(* A start that fails gives back what it set up, except: a failure of the  *)
(* first queue gives back nothing, and one of the configuration or of the  *)
(* threads cleans plugins and sockets twice and keeps the configuration.   *)
FailedStart ==
  pc = "failed" =>
    LET at == Stages[stage] IN
    CASE at = "blocking" -> up = {Stages[k] : k \in 1 .. 7}
      [] at \in {"config", "threads"} -> twice = {"plugin", "socket"} /\ up \subseteq {"hook", "config"}
      [] OTHER -> up \subseteq {"hook"} /\ twice = {}

(* Plugins outlive their callers, the stop is in order, and a failed start *)
(* cleans up as its labels say.                                            *)
EngineSafe == HandlersAlive /\ OrderlyStop /\ FailedStart

-----------------------------------------------------------------------------
(* The inductive invariant.                                                *)

TypeOK ==
  /\ pc \in {"init", "builtin", "serve", "tell", "join", "sockets", "plugins",
             "stopped", "failed", "exit"}
  /\ stage \in 1 .. Len(Stages)
  /\ plugin \in [Ids -> {"none", "opened", "started"}]
  /\ finished \in [Ids -> {0, 1}] /\ told \in [Ids -> {0, 1}]
  /\ sockets \subseteq Ids /\ silent \subseteq Ids
  /\ running = (pc = "serve")
  /\ wpc \in [Workers -> {"none", "wait", "loop", "work", "exited"}]
  /\ inside \in [Workers -> Seq(Ids)]

Begun == {Stages[j] : j \in 1 .. stage - 1}

(* The workers: none while the server is being set up or once they were    *)
(* joined; a worker that is in a handler works.                            *)
WorkersInv ==
  /\ pc \notin {"builtin", "serve", "tell", "join"} =>
       \A w \in Workers : wpc[w] \in {"none", "exited"}
  /\ \A w \in Workers : inside[w] # <<>> => wpc[w] = "work"
  /\ \A w \in Workers : \A k \in 1 .. Len(inside[w]) : plugin[inside[w][k]] = "started"

(* The stages of the start, and of the stop.                               *)
StartInv ==
  /\ pc = "init" => up = Begun /\ twice = {}
  /\ pc \notin {"stopped", "failed", "exit"} => \A i \in Ids : finished[i] = 0
  /\ pc \in {"init", "builtin", "serve", "tell", "failed"} => \A i \in Ids : told[i] = 0

StopInv ==
  /\ pc \in {"init", "builtin", "serve", "tell", "join", "sockets"} => silent = {}
  /\ pc \in {"join", "sockets", "plugins"} =>
       \A i \in Ids : told[i] = 1 <=> (i < PluginMax /\ plugin[i] # "none")
  /\ pc = "plugins" => sockets = {} /\ \A i \in silent : plugin[i] # "started"

IInv == TypeOK /\ WorkersInv /\ StartInv /\ StopInv /\ OrderlyStop /\ FailedStart
=============================================================================
