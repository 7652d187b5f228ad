------------------------------- MODULE PluginMgr -------------------------------
(***************************************************************************)
(* core/plugin_mgr.c: the plugin processes, who starts and stops them, and *)
(* what is left of them when the core is down.                             *)
(*                                                                         *)
(* The main thread runs plugin_mgr_start_all, then plugin_mgr_check_health *)
(* once per loop iteration, and plugin_mgr_stop_all at shutdown; the HTTP  *)
(* thread runs plugin_mgr_start, _stop and _restart for                    *)
(* /api/plugins/<id>/<action>.  Both read and write the handle's state and *)
(* pid without a lock, so here every read and every write of a handle is a *)
(* step of its own, in the order of the code, and the threads interleave   *)
(* between any two of them.  (What a step joins is one access to a handle  *)
(* and the calls around it that touch none.)  Processes die on their own   *)
(* at any time and are zombies until the core waits for them.              *)
(***************************************************************************)
EXTENDS Naturals, FiniteSets

CONSTANTS
  Plugins,   (* the discovered plugins                                     *)
  Heeds,     (* those whose program unblocks SIGTERM: children inherit the *)
             (* mask of main.c:39-45 and the SDK does not touch it         *)
  MaxAsks,   (* bound: requests made                                       *)
  MaxForks,  (* bound: fork() succeeds at most this often for a plugin     *)
  MaxPolls   (* bound: rounds of stop_all's wait, 30 in the code           *)

ASSUME PluginAssumption == /\ IsFiniteSet(Plugins) /\ Plugins # {}
                           /\ Heeds \subseteq Plugins
                           /\ MaxAsks \in Nat /\ MaxForks \in Nat
                           /\ MaxPolls \in Nat \ {0}

VARIABLES
  state,    (* plugin_handle.state                                         *)
  pid,      (* plugin_handle.pid: n for its n-th process, 0 for none       *)
  proc,     (* proc[p][n]: the kernel's view of the n-th process of p;     *)
            (* "termed" is alive with SIGTERM sent.  Ids are not reused    *)
  at,       (* at[t][p]: the line thread t is about to run for plugin p    *)
  born,     (* born[t][p]: what fork returned there, start_plugin's `pid`  *)
  call,     (* call[p]: the request the HTTP thread is serving for p       *)
  wanted,   (* history: "up" or "down", as the last request for p asked    *)
  asks,     (* requests made so far                                        *)
  crossed,  (* history: a request and the supervisor met in one handle     *)
  phase,    (* where the main thread is                                    *)
  polls     (* rounds of stop_all's wait already made                      *)

vars == <<state, pid, proc, at, born, call, wanted, asks, crossed, phase, polls>>
handles == <<state, pid>>
course == <<phase, polls, asks>>

Nth == 1 .. MaxForks
Threads == {"main", "http"}
States == {"STOPPED", "STARTING", "RUNNING", "STOPPING", "RESTARTING", "FAILED"}
Calls == {"start", "stop", "restart"}

Phases == {"starting",   (* in plugin_mgr_start_all                        *)
           "running",    (* in the main loop                               *)
           "waiting",    (* in stop_all, waiting at most 3 s               *)
           "killing",    (* in stop_all, after the wait                    *)
           "gone"}       (* stop_all returned                              *)

Starting == {"start",    (* 356: already running?                          *)
             "access",   (* 359-365: executable? then STARTING             *)
             "fork",     (* 367                                            *)
             "record",   (* 384: the pid                                   *)
             "run"}      (* 385: RUNNING                                   *)
Stopping == {"stop",     (* 407: running?                                  *)
             "pid",      (* 407: with a pid?                               *)
             "stopping", (* 413                                            *)
             "kill",     (* 416                                            *)
             "unkilled", (* 419: kill failed, STOPPED                      *)
             "no pid"}   (* 420                                            *)
Restarting == {"restart",  (* 495: running?                                *)
               "override"} (* 497: RESTARTING                              *)
Settling == {"sort",     (* 610-623: what was it doing?                    *)
             "stopped",  (* 612: it was stopped                            *)
             "forget",   (* 613                                            *)
             "ended",    (* 617, 629: it comes back                        *)
             "relaunch"} (* 618, 630; then start_plugin                    *)
Points == {"idle", "reap" (* 606 *)} \cup Starting \cup Stopping \cup Restarting \cup Settling

Alive == {"alive", "termed"}
Unreaped(p, n) == proc[p][n] \in Alive \cup {"zombie"}
ProcessesOf(p) == {n \in Nth : Unreaped(p, n)}
Own(p) == pid[p] \in ProcessesOf(p)

Init == /\ state = [p \in Plugins |-> "STOPPED"]
        /\ pid = [p \in Plugins |-> 0]
        /\ proc = [p \in Plugins |-> [n \in Nth |-> "unused"]]
        /\ at = [t \in Threads |-> [p \in Plugins |-> "idle"]]
        /\ born = [t \in Threads |-> [p \in Plugins |-> 0]]
        /\ call = [p \in Plugins |-> "none"]
        /\ wanted = [p \in Plugins |-> "up"]
        /\ asks = 0
        /\ crossed = FALSE
        /\ phase = "starting"
        /\ polls = 0

-----------------------------------------------------------------------------
(* Control: a thread is in one call for one plugin, or in none.             *)
Free(t) == \A p \in Plugins : at[t][p] = "idle"

Goto(t, p, x) ==
  /\ at' = [at EXCEPT ![t][p] = x]
  /\ call' = IF t = "http" /\ x = "idle" THEN [call EXCEPT ![p] = "none"] ELSE call

SetState(p, s) == state' = [state EXCEPT ![p] = s]
SetPid(p, n) == pid' = [pid EXCEPT ![p] = n]

-----------------------------------------------------------------------------
(* start_plugin, on either thread.                                          *)
(* Mutant: a plugin that is running is started as well.                     *)
StartsAnyway(t, p) == /\ at[t][p] = "start"
                      /\ Goto(t, p, "access")
                      /\ UNCHANGED <<handles, proc, born, wanted, course>>

IsRunning(t, p) == /\ at[t][p] = "start"
                   /\ Goto(t, p, IF state[p] = "RUNNING" THEN "idle" ELSE "access")
                   /\ UNCHANGED <<handles, proc, born, wanted, course>>

(* The executable is there, or it is not.                                   *)
Access(t, p) == /\ at[t][p] = "access"
                /\ \/ SetState(p, "STARTING") /\ Goto(t, p, "fork")
                   \/ SetState(p, "FAILED") /\ Goto(t, p, "idle")
                /\ UNCHANGED <<pid, proc, born, wanted, course>>

(* fork makes the next process of the plugin, or fails.                     *)
Unused(p) == {n \in Nth : proc[p][n] = "unused"}

Forked(t, p) == \E n \in Unused(p) : /\ \A m \in Unused(p) : n <= m
                                     /\ proc' = [proc EXCEPT ![p][n] = "alive"]
                                     /\ born' = [born EXCEPT ![t][p] = n]
                                     /\ Goto(t, p, "record")
                                     /\ UNCHANGED state

NotForked(t, p) == SetState(p, "FAILED") /\ Goto(t, p, "idle") /\ UNCHANGED <<proc, born>>

Fork(t, p) == /\ at[t][p] = "fork"
              /\ Forked(t, p) \/ NotForked(t, p)
              /\ UNCHANGED <<pid, wanted, course>>

Record(t, p) == /\ at[t][p] = "record"
                /\ SetPid(p, born[t][p])
                /\ born' = [born EXCEPT ![t][p] = 0]
                /\ Goto(t, p, "run")
                /\ UNCHANGED <<state, proc, wanted, course>>

Run(t, p) == /\ at[t][p] = "run"
             /\ SetState(p, "RUNNING")
             /\ Goto(t, p, "idle")
             /\ UNCHANGED <<pid, proc, born, wanted, course>>

StartPlugin(t, p) == \/ IsRunning(t, p) \/ Access(t, p) \/ Fork(t, p)
                     \/ Record(t, p) \/ Run(t, p)

(* plugin_mgr_start_all, before the main loop and the HTTP thread.          *)
StartAll(p) == /\ phase = "starting" /\ Free("main")
               /\ state[p] = "STOPPED"
               /\ Goto("main", p, "start")
               /\ UNCHANGED <<handles, proc, born, wanted, course>>

EnterLoop == /\ phase = "starting" /\ Free("main")
             /\ \A p \in Plugins : state[p] # "STOPPED"
             /\ phase' = "running"
             /\ UNCHANGED <<handles, proc, at, born, call, wanted, polls, asks>>

-----------------------------------------------------------------------------
(* A request for a plugin reaches the HTTP thread while the main loop runs. *)
Ask(p, c) == /\ phase = "running" /\ Free("http") /\ asks < MaxAsks
             /\ asks' = asks + 1
             /\ at' = [at EXCEPT !["http"][p] = c]
             /\ call' = [call EXCEPT ![p] = c]
             /\ wanted' = [wanted EXCEPT ![p] = IF c = "stop" THEN "down" ELSE "up"]
             /\ UNCHANGED <<handles, proc, born, phase, polls>>

(* plugin_mgr_restart: stop a running plugin and overwrite its STOPPING, so *)
(* that check_health starts it again; start any other.                      *)
Restart(p) == /\ at["http"][p] = "restart"
              /\ Goto("http", p, IF state[p] = "RUNNING" THEN "stop" ELSE "start")
              /\ UNCHANGED <<handles, proc, born, wanted, course>>

Override(p) == /\ at["http"][p] = "override"
               /\ SetState(p, "RESTARTING")
               /\ Goto("http", p, "idle")
               /\ UNCHANGED <<pid, proc, born, wanted, course>>

(* stop_plugin returns to plugin_mgr_stop, which answers success whatever   *)
(* was done, or to plugin_mgr_restart.                                      *)
Leave(p) == Goto("http", p, IF call[p] = "restart" THEN "override" ELSE "idle")

Stop(p) == /\ at["http"][p] = "stop"
           /\ IF state[p] = "RUNNING" THEN Goto("http", p, "pid") ELSE Leave(p)
           /\ UNCHANGED <<handles, proc, born, wanted, course>>

HasPid(p) == /\ at["http"][p] = "pid"
             /\ IF pid[p] > 0 THEN Goto("http", p, "stopping") ELSE Leave(p)
             /\ UNCHANGED <<handles, proc, born, wanted, course>>

MarkStopping(p) == /\ at["http"][p] = "stopping"
                   /\ SetState(p, "STOPPING")
                   /\ Goto("http", p, "kill")
                   /\ UNCHANGED <<pid, proc, born, wanted, course>>

(* kill(h->pid, SIGTERM): a zombie takes it too, an id that was waited for  *)
(* is an error, and 0 means every process of the group (the core's own      *)
(* SIGTERM ends the main loop, which StopAll may do at any time).           *)
Terminate(S) == [p \in Plugins |-> [n \in Nth |->
                   IF <<p, n>> \in S /\ proc[p][n] = "alive" THEN "termed" ELSE proc[p][n]]]
Signalled(p) == IF pid[p] = 0 THEN Plugins \X Nth ELSE {<<p, pid[p]>>}

Kill(p) == /\ at["http"][p] = "kill"
           /\ proc' = Terminate(Signalled(p))
           /\ IF pid[p] = 0 \/ Own(p) THEN Leave(p) ELSE Goto("http", p, "unkilled")
           /\ UNCHANGED <<handles, born, wanted, course>>

Unkilled(p) == /\ at["http"][p] = "unkilled"
               /\ SetState(p, "STOPPED")
               /\ Goto("http", p, "no pid")
               /\ UNCHANGED <<pid, proc, born, wanted, course>>

DropPid(p) == /\ at["http"][p] = "no pid"
              /\ SetPid(p, 0)
              /\ Leave(p)
              /\ UNCHANGED <<state, proc, born, wanted, course>>

Serve(p) == \/ Restart(p) \/ Override(p) \/ Stop(p) \/ HasPid(p) \/ MarkStopping(p)
            \/ Kill(p) \/ Unkilled(p) \/ DropPid(p) \/ StartPlugin("http", p)

-----------------------------------------------------------------------------
(* A plugin process ends: it crashes, exits, or obeys SIGTERM.              *)
Die(p, n) == /\ proc[p][n] \in Alive
             /\ proc' = [proc EXCEPT ![p][n] = "zombie"]
             /\ UNCHANGED <<handles, at, born, call, wanted, course>>

(* check_health's turn for a plugin that is neither STOPPED nor FAILED.     *)
Look(p) == /\ phase = "running" /\ Free("main")
           /\ state[p] \notin {"STOPPED", "FAILED"}
           /\ Goto("main", p, "reap")
           /\ UNCHANGED <<handles, proc, born, wanted, course>>

(* waitpid(h->pid, WNOHANG); 0 means any child of the process group.        *)
Ended(p) == {i \in Plugins \X Nth : /\ proc[i[1]][i[2]] = "zombie"
                                    /\ pid[p] = 0 \/ i = <<p, pid[p]>>}

Reap(p) == /\ at["main"][p] = "reap"
           /\ \/ /\ Ended(p) = {}
                 /\ Goto("main", p, "idle")
                 /\ UNCHANGED proc
              \/ \E i \in Ended(p) : /\ proc' = [proc EXCEPT ![i[1]][i[2]] = "reaped"]
                                     /\ Goto("main", p, "sort")
           /\ UNCHANGED <<handles, born, wanted, course>>

(* Mutants: everything that ended comes back, or only what was restarted.   *)
ComesBackAlways(p) == TRUE
ComesBackIfAsked(p) == state[p] = "RESTARTING"

(* RESTARTING was asked to come back; the others ended unexpectedly.        *)
ComesBack(p) == state[p] \in {"RESTARTING", "RUNNING", "STARTING"}

Sort(p) == /\ at["main"][p] = "sort"
           /\ Goto("main", p, CASE ComesBack(p) -> "ended"
                                [] ~ComesBack(p) /\ state[p] = "STOPPING" -> "stopped"
                                [] OTHER -> "idle")
           /\ UNCHANGED <<handles, proc, born, wanted, course>>

MarkStopped(p) == /\ at["main"][p] \in {"stopped", "ended"}
                  /\ SetState(p, "STOPPED")
                  /\ Goto("main", p, IF at["main"][p] = "ended" THEN "relaunch" ELSE "forget")
                  /\ UNCHANGED <<pid, proc, born, wanted, course>>

(* Mutant: the handle keeps the id of the process that was reaped.          *)
KeepPid(p) == /\ at["main"][p] \in {"forget", "relaunch"}
              /\ Goto("main", p, IF at["main"][p] = "relaunch" THEN "start" ELSE "idle")
              /\ UNCHANGED <<handles, proc, born, wanted, course>>

ForgetPid(p) == /\ at["main"][p] \in {"forget", "relaunch"}
                /\ SetPid(p, 0)
                /\ Goto("main", p, IF at["main"][p] = "relaunch" THEN "start" ELSE "idle")
                /\ UNCHANGED <<state, proc, born, wanted, course>>

CheckHealth(p) == \/ Reap(p) \/ Sort(p) \/ MarkStopped(p) \/ ForgetPid(p)
                  \/ StartPlugin("main", p)

-----------------------------------------------------------------------------
(* plugin_mgr_stop_all, after the main loop ended and the HTTP thread was   *)
(* joined, so that it is alone with the handles: SIGTERM to everything      *)
(* running, ...                                                             *)
Running == {p \in Plugins : state[p] = "RUNNING" /\ pid[p] > 0}
Lost == {p \in Running : ~Own(p)}

StopAll == /\ phase = "running" /\ Free("main") /\ Free("http")
           /\ proc' = Terminate({<<p, pid[p]>> : p \in Running})
           /\ state' = [p \in Plugins |-> IF p \in Lost THEN "STOPPED"
                                          ELSE IF p \in Running THEN "STOPPING" ELSE state[p]]
           /\ pid' = [p \in Plugins |-> IF p \in Lost THEN 0 ELSE pid[p]]
           /\ phase' = "waiting"
           /\ UNCHANGED <<at, born, call, wanted, polls, asks>>

(* ... then up to MaxPolls rounds that reap what has ended ...              *)
Pending == {p \in Plugins : state[p] # "STOPPED" /\ pid[p] > 0}

ReapAll(P) == /\ proc' = [p \in Plugins |-> [n \in Nth |->
                              IF p \in P /\ n = pid[p] THEN "reaped" ELSE proc[p][n]]]
              /\ state' = [p \in Plugins |-> IF p \in P THEN "STOPPED" ELSE state[p]]
              /\ pid' = [p \in Plugins |-> IF p \in P THEN 0 ELSE pid[p]]
              /\ UNCHANGED <<at, born, call, wanted, asks>>

(* Mutants: the wait makes a round too many, or has no limit.               *)
WaitedTooLong == polls > MaxPolls
NeverTimesOut == FALSE

(* timeout_ms has counted down to 0: the round being made is the last.      *)
LastRound == polls + 1 >= MaxPolls

Poll == LET ended == {p \in Pending : proc[p][pid[p]] = "zombie"}
        IN /\ phase = "waiting"
           /\ ReapAll(ended)
           /\ polls' = IF polls < MaxPolls + 1 THEN polls + 1 ELSE polls
           /\ phase' = IF Pending = ended \/ LastRound THEN "killing" ELSE "waiting"

(* Mutant: nothing is killed after the wait.                                *)
KilledNone == {}

(* ... then SIGKILL and a blocking wait for the rest.                       *)
Killed == Pending

KillRest == /\ phase = "killing"
            /\ ReapAll(Killed)
            /\ phase' = "gone"
            /\ UNCHANGED polls

-----------------------------------------------------------------------------
(* The two threads meet in the handle of a plugin: while a request for it   *)
(* is being served, check_health has just waited for a process of it and is *)
(* writing the handle, or looks at it half started; or the request finds it *)
(* on its way down.                                                         *)
Meet(p) == /\ at["http"][p] # "idle"
           /\ \/ at["main"][p] \notin {"idle", "reap"}
              \/ at["main"][p] = "reap" /\ state[p] = "STARTING"
              \/ at["http"][p] \in Calls /\ state[p] \in {"STOPPING", "RESTARTING"}

Noted == crossed' = (crossed \/ (\E p \in Plugins : Meet(p))')

(* Each thread goes on with the call it is in; the main thread is also in   *)
(* start_all before its loop, and in stop_all after it.                     *)
MainGoesOn == \/ \E p \in Plugins : StartAll(p) \/ CheckHealth(p)
              \/ EnterLoop \/ Poll \/ KillRest
HttpGoesOn == \E p \in Plugins : Serve(p)
Obeys == \E p \in Heeds, n \in Nth : proc[p][n] = "termed" /\ Die(p, n)

Next == /\ \/ MainGoesOn \/ HttpGoesOn \/ StopAll
           \/ \E p \in Plugins : Look(p) \/ \E c \in Calls : Ask(p, c)
           \/ \E p \in Plugins, n \in Nth : Die(p, n)
        /\ Noted

(* Both threads keep running.  The main loop visits every plugin in every   *)
(* iteration, so a plugin it could look at again and again it does look at; *)
(* a process that accepts SIGTERM ends.  Nobody has to ask for anything, or *)
(* to shut down.                                                            *)
Fairness == /\ WF_vars(MainGoesOn /\ Noted)
            /\ \A p \in Plugins : SF_vars(Look(p) /\ Noted)
            /\ WF_vars(Obeys /\ Noted)

Spec == Init /\ [][Next]_vars
FairSpec == Spec /\ Fairness

-----------------------------------------------------------------------------
(* Types of the handle's fields, of the process table and of the threads.   *)
TypeOK == /\ state \in [Plugins -> States]
          /\ pid \in [Plugins -> 0 .. MaxForks]
          /\ proc \in [Plugins -> [Nth -> {"unused", "zombie", "reaped"} \cup Alive]]
          /\ at \in [Threads -> [Plugins -> Points]]
          /\ born \in [Threads -> [Plugins -> 0 .. MaxForks]]
          /\ call \in [Plugins -> Calls \cup {"none"}]
          /\ wanted \in [Plugins -> {"up", "down"}]
          /\ asks \in 0 .. MaxAsks
          /\ crossed \in BOOLEAN
          /\ phase \in Phases
          /\ polls \in 0 .. MaxPolls

(* As long as the threads have not met in a handle, waitpid and kill are    *)
(* called with a child of the plugin that was not waited for: never with 0  *)
(* (any child, or the whole process group), and never with an id that was   *)
(* reaped; neither by check_health (line 606), nor by a request (line 416), *)
(* nor by stop_all, which kills what is left (lines 437-458).               *)
Addressed(p) == \/ at["main"][p] = "reap" \/ at["http"][p] = "kill"
                \/ phase \in {"waiting", "killing"} /\ p \in Pending

PidIsOwnChild == ~crossed => \A p \in Plugins : Addressed(p) => Own(p)

(* ... a plugin has one process at most: the one its handle records, or the *)
(* one that start_plugin is about to record there.                          *)
OneProcess == ~crossed => \A p \in Plugins, m, n \in Nth :
  {m, n} \subseteq ProcessesOf(p) => m = n

(* After stop_all every child was killed and waited for (server.c:645: "1.  *)
(* Stop Plugins (Ensure all child processes are killed/waited)").           *)
AllChildrenWaited == phase = "gone" => \A p \in Plugins : ProcessesOf(p) = {}

(* ... and so they were when the threads never met in a handle.             *)
ApartAllWaited == ~crossed => AllChildrenWaited

(* Nothing forks a plugin whose last request was a stop, until it is asked  *)
(* for again: neither the supervisor nor the shutdown does, as long as the  *)
(* threads have not met in a handle.                                        *)
StopIsHonoured ==
  [][~crossed' => \A p \in Plugins : wanted[p] = "down" /\ wanted'[p] = "down" =>
                    ProcessesOf(p)' \subseteq ProcessesOf(p)]_vars

(* A plugin that ends without having been stopped, or was told to restart   *)
(* and heeds it, gets a new process, or its handle says that it could not   *)
(* be launched ("Auto-restart", lines 616-636), unless the threads met in a *)
(* handle before.                                                           *)
Down(p) == /\ phase = "running" /\ wanted[p] = "up"
           /\ \/ state[p] = "RUNNING" /\ Own(p) /\ proc[p][pid[p]] = "zombie"
              \/ state[p] = "RESTARTING" /\ (p \in Heeds \/ (Own(p) /\ proc[p][pid[p]] = "zombie"))

Replaced(p) == at["main"][p] = "record" \/ state[p] = "FAILED"

CrashIsRepaired == \A p \in Plugins :
  Down(p) ~> (Replaced(p) \/ wanted[p] = "down" \/ phase # "running" \/ crossed)

(* stop_all returns, whatever the plugins do with SIGTERM and whatever the  *)
(* two threads did to the handles before.                                   *)
ShutdownEnds == phase = "waiting" ~> phase = "gone"
=============================================================================
