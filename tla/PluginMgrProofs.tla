---------------------------- MODULE PluginMgrProofs ----------------------------
(***************************************************************************)
(* Proofs about PluginMgr for any set of plugins and any bounds.  Types    *)
(* and Stages hold whatever the threads do to each other; Orderly is what  *)
(* the handles look like as long as the threads have not met in one.       *)
(***************************************************************************)
EXTENDS PluginMgr, TLAPS

MainPoints == {"idle", "reap"} \cup Starting \cup Settling
Launching == Starting \ {"start"}

(* The main thread's stages: requests are only made in the main loop, and   *)
(* stop_all has the handles for itself; its wait ends with the last round.  *)
Stages == /\ phase \in {"starting", "running"} => polls = 0
          /\ phase = "waiting" => polls < MaxPolls
          /\ phase = "starting" => \A p \in Plugins : at["http"][p] = "idle" /\ wanted[p] = "up"
          /\ phase \in {"waiting", "killing", "gone"} => Free("main") /\ Free("http")
          /\ \A p \in Plugins : at["main"][p] \in MainPoints

(* A handle in which nobody writes: it records the one process there is, or *)
(* there is none.                                                           *)
Up(p) == /\ state[p] \in {"RUNNING", "STOPPING", "RESTARTING"}
         /\ pid[p] # 0 /\ ProcessesOf(p) = {pid[p]}
Empty(p) == state[p] \in {"STOPPED", "FAILED"} /\ pid[p] = 0 /\ ProcessesOf(p) = {}

(* A handle that start_plugin is writing, line by line.                     *)
Launched(t, p) ==
  /\ at[t][p] = "access" => Empty(p)
  /\ at[t][p] = "fork" => state[p] = "STARTING" /\ pid[p] = 0 /\ ProcessesOf(p) = {}
  /\ at[t][p] = "record" => /\ state[p] = "STARTING" /\ pid[p] = 0
                            /\ born[t][p] # 0 /\ ProcessesOf(p) = {born[t][p]}
  /\ at[t][p] = "run" => state[p] = "STARTING" /\ pid[p] # 0 /\ ProcessesOf(p) = {pid[p]}

(* A handle that check_health is writing, its process having been waited    *)
(* for.                                                                     *)
Settled(p) ==
  /\ at["main"][p] \in {"sort", "stopped", "ended"} =>
       pid[p] # 0 /\ ProcessesOf(p) = {} /\ state[p] \in {"RUNNING", "STOPPING", "RESTARTING"}
  /\ at["main"][p] = "stopped" => state[p] = "STOPPING"
  /\ at["main"][p] = "ended" => state[p] # "STOPPING"
  /\ at["main"][p] \in {"forget", "relaunch"} => ProcessesOf(p) = {} /\ state[p] = "STOPPED"
  /\ at["main"][p] = "start" => Empty(p)

(* A handle that a request is stopping.                                     *)
Served(p) == /\ at["http"][p] = "stop" /\ call[p] = "restart" => state[p] = "RUNNING"
             /\ at["http"][p] \in {"pid", "stopping"} => state[p] = "RUNNING"
             /\ at["http"][p] \in {"kill", "override"} => state[p] = "STOPPING"
             /\ at["http"][p] \notin {"unkilled", "no pid"}

Handle(p) == /\ at["main"][p] \in {"idle", "reap"} /\ at["http"][p] \notin Launching
                  => Up(p) \/ Empty(p)
             /\ at["main"][p] = "reap" => Up(p)
             /\ Launched("main", p) /\ Launched("http", p) /\ Settled(p) /\ Served(p)
             /\ phase = "gone" => pid[p] = 0

(* What was asked to stop is on no path that starts it.                     *)
Wanted(p) == wanted[p] = "down" =>
  /\ at["main"][p] \notin {"ended", "relaunch"} \cup Starting
  /\ at["http"][p] \notin {"restart", "override"} \cup Starting
  /\ at["http"][p] \in {"stop", "pid", "stopping"}
       \/ state[p] \notin {"RUNNING", "RESTARTING", "STARTING"}
  /\ at["http"][p] \in {"stop", "pid", "stopping", "kill"} => call[p] # "restart"

Orderly == ~crossed => \A p \in Plugins : ~Meet(p) /\ Handle(p) /\ Wanted(p)

Inv == TypeOK /\ Stages /\ Orderly

-----------------------------------------------------------------------------
(* What moving a thread to its next line changes: its own position for this *)
(* plugin, and the request it serves when it returns to the HTTP server.    *)
LEMMA GotoType ==
  ASSUME TypeOK, NEW t \in Threads, NEW p \in Plugins, NEW x \in Points, Goto(t, p, x)
  PROVE  /\ at' \in [Threads -> [Plugins -> Points]]
         /\ call' \in [Plugins -> Calls \cup {"none"}]
BY DEF Goto, TypeOK

LEMMA GotoMain ==
  ASSUME TypeOK, NEW p \in Plugins, NEW x, Goto("main", p, x)
  PROVE  /\ at'["main"][p] = x /\ call' = call
         /\ \A q \in Plugins : at'["http"][q] = at["http"][q]
         /\ \A q \in Plugins \ {p} : at'["main"][q] = at["main"][q]
BY DEF Goto, TypeOK, Threads

LEMMA GotoHttp ==
  ASSUME TypeOK, NEW p \in Plugins, NEW x, Goto("http", p, x)
  PROVE  /\ at'["http"][p] = x /\ (x # "idle" => call' = call)
         /\ \A q \in Plugins : at'["main"][q] = at["main"][q]
         /\ \A q \in Plugins \ {p} : at'["http"][q] = at["http"][q] /\ call'[q] = call[q]
BY DEF Goto, TypeOK, Threads

(* The lines of the threads, one by one.                                    *)
LEMMA Lines ==
  /\ "idle" \in Points /\ "reap" \in Points /\ "start" \in Points /\ "access" \in Points
  /\ "fork" \in Points /\ "record" \in Points /\ "run" \in Points /\ "stop" \in Points
  /\ "pid" \in Points /\ "stopping" \in Points /\ "kill" \in Points /\ "unkilled" \in Points
  /\ "no pid" \in Points /\ "restart" \in Points /\ "override" \in Points /\ "sort" \in Points
  /\ "stopped" \in Points /\ "forget" \in Points /\ "ended" \in Points /\ "relaunch" \in Points
BY DEF Points, Starting, Stopping, Restarting, Settling

(* Types: the writes of a handle's fields and of the process table.         *)
LEMMA SetType ==
  ASSUME TypeOK, NEW p \in Plugins
  PROVE  /\ \A s \in States : SetState(p, s) => state' \in [Plugins -> States]
         /\ \A n \in 0 .. MaxForks : SetPid(p, n) => pid' \in [Plugins -> 0 .. MaxForks]
BY DEF SetState, SetPid, TypeOK

(* The values a pid can have.                                               *)
LEMMA ZeroIsPid == 0 \in 0 .. MaxForks
BY PluginAssumption

LEMMA NthIsPid == \A n \in Nth : n \in 0 .. MaxForks /\ n # 0
BY PluginAssumption DEF Nth

LEMMA BornType ==
  ASSUME TypeOK, NEW t \in Threads, NEW p \in Plugins, NEW n \in 0 .. MaxForks
  PROVE  [born EXCEPT ![t][p] = n] \in [Threads -> [Plugins -> 0 .. MaxForks]]
BY DEF TypeOK

Kinds == {"unused", "zombie", "reaped"} \cup Alive

(* Types: start_plugin on either thread (lines 355-388).                    *)
LEMMA StartType ==
  ASSUME TypeOK, NEW t \in Threads, NEW p \in Plugins, StartPlugin(t, p)
  PROVE  /\ state' \in [Plugins -> States]
         /\ pid' \in [Plugins -> 0 .. MaxForks]
         /\ proc' \in [Plugins -> [Nth -> Kinds]]
         /\ at' \in [Threads -> [Plugins -> Points]]
         /\ born' \in [Threads -> [Plugins -> 0 .. MaxForks]]
         /\ call' \in [Plugins -> Calls \cup {"none"}]
         /\ wanted' = wanted /\ course' = course
<1> USE Lines
<1>0. {"STARTING", "FAILED", "RUNNING"} \subseteq States
  BY DEF States
<1>1. CASE IsRunning(t, p)
  <2>1. PICK x \in {"idle", "access"} : Goto(t, p, x)
    BY <1>1 DEF IsRunning
  <2>2. x \in Points
    BY DEF Points, Starting
  <2> QED
    BY <1>1, <2>1, <2>2, GotoType DEF IsRunning, handles, TypeOK, Kinds
<1>2. CASE Access(t, p)
  <2>1. PICK x \in {"idle", "fork"}, s \in {"STARTING", "FAILED"} :
          Goto(t, p, x) /\ SetState(p, s)
    BY <1>2 DEF Access
  <2>2. x \in Points
    BY DEF Points, Starting
  <2>3. state' \in [Plugins -> States]
    BY <1>0, <2>1, SetType
  <2> QED
    BY <1>2, <2>1, <2>2, <2>3, GotoType DEF Access, TypeOK, Kinds
<1>3. CASE Fork(t, p)
  <2>1. CASE Forked(t, p)
    <3>1. PICK n \in Nth : /\ proc' = [proc EXCEPT ![p][n] = "alive"]
                           /\ born' = [born EXCEPT ![t][p] = n]
                           /\ Goto(t, p, "record") /\ UNCHANGED state
      BY <2>1 DEF Forked, Unused
    <3>2. proc' \in [Plugins -> [Nth -> Kinds]]
      BY <3>1 DEF TypeOK, Kinds, Alive
    <3>3. born' \in [Threads -> [Plugins -> 0 .. MaxForks]]
      BY <3>1, NthIsPid, BornType
    <3>4. /\ at' \in [Threads -> [Plugins -> Points]]
          /\ call' \in [Plugins -> Calls \cup {"none"}]
      BY <3>1, GotoType
    <3>5. wanted' = wanted /\ course' = course /\ pid' = pid /\ state' = state
      BY <1>3, <3>1 DEF Fork
    <3> QED
      BY <3>2, <3>3, <3>4, <3>5 DEF TypeOK
  <2>2. CASE NotForked(t, p)
    BY <1>0, <1>3, <2>2, GotoType, SetType DEF Fork, NotForked, TypeOK, Kinds
  <2> QED
    BY <1>3, <2>1, <2>2 DEF Fork
<1>4. CASE Record(t, p)
  <2>1. born[t][p] \in 0 .. MaxForks
    BY DEF TypeOK
  <2>2. pid' \in [Plugins -> 0 .. MaxForks] /\ born' \in [Threads -> [Plugins -> 0 .. MaxForks]]
    BY <1>4, <2>1, SetType, ZeroIsPid DEF Record, TypeOK
  <2> QED
    BY <1>4, <2>2, GotoType DEF Record, TypeOK, Kinds
<1>5. CASE Run(t, p)
  BY <1>0, <1>5, GotoType, SetType DEF Run, TypeOK, Kinds
<1> QED
  BY <1>1, <1>2, <1>3, <1>4, <1>5 DEF StartPlugin

(* A step of either thread in a call, and a step of a process, moves nothing*)
(* of the main thread's stages, whatever it does to the handles.            *)
LEMMA StepType ==
  ASSUME TypeOK, NEW p \in Plugins,
         CheckHealth(p) \/ Serve(p) \/ StartAll(p) \/ Look(p)
  PROVE  /\ state' \in [Plugins -> States]
         /\ pid' \in [Plugins -> 0 .. MaxForks]
         /\ proc' \in [Plugins -> [Nth -> Kinds]]
         /\ at' \in [Threads -> [Plugins -> Points]]
         /\ born' \in [Threads -> [Plugins -> 0 .. MaxForks]]
         /\ call' \in [Plugins -> Calls \cup {"none"}]
         /\ wanted' = wanted /\ course' = course
<1> DEFINE Typed == /\ state' \in [Plugins -> States]
                    /\ pid' \in [Plugins -> 0 .. MaxForks]
                    /\ proc' \in [Plugins -> [Nth -> Kinds]]
                    /\ at' \in [Threads -> [Plugins -> Points]]
                    /\ born' \in [Threads -> [Plugins -> 0 .. MaxForks]]
                    /\ call' \in [Plugins -> Calls \cup {"none"}]
                    /\ wanted' = wanted /\ course' = course
<1>0. "main" \in Threads /\ "http" \in Threads
  BY DEF Threads
<1>1. \A s \in {"STOPPED", "STOPPING", "RESTARTING"} : s \in States
  BY DEF States
<1>2. \A x \in Points : Goto("main", p, x) \/ Goto("http", p, x) =>
        /\ at' \in [Threads -> [Plugins -> Points]]
        /\ call' \in [Plugins -> Calls \cup {"none"}]
  BY <1>0, GotoType
<1>3. Leave(p) => /\ at' \in [Threads -> [Plugins -> Points]]
                  /\ call' \in [Plugins -> Calls \cup {"none"}]
  BY <1>2, Lines DEF Leave
<1>4. /\ state \in [Plugins -> States] /\ pid \in [Plugins -> 0 .. MaxForks]
      /\ proc \in [Plugins -> [Nth -> Kinds]]
      /\ born \in [Threads -> [Plugins -> 0 .. MaxForks]]
  BY DEF TypeOK, Kinds
<1>5. CASE StartPlugin("main", p) \/ StartPlugin("http", p)
  BY <1>0, <1>5, StartType
<1>6. CASE StartAll(p) \/ Look(p)
  BY <1>2, <1>4, <1>6, Lines DEF StartAll, Look, handles
<1>7. CASE Reap(p)
  <2>1. proc' \in [Plugins -> [Nth -> Kinds]]
    <3>1. CASE UNCHANGED proc
      BY <1>4, <3>1
    <3>2. ASSUME NEW i \in Plugins \X Nth, proc' = [proc EXCEPT ![i[1]][i[2]] = "reaped"]
          PROVE  proc' \in [Plugins -> [Nth -> Kinds]]
      BY <1>4, <3>2 DEF Kinds
    <3> QED
      BY <1>7, <3>1, <3>2 DEF Reap, Ended
  <2>2. Goto("main", p, "idle") \/ Goto("main", p, "sort")
    BY <1>7 DEF Reap
  <2>3. /\ at' \in [Threads -> [Plugins -> Points]]
        /\ call' \in [Plugins -> Calls \cup {"none"}]
    BY <1>2, <2>2, Lines
  <2> QED
    BY <1>4, <1>7, <2>1, <2>3 DEF Reap, handles
<1>8. CASE Sort(p)
  <2>1. PICK x \in {"ended", "stopped", "idle"} : Goto("main", p, x)
    BY <1>8 DEF Sort
  <2> QED
    BY <1>2, <1>4, <1>8, <2>1, Lines DEF Sort, handles
<1>9. CASE MarkStopped(p)
  <2>1. PICK x \in {"relaunch", "forget"} : Goto("main", p, x)
    BY <1>9 DEF MarkStopped
  <2>2. state' \in [Plugins -> States]
    BY <1>1, <1>9, SetType DEF MarkStopped
  <2> QED
    BY <1>2, <1>4, <1>9, <2>1, <2>2, Lines DEF MarkStopped
<1>10. CASE ForgetPid(p)
  <2>1. PICK x \in {"start", "idle"} : Goto("main", p, x)
    BY <1>10 DEF ForgetPid
  <2>2. pid' \in [Plugins -> 0 .. MaxForks]
    BY <1>10, SetType, ZeroIsPid DEF ForgetPid
  <2> QED
    BY <1>2, <1>4, <1>10, <2>1, <2>2, Lines DEF ForgetPid
<1>11. CASE Restart(p) \/ Stop(p) \/ HasPid(p)
  <2>1. Leave(p) \/ \E x \in {"stop", "start", "pid", "stopping"} : Goto("http", p, x)
    BY <1>11 DEF Restart, Stop, HasPid
  <2>2. /\ at' \in [Threads -> [Plugins -> Points]]
        /\ call' \in [Plugins -> Calls \cup {"none"}]
    BY <1>2, <1>3, <2>1, Lines
  <2> QED
    BY <1>4, <1>11, <2>2 DEF Restart, Stop, HasPid, handles
<1>12. CASE Override(p) \/ MarkStopping(p) \/ Unkilled(p)
  <2>1. PICK x \in {"idle", "kill", "no pid"}, s \in {"STOPPED", "STOPPING", "RESTARTING"} :
          Goto("http", p, x) /\ SetState(p, s)
    BY <1>12 DEF Override, MarkStopping, Unkilled
  <2>2. state' \in [Plugins -> States]
    BY <1>1, <2>1, SetType
  <2> QED
    BY <1>2, <1>4, <1>12, <2>1, <2>2, Lines DEF Override, MarkStopping, Unkilled
<1>13. CASE Kill(p)
  <2>1. proc' \in [Plugins -> [Nth -> Kinds]]
    BY <1>4, <1>13 DEF Kill, Terminate, Kinds, Alive
  <2>2. /\ at' \in [Threads -> [Plugins -> Points]]
        /\ call' \in [Plugins -> Calls \cup {"none"}]
    BY <1>2, <1>3, <1>13, Lines DEF Kill
  <2> QED
    BY <1>4, <1>13, <2>1, <2>2 DEF Kill, handles
<1>14. CASE DropPid(p)
  <2>1. pid' \in [Plugins -> 0 .. MaxForks]
    BY <1>14, SetType, ZeroIsPid DEF DropPid
  <2> QED
    BY <1>3, <1>4, <1>14, <2>1 DEF DropPid
<1> QED
  BY <1>5, <1>6, <1>7, <1>8, <1>9, <1>10, <1>11, <1>12, <1>13, <1>14 DEF CheckHealth, Serve

(* The handles as plugin_mgr_scan leaves them (lines 307-323).              *)
LEMMA TypeInit == Init => TypeOK /\ Stages
<1> SUFFICES ASSUME Init PROVE TypeOK /\ Stages
  OBVIOUS
<1>1. at \in [Threads -> [Plugins -> Points]]
  BY Lines DEF Init
<1>2. /\ born \in [Threads -> [Plugins -> 0 .. MaxForks]]
      /\ pid \in [Plugins -> 0 .. MaxForks]
  BY ZeroIsPid DEF Init
<1>3. proc \in [Plugins -> [Nth -> Kinds]]
  BY DEF Init, Kinds
<1>4. /\ state \in [Plugins -> States] /\ wanted \in [Plugins -> {"up", "down"}]
      /\ call \in [Plugins -> Calls \cup {"none"}] /\ phase \in Phases
  BY DEF Init, States, Phases
<1>5. polls \in 0 .. MaxPolls /\ asks \in 0 .. MaxAsks
  BY PluginAssumption DEF Init
<1>6. crossed \in BOOLEAN
  BY DEF Init
<1>7. TypeOK
  BY <1>1, <1>2, <1>3, <1>4, <1>5, <1>6 DEF TypeOK, Kinds
<1>8. Stages
  BY DEF Init, Stages, MainPoints, Threads
<1> QED
  BY <1>7, <1>8

(* The main thread's position after a step of either thread.                *)
LEMMA StepStages ==
  ASSUME TypeOK, Stages, NEW p \in Plugins,
         CheckHealth(p) \/ Serve(p) \/ StartAll(p) \/ Look(p)
  PROVE  Stages'
<1> DEFINE MainAt == \E x \in MainPoints : Goto("main", p, x)
           HttpAt == \E x \in Points : Goto("http", p, x)
<1>0. wanted' = wanted /\ phase' = phase /\ polls' = polls
  BY StepType DEF course
<1>1. StartAll(p) \/ Look(p) \/ CheckHealth(p) => MainAt
  <2>1. Reap(p) => MainAt
    BY DEF Reap, MainPoints, Settling
  <2>2. StartPlugin("main", p) => MainAt
    BY DEF StartPlugin, IsRunning, Access, Fork, Forked, NotForked, Record, Run,
           MainPoints, Starting
  <2>3. Sort(p) \/ MarkStopped(p) \/ ForgetPid(p) => MainAt
    BY DEF Sort, MarkStopped, ForgetPid, MainPoints, Settling, Starting
  <2> QED
    BY <2>1, <2>2, <2>3 DEF CheckHealth, StartAll, Look, MainPoints, Starting
<1>2. Serve(p) => HttpAt
  <2>1. Leave(p) => HttpAt
    BY Lines DEF Leave
  <2>2. StartPlugin("http", p) => HttpAt
    BY Lines DEF StartPlugin, IsRunning, Access, Fork, Forked, NotForked, Record, Run
  <2>3. Restart(p) \/ Override(p) \/ Stop(p) \/ HasPid(p) \/ MarkStopping(p)
          \/ Kill(p) \/ Unkilled(p) \/ DropPid(p) => HttpAt
    BY <2>1, Lines DEF Restart, Override, Stop, HasPid, MarkStopping, Kill, Unkilled, DropPid
  <2> QED
    BY <2>2, <2>3 DEF Serve
<1>3. \/ phase \in {"starting", "running"} /\ at["http"][p] = "idle" /\ MainAt
      \/ phase = "running" /\ MainAt
      \/ at["http"][p] # "idle" /\ HttpAt
      \/ at["main"][p] # "idle" /\ MainAt
  <2>1. StartAll(p) => phase = "starting" /\ at["http"][p] = "idle"
    BY DEF StartAll, Stages
  <2>2. Look(p) => phase = "running"
    BY DEF Look
  <2>3. CheckHealth(p) => at["main"][p] # "idle"
    BY DEF CheckHealth, Reap, Sort, MarkStopped, ForgetPid, StartPlugin, IsRunning,
           Access, Fork, Record, Run
  <2>4. Serve(p) => at["http"][p] # "idle"
    BY DEF Serve, Restart, Override, Stop, HasPid, MarkStopping, Kill, Unkilled, DropPid,
           StartPlugin, IsRunning, Access, Fork, Record, Run
  <2> QED
    BY <1>1, <1>2, <2>1, <2>2, <2>3, <2>4
<1>4. phase \notin {"waiting", "killing", "gone"}
  BY <1>3 DEF Stages, Free
<1>5. phase = "starting" => \A q \in Plugins : at'["http"][q] = "idle"
  <2> SUFFICES ASSUME phase = "starting"
               PROVE  \A q \in Plugins : at'["http"][q] = "idle"
    OBVIOUS
  <2>1. MainAt
    BY <1>3 DEF Stages
  <2> QED
    BY <2>1, GotoMain DEF Stages
<1>6. \A q \in Plugins : at'["main"][q] \in MainPoints
  <2>1. MainAt \/ HttpAt
    BY <1>3
  <2>2. CASE MainAt
    BY <2>2, GotoMain DEF Stages
  <2>3. CASE HttpAt
    BY <2>3, GotoHttp DEF Stages
  <2> QED
    BY <2>1, <2>2, <2>3
<1> QED
  BY <1>0, <1>4, <1>5, <1>6 DEF Stages

(* stop_all touches the handles only, and counts its rounds.                *)
LEMMA ReapAllType ==
  ASSUME TypeOK, NEW P \in SUBSET Plugins, ReapAll(P)
  PROVE  /\ state' \in [Plugins -> States]
         /\ pid' \in [Plugins -> 0 .. MaxForks]
         /\ proc' \in [Plugins -> [Nth -> Kinds]]
         /\ UNCHANGED <<at, born, call, wanted, asks>>
<1>1. state' \in [Plugins -> States]
  BY DEF ReapAll, TypeOK, States
<1>2. pid' \in [Plugins -> 0 .. MaxForks]
  BY ZeroIsPid DEF ReapAll, TypeOK
<1>3. proc' \in [Plugins -> [Nth -> Kinds]]
  BY DEF ReapAll, TypeOK, Kinds
<1> QED
  BY <1>1, <1>2, <1>3 DEF ReapAll

(* Types and the main thread's stages are kept by every step.               *)
LEMMA TypeStep == TypeOK /\ Stages /\ [Next]_vars => TypeOK' /\ Stages'
<1> SUFFICES ASSUME TypeOK, Stages, [Next]_vars
             PROVE  TypeOK' /\ Stages'
  OBVIOUS
<1>1. CASE UNCHANGED vars
  BY <1>1 DEF vars, TypeOK, Stages, Free
<1>2. ASSUME Next PROVE crossed' \in BOOLEAN
  BY <1>2 DEF Next, Noted
<1>3. ASSUME Next, NEW p \in Plugins, CheckHealth(p) \/ Serve(p) \/ StartAll(p) \/ Look(p)
      PROVE  TypeOK' /\ Stages'
  <2>1. Stages'
    BY <1>3, StepStages
  <2>2. TypeOK'
    <3>1. asks' = asks /\ phase' = phase /\ polls' = polls
      BY <1>3, StepType DEF course
    <3> QED
      BY <1>2, <1>3, <3>1, StepType DEF TypeOK, Kinds
  <2> QED
    BY <2>1, <2>2
<1>4. ASSUME Next, NEW p \in Plugins, NEW c \in Calls, Ask(p, c)
      PROVE  TypeOK' /\ Stages'
  <2>1. /\ phase = "running" /\ asks < MaxAsks /\ asks' = asks + 1
        /\ at' = [at EXCEPT !["http"][p] = c] /\ c \in Points
        /\ call' = [call EXCEPT ![p] = c]
        /\ wanted' = [wanted EXCEPT ![p] = IF c = "stop" THEN "down" ELSE "up"]
        /\ UNCHANGED <<state, pid, proc, born, phase, polls>>
    BY <1>4, Lines DEF Ask, Calls, handles
  <2>2. asks' \in 0 .. MaxAsks
    BY <2>1, PluginAssumption DEF TypeOK
  <2>3. at' \in [Threads -> [Plugins -> Points]]
    BY <2>1 DEF TypeOK, Threads
  <2>4. call' \in [Plugins -> Calls \cup {"none"}] /\ wanted' \in [Plugins -> {"up", "down"}]
    BY <2>1 DEF TypeOK
  <2>5. TypeOK'
    BY <1>2, <1>4, <2>1, <2>2, <2>3, <2>4 DEF TypeOK
  <2>6. Stages'
    <3>1. \A q \in Plugins : at'["main"][q] = at["main"][q]
      BY <2>1 DEF TypeOK, Threads
    <3> QED
      BY <2>1, <3>1 DEF Stages
  <2> QED
    BY <2>5, <2>6
<1>5. ASSUME Next, NEW p \in Plugins, NEW n \in Nth, Die(p, n)
      PROVE  TypeOK' /\ Stages'
  <2>1. proc' \in [Plugins -> [Nth -> Kinds]]
    BY <1>5 DEF Die, TypeOK, Kinds
  <2> QED
    BY <1>2, <1>5, <2>1 DEF Die, TypeOK, Stages, Free, handles, course, Kinds
<1>6. ASSUME Next, EnterLoop
      PROVE  TypeOK' /\ Stages'
  BY <1>2, <1>6 DEF EnterLoop, TypeOK, Stages, handles, Phases
<1>7. ASSUME Next, StopAll
      PROVE  TypeOK' /\ Stages'
  <2>1. state' \in [Plugins -> States]
    BY <1>7 DEF StopAll, TypeOK, States
  <2>2. pid' \in [Plugins -> 0 .. MaxForks]
    BY <1>7, ZeroIsPid DEF StopAll, TypeOK
  <2>3. proc' \in [Plugins -> [Nth -> Kinds]]
    BY <1>7 DEF StopAll, Terminate, TypeOK, Kinds, Alive
  <2>4. /\ UNCHANGED <<at, born, call, wanted, polls, asks>>
        /\ phase = "running" /\ phase' = "waiting" /\ Free("main") /\ Free("http")
    BY <1>7 DEF StopAll
  <2>5. TypeOK'
    BY <1>2, <1>7, <2>1, <2>2, <2>3, <2>4 DEF TypeOK, Kinds, Phases
  <2>6. Stages'
    BY <2>4, PluginAssumption DEF Stages, Free
  <2> QED
    BY <2>5, <2>6
<1>8. ASSUME Next, Poll
      PROVE  TypeOK' /\ Stages'
  <2>1. PICK P \in SUBSET Plugins : ReapAll(P)
    BY <1>8 DEF Poll, Pending
  <2>2. phase = "waiting" /\ polls \in Nat /\ polls < MaxPolls /\ MaxPolls \in Nat
    BY <1>8, PluginAssumption DEF Poll, Stages, TypeOK
  <2>3. /\ polls' \in 0 .. MaxPolls /\ (phase' = "waiting" => polls' < MaxPolls)
        /\ phase' \in {"waiting", "killing"}
    BY <1>8, <2>2 DEF Poll, LastRound
  <2>4. TypeOK'
    BY <1>2, <1>8, <2>1, <2>3, ReapAllType DEF TypeOK, Kinds, Phases
  <2>5. Stages'
    BY <2>1, <2>2, <2>3, ReapAllType DEF Stages, Free
  <2> QED
    BY <2>4, <2>5
<1>9. ASSUME Next, KillRest
      PROVE  TypeOK' /\ Stages'
  <2>1. ReapAll(Pending) /\ Pending \in SUBSET Plugins
    BY <1>9 DEF KillRest, Killed, Pending
  <2>2. phase = "killing" /\ phase' = "gone" /\ polls' = polls
    BY <1>9 DEF KillRest
  <2>3. TypeOK'
    BY <1>2, <1>9, <2>1, <2>2, ReapAllType DEF TypeOK, Kinds, Phases
  <2>4. Stages'
    BY <2>1, <2>2, ReapAllType DEF Stages, Free
  <2> QED
    BY <2>3, <2>4
<1> QED
  BY <1>1, <1>3, <1>4, <1>5, <1>6, <1>7, <1>8, <1>9 DEF Next, MainGoesOn, HttpGoesOn

-----------------------------------------------------------------------------
Good == \A p \in Plugins : ~Meet(p) /\ Handle(p) /\ Wanted(p)

(* A step that leaves a plugin's handle, lines and processes alone.         *)
Same(q) == /\ \A t \in Threads : at'[t][q] = at[t][q] /\ born'[t][q] = born[t][q]
           /\ state'[q] = state[q] /\ pid'[q] = pid[q]
           /\ call'[q] = call[q] /\ wanted'[q] = wanted[q]
           /\ ProcessesOf(q)' = ProcessesOf(q)

(* A handle that a step leaves alone stays in order.                        *)
LEMMA Frame ==
  ASSUME NEW q \in Plugins, Handle(q), Wanted(q), Same(q), phase' = "gone" => phase = "gone"
  PROVE  Handle(q)' /\ Wanted(q)'
BY DEF Same, Handle, Wanted, Up, Empty, Launched, Settled, Served, Threads

(* A step that makes, ends and reaps no process.                            *)
LEMMA ProcSame == proc' = proc => \A q \in Plugins : ProcessesOf(q)' = ProcessesOf(q)
BY DEF ProcessesOf, Unreaped

(* What a step in one plugin's handle may change of another's: nothing.     *)
Elsewhere(p) == \A q \in Plugins \ {p} : Same(q)

LEMMA MainElsewhere ==
  ASSUME TypeOK, NEW p \in Plugins, NEW x, Goto("main", p, x),
         \A q \in Plugins \ {p} : state'[q] = state[q] /\ pid'[q] = pid[q],
         \A t \in Threads, q \in Plugins \ {p} : born'[t][q] = born[t][q],
         wanted' = wanted,
         \A q \in Plugins \ {p} : ProcessesOf(q)' = ProcessesOf(q)
  PROVE  Elsewhere(p)
BY GotoMain DEF Elsewhere, Same, Threads

LEMMA HttpElsewhere ==
  ASSUME TypeOK, NEW p \in Plugins, NEW x, Goto("http", p, x),
         \A q \in Plugins \ {p} : state'[q] = state[q] /\ pid'[q] = pid[q],
         \A t \in Threads, q \in Plugins \ {p} : born'[t][q] = born[t][q],
         wanted' = wanted,
         \A q \in Plugins \ {p} : ProcessesOf(q)' = ProcessesOf(q)
  PROVE  Elsewhere(p)
BY GotoHttp DEF Elsewhere, Same, Threads

(* One field of one handle is written.                                      *)
LEMMA Set ==
  ASSUME TypeOK, NEW p \in Plugins
  PROVE  /\ \A s : SetState(p, s) => /\ state'[p] = s
                                     /\ \A q \in Plugins \ {p} : state'[q] = state[q]
         /\ \A n : SetPid(p, n) => /\ pid'[p] = n
                                   /\ \A q \in Plugins \ {p} : pid'[q] = pid[q]
BY DEF SetState, SetPid, TypeOK

(* fork makes one process, of this plugin (line 367).                       *)
LEMMA ForkOne ==
  ASSUME TypeOK, NEW t \in Threads, NEW p \in Plugins, Forked(t, p), ProcessesOf(p) = {}
  PROVE  /\ born'[t][p] # 0 /\ ProcessesOf(p)' = {born'[t][p]}
         /\ \A q \in Plugins \ {p} : ProcessesOf(q)' = ProcessesOf(q)
         /\ \A u \in Threads, q \in Plugins \ {p} : born'[u][q] = born[u][q]
         /\ Goto(t, p, "record") /\ state' = state
<1>1. PICK n \in Nth : /\ proc[p][n] = "unused"
                       /\ proc' = [proc EXCEPT ![p][n] = "alive"]
                       /\ born' = [born EXCEPT ![t][p] = n]
                       /\ Goto(t, p, "record") /\ UNCHANGED state
  BY DEF Forked, Unused
<1>2. born'[t][p] = n /\ \A u \in Threads, q \in Plugins \ {p} : born'[u][q] = born[u][q]
  BY <1>1 DEF TypeOK
<1>3. n # 0
  BY NthIsPid
<1>4. \A q \in Plugins \ {p} : proc'[q] = proc[q]
  BY <1>1 DEF TypeOK
<1>5. \A q \in Plugins \ {p} : ProcessesOf(q)' = ProcessesOf(q)
  BY <1>4 DEF ProcessesOf, Unreaped
<1>6. proc'[p][n] = "alive" /\ \A m \in Nth \ {n} : proc'[p][m] = proc[p][m]
  BY <1>1 DEF TypeOK
<1>7. \A m \in Nth : m \in ProcessesOf(p)' <=> m = n
  BY <1>6 DEF ProcessesOf, Unreaped, Alive
<1>8. ProcessesOf(p)' = {n}
  BY <1>7 DEF ProcessesOf
<1> QED
  BY <1>1, <1>2, <1>3, <1>5, <1>8

(* waitpid of the one process there is leaves none (line 606).              *)
LEMMA ReapOne ==
  ASSUME TypeOK, NEW p \in Plugins, Up(p), NEW i \in Ended(p),
         proc' = [proc EXCEPT ![i[1]][i[2]] = "reaped"]
  PROVE  \A q \in Plugins : ProcessesOf(q)' = IF q = p THEN {} ELSE ProcessesOf(q)
<1>1. i = <<p, pid[p]>> /\ pid[p] \in Nth
  BY DEF Ended, Up
<1>2. proc' = [proc EXCEPT ![p][pid[p]] = "reaped"]
  BY <1>1
<1>3. \A q \in Plugins \ {p} : proc'[q] = proc[q]
  BY <1>2 DEF TypeOK
<1>4. \A q \in Plugins \ {p} : ProcessesOf(q)' = ProcessesOf(q)
  BY <1>3 DEF ProcessesOf, Unreaped
<1>5. proc'[p][pid[p]] = "reaped" /\ \A m \in Nth \ {pid[p]} : proc'[p][m] = proc[p][m]
  BY <1>1, <1>2 DEF TypeOK
<1>6. \A m \in Nth : m \notin ProcessesOf(p)'
  BY <1>5 DEF ProcessesOf, Unreaped, Alive, Up
<1>7. ProcessesOf(p)' = {}
  BY <1>6 DEF ProcessesOf
<1> QED
  BY <1>4, <1>7

-----------------------------------------------------------------------------
(* A thread that is alone in the handle; start_plugin there (lines 355-388).*)
Mine(t, p) == \/ t = "main" /\ at["http"][p] = "idle"
              \/ t = "http" /\ at["main"][p] \in {"idle", "reap"}

(* start_plugin keeps the handle in order, and touches no other.            *)
LEMMA StartOrder ==
  ASSUME TypeOK, NEW t \in Threads, NEW p \in Plugins, Handle(p), Wanted(p),
         Mine(t, p), ~Meet(p)', phase # "gone", at["main"][p] \in MainPoints,
         at["http"][p] = "start" => state[p] \notin {"STOPPING", "RESTARTING"},
         StartPlugin(t, p)
  PROVE  Elsewhere(p) /\ Handle(p)' /\ Wanted(p)'
<1> DEFINE Result == /\ at'["main"][p] = (IF t = "main" THEN at'[t][p] ELSE at["main"][p])
                     /\ at'["http"][p] = (IF t = "http" THEN at'[t][p] ELSE at["http"][p])
                     /\ call'[p] # call[p] => t = "http" /\ at'[t][p] = "idle"
                     /\ wanted' = wanted /\ phase' = phase
<1>0. wanted' = wanted /\ phase' = phase
  BY StartType DEF course
<1>1. \A x : Goto(t, p, x) => at'[t][p] = x /\ Result
  BY <1>0, GotoMain, GotoHttp DEF Threads
<1>2. \A x : /\ Goto(t, p, x)
             /\ \A q \in Plugins \ {p} : state'[q] = state[q] /\ pid'[q] = pid[q]
             /\ \A u \in Threads, q \in Plugins \ {p} : born'[u][q] = born[u][q]
             /\ \A q \in Plugins \ {p} : ProcessesOf(q)' = ProcessesOf(q)
             => Elsewhere(p)
  BY <1>0, MainElsewhere, HttpElsewhere DEF Threads
<1> HIDE DEF Result
<1>3. CASE IsRunning(t, p)
  <2>1. /\ at[t][p] = "start"
        /\ Goto(t, p, IF state[p] = "RUNNING" THEN "idle" ELSE "access")
        /\ state' = state /\ pid' = pid /\ born' = born /\ proc' = proc
    BY <1>3 DEF IsRunning, handles
  <2>2. Elsewhere(p) /\ Result /\ at'[t][p] = (IF state[p] = "RUNNING" THEN "idle" ELSE "access")
    BY <1>1, <1>2, <2>1, ProcSame
  <2>3. Up(p) \/ Empty(p)
    BY <2>1 DEF Mine, Handle, Settled, Launching, Starting
  <2>4. state[p] = "RUNNING" \/ Empty(p)
    BY <2>1, <2>3 DEF Mine, Up, Handle, Settled
  <2>5. Handle(p)'
    BY <2>1, <2>2, <2>3, <2>4, <1>0, ProcSame
       DEF Result, Mine, Handle, Up, Empty, Launched, Settled, Served, Launching, Starting
  <2>6. Wanted(p)'
    BY <2>1, <2>2 DEF Result, Mine, Wanted, Starting
  <2> QED
    BY <2>2, <2>5, <2>6
<1>4. CASE Access(t, p)
  <2>1. PICK x \in {"fork", "idle"} : /\ at[t][p] = "access" /\ Goto(t, p, x)
                                      /\ SetState(p, IF x = "fork" THEN "STARTING" ELSE "FAILED")
                                      /\ pid' = pid /\ born' = born /\ proc' = proc
    BY <1>4 DEF Access
  <2>2. Elsewhere(p) /\ Result /\ at'[t][p] = x
    BY <1>1, <1>2, <2>1, ProcSame, Set
  <2>3. /\ state'[p] = (IF x = "fork" THEN "STARTING" ELSE "FAILED")
        /\ pid'[p] = pid[p] /\ ProcessesOf(p)' = ProcessesOf(p)
    BY <2>1, Set, ProcSame
  <2>4. Empty(p) /\ at["main"][p] # "reap"
    BY <2>1 DEF Handle, Launched, Threads, Empty, Up
  <2>5. Handle(p)'
    BY <2>1, <2>2, <2>3, <2>4, <1>0
       DEF Result, Mine, Handle, Up, Empty, Launched, Settled, Served, Launching, Starting
  <2>6. Wanted(p)'
    BY <2>1, <2>2 DEF Result, Mine, Wanted, Starting
  <2> QED
    BY <2>2, <2>5, <2>6
<1>5. CASE Fork(t, p)
  <2>0. at[t][p] = "fork" /\ pid' = pid
    BY <1>5 DEF Fork
  <2>1. /\ state[p] = "STARTING" /\ pid[p] = 0 /\ ProcessesOf(p) = {}
        /\ at["main"][p] # "reap"
    BY <2>0 DEF Handle, Launched, Threads, Up
  <2>2. CASE Forked(t, p)
    <3>1. /\ born'[t][p] # 0 /\ ProcessesOf(p)' = {born'[t][p]}
          /\ Elsewhere(p) /\ Result /\ at'[t][p] = "record" /\ state'[p] = state[p]
      BY <1>1, <1>2, <2>0, <2>1, <2>2, ForkOne
    <3>2. Handle(p)'
      BY <2>0, <2>1, <3>1, <1>0
         DEF Result, Mine, Handle, Up, Empty, Launched, Settled, Served, Launching, Starting
    <3>3. Wanted(p)'
      BY <2>0, <3>1 DEF Result, Mine, Wanted, Starting
    <3> QED
      BY <3>1, <3>2, <3>3
  <2>3. CASE NotForked(t, p)
    <3>1. Goto(t, p, "idle") /\ SetState(p, "FAILED") /\ proc' = proc /\ born' = born
      BY <2>3 DEF NotForked
    <3>2. /\ Elsewhere(p) /\ Result /\ at'[t][p] = "idle"
          /\ state'[p] = "FAILED" /\ ProcessesOf(p)' = ProcessesOf(p)
      BY <1>1, <1>2, <2>0, <3>1, ProcSame, Set
    <3>3. Handle(p)'
      BY <2>0, <2>1, <3>2, <1>0
         DEF Result, Mine, Handle, Up, Empty, Launched, Settled, Served, Launching, Starting
    <3>4. Wanted(p)'
      BY <2>0, <3>2 DEF Result, Mine, Wanted, Starting
    <3> QED
      BY <3>2, <3>3, <3>4
  <2> QED
    BY <1>5, <2>2, <2>3 DEF Fork
<1>6. CASE Record(t, p)
  <2>1. /\ at[t][p] = "record" /\ SetPid(p, born[t][p]) /\ Goto(t, p, "run")
        /\ born' = [born EXCEPT ![t][p] = 0] /\ state' = state /\ proc' = proc
    BY <1>6 DEF Record
  <2>2. \A u \in Threads, q \in Plugins \ {p} : born'[u][q] = born[u][q]
    BY <2>1 DEF TypeOK
  <2>3. /\ Elsewhere(p) /\ Result /\ at'[t][p] = "run" /\ pid'[p] = born[t][p]
        /\ state'[p] = state[p] /\ ProcessesOf(p)' = ProcessesOf(p)
    BY <1>1, <1>2, <2>1, <2>2, ProcSame, Set
  <2>4. /\ state[p] = "STARTING" /\ born[t][p] # 0 /\ ProcessesOf(p) = {born[t][p]}
        /\ at["main"][p] # "reap"
    BY <2>1 DEF Handle, Launched, Threads, Up
  <2>5. Handle(p)'
    BY <2>1, <2>3, <2>4, <1>0
       DEF Result, Mine, Handle, Up, Empty, Launched, Settled, Served, Launching, Starting
  <2>6. Wanted(p)'
    BY <2>1, <2>3 DEF Result, Mine, Wanted, Starting
  <2> QED
    BY <2>3, <2>5, <2>6
<1>7. CASE Run(t, p)
  <2>1. /\ at[t][p] = "run" /\ SetState(p, "RUNNING") /\ Goto(t, p, "idle")
        /\ born' = born /\ pid' = pid /\ proc' = proc
    BY <1>7 DEF Run
  <2>2. /\ Elsewhere(p) /\ Result /\ at'[t][p] = "idle" /\ pid'[p] = pid[p]
        /\ state'[p] = "RUNNING" /\ ProcessesOf(p)' = ProcessesOf(p)
    BY <1>1, <1>2, <2>1, ProcSame, Set
  <2>3. /\ pid[p] # 0 /\ ProcessesOf(p) = {pid[p]} /\ at["main"][p] # "reap"
    BY <2>1 DEF Handle, Launched, Threads, Up
  <2>4. Handle(p)'
    BY <2>1, <2>2, <2>3, <1>0
       DEF Result, Mine, Handle, Up, Empty, Launched, Settled, Served, Launching, Starting
  <2>5. Wanted(p)'
    BY <2>1, <2>2 DEF Result, Mine, Wanted, Starting
  <2> QED
    BY <2>2, <2>4, <2>5
<1> QED
  BY <1>3, <1>4, <1>5, <1>6, <1>7 DEF StartPlugin

(* check_health's turn for a plugin, with no request in its handle once the *)
(* process has been waited for (lines 597-637).                             *)
LEMMA HealthOrder ==
  ASSUME TypeOK, NEW p \in Plugins, Handle(p), Wanted(p), ~Meet(p), ~Meet(p)',
         phase # "gone", at["main"][p] \in MainPoints,
         Look(p) \/ Reap(p) \/ Sort(p) \/ MarkStopped(p) \/ ForgetPid(p)
  PROVE  Elsewhere(p) /\ Handle(p)' /\ Wanted(p)'
<1>0. /\ wanted' = wanted /\ phase' = phase /\ born' = born
  BY DEF Look, Reap, Sort, MarkStopped, ForgetPid, course
<1>1. \A x : Goto("main", p, x) =>
        /\ at'["main"][p] = x /\ at'["http"][p] = at["http"][p] /\ call' = call
  BY GotoMain
<1>2. \A x : /\ Goto("main", p, x)
             /\ \A q \in Plugins \ {p} : state'[q] = state[q] /\ pid'[q] = pid[q]
             /\ \A q \in Plugins \ {p} : ProcessesOf(q)' = ProcessesOf(q)
             => Elsewhere(p)
  BY <1>0, MainElsewhere
<1>3. CASE Look(p)
  <2>1. /\ at["main"][p] = "idle" /\ state[p] \notin {"STOPPED", "FAILED"}
        /\ Goto("main", p, "reap") /\ state' = state /\ pid' = pid /\ proc' = proc
    BY <1>3 DEF Look, Free, handles
  <2>2. /\ at'["main"][p] = "reap" /\ at'["http"][p] = at["http"][p] /\ Elsewhere(p)
        /\ ProcessesOf(p)' = ProcessesOf(p) /\ call' = call
    BY <1>1, <1>2, <2>1, ProcSame
  <2>3. at["http"][p] \notin Launching
    BY <2>1, <2>2 DEF Meet, Handle, Launched, Empty, Launching, Starting, Threads
  <2>4. Up(p)
    BY <2>1, <2>3 DEF Handle, Empty
  <2>5. Handle(p)'
    BY <1>0, <2>1, <2>2, <2>3, <2>4
       DEF Handle, Up, Empty, Launched, Settled, Served, Launching, Starting, Threads
  <2>6. Wanted(p)'
    BY <1>0, <1>1, <2>1, <2>2 DEF Wanted, Starting
  <2> QED
    BY <2>2, <2>5, <2>6
<1>4. CASE Reap(p)
  <2>1. at["main"][p] = "reap" /\ Up(p) /\ state' = state /\ pid' = pid
    BY <1>4 DEF Reap, Handle, handles
  <2>2. CASE Ended(p) = {} /\ Goto("main", p, "idle") /\ UNCHANGED proc
    <3>1. /\ at'["main"][p] = "idle" /\ at'["http"][p] = at["http"][p] /\ Elsewhere(p)
          /\ ProcessesOf(p)' = ProcessesOf(p) /\ call' = call
      BY <1>1, <1>2, <2>1, <2>2, ProcSame
    <3>2. Handle(p)'
      BY <1>0, <2>1, <3>1
         DEF Handle, Up, Empty, Launched, Settled, Served, Launching, Starting, Threads
    <3>3. Wanted(p)'
      BY <1>0, <2>1, <3>1 DEF Wanted, Starting
    <3> QED
      BY <3>1, <3>2, <3>3
  <2>3. ASSUME NEW i \in Ended(p), proc' = [proc EXCEPT ![i[1]][i[2]] = "reaped"],
               Goto("main", p, "sort")
        PROVE  Elsewhere(p) /\ Handle(p)' /\ Wanted(p)'
    <3>1. \A q \in Plugins : ProcessesOf(q)' = IF q = p THEN {} ELSE ProcessesOf(q)
      BY <2>1, <2>3, ReapOne
    <3>2. /\ at'["main"][p] = "sort" /\ at'["http"][p] = at["http"][p] /\ Elsewhere(p)
          /\ ProcessesOf(p)' = {} /\ call' = call
      BY <1>1, <1>2, <2>1, <2>3, <3>1
    <3>3. at["http"][p] = "idle"
      BY <3>2 DEF Meet
    <3>4. Handle(p)'
      BY <1>0, <2>1, <3>2, <3>3
         DEF Handle, Up, Empty, Launched, Settled, Served, Launching, Starting, Threads
    <3>5. Wanted(p)'
      BY <1>0, <2>1, <3>2 DEF Wanted, Starting
    <3> QED
      BY <3>2, <3>4, <3>5
  <2> QED
    BY <1>4, <2>2, <2>3 DEF Reap
<1>5. CASE Sort(p)
  <2> DEFINE x == CASE ComesBack(p) -> "ended"
                    [] ~ComesBack(p) /\ state[p] = "STOPPING" -> "stopped"
                    [] OTHER -> "idle"
  <2>1. /\ at["main"][p] = "sort" /\ Goto("main", p, x)
        /\ state' = state /\ pid' = pid /\ proc' = proc
    BY <1>5 DEF Sort, handles
  <2>2. /\ state[p] \in {"RUNNING", "STOPPING", "RESTARTING"} /\ at["http"][p] = "idle"
        /\ pid[p] # 0 /\ ProcessesOf(p) = {}
    BY <2>1 DEF Handle, Settled, Meet
  <2>3. x = IF state[p] = "STOPPING" THEN "stopped" ELSE "ended"
    BY <2>2 DEF ComesBack
  <2> HIDE DEF x
  <2>4. /\ at'["main"][p] = x /\ at'["http"][p] = "idle" /\ Elsewhere(p)
        /\ ProcessesOf(p)' = ProcessesOf(p) /\ call' = call
    BY <1>1, <1>2, <2>1, <2>2, ProcSame
  <2>5. Handle(p)'
    BY <1>0, <2>1, <2>2, <2>3, <2>4
       DEF Handle, Up, Empty, Launched, Settled, Served, Launching, Starting, Threads
  <2>6. Wanted(p)'
    BY <1>0, <2>1, <2>2, <2>3, <2>4 DEF Wanted, Starting
  <2> QED
    BY <2>4, <2>5, <2>6
<1>6. CASE MarkStopped(p)
  <2>1. PICK x \in {"relaunch", "forget"} :
          /\ at["main"][p] = (IF x = "relaunch" THEN "ended" ELSE "stopped")
          /\ Goto("main", p, x) /\ SetState(p, "STOPPED") /\ pid' = pid /\ proc' = proc
    BY <1>6 DEF MarkStopped
  <2>2. /\ at["http"][p] = "idle" /\ ProcessesOf(p) = {}
    BY <2>1 DEF Handle, Settled, Meet
  <2>3. /\ at'["main"][p] = x /\ at'["http"][p] = "idle" /\ Elsewhere(p)
        /\ ProcessesOf(p)' = {} /\ call' = call /\ state'[p] = "STOPPED"
    BY <1>1, <1>2, <2>1, <2>2, ProcSame, Set
  <2>4. Handle(p)'
    BY <1>0, <2>1, <2>2, <2>3
       DEF Handle, Up, Empty, Launched, Settled, Served, Launching, Starting, Threads
  <2>5. Wanted(p)'
    BY <1>0, <2>1, <2>2, <2>3 DEF Wanted, Starting
  <2> QED
    BY <2>3, <2>4, <2>5
<1>7. CASE ForgetPid(p)
  <2>1. PICK x \in {"start", "idle"} :
          /\ at["main"][p] = (IF x = "start" THEN "relaunch" ELSE "forget")
          /\ Goto("main", p, x) /\ SetPid(p, 0) /\ state' = state /\ proc' = proc
    BY <1>7 DEF ForgetPid
  <2>2. at["http"][p] = "idle" /\ ProcessesOf(p) = {} /\ state[p] = "STOPPED"
    BY <2>1 DEF Handle, Settled, Meet
  <2>3. /\ at'["main"][p] = x /\ at'["http"][p] = "idle" /\ Elsewhere(p)
        /\ ProcessesOf(p)' = {} /\ call' = call /\ pid'[p] = 0
    BY <1>1, <1>2, <2>1, <2>2, ProcSame, Set
  <2>4. Handle(p)'
    BY <1>0, <2>1, <2>2, <2>3
       DEF Handle, Up, Empty, Launched, Settled, Served, Launching, Starting, Threads
  <2>5. Wanted(p)'
    BY <1>0, <2>1, <2>2, <2>3 DEF Wanted, Starting
  <2> QED
    BY <2>3, <2>4, <2>5
<1> QED
  BY <1>3, <1>4, <1>5, <1>6, <1>7

(* SIGTERM ends no process by itself: it leaves every process there is.     *)
LEMMA TerminateSame ==
  ASSUME TypeOK, NEW S, proc' = Terminate(S)
  PROVE  \A q \in Plugins : ProcessesOf(q)' = ProcessesOf(q)
<1> SUFFICES ASSUME NEW q \in Plugins PROVE ProcessesOf(q)' = ProcessesOf(q)
  OBVIOUS
<1>1. \A n \in Nth : Unreaped(q, n)' <=> Unreaped(q, n)
  BY DEF Terminate, Unreaped, Alive
<1> QED
  BY <1>1 DEF ProcessesOf

(* A pid is a number: `h->pid > 0` is `# 0` (line 407).                     *)
LEMMA PidIsNat == TypeOK => \A p \in Plugins : pid[p] \in Nat
BY PluginAssumption DEF TypeOK

(* A request, with check_health at most waiting without effect in the same  *)
(* handle (lines 406-422, 489-503).                                         *)
LEMMA ServeOrder ==
  ASSUME TypeOK, NEW p \in Plugins, Handle(p), Wanted(p), ~Meet(p), ~Meet(p)',
         phase # "gone", at["main"][p] \in MainPoints,
         \/ Restart(p) \/ Override(p) \/ Stop(p) \/ HasPid(p) \/ MarkStopping(p)
         \/ Kill(p) \/ Unkilled(p) \/ DropPid(p)
  PROVE  Elsewhere(p) /\ Handle(p)' /\ Wanted(p)'
<1> DEFINE Calm == /\ at["main"][p] \in {"idle", "reap"} /\ at'["main"][p] = at["main"][p]
                   /\ wanted' = wanted /\ phase' = phase /\ born' = born
<1>0. /\ wanted' = wanted /\ phase' = phase /\ born' = born /\ at["http"][p] # "idle"
  BY DEF Restart, Override, Stop, HasPid, MarkStopping, Kill, Unkilled, DropPid, course
<1>1. at["main"][p] \in {"idle", "reap"}
  BY <1>0 DEF Meet
<1>2. \A x : Goto("http", p, x) =>
        /\ at'["http"][p] = x /\ Calm /\ (x # "idle" => call' = call)
  BY <1>0, <1>1, GotoHttp
<1>3. Leave(p) <=> Goto("http", p, IF call[p] = "restart" THEN "override" ELSE "idle")
  BY DEF Leave
<1>4. \A x : /\ Goto("http", p, x)
             /\ \A q \in Plugins \ {p} : state'[q] = state[q] /\ pid'[q] = pid[q]
             /\ \A q \in Plugins \ {p} : ProcessesOf(q)' = ProcessesOf(q)
             => Elsewhere(p)
  BY <1>0, HttpElsewhere
<1> HIDE DEF Calm
<1>5. CASE Restart(p)
  <2>1. PICK x \in {"stop", "start"} :
          /\ at["http"][p] = "restart" /\ Goto("http", p, x)
          /\ state' = state /\ pid' = pid /\ proc' = proc
          /\ x = "stop" => state[p] = "RUNNING"
    BY <1>5 DEF Restart, handles
  <2>2. /\ at'["http"][p] = x /\ Calm /\ call' = call /\ Elsewhere(p)
        /\ ProcessesOf(p)' = ProcessesOf(p)
    BY <1>2, <1>4, <2>1, ProcSame
  <2>3. Handle(p)'
    BY <1>1, <2>1, <2>2
       DEF Calm, Handle, Up, Empty, Launched, Settled, Served, Launching, Starting, Threads
  <2>4. Wanted(p)'
    BY <1>1, <2>1, <2>2 DEF Calm, Wanted, Starting
  <2> QED
    BY <2>2, <2>3, <2>4
<1>6. CASE Override(p)
  <2>1. /\ at["http"][p] = "override" /\ Goto("http", p, "idle") /\ SetState(p, "RESTARTING")
        /\ pid' = pid /\ proc' = proc
    BY <1>6 DEF Override
  <2>2. /\ at'["http"][p] = "idle" /\ Calm /\ Elsewhere(p) /\ state'[p] = "RESTARTING"
        /\ ProcessesOf(p)' = ProcessesOf(p)
    BY <1>2, <1>4, <2>1, ProcSame, Set
  <2>3. Up(p)
    BY <1>1, <2>1 DEF Handle, Served, Empty, Launching, Starting
  <2>4. Handle(p)'
    BY <1>1, <2>1, <2>2, <2>3
       DEF Calm, Handle, Up, Empty, Launched, Settled, Served, Launching, Starting, Threads
  <2>5. Wanted(p)'
    BY <1>1, <2>1, <2>2 DEF Calm, Wanted, Starting
  <2> QED
    BY <2>2, <2>4, <2>5
<1>7. CASE Stop(p)
  <2>1. /\ at["http"][p] = "stop" /\ state' = state /\ pid' = pid /\ proc' = proc
        /\ Goto("http", p, IF state[p] = "RUNNING" THEN "pid"
                           ELSE IF call[p] = "restart" THEN "override" ELSE "idle")
    BY <1>3, <1>7 DEF Stop, handles
  <2>2. state[p] \notin {"STOPPING", "RESTARTING", "STARTING"}
    BY <1>1, <2>1 DEF Meet, Calls, Handle, Up, Empty, Launching, Starting
  <2>3. PICK x : /\ Goto("http", p, x) /\ at'["http"][p] = x
                 /\ x = IF state[p] = "RUNNING" THEN "pid"
                        ELSE IF call[p] = "restart" THEN "override" ELSE "idle"
    BY <1>2, <2>1
  <2>4. Calm /\ (x # "idle" => call' = call) /\ Elsewhere(p) /\ ProcessesOf(p)' = ProcessesOf(p)
    BY <1>2, <1>4, <2>1, <2>3, ProcSame
  <2>5. x # "override"
    BY <2>1, <2>3 DEF Handle, Served
  <2>6. Handle(p)'
    BY <1>1, <2>1, <2>3, <2>4, <2>5
       DEF Calm, Handle, Up, Empty, Launched, Settled, Served, Launching, Starting, Threads
  <2>7. Wanted(p)'
    BY <1>1, <2>1, <2>2, <2>3, <2>4 DEF Calm, Wanted, Starting
  <2> QED
    BY <2>4, <2>6, <2>7
<1>8. CASE HasPid(p)
  <2>1. at["http"][p] = "pid" /\ state[p] = "RUNNING" /\ pid[p] # 0
    BY <1>1, <1>8 DEF HasPid, Handle, Served, Up, Empty, Launching, Starting
  <2>2. /\ state' = state /\ pid' = pid /\ proc' = proc
        /\ Goto("http", p, "stopping")
    BY <1>8, <2>1, PidIsNat DEF HasPid, handles
  <2>3. /\ at'["http"][p] = "stopping" /\ Calm /\ call' = call /\ Elsewhere(p)
        /\ ProcessesOf(p)' = ProcessesOf(p)
    BY <1>2, <1>4, <2>2, ProcSame
  <2>4. Handle(p)'
    BY <1>1, <2>1, <2>2, <2>3
       DEF Calm, Handle, Up, Empty, Launched, Settled, Served, Launching, Starting, Threads
  <2>5. Wanted(p)'
    BY <1>1, <2>1, <2>2, <2>3 DEF Calm, Wanted, Starting
  <2> QED
    BY <2>3, <2>4, <2>5
<1>9. CASE MarkStopping(p)
  <2>1. /\ at["http"][p] = "stopping" /\ Goto("http", p, "kill") /\ SetState(p, "STOPPING")
        /\ pid' = pid /\ proc' = proc
    BY <1>9 DEF MarkStopping
  <2>2. Up(p)
    BY <1>1, <2>1 DEF Handle, Served, Empty, Launching, Starting
  <2>3. /\ at'["http"][p] = "kill" /\ Calm /\ call' = call /\ Elsewhere(p)
        /\ ProcessesOf(p)' = ProcessesOf(p) /\ state'[p] = "STOPPING"
    BY <1>2, <1>4, <2>1, ProcSame, Set
  <2>4. Handle(p)'
    BY <1>1, <2>1, <2>2, <2>3
       DEF Calm, Handle, Up, Empty, Launched, Settled, Served, Launching, Starting, Threads
  <2>5. Wanted(p)'
    BY <1>1, <2>1, <2>3 DEF Calm, Wanted, Starting
  <2> QED
    BY <2>3, <2>4, <2>5
<1>10. CASE Kill(p)
  <2>1. at["http"][p] = "kill" /\ state[p] = "STOPPING" /\ pid[p] # 0
        /\ ProcessesOf(p) = {pid[p]}
    BY <1>1, <1>10 DEF Kill, Handle, Served, Up, Empty, Launching, Starting
  <2>2. PICK x \in {"override", "idle"} :
          /\ x = IF call[p] = "restart" THEN "override" ELSE "idle"
          /\ Goto("http", p, x)
          /\ state' = state /\ pid' = pid /\ proc' = Terminate(Signalled(p))
    BY <1>3, <1>10, <2>1 DEF Kill, handles, Own
  <2>3. \A q \in Plugins : ProcessesOf(q)' = ProcessesOf(q)
    BY <2>2, TerminateSame
  <2>4. /\ at'["http"][p] = x /\ Calm /\ (x # "idle" => call' = call) /\ Elsewhere(p)
    BY <1>2, <1>4, <2>2, <2>3
  <2>5. Handle(p)'
    BY <1>1, <2>1, <2>2, <2>3, <2>4
       DEF Calm, Handle, Up, Empty, Launched, Settled, Served, Launching, Starting, Threads
  <2>6. Wanted(p)'
    BY <1>1, <2>1, <2>2, <2>4 DEF Calm, Wanted, Starting
  <2> QED
    BY <2>4, <2>5, <2>6
<1>11. ~Unkilled(p) /\ ~DropPid(p)
  BY DEF Unkilled, DropPid, Handle, Served
<1> QED
  BY <1>5, <1>6, <1>7, <1>8, <1>9, <1>10, <1>11

-----------------------------------------------------------------------------
(* A step of one of the calls on a handle keeps every handle in order.      *)
LEMMA CallOrder ==
  ASSUME TypeOK, Stages, Good, NEW p \in Plugins, ~Meet(p)',
         CheckHealth(p) \/ Serve(p) \/ Look(p)
  PROVE  \A q \in Plugins : Handle(q)' /\ Wanted(q)'
<1>1. phase' = phase
  BY StepType DEF course
<1>2. phase # "gone"
  <2>1. CASE Look(p)
    BY <2>1 DEF Look
  <2>2. CASE Serve(p)
    <3>1. at["http"][p] # "idle"
      BY <2>2 DEF Serve, Restart, Override, Stop, HasPid, MarkStopping, Kill, Unkilled,
                  DropPid, StartPlugin, IsRunning, Access, Fork, Record, Run
    <3> QED
      BY <3>1 DEF Stages, Free
  <2>3. CASE CheckHealth(p)
    <3>1. at["main"][p] # "idle"
      BY <2>3 DEF CheckHealth, Reap, Sort, MarkStopped, ForgetPid,
                  StartPlugin, IsRunning, Access, Fork, Record, Run
    <3> QED
      BY <3>1 DEF Stages, Free
  <2> QED
    BY <2>1, <2>2, <2>3
<1>3. Elsewhere(p) /\ Handle(p)' /\ Wanted(p)'
  <2>0. /\ Handle(p) /\ Wanted(p) /\ ~Meet(p) /\ at["main"][p] \in MainPoints
        /\ "main" \in Threads /\ "http" \in Threads
    BY DEF Good, Stages, Threads
  <2>1. ASSUME NEW t \in Threads, StartPlugin(t, p)
        PROVE  Elsewhere(p) /\ Handle(p)' /\ Wanted(p)'
    <3>1. at[t][p] \in Starting
      BY <2>1 DEF StartPlugin, IsRunning, Access, Fork, Record, Run, Starting
    <3>2. Mine(t, p)
      BY <2>0, <3>1 DEF Mine, Meet, Threads, Starting
    <3>3. at["http"][p] = "start" => state[p] \notin {"STOPPING", "RESTARTING"}
      BY <2>0 DEF Meet, Calls
    <3> QED
      BY <1>2, <2>0, <2>1, <3>2, <3>3, StartOrder
  <2>2. CASE Look(p) \/ Reap(p) \/ Sort(p) \/ MarkStopped(p) \/ ForgetPid(p)
    BY <1>2, <2>0, <2>2, HealthOrder
  <2>3. CASE \/ Restart(p) \/ Override(p) \/ Stop(p) \/ HasPid(p) \/ MarkStopping(p)
             \/ Kill(p) \/ Unkilled(p) \/ DropPid(p)
    BY <1>2, <2>0, <2>3, ServeOrder
  <2> QED
    BY <2>0, <2>1, <2>2, <2>3 DEF CheckHealth, Serve
<1>4. \A q \in Plugins \ {p} : Same(q) /\ Handle(q) /\ Wanted(q)
  BY <1>3 DEF Elsewhere, Good
<1>5. \A q \in Plugins \ {p} : Handle(q)' /\ Wanted(q)'
  BY <1>1, <1>4, Frame
<1> QED
  BY <1>3, <1>5

(* So does a request that arrives (server.c serves one at a time), ...      *)
LEMMA AskOrder ==
  ASSUME TypeOK, Stages, Good, NEW p \in Plugins, NEW c \in Calls, Ask(p, c), ~Meet(p)'
  PROVE  \A q \in Plugins : Handle(q)' /\ Wanted(q)'
<1>1. /\ phase = "running" /\ phase' = phase /\ at["http"][p] = "idle"
      /\ state' = state /\ pid' = pid /\ proc' = proc /\ born' = born
      /\ at' = [at EXCEPT !["http"][p] = c]
      /\ call' = [call EXCEPT ![p] = c]
      /\ wanted' = [wanted EXCEPT ![p] = IF c = "stop" THEN "down" ELSE "up"]
  BY DEF Ask, Free, handles
<1>2. /\ at'["http"][p] = c /\ \A q \in Plugins : at'["main"][q] = at["main"][q]
      /\ \A q \in Plugins \ {p} : at'["http"][q] = at["http"][q]
  BY <1>1 DEF TypeOK, Threads
<1>3. /\ call'[p] = c /\ wanted'[p] = IF c = "stop" THEN "down" ELSE "up"
      /\ \A q \in Plugins \ {p} : call'[q] = call[q] /\ wanted'[q] = wanted[q]
  BY <1>1 DEF TypeOK
<1>4. \A q \in Plugins : ProcessesOf(q)' = ProcessesOf(q)
  BY <1>1, ProcSame
<1>5. \A q \in Plugins \ {p} : Handle(q)' /\ Wanted(q)'
  <2>1. \A q \in Plugins \ {p} : Same(q)
    BY <1>1, <1>2, <1>3, <1>4 DEF Same, Threads
  <2> QED
    BY <1>1, <2>1, Frame DEF Good
<1>6. c \in {"start", "stop", "restart"} /\ Handle(p)
  BY DEF Calls, Good
<1>7. Handle(p)'
  BY <1>1, <1>2, <1>3, <1>4, <1>6
     DEF Handle, Up, Empty, Launched, Settled, Served, Launching, Starting
<1>8. at["main"][p] \in {"idle", "reap"}
  BY <1>2, <1>6 DEF Meet
<1>9. Wanted(p)'
  BY <1>2, <1>3, <1>6, <1>8 DEF Wanted, Starting
<1> QED
  BY <1>5, <1>7, <1>9

(* ... plugin_mgr_start_all and the entry of the main loop, ...             *)
LEMMA StartAllOrder ==
  ASSUME TypeOK, Stages, Good, (\E p \in Plugins : StartAll(p)) \/ EnterLoop
  PROVE  \A q \in Plugins : Handle(q)' /\ Wanted(q)'
<1>1. CASE EnterLoop
  <2>1. \A q \in Plugins : Same(q)
    BY <1>1, ProcSame DEF EnterLoop, Same, handles
  <2> QED
    BY <1>1, <2>1, Frame DEF Good, EnterLoop
<1>2. ASSUME NEW p \in Plugins, StartAll(p)
      PROVE  \A q \in Plugins : Handle(q)' /\ Wanted(q)'
  <2>1. /\ phase = "starting" /\ phase' = phase /\ at["main"][p] = "idle"
        /\ state[p] = "STOPPED" /\ at["http"][p] = "idle" /\ wanted[p] = "up"
        /\ state' = state /\ pid' = pid /\ proc' = proc /\ born' = born /\ wanted' = wanted
        /\ Goto("main", p, "start")
    BY <1>2 DEF StartAll, Free, Stages, handles, course
  <2>2. /\ at'["main"][p] = "start" /\ at'["http"][p] = "idle"
        /\ call' = call /\ ProcessesOf(p)' = ProcessesOf(p)
    BY <2>1, GotoMain, ProcSame
  <2>3. Elsewhere(p)
    BY <2>1, MainElsewhere, ProcSame
  <2>4. Handle(p)
    BY DEF Good
  <2>5. Handle(p)'
    BY <2>1, <2>2, <2>4
       DEF Handle, Up, Empty, Launched, Settled, Served, Launching, Starting, Threads
  <2>6. Wanted(p)'
    BY <2>1 DEF Wanted
  <2> QED
    BY <2>1, <2>3, <2>5, <2>6, Frame DEF Elsewhere, Good
<1> QED
  BY <1>1, <1>2

(* ... a process that ends, ...                                             *)
LEMMA DieOrder ==
  ASSUME TypeOK, Good, NEW p \in Plugins, NEW n \in Nth, Die(p, n)
  PROVE  \A q \in Plugins : Handle(q)' /\ Wanted(q)'
<1>1. \A q \in Plugins, m \in Nth : Unreaped(q, m)' <=> Unreaped(q, m)
  BY DEF Die, Unreaped, Alive, TypeOK
<1>2. \A q \in Plugins : Same(q)
  BY <1>1 DEF Die, Same, ProcessesOf, handles
<1> QED
  BY <1>2, Frame DEF Die, Good, course

(* ... and stop_all: SIGTERM to what is running (lines 424-445), ...        *)
LEMMA StopAllOrder ==
  ASSUME TypeOK, Good, StopAll
  PROVE  \A q \in Plugins : Handle(q)' /\ Wanted(q)'
<1> SUFFICES ASSUME NEW q \in Plugins PROVE Handle(q)' /\ Wanted(q)'
  OBVIOUS
<1>1. /\ at' = at /\ born' = born /\ call' = call /\ wanted' = wanted /\ phase' = "waiting"
      /\ at["main"][q] = "idle" /\ at["http"][q] = "idle"
  BY DEF StopAll, Free
<1>2. ProcessesOf(q)' = ProcessesOf(q)
  BY TerminateSame DEF StopAll
<1>3. Handle(q) /\ Wanted(q)
  BY DEF Good
<1>4. Up(q) \/ Empty(q)
  BY <1>1, <1>3 DEF Handle, Launching, Starting
<1>5. q \notin Lost
  BY <1>4 DEF Lost, Own, Running, Up, Empty
<1>6. pid'[q] = pid[q] /\ state'[q] = IF q \in Running THEN "STOPPING" ELSE state[q]
  BY <1>5 DEF StopAll
<1>7. q \in Running => state[q] = "RUNNING"
  BY DEF Running
<1>8. Handle(q)'
  BY <1>1, <1>2, <1>4, <1>6, <1>7
     DEF Handle, Up, Empty, Launched, Settled, Served, Launching, Starting, Threads
<1>9. Wanted(q)'
  BY <1>1, <1>3, <1>6, <1>7 DEF Wanted
<1> QED
  BY <1>8, <1>9

(* ... its wait and its SIGKILL (lines 447-467).                            *)
LEMMA ReapAllOrder ==
  ASSUME TypeOK, Stages, Good, phase \in {"waiting", "killing"},
         NEW P \in SUBSET Pending, ReapAll(P), phase' = "gone" => P = Pending
  PROVE  \A q \in Plugins : Handle(q)' /\ Wanted(q)'
<1> SUFFICES ASSUME NEW q \in Plugins PROVE Handle(q)' /\ Wanted(q)'
  OBVIOUS
<1>1. /\ at' = at /\ born' = born /\ call' = call /\ wanted' = wanted
      /\ at["main"][q] = "idle" /\ at["http"][q] = "idle"
  BY DEF ReapAll, Stages, Free
<1>2. Handle(q) /\ Wanted(q)
  BY DEF Good
<1>3. Up(q) \/ Empty(q)
  BY <1>1, <1>2 DEF Handle, Launching, Starting
<1>4. q \in Pending <=> pid[q] # 0
  BY <1>3, PidIsNat DEF Pending, Up, Empty
<1>5. CASE q \in P
  <2>1. state'[q] = "STOPPED" /\ pid'[q] = 0
    BY <1>5 DEF ReapAll
  <2>2. ProcessesOf(q) = {pid[q]}
    BY <1>3, <1>4, <1>5 DEF Empty, Up
  <2>3. \A n \in Nth : proc'[q][n] = IF n = pid[q] THEN "reaped" ELSE proc[q][n]
    BY <1>5 DEF ReapAll
  <2>4. \A n \in Nth : n \notin ProcessesOf(q)'
    BY <2>2, <2>3 DEF ProcessesOf, Unreaped, Alive
  <2>5. ProcessesOf(q)' = {}
    BY <2>4 DEF ProcessesOf
  <2>6. Handle(q)'
    BY <1>1, <2>1, <2>5
       DEF Handle, Up, Empty, Launched, Settled, Served, Launching, Starting, Threads
  <2> QED
    BY <1>1, <1>2, <2>1, <2>6 DEF Wanted
<1>6. CASE q \notin P
  <2>1. state'[q] = state[q] /\ pid'[q] = pid[q] /\ \A n \in Nth : proc'[q][n] = proc[q][n]
    BY <1>6 DEF ReapAll
  <2>2. ProcessesOf(q)' = ProcessesOf(q)
    BY <2>1 DEF ProcessesOf, Unreaped
  <2>3. phase' = "gone" => pid[q] = 0
    BY <1>4, <1>6
  <2>4. Handle(q)'
    BY <1>1, <1>3, <2>1, <2>2, <2>3
       DEF Handle, Up, Empty, Launched, Settled, Served, Launching, Starting, Threads
  <2> QED
    BY <1>1, <1>2, <2>1, <2>4 DEF Wanted
<1> QED
  BY <1>5, <1>6

(* Every step keeps every handle in order, unless the threads meet in one.  *)
LEMMA GoodStep ==
  ASSUME TypeOK, Stages, Good, Next, ~crossed'
  PROVE  Good'
<1> DEFINE Ordered == \A q \in Plugins : Handle(q)' /\ Wanted(q)'
<1>1. \A p \in Plugins : ~Meet(p)'
  BY DEF Next, Noted
<1>2. ASSUME NEW p \in Plugins, CheckHealth(p) \/ Serve(p) \/ Look(p)
      PROVE  Ordered
  BY <1>1, <1>2, CallOrder
<1>3. ASSUME NEW p \in Plugins, NEW c \in Calls, Ask(p, c)
      PROVE  Ordered
  BY <1>1, <1>3, AskOrder
<1>4. ASSUME (\E p \in Plugins : StartAll(p)) \/ EnterLoop PROVE Ordered
  BY <1>4, StartAllOrder
<1>5. ASSUME NEW p \in Plugins, NEW n \in Nth, Die(p, n)
      PROVE  Ordered
  BY <1>5, DieOrder
<1>6. ASSUME StopAll PROVE Ordered
  BY <1>6, StopAllOrder
<1>7. ASSUME Poll PROVE Ordered
  <2>1. PICK P \in SUBSET Pending : ReapAll(P)
    BY <1>7 DEF Poll
  <2>2. phase = "waiting" /\ phase' # "gone"
    BY <1>7 DEF Poll
  <2> QED
    BY <2>1, <2>2, ReapAllOrder
<1>8. ASSUME KillRest PROVE Ordered
  <2>1. phase = "killing" /\ ReapAll(Pending)
    BY <1>8 DEF KillRest, Killed
  <2> QED
    BY <2>1, ReapAllOrder
<1>9. Ordered
  BY <1>2, <1>3, <1>4, <1>5, <1>6, <1>7, <1>8 DEF Next, MainGoesOn, HttpGoesOn
<1> QED
  BY <1>1, <1>9 DEF Good

(* Nothing runs at first (plugin_mgr_scan, lines 307-323).                  *)
LEMMA OrderInit == Init => Orderly
<1> SUFFICES ASSUME Init, NEW p \in Plugins PROVE ~Meet(p) /\ Handle(p) /\ Wanted(p)
  BY DEF Orderly
<1>1. /\ state[p] = "STOPPED" /\ pid[p] = 0 /\ at["main"][p] = "idle" /\ at["http"][p] = "idle"
      /\ wanted[p] = "up" /\ phase = "starting"
  BY DEF Init, Threads
<1>2. ProcessesOf(p) = {}
  BY DEF Init, ProcessesOf, Unreaped, Alive
<1>3. Handle(p)
  BY <1>1, <1>2 DEF Handle, Empty, Launched, Settled, Served, Threads
<1> QED
  BY <1>1, <1>3 DEF Meet, Wanted

(* Inv is inductive: what the theorems below rest on.                       *)
LEMMA InvStep == Inv /\ [Next]_vars => Inv'
<1> SUFFICES ASSUME Inv, [Next]_vars PROVE Inv'
  OBVIOUS
<1>1. TypeOK' /\ Stages'
  BY TypeStep DEF Inv
<1>2. ASSUME Next, ~crossed' PROVE Good'
  BY <1>2, GoodStep DEF Inv, Orderly, Good, Next, Noted
<1>3. CASE Next
  BY <1>1, <1>2, <1>3 DEF Inv, Orderly, Good
<1>4. CASE UNCHANGED vars
  <2>1. \A q \in Plugins : Same(q)
    BY <1>4, ProcSame DEF vars, Same
  <2>2. \A q \in Plugins : (Handle(q) /\ Wanted(q)) => (Handle(q)' /\ Wanted(q)')
    BY <1>4, <2>1, Frame DEF vars
  <2>3. \A q \in Plugins : ~Meet(q) => ~Meet(q)'
    BY <1>4 DEF vars, Meet
  <2> QED
    BY <1>1, <1>4, <2>2, <2>3 DEF Inv, Orderly, vars
<1> QED
  BY <1>3, <1>4

(* Types and stages always; order in the handles until the two threads meet *)
(* in one.                                                                  *)
THEOREM Invariance == Spec => []Inv
<1>1. Init => Inv
  BY TypeInit, OrderInit DEF Inv
<1> QED
  BY <1>1, InvStep, PTL DEF Spec

-----------------------------------------------------------------------------
(* Types of the handles, of the process table and of the threads' lines,    *)
(* and the bound of stop_all's wait, whatever the two threads do to each    *)
(* other in the handles.                                                    *)
THEOREM TypeCorrect == Spec => []TypeOK
BY Invariance, PTL DEF Inv

(* As long as the two threads have not met in a handle, check_health, a     *)
(* request and stop_all wait for and signal a child of the plugin that was  *)
(* not waited for yet: never 0 and never an id that is gone (lines 416,     *)
(* 437-458, 606).                                                           *)
THEOREM HandlesAreSound == Spec => []PidIsOwnChild
<1>1. ASSUME Inv PROVE PidIsOwnChild
  <2> SUFFICES ASSUME ~crossed, NEW p \in Plugins, Addressed(p) PROVE Own(p)
    BY DEF PidIsOwnChild
  <2>1. ~Meet(p) /\ Handle(p) /\ Stages
    BY <1>1 DEF Inv, Orderly
  <2>2. CASE at["main"][p] = "reap"
    BY <2>1, <2>2 DEF Handle, Up, Own
  <2>3. CASE at["http"][p] = "kill"
    <3>1. at["main"][p] \in {"idle", "reap"} /\ state[p] = "STOPPING"
      BY <2>1, <2>3 DEF Meet, Handle, Served
    <3> QED
      BY <2>1, <2>3, <3>1 DEF Handle, Up, Empty, Own, Launching, Starting
  <2>4. CASE phase \in {"waiting", "killing"} /\ p \in Pending
    <3>1. at["main"][p] = "idle" /\ at["http"][p] = "idle" /\ pid[p] # 0
      BY <2>1, <2>4 DEF Stages, Free, Pending
    <3> QED
      BY <2>1, <3>1 DEF Handle, Up, Empty, Own, Launching, Starting
  <2> QED
    BY <2>2, <2>3, <2>4 DEF Addressed
<1> QED
  BY <1>1, Invariance, PTL

(* The one process of a handle in order.                                    *)
LEMMA OneAtMost ==
  ASSUME NEW p \in Plugins, ~Meet(p), Handle(p), at["main"][p] \in MainPoints
  PROVE  \E n : ProcessesOf(p) \subseteq {n}
<1>1. CASE at["main"][p] \in {"idle", "reap"} /\ at["http"][p] \notin Launching
  BY <1>1 DEF Handle, Up, Empty
<1>2. CASE at["http"][p] \in Launching
  BY <1>2 DEF Handle, Launched, Launching, Starting, Empty, Threads
<1>3. CASE at["main"][p] \in Starting \cup Settling
  BY <1>3 DEF Handle, Launched, Settled, Starting, Settling, Empty, Threads
<1> QED
  BY <1>1, <1>2, <1>3 DEF MainPoints

(* ... and a plugin has one process at most: start_plugin, called by        *)
(* check_health or by a request, forks only for a plugin whose process was  *)
(* waited for (lines 356-385, 606-636).                                     *)
THEOREM OneProcessEach == Spec => []OneProcess
<1>1. ASSUME Inv PROVE OneProcess
  <2> SUFFICES ASSUME ~crossed, NEW p \in Plugins, NEW m \in Nth, NEW n \in Nth,
                      {m, n} \subseteq ProcessesOf(p)
               PROVE  m = n
    BY DEF OneProcess
  <2>1. \E k : ProcessesOf(p) \subseteq {k}
    BY <1>1, OneAtMost DEF Inv, Orderly, Stages
  <2> QED
    BY <2>1
<1> QED
  BY <1>1, Invariance, PTL

(* ... and when stop_all has returned, every child was killed and waited    *)
(* for (lines 424-468; server.c:645).                                       *)
THEOREM ShutdownLeavesNone == Spec => []ApartAllWaited
<1>1. ASSUME Inv PROVE ApartAllWaited
  <2> SUFFICES ASSUME ~crossed, phase = "gone", NEW p \in Plugins PROVE ProcessesOf(p) = {}
    BY DEF ApartAllWaited, AllChildrenWaited
  <2>1. Handle(p) /\ at["main"][p] = "idle" /\ at["http"][p] = "idle"
    BY <1>1 DEF Inv, Orderly, Stages, Free
  <2> QED
    BY <2>1 DEF Handle, Up, Empty, Launching, Starting
<1> QED
  BY <1>1, Invariance, PTL

-----------------------------------------------------------------------------
(* Only start_plugin's fork makes a process (line 367).                     *)
LEMMA OnlyFork ==
  ASSUME TypeOK, Next, NEW p \in Plugins, NEW n \in Nth, Unreaped(p, n)', ~Unreaped(p, n)
  PROVE  \E t \in Threads : at[t][p] = "fork"
<1> SUFFICES ASSUME \A t \in Threads : at[t][p] # "fork" PROVE FALSE
  OBVIOUS
<1>1. ASSUME proc' = proc PROVE FALSE
  BY <1>1 DEF Unreaped
<1>2. ASSUME NEW S, proc' = Terminate(S) PROVE FALSE
  BY <1>2 DEF Terminate, Unreaped, Alive
<1>3. ASSUME NEW i \in Plugins \X Nth, proc' = [proc EXCEPT ![i[1]][i[2]] = "reaped"] PROVE FALSE
  BY <1>3 DEF Unreaped, Alive, TypeOK
<1>4. ASSUME NEW q \in Plugins, NEW m \in Nth, Die(q, m) PROVE FALSE
  BY <1>4 DEF Die, Unreaped, Alive, TypeOK
<1>5. ASSUME NEW P, ReapAll(P) PROVE FALSE
  BY <1>5 DEF ReapAll, Unreaped, Alive
<1>6. ASSUME NEW t \in Threads, NEW q \in Plugins, StartPlugin(t, q) PROVE FALSE
  <2>1. CASE Fork(t, q)
    <3>1. q # p /\ Forked(t, q)
      BY <1>1, <2>1 DEF Fork, NotForked
    <3>2. proc'[p] = proc[p]
      BY <3>1 DEF Forked, TypeOK
    <3> QED
      BY <3>2 DEF Unreaped
  <2> QED
    BY <1>1, <1>6, <2>1 DEF StartPlugin, IsRunning, Access, Record, Run
<1>7. ASSUME NEW q \in Plugins, CheckHealth(q) PROVE FALSE
  <2>1. CASE Reap(q)
    BY <1>1, <1>3, <2>1 DEF Reap, Ended
  <2> QED
    BY <1>1, <1>6, <1>7, <2>1 DEF CheckHealth, Sort, MarkStopped, ForgetPid, Threads
<1>8. ASSUME NEW q \in Plugins, Serve(q) PROVE FALSE
  BY <1>1, <1>2, <1>6, <1>8
     DEF Serve, Restart, Override, Stop, HasPid, MarkStopping, Kill, Unkilled, DropPid, Threads
<1>9. ASSUME MainGoesOn PROVE FALSE
  BY <1>1, <1>5, <1>7, <1>9 DEF MainGoesOn, StartAll, EnterLoop, Poll, KillRest
<1>10. ASSUME StopAll PROVE FALSE
  BY <1>2, <1>10 DEF StopAll
<1>11. ASSUME NEW q \in Plugins, Look(q) \/ \E c \in Calls : Ask(q, c) PROVE FALSE
  BY <1>1, <1>11 DEF Look, Ask
<1> QED
  BY <1>4, <1>8, <1>9, <1>10, <1>11 DEF Next, HttpGoesOn

(* Nothing forks a plugin whose last request was a stop, as long as the     *)
(* threads have not met: check_health settles it STOPPED, and stop_all      *)
(* starts nothing (lines 610-616, 424-468).                                 *)
THEOREM StopsAreHonoured == Spec => StopIsHonoured
<1> DEFINE Step == ~crossed' => \A p \in Plugins : wanted[p] = "down" /\ wanted'[p] = "down" =>
                                  ProcessesOf(p)' \subseteq ProcessesOf(p)
<1>1. ASSUME Inv, [Next]_vars PROVE Step \/ UNCHANGED vars
  <2> SUFFICES ASSUME Next, ~crossed', NEW p \in Plugins, wanted[p] = "down",
                      NEW n \in Nth, Unreaped(p, n)'
               PROVE  Unreaped(p, n)
    BY <1>1 DEF ProcessesOf
  <2>1. Wanted(p) /\ TypeOK
    BY <1>1 DEF Inv, Orderly, Next, Noted
  <2>2. \A t \in Threads : at[t][p] # "fork"
    BY <2>1 DEF Wanted, Starting, Threads
  <2> QED
    BY <2>1, <2>2, OnlyFork
<1>2. Inv /\ [Next]_vars => [Step]_vars
  BY <1>1
<1>3. Spec => [][Step]_vars
  BY <1>2, Invariance, PTL DEF Spec
<1> QED
  BY <1>3 DEF StopIsHonoured

(* A step forks p's n-th process, all earlier ones having been waited for.  *)
Forks(p, n) == ~Unreaped(p, n) /\ Unreaped(p, n)'
Succeeds == ~crossed' => \A p \in Plugins, n \in Nth : Forks(p, n) => ProcessesOf(p) = {}

(* Whatever forks a plugin, while the threads have not met in a handle, all *)
(* its earlier processes were waited for: a successor's life begins when    *)
(* its predecessor's is over (lines 606-636).                               *)
THEOREM SuccessorsWait == Spec => [][Succeeds]_vars
<1>1. ASSUME Inv, [Next]_vars PROVE Succeeds \/ UNCHANGED vars
  <2> SUFFICES ASSUME Next, ~crossed', NEW p \in Plugins, NEW n \in Nth, Forks(p, n)
               PROVE  ProcessesOf(p) = {}
    BY <1>1 DEF Succeeds
  <2>1. Handle(p) /\ TypeOK
    BY <1>1 DEF Inv, Orderly, Next, Noted
  <2>2. PICK t \in Threads : at[t][p] = "fork"
    BY <2>1, OnlyFork DEF Forks
  <2> QED
    BY <2>1, <2>2 DEF Handle, Launched, Threads
<1>2. Inv /\ [Next]_vars => [Succeeds]_vars
  BY <1>1
<1> QED
  BY <1>2, Invariance, PTL DEF Spec
=============================================================================
