------------------------------- MODULE Startup -------------------------------
(***************************************************************************)
(* The start of the four modules, after which they talk as Sockets says.   *)
(* Each of their threads goes through a script: it starts a server and     *)
(* waits for its one client, or it is a client, and a client whose server  *)
(* does not listen yet ends its module.  The modules are launched in any   *)
(* order and at any time; the usleep between the connections of the kernel *)
(* is time, which the model does not have.                                 *)
(***************************************************************************)
EXTENDS Sockets

VARIABLES
  step,       \* where in its script each thread is; 0 until it exists
  listening,  \* the servers, of ip.config, that listen
  connected,  \* those somebody has connected to
  exited      \* the modules that found no server where they connected

startup   == <<step, listening, connected, exited>>
systemvars == <<vars, startup>>

Listen(server)  == [do |-> "listen", server |-> server]
Accept(server)  == [do |-> "accept", server |-> server]
Connect(server) == [do |-> "connect", server |-> server]
Create(thread)  == [do |-> "create", thread |-> thread]
SendMemdata     == [do |-> "send_memdata"]
RecvMemdata     == [do |-> "recv_memdata"]

Serve(server) == <<Listen(server), Accept(server)>>

(* Mutant: the thread of the TLB is the last client memoria waits for.     *)
MemoriaScriptTlbLast ==
  Serve("MEMORIA_CPU") \o Serve("MEMORIA_KERNEL")
    \o Serve("MEMORIA_KERNEL_PAGE_FAULT") \o Serve("MEMORIA_CPU_TLB")
    \o <<Create("handle_cpu")>>

MemoriaScript ==
  Serve("MEMORIA_CPU") \o Serve("MEMORIA_CPU_TLB") \o Serve("MEMORIA_KERNEL")
    \o Serve("MEMORIA_KERNEL_PAGE_FAULT") \o <<Create("handle_cpu")>>

HandleCpuScript == <<SendMemdata>>

CpuScript ==
  <<Connect("MEMORIA_CPU"), Create("start_interrupt"), Create("consistency_check")>>
    \o Serve("CPU_DISPATCH") \o <<RecvMemdata>>

InterruptScript == Serve("CPU_INTERRUPT")
ConsistencyScript == <<Connect("MEMORIA_CPU_TLB")>>

KernelScript ==
  <<Connect("CPU_INTERRUPT"), Connect("CPU_DISPATCH"), Connect("MEMORIA_KERNEL"),
    Connect("MEMORIA_KERNEL_PAGE_FAULT"), Listen("KERNEL")>>

Script == [
  memoria           |-> MemoriaScript,
  handle_cpu        |-> HandleCpuScript,
  cpu               |-> CpuScript,
  start_interrupt   |-> InterruptScript,
  consistency_check |-> ConsistencyScript,
  kernel            |-> KernelScript]
Threads == DOMAIN Script
Modules == {"memoria", "cpu", "kernel"}
ModuleOf(t) ==
  IF t \in {"cpu", "start_interrupt", "consistency_check"} THEN "cpu"
  ELSE IF t = "kernel" THEN "kernel" ELSE "memoria"
Listens(t) ==
  {Script[t][i].server : i \in {j \in DOMAIN Script[t] : Script[t][j].do = "listen"}}
ServersOf(m) == UNION {Listens(t) : t \in {u \in Threads : ModuleOf(u) = m}}

SystemInit ==
  /\ Init
  /\ step = [t \in Threads |-> 0]
  /\ listening = {} /\ connected = {} /\ exited = {}

-----------------------------------------------------------------------------
(* main of a module.                                                       *)
Launch(m) ==
  /\ step[m] = 0
  /\ step' = [step EXCEPT ![m] = 1]
  /\ UNCHANGED <<vars, listening, connected, exited>>

Current(t) == Script[t][step[t]]
Does(t, what) ==
  /\ ModuleOf(t) \notin exited
  /\ step[t] \in DOMAIN Script[t] /\ Current(t).do = what
Advance(t) == step' = [step EXCEPT ![t] = @ + 1]
Begun(t) == step[t] = Len(Script[t]) + 1

(* start_server_module: socket, bind and listen                            *)
StartServer(t) ==
  /\ Does(t, "listen")
  /\ listening' = listening \cup {Current(t).server}
  /\ Advance(t)
  /\ UNCHANGED <<vars, connected, exited>>

AcceptClient(t) ==
  /\ Does(t, "accept") /\ Current(t).server \in connected
  /\ Advance(t)
  /\ UNCHANGED <<vars, listening, connected, exited>>

(* start_client_module: connect succeeds as soon as the server listens,    *)
(* accepted or not.                                                        *)
StartClient(t) ==
  /\ Does(t, "connect") /\ Current(t).server \in listening
  /\ connected' = connected \cup {Current(t).server}
  /\ Advance(t)
  /\ UNCHANGED <<vars, listening, exited>>

(* "No se puede establecer conexion con el modulo"                         *)
StartClientFails(t) ==
  /\ Does(t, "connect") /\ Current(t).server \notin listening
  /\ exited' = exited \cup {ModuleOf(t)}
  /\ listening' = listening \ ServersOf(ModuleOf(t))
  /\ kernel' = IF t = "kernel" THEN "down" ELSE kernel
  /\ UNCHANGED <<step, connected, consolas, backlog, main, process_count, sched, queues,
                 dispatch, memoria, left>>

CreateThread(t) ==
  /\ Does(t, "create")
  /\ step' = [step EXCEPT ![t] = @ + 1, ![Current(t).thread] = 1]
  /\ UNCHANGED <<vars, listening, connected, exited>>

(* send_memdata, and the two recv_int of the CPU                           *)
Handshake(t) ==
  /\ Does(t, "send_memdata") \/ (Does(t, "recv_memdata") /\ Begun("handle_cpu"))
  /\ Advance(t)
  /\ UNCHANGED <<vars, listening, connected, exited>>

Starts(t) ==
  \/ StartServer(t)
  \/ AcceptClient(t)
  \/ StartClient(t)
  \/ StartClientFails(t)
  \/ CreateThread(t)
  \/ Handshake(t)

-----------------------------------------------------------------------------
(* What Sockets says, once a module has begun.                             *)
KernelListens == "KERNEL" \in listening /\ kernel = "up"

ConsolaConnects(c) == KernelListens /\ ConsolaStart(c) /\ UNCHANGED startup

(* Its program does not matter: the console exits.                         *)
ConsolaFails(c) ==
  /\ ~ KernelListens
  /\ consola[c] = "start"
  /\ consola' = [consola EXCEPT ![c] = "failed"]
  /\ UNCHANGED <<kernel, to_kernel, to_consola, backlog, main, process_count, sched, queues,
                 dispatch, memoria, left, startup>>

Consola(c) == (ConsolaCycle(c) \/ HandleIo(c)) /\ UNCHANGED startup
MemoriaServes == Begun("memoria") /\ MemoriaMain /\ UNCHANGED startup
CpuRuns == Begun("cpu") /\ CpuBurst /\ UNCHANGED startup
KernelMain == Begun("kernel") /\ Main /\ UNCHANGED startup
KernelScheduller == Begun("kernel") /\ Schedulling /\ UNCHANGED startup
KernelPageFault == Begun("kernel") /\ HandlePageFault /\ UNCHANGED startup

SystemNext ==
  \/ \E m \in Modules : Launch(m)
  \/ \E t \in Threads : Starts(t)
  \/ \E c \in Consolas : ConsolaConnects(c) \/ ConsolaFails(c) \/ Consola(c)
  \/ MemoriaServes
  \/ CpuRuns
  \/ KernelMain
  \/ KernelScheduller
  \/ KernelPageFault

SystemSpec == SystemInit /\ [][SystemNext]_systemvars

(* Every thread of a module that was launched runs.  The starts are one    *)
(* formula: the scripts end, so none is put off for ever by the others.    *)
SystemFairSpec ==
  /\ SystemSpec
  /\ WF_systemvars(\E t \in Threads : Starts(t))
  /\ \A c \in Consolas : WF_systemvars(ConsolaCycle(c) /\ UNCHANGED startup)
                         /\ WF_systemvars(HandleIo(c) /\ UNCHANGED startup)
  /\ WF_systemvars(MemoriaServes)
  /\ WF_systemvars(CpuRuns)
  /\ WF_systemvars(KernelMain)
  /\ WF_systemvars(KernelScheduller)
  /\ WF_systemvars(KernelPageFault)
-----------------------------------------------------------------------------
(* Properties.                                                             *)

(* A kernel that listens for consoles has a whole system behind it: no     *)
(* module has exited, none will for want of a server, and each connection  *)
(* is made or is waiting to be accepted.  Nothing but the order of the     *)
(* calls in four threads of three programs sees to that.                   *)
NobodyMissing ==
  "KERNEL" \in listening =>
    /\ exited = {}
    /\ ServersOf("memoria") \cup ServersOf("cpu") \subseteq connected
=============================================================================
