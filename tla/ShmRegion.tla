----------------------------- MODULE ShmRegion -----------------------------
(***************************************************************************)
(* The life of one region file {run_dir}/{service}-{session_id}.ipcshm:    *)
(* ShmContext::server_create with its stale recovery, destroy, the startup *)
(* scan cleanup_stale that ManagedServer::run makes before it binds, and   *)
(* client_attach (transport/shm.rs).                                       *)
(*                                                                         *)
(* A server process numbers its sessions from 1 and never repeats one, so  *)
(* it creates this file at most once, and a region can be named after the  *)
(* process that made it.  A restarted server is another element of Servers *)
(* and counts from 1 again.  `file` is the entry in the directory; a region*)
(* that was unlinked lives on for those who mapped it.  Each system call is*)
(* a step and may fail for a reason of the environment.                    *)
(***************************************************************************)
EXTENDS Naturals

CONSTANTS
    Servers,      \* server processes, over time
    Clients       \* connections that a server answers with this session_id

\* A server is not one of the other things that can be at the path.
ASSUME ServersAssumption == {"none", "junk", "dir"} \cap Servers = {}

VARIABLES
    file, header, gen,
    pc, why,      \* where each server is; why its server_create failed
    reused,       \* dead servers whose pid another process has by now
    failed,       \* history: servers one of whose own system calls failed
    deceived,     \* history: was a server in service probed and the probe failed
    ack, mapped,  \* the server that answered a client; the region it mapped
    overlapped    \* history: were two servers ever starting or creating at once

vars == <<file, header, gen, pc, why, reused, failed, deceived, ack, mapped, overlapped>>
directory == <<file, header, gen>>
clientVars == <<ack, mapped>>

None == "none"
Foreign == {"junk", "dir"}

\* owner_generation is drawn from the clock; only zero is told apart.
Generations == {0, 1}

Scanning == {"list", "inspect", "sweep", "bind"}
Creating == {"open", "check", "reclaim", "reopen", "size", "header"}
Listening == {"ready", "serving", "idle"} \cup Creating
Places == {"off", "ended", "crashed"} \cup Scanning \cup Listening

Init ==
    /\ file \in Foreign \cup {None}
    /\ header = [p \in Servers |-> "empty"]
    /\ gen = [p \in Servers |-> 0]
    /\ pc = [p \in Servers |-> "off"]
    /\ why = [p \in Servers |-> "none"]
    /\ reused = {}
    /\ failed = {}
    /\ deceived = FALSE
    /\ ack = [c \in Clients |-> None]
    /\ mapped = [c \in Clients |-> None]
    /\ overlapped = FALSE

Goto(p, place) == pc' = [pc EXCEPT ![p] = place]

Busy(p) == pc[p] \in Scanning \cup Creating
Overlap == \E p, q \in Servers : p # q /\ Busy(p) /\ Busy(q)

\* How the system call of this step ended.
Works == UNCHANGED <<failed, deceived>>
Errs(p) == failed' = failed \cup {p} /\ UNCHANGED deceived

\* The process is there until it crashes, or exits after run() has returned.
Running(p) == pc[p] \notin {"off", "crashed"}

\* kill(pid, 0) knows a number, not a process.
PidAlive(p) == Running(p) \/ p \in reused

\* Mutant: a region with a generation is live, whoever owns it.
LooksLiveByGeneration ==
    file \in Servers /\ header[file] = "full" /\ gen[file] # 0

\* check_shm_stale and cleanup_stale: a complete header, a pid that answers
\* and a generation that is not zero.
LooksLive ==
    /\ file \in Servers
    /\ header[file] = "full"
    /\ PidAlive(file)
    /\ gen[file] # 0

\* The entry leads to the region of a session that is being served.
Served == file \in Servers /\ pc[file] = "serving"

\* Neither open nor mmap lets the check see the header, and no descriptor was
\* missing: whatever is there is taken for junk.
Unreadable(p) ==
    /\ failed' = failed \cup {p}
    /\ deceived' = (deceived \/ Served)

\* A failed server_create: the session falls back to the baseline profile.
Refuse(p, reason) ==
    /\ Goto(p, "idle")
    /\ why' = [why EXCEPT ![p] = reason]
    /\ UNCHANGED directory

\* unlink, or rmdir for a directory, which fails when something is in it.
Unlink == file' = IF file = "dir" THEN file ELSE None

\* The same with its result ignored.
TryUnlink(p) ==
    \/ Unlink /\ Works
    \/ UNCHANGED file /\ Errs(p)

-----------------------------------------------------------------------------
(* cleanup_stale: read_dir, inspect the entry, unlink it by name. *)

Run(p) ==
    /\ pc[p] = "off"
    /\ Goto(p, "list")
    /\ Works
    /\ UNCHANGED <<directory, why, reused, clientVars>>

List(p) ==
    /\ pc[p] = "list"
    /\ \/ Goto(p, IF file = None THEN "bind" ELSE "inspect") /\ Works
       \/ Goto(p, "bind") /\ Errs(p)
    /\ UNCHANGED <<directory, why, reused, clientVars>>

\* Mutant: the scan sweeps every entry that matches the pattern.
InspectSweepsAll(p) ==
    /\ pc[p] = "inspect"
    /\ Goto(p, "sweep")
    /\ Works
    /\ UNCHANGED <<directory, why, reused, clientVars>>

Inspect(p) ==
    /\ pc[p] = "inspect"
    /\ \/ Goto(p, IF LooksLive THEN "bind" ELSE "sweep") /\ Works
       \/ Goto(p, "bind") /\ Errs(p)      \* EMFILE/ENFILE: keep the entry
       \/ Goto(p, "sweep") /\ Unreadable(p)
    /\ UNCHANGED <<directory, why, reused, clientVars>>

Sweep(p) ==
    /\ pc[p] = "sweep"
    /\ TryUnlink(p)
    /\ Goto(p, "bind")
    /\ UNCHANGED <<header, gen, why, reused, clientVars>>

\* UdsListener::bind comes after the scan.  It fails while another server
\* listens, unless starts overlapped or its probe of that server's socket
\* failed (UdsEndpoint), and for any reason of its own.
BindListener(p) ==
    /\ pc[p] = "bind"
    /\ LET taken == \E q \in Servers \ {p} : pc[q] \in Listening
       IN  \/ taken /\ Goto(p, "ended") /\ Works
           \/ (overlapped \/ ~taken) /\ Goto(p, "ready") /\ Works
           \/ /\ taken /\ Goto(p, "ready")
              /\ failed' = failed \cup {p} /\ deceived' = TRUE
           \/ Goto(p, "ended") /\ Errs(p)
    /\ UNCHANGED <<directory, why, reused, clientVars>>

\* stop(): the process no longer listens; its session threads are joined.
Stop(p) ==
    /\ pc[p] \in {"ready", "idle"}
    /\ Goto(p, "ended")
    /\ Works
    /\ UNCHANGED <<directory, why, reused, clientVars>>

-----------------------------------------------------------------------------
(* server_create, called before the handshake of the session is accepted. *)

Create(p) ==
    /\ pc[p] = "ready"
    /\ Goto(p, "open")
    /\ Works
    /\ UNCHANGED <<directory, why, reused, clientVars>>

OpenExclusive(p) ==
    /\ file = None
    /\ file' = p
    /\ Goto(p, "size")
    /\ UNCHANGED <<header, gen, why>>

\* open() fails with another error than EEXIST.
CannotOpen(p) == Refuse(p, "notOpened") /\ Errs(p)

Open(p) ==
    /\ pc[p] = "open"
    /\ \/ OpenExclusive(p) /\ Works
       \/ file # None /\ Goto(p, "check") /\ Works /\ UNCHANGED <<directory, why>>
       \/ CannotOpen(p)
    /\ UNCHANGED <<reused, clientVars>>

\* stat, open, mmap and the header; the entry is gone when stat fails.
CheckStale(p) ==
    /\ pc[p] = "check"
    /\ \/ LooksLive /\ Refuse(p, "live") /\ Works
       \/ file # None /\ Refuse(p, "noDescriptor") /\ Errs(p)
       \/ /\ \/ /\ ~LooksLive
                /\ Goto(p, IF file = None THEN "reopen" ELSE "reclaim")
                /\ Works
             \/ Goto(p, "reopen") /\ Errs(p)
             \/ Goto(p, "reclaim") /\ Unreadable(p)
          /\ UNCHANGED <<directory, why>>
    /\ UNCHANGED <<reused, clientVars>>

Reclaim(p) ==
    /\ pc[p] = "reclaim"
    /\ \/ file = "dir" /\ Refuse(p, "notRemoved") /\ Works
       \/ /\ file # "dir"
          /\ Unlink /\ Works
          /\ Goto(p, "reopen")
          /\ UNCHANGED <<header, gen, why>>
       \/ Refuse(p, "notRemoved") /\ Errs(p)
    /\ UNCHANGED <<reused, clientVars>>

Reopen(p) ==
    /\ pc[p] = "reopen"
    /\ \/ OpenExclusive(p) /\ Works
       \/ file # None /\ Refuse(p, "raced") /\ Works
       \/ CannotOpen(p)
    /\ UNCHANGED <<reused, clientVars>>

\* ftruncate: the file has its size and is full of zeros.
Size(p) ==
    /\ pc[p] = "size"
    /\ header' = [header EXCEPT ![p] = "blank"]
    /\ Goto(p, "header")
    /\ Works
    /\ UNCHANGED <<file, gen, why, reused, clientVars>>

\* ftruncate or mmap fails: close and unlink by name, result ignored.
CannotMap(p) ==
    /\ pc[p] \in {"size", "header"}
    /\ Unlink \/ UNCHANGED file
    /\ Errs(p)
    /\ Goto(p, "idle")
    /\ why' = [why EXCEPT ![p] = "noMemory"]
    /\ UNCHANGED <<header, gen, reused, clientVars>>

\* Until its last field is written a header fails one of the checks (magic,
\* owner_pid 0, owner_generation 0, capacity 0), so it is written in one step.
WriteHeader(p) ==
    /\ pc[p] = "header"
    /\ header' = [header EXCEPT ![p] = "full"]
    /\ \E g \in Generations : gen' = [gen EXCEPT ![p] = g]
    /\ Goto(p, "serving")
    /\ Works
    /\ UNCHANGED <<file, why, reused, clientVars>>

\* The session ends, is rejected, or its handshake fails: unlink by name.
Destroy(p) ==
    /\ pc[p] = "serving"
    /\ TryUnlink(p)
    /\ Goto(p, "idle")
    /\ UNCHANGED <<header, gen, why, reused, clientVars>>

Crash(p) ==
    /\ Running(p)
    /\ Goto(p, "crashed")
    /\ Works
    /\ UNCHANGED <<directory, why, reused, clientVars>>

ReusePid(p) ==
    /\ pc[p] = "crashed"
    /\ p \notin reused
    /\ reused' = reused \cup {p}
    /\ Works
    /\ UNCHANGED <<directory, pc, why, clientVars>>

-----------------------------------------------------------------------------
(* The client: a hello-ack with the session_id, then client_attach by name. *)

HelloAck(c, p) ==
    /\ pc[p] = "serving"
    /\ ack[c] = None
    /\ \A d \in Clients : ack[d] # p
    /\ ack' = [ack EXCEPT ![c] = p]
    /\ Works
    /\ UNCHANGED <<directory, pc, why, reused, mapped>>

\* Mutant: attaches by name without waiting for the hello-ack.
AttachEarly(c) ==
    /\ mapped[c] = None
    /\ file \in Servers
    /\ header[file] = "full"
    /\ mapped' = [mapped EXCEPT ![c] = file]
    /\ Works
    /\ UNCHANGED <<directory, pc, why, reused, ack>>

\* A header that is not complete makes try_connect try again until its deadline.
Attach(c) ==
    /\ ack[c] # None
    /\ mapped[c] = None
    /\ file \in Servers
    /\ header[file] = "full"
    /\ mapped' = [mapped EXCEPT ![c] = file]
    /\ Works
    /\ UNCHANGED <<directory, pc, why, reused, ack>>

-----------------------------------------------------------------------------
Server(p) ==
    \/ Run(p) \/ List(p) \/ Inspect(p) \/ Sweep(p) \/ BindListener(p) \/ Stop(p)
    \/ Create(p) \/ Open(p) \/ CheckStale(p) \/ Reclaim(p) \/ Reopen(p)
    \/ Size(p) \/ CannotMap(p) \/ WriteHeader(p) \/ Destroy(p)
    \/ Crash(p) \/ ReusePid(p)

Client(c) == Attach(c) \/ \E p \in Servers : HelloAck(c, p)

Next ==
    /\ (\E p \in Servers : Server(p)) \/ (\E c \in Clients : Client(c))
    /\ overlapped' = (overlapped \/ Overlap')

Spec == Init /\ [][Next]_vars

-----------------------------------------------------------------------------
\* Every process is at a known place and fails only with an error that
\* server_create returns.
TypeOK ==
    /\ file \in Servers \cup Foreign \cup {None}
    /\ header \in [Servers -> {"empty", "blank", "full"}]
    /\ gen \in [Servers -> Generations]
    /\ pc \in [Servers -> Places]
    /\ why \in [Servers -> {"none", "live", "noDescriptor", "notRemoved", "raced",
                             "notOpened", "noMemory"}]
    /\ {reused, failed} \subseteq SUBSET Servers
    /\ deceived \in BOOLEAN
    /\ ack \in [Clients -> Servers \cup {None}]
    /\ mapped \in [Clients -> Servers \cup {None}]

\* The region of a session that is being served is the one its name leads to,
\* whatever crashes and whichever system calls fail, as long as servers start
\* and create one at a time and no probe of a server in service failed: an
\* open or mmap that fails, but for want of a descriptor, or a connect() that
\* fails makes the code remove a live server's endpoint.  Excepted too is the
\* generation zero that every check takes for a dead owner.  The variables keep
\* their types.
ServingIsReachable ==
    /\ TypeOK
    /\ ~overlapped /\ ~deceived =>
         \A p \in Servers : pc[p] = "serving" /\ gen[p] # 0 => file = p

\* Under the same conditions a client whose session is still served never maps
\* another server's region, whatever crashed, restarted and reused the
\* session_id in between.
MapsItsOwnRegion ==
    ~overlapped /\ ~deceived => \A c \in Clients :
        mapped[c] # None /\ ack[c] # None /\ pc[ack[c]] = "serving" => mapped[c] = ack[c]

\* A server_create none of whose process's own system calls failed is refused
\* for a region that is served, that its living owner could not remove, or
\* whose dead owner's pid another process has by now; for a directory that is
\* not empty; or for a server that created meanwhile.  Whatever else a crash
\* leaves behind, complete or half written, is reclaimed.  The pid is all the
\* check goes by: the generation in the header is compared with zero only, so
\* a reused pid keeps a dead region in place for as long as that process runs.
RefusalIsJustified ==
    [][\A p \in Servers : why'[p] # why[p] =>
          \/ p \in failed'
          \/ /\ why'[p] = "live" /\ file \in Servers
             /\ \/ pc[file] = "serving"
                \/ file \in failed /\ pc[file] # "crashed"
                \/ file \in reused
          \/ why'[p] = "notRemoved" /\ file = "dir"
          \/ why'[p] = "raced" /\ overlapped]_vars
=============================================================================
