--------------------------- MODULE ServerLifecycle ---------------------------
(***************************************************************************)
(* Processes of event-collector on one machine, one configuration and one  *)
(* port: what the commands of cli.py start and stop, and what they share,  *)
(* the ledger file whose tables each of them makes when it starts, the     *)
(* port, and the PID files by which "server stop" finds its server.        *)
(*                                                                         *)
(* A process is known by its PID, and the system gives the PID of a        *)
(* process that has ended to another one.  A command of the operator       *)
(* ("server start --background", "server stop") is a process of its own    *)
(* that ends with its last step; each is run once.                         *)
(***************************************************************************)
EXTENDS FiniteSets

CONSTANTS
    Pid,        \* process ids
    File,       \* PID files
    StartCmd,   \* runs of "server start --background"
    StopCmd,    \* runs of "server stop"
    NoFile,     \* no file of that name
    Empty,      \* a PID file that is truncated and not written yet
    Nobody,     \* no process
    Foreground, \* origin of a "server start" without --background
    Tool,       \* origin of "db init", "ingest file" and "events get"
    Stranger    \* origin of a process of another program

Cmd    == StartCmd \cup StopCmd
Origin == File \cup {Foreground, Tool, Stranger}

ASSUME ServerLifecycleAssumption ==
    /\ StartCmd \cap StopCmd = {}
    /\ Pid \cap {NoFile, Empty, Nobody} = {} /\ NoFile # Empty
    /\ File \cap {Foreground, Tool, Stranger} = {}
    /\ Foreground # Tool /\ Foreground # Stranger /\ Tool # Stranger

VARIABLES
    made,     \* tables that are in the ledger file
    pc,       \* pc[p]: where process p is
    missing,  \* missing[p]: tables that p did not find and has to make
    term,     \* servers that were told to exit and know it
    port,     \* who listens
    origin,   \* origin[p]: the PID file p was started with, or what p is
    pidFile,  \* pidFile[f]: content of f
    cpc,      \* cpc[c]: where command c is
    file,     \* file[c]: the PID file c is run with
    who,      \* who[c]: the process c has started or has read of
    linked,   \* start commands whose opened PID file still has its name
    (* History.                                                            *)
    cut,      \* a process was ended while it was making the tables
    exposed,  \* servers the operator lost track of: see Spawn, FindPidFile, CommandDies
    stale     \* PID files that may name another process: see the same and Ends

ledger   == <<made, missing, cut>>
process  == <<pc, term, port, origin>>
command  == <<pidFile, cpc, file, who, linked>>
vars     == <<ledger, process, command, exposed, stale>>

Table        == {"ingest_event", "ingest_attempt"}
Initializing == {"check_event", "check_attempt", "create", "index"}
HandlesTerm  == {"binding", "serving", "draining"}
Running      == Initializing \cup {"built", "working"} \cup HandlesTerm

TypeOK ==
    /\ made \subseteq Table
    /\ pc \in [Pid -> Running \cup {"none"}]
    /\ missing \in [Pid -> SUBSET Table]
    /\ term \subseteq Pid
    /\ port \in Pid \cup {Nobody}
    /\ origin \in [Pid -> Origin]
    /\ pidFile \in [File -> Pid \cup {NoFile, Empty}]
    /\ cpc \in [Cmd -> {"idle", "open", "write", "read", "kill", "unlink", "done"}]
    /\ file \in [Cmd -> File]
    /\ who \in [Cmd -> Pid \cup {Nobody}]
    /\ linked \subseteq StartCmd
    /\ cut \in BOOLEAN
    /\ exposed \subseteq Pid
    /\ stale \subseteq File

Init ==
    /\ made = {} /\ cut = FALSE /\ missing = [p \in Pid |-> {}]
    /\ pc = [p \in Pid |-> "none"] /\ term = {} /\ port = Nobody
    /\ origin = [p \in Pid |-> Stranger]
    /\ pidFile = [f \in File |-> NoFile]
    /\ cpc = [c \in Cmd |-> "idle"] /\ who = [c \in Cmd |-> Nobody] /\ linked = {}
    /\ file \in [Cmd -> File]
    /\ exposed = {} /\ stale = {}

-----------------------------------------------------------------------------
(* A process: initialize, then the command's own work.                     *)

Goto(p, label) == pc' = [pc EXCEPT ![p] = label]

(* A server that runs, was started with PID file f and was not told to exit.*)
Managed(p, f) == origin[p] = f /\ pc[p] # "none" /\ p \notin term

(* The process is gone: its listener is closed, and what it was is         *)
(* forgotten.                                                              *)
Gone(p) ==
    /\ Goto(p, "none")
    /\ port' = IF port = p THEN Nobody ELSE port
    /\ missing' = [missing EXCEPT ![p] = {}]
    /\ term' = term \ {p}
    /\ origin' = [origin EXCEPT ![p] = Stranger]
    /\ exposed' = exposed \ {p}

(* A server that goes without having been told to leaves its PID file.     *)
Ends(p) ==
    /\ Gone(p)
    /\ stale' = stale \cup {f \in File : Managed(p, f)}

(* A process begins with the PID of one that has ended.                    *)
Begins(p, from, label) ==
    /\ pc[p] = "none"
    /\ Goto(p, label)
    /\ origin' = [origin EXCEPT ![p] = from]

(* create_all makes the tables in the order of models.py.                  *)
First(tables) == IF "ingest_event" \in tables THEN "ingest_event" ELSE "ingest_attempt"

(* Variants of the steps below as a plausible bug would write them; each   *)
(* shows that a property notices.                                          *)

CreateTableIgnoringRace(p) ==   \* "already exists" is taken for: all is made
    /\ pc[p] = "create" /\ missing[p] # {}
    /\ IF First(missing[p]) \in made
       THEN missing' = [missing EXCEPT ![p] = {}] /\ UNCHANGED <<made, pc>>
       ELSE made' = made \cup {First(missing[p])} /\ Goto(p, "index") /\ UNCHANGED missing
    /\ UNCHANGED <<cut, term, port, origin, command, exposed, stale>>

CreateIndexAndLeave(p) ==   \* the first table is taken for the last
    /\ pc[p] = "index"
    /\ Ends(p)
    /\ UNCHANGED <<made, cut, command>>

(* create_all first asks for every table, one query each ...               *)
CheckTable(p, from, table, to) ==
    /\ pc[p] = from
    /\ missing' = [missing EXCEPT ![p] = @ \cup ({table} \ made)]
    /\ Goto(p, to)
    /\ UNCHANGED <<made, cut, term, port, origin, command, exposed, stale>>

(* ... and then makes those it did not find.  Every statement commits by   *)
(* itself.  A table that another process made meanwhile is an error that   *)
(* nothing catches.                                                        *)
CreateTable(p) ==
    /\ pc[p] = "create" /\ missing[p] # {}
    /\ IF First(missing[p]) \in made
       THEN Ends(p) /\ UNCHANGED made
       ELSE /\ made' = made \cup {First(missing[p])}
            /\ Goto(p, "index")
            /\ UNCHANGED <<missing, term, port, origin, exposed, stale>>
    /\ UNCHANGED <<cut, command>>

(* The index of the table just made; nothing depends on it.                *)
CreateIndex(p) ==
    /\ pc[p] = "index"
    /\ missing' = [missing EXCEPT ![p] = @ \ {First(@)}]
    /\ Goto(p, "create")
    /\ UNCHANGED <<made, cut, term, port, origin, command, exposed, stale>>

Initialized(p) ==
    /\ pc[p] = "create" /\ missing[p] = {}
    /\ Goto(p, IF origin[p] = Tool THEN "working" ELSE "built")
    /\ UNCHANGED <<ledger, term, port, origin, command, exposed, stale>>

initialize(p) ==
    \/ CheckTable(p, "check_event", "ingest_event", "check_attempt")
    \/ CheckTable(p, "check_attempt", "ingest_attempt", "create")
    \/ CreateTable(p) \/ CreateIndex(p) \/ Initialized(p)

(* Server.run: the signal handlers are installed, then the port is bound;  *)
(* a port that is taken ends the process.                                  *)
InstallHandlers(p) ==
    /\ pc[p] = "built"
    /\ Goto(p, "binding")
    /\ UNCHANGED <<ledger, term, port, origin, command, exposed, stale>>

Bind(p) ==
    /\ pc[p] = "binding"
    /\ IF port = Nobody
       THEN port' = p /\ Goto(p, "serving") /\ UNCHANGED <<missing, term, origin, exposed, stale>>
       ELSE Ends(p)
    /\ UNCHANGED <<made, cut, command>>

(* A server that was told to exit closes its listener first, and ends when *)
(* the requests in progress are over.                                      *)
Close(p) ==
    /\ pc[p] = "serving" /\ p \in term
    /\ port' = Nobody
    /\ Goto(p, "draining")
    /\ UNCHANGED <<ledger, term, origin, command, exposed, stale>>

Finish(p) ==
    /\ pc[p] \in {"draining", "working"}
    /\ Ends(p)
    /\ UNCHANGED <<made, cut, command>>

(* A process may end at any point: killed, out of memory, a locked ledger. *)
Dies(p) ==
    /\ pc[p] # "none"
    /\ Ends(p)
    /\ cut' = (cut \/ pc[p] \in Initializing)
    /\ UNCHANGED <<made, command>>

(* SIGTERM or an interrupt: handle_exit notes it; a process that has not   *)
(* installed the handler yet, or is no server, ends at once.               *)
Signalled(p) ==
    IF pc[p] \in HandlesTerm
    THEN term' = term \cup {p} /\ UNCHANGED <<pc, port, missing, origin, exposed, cut>>
    ELSE Gone(p) /\ cut' = (cut \/ pc[p] \in Initializing)

(* The operator ends a server in the foreground from its terminal.         *)
Interrupt(p) ==
    /\ pc[p] # "none" /\ origin[p] = Foreground
    /\ Signalled(p)
    /\ UNCHANGED <<made, command, stale>>

(* A server in the foreground, a command that opens the ledger itself, or  *)
(* any other program's process.                                            *)
Launch(p) ==
    /\ \/ \E from \in {Foreground, Tool} : Begins(p, from, "check_event")
       \/ Begins(p, Stranger, "working")
    /\ UNCHANGED <<ledger, term, port, command, exposed, stale>>

-----------------------------------------------------------------------------
(* The commands.                                                           *)

Step(c, from, to) == cpc[c] = from /\ cpc' = [cpc EXCEPT ![c] = to]

(* The command has ended, whatever step it was to take next.               *)
Done(c) ==
    /\ cpc' = [cpc EXCEPT ![c] = "done"]
    /\ who' = [who EXCEPT ![c] = Nobody]
    /\ linked' = linked \ {c}

(* Variants as a plausible bug would write them.                           *)

UnlinkNothing(c) ==   \* stop leaves the PID file
    /\ cpc[c] = "unlink"
    /\ Done(c)
    /\ UNCHANGED <<ledger, process, pidFile, file, exposed, stale>>

OpenPidFileUnlessThere(c) ==   \* an existing PID file is kept as it is
    /\ cpc[c] = "open"
    /\ cpc' = [cpc EXCEPT ![c] = "write"]
    /\ IF pidFile[file[c]] = NoFile
       THEN pidFile' = [pidFile EXCEPT ![file[c]] = Empty] /\ linked' = linked \cup {c}
       ELSE UNCHANGED <<pidFile, linked>>
    /\ UNCHANGED <<ledger, process, file, who, exposed, stale>>

Busy(c)   == cpc[c] \notin {"idle", "done"}
BusyOn(f) == {c \in Cmd : Busy(c) /\ file[c] = f}

(* server start --background: Popen, then the PID file is opened, which    *)
(* truncates it, then written.  Nothing looks at what f held before, and   *)
(* nothing waits for the server.  History: a server that is running with f *)
(* is lost sight of, and the new one as well if another command is at f;   *)
(* if none is, what f named before no longer matters.                      *)
Spawn(c, p) ==
    /\ c \in StartCmd /\ Step(c, "idle", "open")
    /\ Begins(p, file[c], "check_event")
    /\ who' = [who EXCEPT ![c] = p]
    /\ exposed' = exposed \cup {q \in Pid : Managed(q, file[c])}
                     \cup (IF BusyOn(file[c]) = {} THEN {} ELSE {p})
    /\ stale' = IF BusyOn(file[c]) = {} THEN stale \ {file[c]} ELSE stale \cup {file[c]}
    /\ UNCHANGED <<ledger, term, port, pidFile, file, linked>>

OpenPidFile(c) ==
    /\ Step(c, "open", "write")
    /\ pidFile' = [pidFile EXCEPT ![file[c]] = Empty]
    /\ linked' = linked \cup {c}
    /\ UNCHANGED <<ledger, process, file, who, exposed, stale>>

(* If the file has been unlinked since, the PID goes where nobody sees it. *)
WritePid(c) ==
    /\ cpc[c] = "write"
    /\ pidFile' = IF c \in linked THEN [pidFile EXCEPT ![file[c]] = who[c]] ELSE pidFile
    /\ Done(c)
    /\ UNCHANGED <<ledger, process, file, exposed, stale>>

(* server stop: without a PID file it fails and changes nothing.  History: *)
(* a start that is not done yet may have its PID file taken away.          *)
FindPidFile(c) ==
    /\ c \in StopCmd /\ Step(c, "idle", "read")
    /\ pidFile[file[c]] # NoFile
    /\ exposed' = exposed \cup
          (IF BusyOn(file[c]) \cap StartCmd = {} THEN {} ELSE {q \in Pid : Managed(q, file[c])})
    /\ stale' = stale \cup (IF BusyOn(file[c]) = {} THEN {} ELSE {file[c]})
    /\ UNCHANGED <<ledger, process, pidFile, file, who, linked>>

(* A file that is gone or empty by now fails the command.                  *)
ReadPid(c) ==
    /\ cpc[c] = "read"
    /\ IF pidFile[file[c]] \in Pid
       THEN /\ Step(c, "read", "kill")
            /\ who' = [who EXCEPT ![c] = pidFile[file[c]]]
            /\ UNCHANGED linked
       ELSE Done(c)
    /\ UNCHANGED <<ledger, process, pidFile, file, exposed, stale>>

(* os.kill: no such process fails the command, and the PID file stays.     *)
(* History: another PID file may have named the process that is told.      *)
Kill(c) ==
    /\ cpc[c] = "kill"
    /\ IF pc[who[c]] = "none"
       THEN Done(c) /\ UNCHANGED <<process, missing, cut, exposed, stale>>
       ELSE /\ Step(c, "kill", "unlink")
            /\ Signalled(who[c])
            /\ stale' = stale \cup ({origin[who[c]]} \cap (File \ {file[c]}))
            /\ UNCHANGED <<who, linked>>
    /\ UNCHANGED <<made, pidFile, file>>

Unlink(c) ==
    /\ Step(c, "unlink", "done")
    /\ pidFile' = [pidFile EXCEPT ![file[c]] = NoFile]
    /\ who' = [who EXCEPT ![c] = Nobody]
    /\ linked' = {s \in linked : file[s] # file[c]}
    /\ UNCHANGED <<ledger, process, file, exposed, stale>>

(* The command itself is ended between two of its steps.                   *)
CommandDies(c) ==
    /\ Busy(c)
    /\ Done(c)
    /\ exposed' = exposed \cup
          (IF c \in StartCmd THEN {q \in {who[c]} : Managed(q, file[c])} ELSE {})
    /\ stale' = stale \cup {file[c]}
    /\ UNCHANGED <<ledger, process, pidFile, file>>

Next ==
    \/ \E p \in Pid :
          \/ Launch(p) \/ initialize(p) \/ InstallHandlers(p) \/ Bind(p)
          \/ Close(p) \/ Finish(p) \/ Dies(p) \/ Interrupt(p)
    \/ \E c \in Cmd :
          \/ \E p \in Pid : Spawn(c, p)
          \/ OpenPidFile(c) \/ WritePid(c) \/ FindPidFile(c) \/ ReadPid(c)
          \/ Kill(c) \/ Unlink(c) \/ CommandDies(c)

Spec == Init /\ [][Next]_vars

-----------------------------------------------------------------------------
(* Properties.                                                             *)

(* SQLiteLedger.is_ready                                                   *)
is_ready == Table \subseteq made

(* Whoever gets past initialize finds both tables, in whatever order       *)
(* several processes have looked for and made them and whichever of them   *)
(* ended half way: no request meets a ledger that is not ready.            *)
ServingHasTables ==
    \A p \in Pid :
        \/ pc[p] \in HandlesTerm \cup {"built"}
        \/ pc[p] = "working" /\ origin[p] = Tool
        => is_ready

(* Processes that start together may fail of each other, but never all of  *)
(* them: unless one was ended from outside, a ledger that has one of its   *)
(* tables has them both, or a process that is about to make the other.     *)
HalfMadeLedgerIsFinished ==
    Table \cap made # {} /\ ~cut =>
        \A t \in Table \ made : \E p \in Pid : pc[p] \in {"create", "index"} /\ t \in missing[p]

(* A server that was started in the background can be stopped: its PID     *)
(* file names it from when the start command is done until the server is   *)
(* told to exit.  The only ways to lose sight of it are those of           *)
(* "exposed": a second start with the same PID file while it runs, a start *)
(* or stop with that file during its start, and a start that is cut off.   *)
PidFileNamesServer ==
    \A p \in Pid, f \in File :
        Managed(p, f) /\ p \notin exposed
            => \/ pidFile[f] = p
               \/ \E c \in StartCmd : Busy(c) /\ who[c] = p /\ file[c] = f

(* A stop tells a process to exit that is not a server started with its    *)
(* PID file only if the file was left by a server that ended by itself or  *)
(* was stopped through another file, or commands met at the file or were   *)
(* cut off; never after an orderly start and stop.                         *)
StopHitsItsServer ==
    [][\A c \in StopCmd :
          cpc[c] = "kill" /\ cpc'[c] = "unlink" /\ origin[who[c]] # file[c]
              => file[c] \in stale]_vars
=============================================================================
