----------------------------- MODULE Lifecycle ------------------------------
(* The life of dnrd processes that share a pid file: main() of main.c with  *)
(* kill_current(), wait_for_exit() and cleanexit() of common.c, the handler *)
(* of sig.c, and of run() in relay.c the part signals reach.  Processes are *)
(* interleaved with each other, with other programs that get the pids, and  *)
(* with an administrator who sends signals; any of them may crash.          *)
EXTENDS Options

CONSTANTS
    Pids,           \* the process ids
    Inodes,         \* the files that have been at pid_file
    Commands,       \* the command lines dnrd is started with
    Uids,           \* who starts it
    Nothing         \* no file, no pid, no command

ASSUME LifecycleAssumption ==
    /\ Nothing \notin Pids /\ Nothing \notin Inodes /\ Nothing \notin Commands
    /\ Uids \subseteq {"root", "user"}
    /\ Commands \subseteq Seq(Option)

VARIABLES
    proc,   \* the processes
    named,  \* the file that is at pid_file
    content,\* the pid written in it
    raced   \* history: 1 once starts of root overlapped, or one gave up waiting

vars == <<proc, named, content, raced>>

Deadly == {"TERM", "INT"}   \* SIGTERM, SIGINT; SIGQUIT is like these
Signals == Deadly \cup {"HUP"}

(* Where a process stands.  "other" is a program that is not dnrd.          *)
Starting == {"stat", "open", "wait", "unlink", "create", "init", "fork", "write"}
Places == Starting \cup {"none", "other", "parse", "run", "select", "maintain", "cleanexit", "closing"}

Proc == [pc : Places,
         cmd : Commands \cup {Nothing},
         uid : Uids \cup {"root"},
         pid : Pids \cup {Nothing},         \* what kill_current() read
         filep : Inodes \cup {Nothing},     \* the pid file it has open
         dnrd_sem : {"unset", "free", "taken"},
         pending : SUBSET Signals,
         handling : SUBSET Deadly,          \* deadly signals whose handler has begun
         master_reload : {0, 1}]

NoProc == [pc |-> "none", cmd |-> Nothing, uid |-> "root", pid |-> Nothing, filep |-> Nothing,
           dnrd_sem |-> "unset", pending |-> {}, handling |-> {}, master_reload |-> 0]

TypeOK ==
    /\ proc \in [Pids -> Proc]
    /\ named \in Inodes \cup {Nothing}
    /\ content \in Pids \cup {Nothing}
    /\ raced \in {0, 1}

\* the globals, as parse_args() leaves them for each command line
Parsed == [c \in Commands |-> parse_args(c)]

Global(p) == Parsed[proc[p].cmd]

isrunning(p) == p \in Pids /\ proc[p].pc # "none"

\* init_sig_handler() was called: until then a signal kills
Armed(p) == proc[p].pc \in {"select", "maintain"} \/ proc[p].handling # {}

\* A daemon: its pid is written, and it has not ended.
Serving(p) == proc[p].pc = "run" \/ Armed(p)

\* between its look at the pid file and the writing of its own pid
Critical(p) == proc[p].uid = "root" /\ proc[p].pc \in Starting \ {"stat"}

Goto(p, place) == proc' = [proc EXCEPT ![p].pc = place]
Ended(p) == [proc EXCEPT ![p] = NoProc]
Exit(p) == proc' = Ended(p)

(* The processes after signal s was sent to q.  A SIGHUP taken within the   *)
(* handler of a deadly signal sets a flag that nobody reads again.          *)
kill(q, s) ==
    IF ~isrunning(q) THEN proc
    ELSE IF proc[q].handling # {} /\ s = "HUP" THEN proc
    ELSE IF Armed(q) THEN [proc EXCEPT ![q].pending = @ \cup {s}]
    ELSE Ended(q)

\* the message, and then cleanexit()
log_err_exit(p) == Goto(p, "cleanexit")

---------------------------------------------------------------------------
(* The surroundings *)

Start(p) ==
    /\ proc[p].pc = "none"
    /\ \E c \in Commands, u \in Uids :
        proc' = [proc EXCEPT ![p] = [NoProc EXCEPT !.pc = "parse", !.cmd = c, !.uid = u]]
    /\ UNCHANGED <<named, content, raced>>

OtherProgram(p) ==
    /\ \/ proc[p].pc = "none" /\ Goto(p, "other")
       \/ proc[p].pc = "other" /\ Exit(p)
    /\ UNCHANGED <<named, content, raced>>

(* Also a signal before the handlers are installed, Ctrl-C for one.         *)
Crash(p) ==
    /\ proc[p].pc \notin {"none", "other"} /\ Exit(p)
    /\ UNCHANGED <<named, content, raced>>

Signal(p) ==
    /\ Armed(p)
    /\ \E s \in Signals : proc' = kill(p, s)
    /\ UNCHANGED <<named, content, raced>>

---------------------------------------------------------------------------
(* main() up to the pid file *)

ParseArgs(p) ==
    /\ proc[p].pc = "parse"
    /\ IF Global(p).verdict \in {"start", "kill"} THEN Goto(p, "stat") ELSE Exit(p)
    /\ UNCHANGED <<named, content, raced>>

(* The end of kill_current(): -k exits, a start opens the file to write.    *)
KillReturns(p) ==
    IF Global(p).verdict = "kill" THEN Exit(p)
    ELSE proc' = [proc EXCEPT ![p].pc = "create", ![p].pid = Nothing]

StatPidFile(p) ==
    /\ proc[p].pc = "stat"
    /\ IF named = Nothing THEN KillReturns(p) ELSE Goto(p, "open")
    /\ raced' = IF proc[p].uid = "root" /\ \E q \in Pids \ {p} : Critical(q) THEN 1 ELSE raced
    /\ UNCHANGED <<named, content>>

(* fopen(), fscanf() and kill().  The file may be gone since stat(), and it *)
(* is empty from a start's fopen() to the end of its main().                *)
KillRunning(p) ==
    LET q == content
        may == q \in Pids /\ (proc[p].uid = "root" \/ proc[q].uid = "user")
    IN
    /\ proc[p].pc = "open"
    /\ \/ named = Nothing /\ Exit(p)
       \/ named # Nothing /\ q = Nothing /\ Goto(p, "unlink")
       \/ named # Nothing /\ q = p /\ Exit(p)
       \/ /\ named # Nothing /\ q \notin {p, Nothing}
          /\ proc' = [(IF may THEN kill(q, "TERM") ELSE proc) EXCEPT
                        ![p].pc = "wait", ![p].pid = q]
    /\ UNCHANGED <<named, content, raced>>

\* Mutant of GiveUp: wait_for_exit() without its timeout.
NeverGiveUp(p) == FALSE

(* wait_for_exit() after its 4 seconds.                                     *)
GiveUp(p) ==
    /\ isrunning(proc[p].pid)
    /\ raced' = IF proc[p].uid = "root" /\ Serving(proc[p].pid) THEN 1 ELSE raced

\* Mutant of wait_for_exit: the running daemon is not waited for.
DontWait(p) ==
    proc[p].pc = "wait" /\ Goto(p, "unlink") /\ UNCHANGED <<named, content, raced>>

wait_for_exit(p) ==
    /\ proc[p].pc = "wait"
    /\ \/ ~isrunning(proc[p].pid) /\ UNCHANGED raced
       \/ GiveUp(p)
    /\ Goto(p, "unlink")
    /\ UNCHANGED <<named, content>>

(* Only root may write to the directory of the pid file.                    *)
Unlink(p) ==
    /\ proc[p].pc = "unlink"
    /\ IF proc[p].uid = "root" THEN named' = Nothing /\ content' = Nothing
       ELSE UNCHANGED <<named, content>>
    /\ KillReturns(p)
    /\ UNCHANGED raced

(* fopen() to write: a new file, or the one there is, emptied.  What is     *)
(* written to a file that was unlinked since is read by nobody.             *)
CreatePidFile(p) ==
    /\ proc[p].pc = "create"
    /\ \/ /\ proc[p].uid = "root"
          /\ \E f \in Inodes :
                /\ IF named = Nothing THEN \A q \in Pids : proc[q].filep # f ELSE f = named
                /\ named' = f /\ content' = Nothing
                /\ proc' = [proc EXCEPT ![p].pc = "init", ![p].filep = f]
       \/ log_err_exit(p) /\ UNCHANGED <<named, content>>
    /\ UNCHANGED raced

---------------------------------------------------------------------------
(* main() from the semaphore on *)

\* Mutant of SemInit: the semaphore is created taken.
SemInitTaken == "taken"

SemInit == "free"

\* init_dnrd_uid(), dnrd_root_sanity_check() and init_socket() return, or one
\* ends in log_err_exit()
InitOutcomes == {"fork", "cleanexit"}

(* sem_init(), these three, the init functions of the components, chroot(), *)
(* setgroups() and setuid().                                                *)
InitAll(p) ==
    /\ proc[p].pc = "init"
    /\ \E place \in InitOutcomes :
        proc' = [proc EXCEPT ![p].pc = place, ![p].dnrd_sem = SemInit]
    /\ UNCHANGED <<named, content, raced>>

(* With -d and a terminal there is no fork.  The child has all the parent   *)
(* had, the open pid file too; the parent exits.                            *)
Fork(p) ==
    /\ proc[p].pc = "fork"
    /\ \/ Global(p).opt_debug # 0 /\ Global(p).gotterminal # 0 /\ Goto(p, "write")
       \/ /\ Global(p).opt_debug = 0 \/ Global(p).gotterminal = 0
          /\ \/ \E q \in Pids :
                    /\ proc[q].pc = "none"
                    /\ proc' = [proc EXCEPT ![q] = [proc[p] EXCEPT !.pc = "write"], ![p] = NoProc]
             \/ log_err_exit(p)
    /\ UNCHANGED <<named, content, raced>>

\* Mutant of Writer: the pid was taken before the fork.
WriterBeforeFork(p) == CHOOSE q \in Pids : q # p

\* getpid() in the child
Writer(p) == p

WritePid(p) ==
    /\ proc[p].pc = "write"
    /\ content' = IF proc[p].filep = named THEN Writer(p) ELSE content
    /\ proc' = [proc EXCEPT ![p].pc = "run", ![p].filep = Nothing]
    /\ UNCHANGED <<named, raced>>

(* run() up to its loop: init_sig_handler().                                *)
Run(p) ==
    /\ proc[p].pc = "run" /\ Goto(p, "select")
    /\ UNCHANGED <<named, content, raced>>

---------------------------------------------------------------------------
(* Signals and the end *)

(* sig_handler() within pselect(), the only place where signals are not     *)
(* blocked: whatever is pending is handled before pselect() returns.        *)
(* SIGUSR1 only changes what is logged.                                     *)
sig_handler(p) ==
    /\ proc[p].pc = "select"
    /\ \/ /\ proc[p].pending \cap Deadly # {}
          /\ proc' = [proc EXCEPT ![p].pc = "cleanexit", ![p].pending = {},
                        ![p].handling = proc[p].pending \cap Deadly]
       \/ /\ proc[p].pending = {"HUP"}
          /\ proc' = [proc EXCEPT ![p].pc = "maintain", ![p].pending = {}, ![p].master_reload = 1]
    /\ UNCHANGED <<named, content, raced>>

(* Another deadly signal within the handler, where only the signal it       *)
(* handles is blocked: the handler begins again on top of itself.           *)
HandlerAgain(p) ==
    /\ proc[p].pc \in {"cleanexit", "closing"} /\ proc[p].handling # {}
    /\ \E s \in (proc[p].pending \cap Deadly) \ proc[p].handling :
        proc' = [proc EXCEPT ![p].pending = @ \ {s}, ![p].handling = @ \cup {s},
                    ![p].pc = "cleanexit"]
    /\ UNCHANGED <<named, content, raced>>

(* cleanexit(): sem_wait(), which blocks while dnrd_sem is not free, and    *)
(* then the closing of the socket, destroy_inflist() and exit().  The pid   *)
(* file stays.                                                              *)
cleanexit(p) ==
    /\ proc[p].pc = "cleanexit" /\ proc[p].dnrd_sem = "free"
    /\ proc' = [proc EXCEPT ![p].pc = "closing", ![p].dnrd_sem = "taken"]
    /\ UNCHANGED <<named, content, raced>>

Close(p) ==
    /\ proc[p].pc = "closing" /\ Exit(p)
    /\ UNCHANGED <<named, content, raced>>

\* Mutant of MayLose: the servers are looked at whatever -r says.
MayLoseAlways(p) == TRUE

\* reactivate_servers() or deactivate_servers() may change errno
MayLose(p) == Global(p).reactivate_interval # 0

(* What run() does after an interrupted pselect(): the maintenance of the   *)
(* servers, and then master_reinit() if errno is still EINTR.               *)
Interrupted(p) ==
    /\ proc[p].pc = "maintain"
    /\ \/ proc' = [proc EXCEPT ![p].pc = "select", ![p].master_reload = 0]
       \/ MayLose(p) /\ Goto(p, "select")
    /\ UNCHANGED <<named, content, raced>>

---------------------------------------------------------------------------
Step(p) ==
    \/ ParseArgs(p) \/ StatPidFile(p) \/ KillRunning(p) \/ wait_for_exit(p) \/ Unlink(p)
    \/ CreatePidFile(p) \/ InitAll(p) \/ Fork(p) \/ WritePid(p) \/ Run(p)
    \/ sig_handler(p) \/ HandlerAgain(p) \/ cleanexit(p) \/ Close(p) \/ Interrupted(p)

Init ==
    /\ proc = [p \in Pids |-> NoProc]
    /\ named = Nothing
    /\ content = Nothing
    /\ raced = 0

Next == \E p \in Pids : Step(p) \/ Start(p) \/ OtherProgram(p) \/ Crash(p) \/ Signal(p)

Spec == Init /\ [][Next]_vars

\* The processes are scheduled; nobody has to start, stop or signal them.
FairSpec == Spec /\ \A p \in Pids : WF_vars(Step(p))

---------------------------------------------------------------------------
(* What a running daemon relies on, and nobody checks: its pid is in the    *)
(* file.  So a start finds it, and as long as no two starts of root overlap *)
(* and none gives up waiting, there is one daemon.                          *)
Recorded ==
    raced = 0 => \A d \in Pids : Serving(d) => named # Nothing /\ content = d

OneDaemon == raced = 0 => \A d, e \in Pids : Serving(d) /\ Serving(e) => d = e

(* The start that is under way has seen to it that no daemon is left: it    *)
(* waits for the one the file names, and from then on there is none.        *)
Alone == raced = 0 => \A p, q \in Pids : Critical(p) /\ Critical(q) => p = q

WaitsForIt ==
    raced = 0 => \A p, d \in Pids :
        Critical(p) /\ Serving(d) =>
            proc[p].pc = "open" \/ (proc[p].pc = "wait" /\ proc[p].pid = d)

HoldsTheFile ==
    raced = 0 => \A p \in Pids :
        Critical(p) /\ proc[p].pc \in {"init", "fork", "write"} =>
            named # Nothing /\ proc[p].filep = named

\* Only root comes to write the pid file, and only daemons handle signals.
Placed ==
    \A p \in Pids :
        /\ proc[p].pc \in {"init", "fork", "write"} => proc[p].uid = "root" /\ proc[p].filep \in Inodes
        /\ Serving(p) => proc[p].uid = "root"
        /\ proc[p].handling # {} => proc[p].pc \in {"cleanexit", "closing"}

Safe == Alone /\ Recorded /\ WaitsForIt /\ HoldsTheFile /\ Placed

IInv == TypeOK /\ Safe

(* A process that is stuck in cleanexit() either failed before sem_init(),  *)
(* or took a second deadly signal after its first handler had the           *)
(* semaphore; one signal, or any number of the same, never does it.         *)
StuckExplained ==
    \A p \in Pids : proc[p].pc = "cleanexit" =>
        \/ proc[p].dnrd_sem = "free"
        \/ proc[p].dnrd_sem = "unset" /\ proc[p].handling = {}
        \/ proc[p].dnrd_sem = "taken" /\ proc[p].handling = Deadly

\* What that rests on: where the semaphore of a process is, at every place.
SemHeld(v) ==
    /\ v.pc \in {"none", "other", "parse"} \cup (Starting \ {"fork", "write"}) =>
            v.dnrd_sem = "unset" /\ v.handling = {}
    /\ v.pc \in {"fork", "write", "run", "select", "maintain"} => v.dnrd_sem = "free" /\ v.handling = {}
    /\ v.pc = "closing" => v.dnrd_sem = "taken"
    /\ v.pc = "cleanexit" =>
            \/ v.dnrd_sem = "free"
            \/ v.dnrd_sem = "unset" /\ v.handling = {}
            \/ v.dnrd_sem = "taken" /\ v.handling = Deadly

SemaphoreInv == \A p \in Pids : SemHeld(proc[p])

(* A command line that is refused, or only asks for something, gets nobody  *)
(* to the pid file, and -k nobody beyond it.                                *)
Admitted(v) ==
    /\ v.pc \in Starting \cup {"parse"} => v.cmd \in Commands
    /\ v.pc \in Starting => Parsed[v.cmd].verdict \in {"start", "kill"}
    /\ v.pc \in {"create", "init", "fork", "write", "run", "select", "maintain"} \/ v.handling # {} =>
            v.cmd \in Commands /\ Parsed[v.cmd].verdict = "start"

CommandsInv == \A p \in Pids : Admitted(proc[p])

(* The servers of a daemon are those of its command line: an interface has  *)
(* at least one, none is doubled, and they come in the order in which       *)
(* next_active() will try them.  Nobody gets as far as the pid file with a  *)
(* command line that is refused.                                            *)
ServersInOrder ==
    \A p \in Pids :
        /\ proc[p].pc \in {"create", "init", "fork", "write"} \/ Serving(p) =>
                /\ Global(p).verdict = "start"
                /\ ListsTheServers(Global(p).inf_list, proc[p].cmd)
        /\ proc[p].pc \in Starting =>
                \E n \in 0 .. Len(proc[p].cmd) :
                    /\ \A m \in 1 .. n : ~Refused(proc[p].cmd[m])
                    /\ n = Len(proc[p].cmd) \/ proc[p].cmd[n + 1].opt = "k"

(* A start ends: it serves, or is gone, or hangs in the exit of an error    *)
(* before sem_init().  A daemon that never ends does not keep it waiting.   *)
StartsEnd ==
    \A p \in Pids : proc[p].pc \in Starting ~>
        \/ Serving(p) \/ proc[p].pc = "none"
        \/ proc[p].pc = "cleanexit" /\ proc[p].dnrd_sem = "unset"

(* A daemon that is told to end does, unless it is told twice in two ways.  *)
StopsWhenTold ==
    \A p \in Pids : Serving(p) /\ "TERM" \in proc[p].pending ~>
        \/ proc[p].pc = "none"
        \/ proc[p].pc = "cleanexit" /\ proc[p].dnrd_sem = "taken" /\ proc[p].handling = Deadly

(* With -r 0 a SIGHUP rereads the master file.                              *)
ReloadDone ==
    \A p \in Pids :
        proc[p].master_reload = 1 /\ Global(p).reactivate_interval = 0 ~> proc[p].master_reload = 0

(* log_err_exit() and cleanexit() end the process, as their comments say.   *)
ErrorsExit == \A p \in Pids : proc[p].pc = "cleanexit" ~> proc[p].pc = "none"
=============================================================================
